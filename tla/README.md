# Verification of the TinOS kernel

TLA+ models of the tinos3c kernel (`src/kernel/`), model-checked with TLC on
small instances and proved with TLAPS for every instance: the safety of the
physical memory manager, the mapping window with the page tables and the TLB under
it, the heap, the interrupt path with the keyboard ring, the host services, and the
console with `printf`.  `PROJECT.json` is the machine-readable side of this document:
the map from definitions to source lines, the runs, the mutants, the hazards and the
theorems.

## 1. The system

TinOS is a single-CPU, 64-bit x86 kernel.  GRUB loads it, `entry.S` switches to
long mode, and `_main` (`main.c`) brings up memory, interrupts, the keyboard and
ACPI, then runs a command loop on the console.  There are no processes and no
threads besides `_main`; concurrency comes from interrupts and from the hardware
that runs beside the CPU: the keyboard controller, the PIC, and the MMU, which
walks the page tables whenever a program touches memory.

| Part | State | Operations | What is hard | What makes it correct |
|---|---|---|---|---|
| Physical memory manager, `mm/pmm.c` | a bitmap of page frames, the counter `free_pages` | `pmm_init`, `pmm_add_region`, `pmm_reserve_region`, `pmm_alloc_page`, `pmm_alloc_page_low`, `pmm_free_page` | misaligned and overlapping regions, repeated frees, the counter kept beside the bitmap, the alignment in 64-bit arithmetic | counter and bitmap agree; no frame is handed out twice; neither the kernel image nor a hole is ever handed out, and no RAM is lost |
| Boot memory map, `main.c` | position in the multiboot map | add every available entry, then reserve the image | order of adding and reserving, entries that cover the image | as above |
| Virtual memory manager, `mm/vmm.c` | page tables in memory, the TLB | `paging_init`, `map_page`, `unmap_page`, `get_page_table` | a table must be zero before it is linked; the TLB must be flushed after the store; frames for tables run out half way | a live mapping always translates to what was asked for; nothing else translates |
| ACPI window, `acpi/kernel_apis.c` | slot bitmap, mapping records | `uacpi_kernel_map`, `uacpi_kernel_unmap` | several pages per call, roll-back when one fails, overflow tests on lengths, identity shortcut | slots and records agree; failed and undone calls leave nothing behind |
| Kernel heap, `lib/std/stdlib.c` | block headers inside a static pool | `malloc`, `free`, `realloc`, `calloc` | in-band headers, splitting, coalescing, growing in place, `size_t` overflow | blocks tile the pool; payloads survive; no block is leaked or shared |
| Interrupt path, `idt/`, `pic/`, `main.c` | IDT gates, PIC registers, RFLAGS.IF | `init_idt`, `pic_remap`, `sti`, `isr_handler`, `iretq` | order of start-up, acknowledgement, edges that are lost | every line that can fire has a gate; every request is acknowledged |
| Keyboard buffer and readers, `drivers/keyboard/kb.c`, `lib/std/stdio.c` | ring of scancodes with head and tail | `kbd_push` in the handler, `kbd_pop`, `read_char`, `kbd_read_blocking`, `getchar` | the handler interrupts a pop; a test and the `hlt` after it are two steps; a full ring | scancodes come out once, in order; a waiting reader wakes |
| uACPI host services: events, locks, work, `acpi/kernel_apis.c` | event flags, RFLAGS.IF, nesting of calls | events, `uacpi_kernel_disable_interrupts` / `..._restore_interrupts`, spinlocks, `..._schedule_work`, `..._install_interrupt_handler` | sections nest through work that runs inside the call; a wait that never blocks, under a client that retries | no handler runs between disable and restore, and interrupts are on outside every section; the global lock excludes, and asking for it returns |
| Port I/O, `acpi/kernel_apis.c` | handles of port ranges | `uacpi_kernel_io_map`, `..._unmap`, reads and writes of 8, 16 and 32 bits | bounds of wide accesses, registers that are no whole number of accesses | a register access that succeeds was the one asked for; writes stay in the range |
| PCI configuration, `drivers/pci/` | the port pair 0xCF8/0xCFC, handles | `pci_config_read*`, `pci_config_write*`, `uacpi_kernel_pci_*`, `pci_init` | narrow writes are read, merge and write-back, against status bits that change meanwhile; loop counters; devices that answer for every function | bytes come from and go to where they were meant; every function is found once |
| Console, VGA, printf, `console/`, `lib/std/stdio.c` | cells, cursor, line buffer | `putchar`, `scroll_screen`, `printf`, the line editor of `console`, `uacpi_kernel_log` | end of the screen, callers that scroll by themselves, old lines in the buffer, digit buffers | screen, cursor and buffer agree; a command is the line that was typed; numbers are printed exactly |
| Time, `acpi/kernel_apis.c` | base of the time-stamp counter | `time_get_ns`, `uacpi_kernel_stall`, `uacpi_kernel_sleep` | two divisions, a base set by the first caller | waits end, and not early |
| Shutdown command, `console/test_cmds/sleep.c` | - | `system_shutdown` | it may fail and return | part of the console |
| GDT and entry code | constant tables | - | - | the initial state of the models |
| uACPI, `src/external/uacpi` | - | - | - | vendored; modelled only as the caller of the host services |

Interactions.  `_main` calls the PMM; the VMM takes its page tables from
`pmm_alloc_page_low`; the ACPI window calls the VMM one page at a time and looks
at the table afterwards because `map_page` returns nothing; uACPI calls the
window, the heap and the host services; the keyboard handler shares the ring
with the readers, which run in `_main`.

The hazards, each at its line and with the properties that would notice it, are
the `hazards` of `PROJECT.json`.

## 2. The modules

| Module | Models | Uses |
|---|---|---|
| `Pmm` | `mm/pmm.c`: state and operations | - |
| `MemBoot` | `_main` from reset to a running PMM, and its callers | `Pmm` |
| `FrameAllocator` | abstract specification of the PMM: grant, refuse, return | - |
| `MemBootProofs` | theorems about `MemBoot`, and that it implements `FrameAllocator` | `MemBoot`, TLAPS |
| `Vmm` | `mm/vmm.c`, the MMU's walk, the TLB | `Pmm` |
| `AcpiMap` | `uacpi_kernel_map` / `uacpi_kernel_unmap` and the client | `Vmm` |
| `VmmProofs` | lemmas about trees of page tables: what a walk reads, and what linking a table or storing an entry changes | `Vmm`, TLAPS |
| `AcpiMapProofs` | theorems about `AcpiMap` | `AcpiMap`, `VmmProofs` |
| `Heap` | `lib/std/stdlib.c` | - |
| `HeapProofs` | theorems about `Heap` | `Heap`, TLAPS |
| `KbdRing` | the ring of `kb.c` | - |
| `KbdIrq` | devices, PIC, IDT, handler, ring, readers | `KbdRing` |
| `ScancodeFifo` | abstract specification of the ring: a bounded FIFO | - |
| `KbdIrqProofs` | theorems about `KbdIrq`, and that the ring implements `ScancodeFifo` | `KbdIrq`, TLAPS |
| `PortIo` | port ranges under uACPI's register accesses | - |
| `Pci` | the numbering of PCI functions | - |
| `PciConfig` | configuration accesses, handles, the host bridge | `Pci` |
| `PciScan` | `pci_init` | `Pci` |
| `PciProofs` | theorems about `PciConfig` and `PciScan` | these, TLAPS |
| `OslSync` | events, interrupt state, spinlocks, work | - |
| `OslTime` | `time_get_ns` and the waits | - |
| `GlobalLock` | the ACPI global lock of uACPI on this kernel, against the firmware | - |
| `HostProofs` | theorems about `OslSync`, `OslTime`, `PortIo` and `GlobalLock`, and about all services together | `MCServices`, `PciProofs` |
| `Vga`, `Console` | the screen; boot messages, line editor, commands | `Vga` |
| `Printf` | `printf`, conversion by conversion | - |
| `MCServices` | the host services and the enumeration, composed | `PortIo`, `PciConfig`, `PciScan`, `OslSync`, `OslTime`, `GlobalLock` |
| `MCConsole` | the output path, composed | `Console`, `Printf` |
| `OutputProofs` | theorems about the output path | `MCConsole`, TLAPS |
| other `MC*` | the instances for TLC | the above |

### Pmm and MemBoot

`bitmap` is the set of pages whose bit is 1; `free_pages` is a `uint64_t` that
wraps at `WORD`.  `MemBoot` runs `_main` one loop iteration at a time: `MmapEntry`
looks at one entry, `AddRegionPage` and `ReserveRegionPage` are one iteration of
the loops of `pmm_add_region` and `pmm_reserve_region`.  In state `run` callers
allocate and free; `held` is a history variable, the pages handed out.  `Free`
covers the arguments that `pmm_free_page` ignores as well, but no used page that
nobody was given: `pmm_free_page` would clear its bit, and its one caller
(`allocate_table`, `mm/vmm.c:69`) frees a frame it has just got.  The variable-length
multiboot entries are a sequence of records; `total_memory` is only printed and
`total_pages` is the constant `MAX_PAGES` after `pmm_init`.

`FrameAllocator` is what the callers rely on, without bitmap, counter or boot:
once open, a call for a frame below a limit is granted one that nobody holds or,
if there is none, refused.  In the refinement mapping of `MemBoot` the allocator is
open from state `run` on, its frames are the clear bits, and the last answer is
computed from `ret`, which says who was called and the address returned.

### Vmm and AcpiMap

Page tables are four levels of `PAGE_ENTRIES` entries in the low frames; an entry
has a present bit, a page-size bit and a frame.  A frame that was never zeroed
holds junk entries, so a table linked before it is cleared would be visible to the
MMU.  `map_page` is a walk of several steps: allocate a low frame, zero it, link
it, go down, store the entry, flush.  `HwWalk` is what the MMU sees; `TlbFill`
caches a present translation at any moment, between any two stores.  `AcpiMap` is
the loop around it: `MapBegin` reserves record and slots, `InstallPage` and
`CheckPage` are one iteration, `RollbackPage` and `RollbackDone` the error path,
`UnmapBegin`, `UnmapPage` and `UnmapDone` the other call.  The early returns are
`MapRefused`, `UnmapIdentity` and `UnmapUnknown`.  uACPI calls one operation at a
time, as one thread does.  It may unmap with another length than it mapped
(`back`): it maps a register with its whole width and gives it back with the width
of one access.  While both come to the same number of pages nothing is lost; a
register that crosses a page and is given back as less stays mapped for ever,
because no record has that many pages.  `OnlyHeldTranslates` excepts the run of
such a record (`Stranded`) and nothing else.

### KbdRing and KbdIrq

`KbdRing` is `kbd_buffer`, `kbd_head`, `kbd_tail` and the steps on them: `kbd_push`
is one step because interrupts are off in the handler, a pop is a test, a read and
an advance, because the handler may run between any two.  `KbdIrq` puts the whole
path around it.  External are the 8042 (`Press`), the lines (`Raise`), and
the PIC and CPU (`Deliver`): a request is delivered if nothing of higher or equal
priority is in service, it ends a `hlt`, turns interrupts off, and without a gate
resets the machine, since no fault has a gate either.  `IsrKeyboard`, `IsrTimer`,
`IsrEoi` and `Iretq` are the handler; `InitIdt`, `PicRemap` and `Sti` the
start-up.  Codes are numbered in the order of the key presses, so that the order
of delivery can be seen; the translation tables to characters are left out.

`lostEdge` records a case the code has and cannot recover from: a key pressed
before `pic_remap` loses its edge when ICW1 resets the PIC, and no code drains the
controller.  `ByteHasRequest` and `BytesServed` speak of the other runs.

### Heap

`list` is the set of headers by their offset in the pool, `bytes` what every byte
of the pool holds: header, an owner's data, zeros or junk.  A payload that
overlaps a header, or a header that is written into a payload, is therefore
visible.  The calls run with no interrupt handler that allocates, so each is one
step; `coalesce_all`, `split_block` and the search are operators that follow the
list, the two loops as recursive functions of the number of steps (`Sweep`,
`Chain`).  Owners write all they are given and rely on what they wrote, or on the
zeros of `calloc`, for the length they asked for: the product in `calloc` wraps as a
`size_t` does, the length an owner relies on does not.

### PortIo

A port holds a byte.  `uacpi_kernel_io_map` makes a handle of a register's whole
bytes; the accesses are driven by `uacpi_gas_read_mapped` and
`uacpi_gas_write_mapped`, which go through a register piece by piece
(`uacpi_kernel_io_read`, `uacpi_kernel_io_write`, `SkipPiece` for pieces below the
bit offset) until the end or the first error.  Reads test the last byte of an access
against the range, writes only the first (`ReadAccepted`, `WriteAccepted`), so the
last piece of a register that is no whole number of accesses is written past the
range; `Whole` excludes it.

### PciConfig and PciScan

`config` is the bytes of the functions that are there, `select` the address in
0xCF8.  An access writes `select` (`ConfigBegin`), then moves a doubleword: reads cut
their bytes out, narrow writes are `ReadForWrite` and `WriteBack` with the device's
`RaiseStatus` possible in between.  Status bytes are cleared by writing ones.
The segment of an address is stored and not used and offsets are cut to eight bits,
as in the code; the properties are about accesses the ports can express
(`Expressible`).  `PciScan` is the three loops of `pci_init` with their counters'
widths, over a machine in which a device with one function may answer for all.

### OslSync and GlobalLock

`OslSync` has one thread whose open sections are a stack (`frames`): interrupts
off, spinlocks, and work, whose handler runs inside `uacpi_kernel_schedule_work`.
Interrupts arrive whenever RFLAGS.IF is set, inside spinlock sections too, which do
not touch the flag: `SectionsMask` speaks of the other states, and that the
spinlocks break their contract is the finding `osl_spin`.  An event is a flag, and `uacpi_kernel_wait_for_event` returns at
once.  `GlobalLock` is what uACPI makes of that: attempts at a word shared with the
firmware, `OsLoad` and `OsSwap` with the firmware in between, `OsWait` for the wait
that does not wait, up to `MAX_SPINS` attempts, and `OsClear`, which tells firmware
that has set the pending bit.  The firmware (`Fw...`) is external.

### OslTime

The time-stamp counter advances by any amount at any moment (`Tick`);
`time_get_ns` divides what has passed since the first call by three.  A wait
(`WaitBegin`, `WaitPoll`, `WaitReturn`) polls it.  Time is measured in the clock's
own unit: that the counter runs at three ticks to the nanosecond is the code's
assumption, and on a faster machine every wait is short by the ratio.

### Vga, Console, Printf

A screen is a record of cells, cursor and hardware cursor; `putchar` and
`scroll_screen` map a screen to a screen.  Nobody calls `clear_screen`, so the
kernel starts on what the boot loader left (`Junk`).  `Console` follows `_main` from
`pmm_init` to the command loop, message by message and scroll by scroll, with
uACPI's log lines and the out-of-memory line of its allocator any number of times
while uACPI runs (`UacpiPrints`), in `init_acpi` and in a shutdown, which ends
either way (`ShutdownDone`, `ShutdownFails`), and with a failure at any point of
`init_acpi`; then a step for each key.  What a panic or a page fault prints before
it stops the machine is left out.  `typed` and `home` are history variables, the line as its
author sees it and where it begins.  `Printf` goes through a format one conversion at
a time and through a number one digit at a time, in the order of the code: digits are
collected backwards in a buffer.  A call must have the arguments its format asks for
(`Matches`), as C demands of a caller; `Place` says which argument belongs to which
position of the format.

## 3. The runs

| Run | Instance | Result |
|---|---|---|
| `mem_boot` | 5 pages of 2 bytes, 4-bit addresses, all maps of up to two entries | passes: `TypeOK`, `FreeCountExact`, `PagesConserved`, `GrantsExclusive`, `AllocatorImplemented` |
| `mem_boot_low` | same | `LowFallsBack` is violated (finding) |
| `acpi_map` | window of 5 slots, 2 records, 4-entry tables, 0 to 4 free low frames, requests given back whole and short | passes: `SlotsMatchRecords`, `LiveMappingsTranslate`, `TlbCoherent`, `OnlyHeldTranslates`, `TableFramesAccounted`, `IdentityIntact`, `CallsReturn` |
| `kbd` | ring of 3, timer and keyboard, 4 bytes | passes: `RingIsFifo`, `ByteHasRequest`, `ServiceMatchesHandler`, `NeverResets`, `ScancodesRead`, `BytesServed` |
| `kbd_sci` | as above with line 9 | `InstalledLinesHandled` is violated (finding) |
| `heap` | pool of 28 bytes, three owners | passes: `BlocksTilePool`, `PayloadIntact`, `UsedBlocksAreLive`, `FreeCoalesces` |
| `heap_starvation` | same | `NoStarvation` is violated (finding) |
| `services` | the six parts of `MCServices`: the sections with the global lock, each other part by itself | passes: `TypeOK`; `AccessesLand`, `WholeWritesStayInRange`; `ReadsExact`, `WritesExact`; `ScanExact`; `SectionsMask`; `WaitNotShort`, `WaitEnds`; `MutualExclusion`, `AcquireReturns`, `FirmwareNotified` |
| `osl_wait` | two events | `WaitReportsSuccess` is violated (finding) |
| `osl_spin` | two events, sections three deep | `SpinlocksMask` is violated (finding) |
| `pci_status` | the PCI part of `services` | `StatusKept` is violated (finding) |
| `console` | 4 rows of 4 cells, buffer of 4; 9-bit ints, 12-bit longs | passes: `TypeOK`, `LineAsTyped`, `BlankAhead`, `LineShown`; `NumbersExact`, `ArgumentsUsed` |

What they show:

- **`mem_boot`**: whatever the order, alignment and overlap of the regions, the
  counter is exact, the frames in circulation are exactly the RAM less the kernel
  image, and no frame has two owners; and boot and calls together implement
  `FrameAllocator`: nothing is granted before the image is reserved, a grant below
  the limit is below it, and a refusal means that there was nothing to grant.
- **`acpi_map`**: a mapping uACPI holds translates, byte by byte, through tables
  and TLB, while other calls succeed, fail half way or are rolled back;
  `SlotsMatchRecords`, `OnlyHeldTranslates` and `TableFramesAccounted` say that
  nothing leaks but what is given back with another number of pages; `OnlyHeldTranslates` and `TlbCoherent` depend on the order of the
  stores and on cleared frames; `IdentityIntact` says that `map_page` never touches the large pages of
  the identity map; `CallsReturn` that a call always comes back.
- **`kbd`**: the ring implements `ScancodeFifo` although
  pushes interrupt pops, the PIC is never left with a line in service, no byte is
  stuck in the controller, no interrupt of the timer or the keyboard, the only lines
  that fire here, meets an empty gate, and a reader that misses its wake-up between test and
  `hlt` is woken by the next tick.
- **`heap`**: every sequence of calls keeps the tiling, the payloads and the
  correspondence of used blocks and allocations, products that wrap included.
- **`services`**: a register access of any shape that reports success moved the
  bytes it was asked to; configuration reads and writes of every width hit their
  bytes, spare their plain neighbours and lose no status raised in between; `pci_init`
  ends and has found every function once; no handler runs between disable and restore
  and interrupts are on outside every section, however work and sections nest; a wait ends and is at most one
  unit short; the global lock excludes, a call for it returns even if the firmware
  never lets go, and firmware that waits is told.
- **`console`**: no store misses the screen and the cursor stays on it, rows
  that come in from below are blank until they are written, the editor's screen,
  buffer and command agree, and `printf` prints every number but the smallest int
  exactly, within its buffers, and takes every argument once.

The findings are disagreements between a comment or a header and the code:

1. `pmm_alloc_page_low` has no fallback, against its comment (`mm/pmm.c:229-231`).
2. `uacpi_kernel_install_interrupt_handler` reports success without installing
   anything, while `pic_remap` unmasks every line
   (`acpi/kernel_apis.c:760`, contract in `kernel_api.h:317-318`).
3. A shrinking `realloc` leaves two adjacent free blocks, so `malloc` can starve on
   fragmentation until the next `free`, against the comment on `coalesce_all`
   (`lib/std/stdlib.c:60`, `:155`).
4. `uacpi_kernel_wait_for_event` returns a status from a function that returns a
   boolean: a successful wait reads as false, a failed one as true
   (`acpi/kernel_apis.c:724`, contract in `kernel_api.h:293`).
5. Narrow PCI writes write the neighbouring status bytes back with the ones they
   were read with, which clears them (`drivers/pci/pci_config.c:118`).
6. The spinlock helpers leave interrupts on, so a handler runs inside the section
   (`acpi/kernel_apis.c:784`; "expected to disable interrupts", `kernel_api.h:347`).
   No handler of this kernel takes a lock, so nothing goes wrong by it today.

Further disagreements with `kernel_api.h` that the models have and no run is spent
on: a second signal of an event is lost (`:298` speaks of a counter); a wait of 0xFFFF is not infinite (`:289`); the last piece
of some port writes leaves the range (`:138`); PCI segments and offsets from 256 on
are cut (`:86`); a register that crosses a page may stay mapped (`:43`).  And the three
scrolls after "Output the memory amount" (`main.c:129`) remove the three lines that have
been printed by then, that one included.

### Bounds, and why they are enough

- `MCMemBoot`: three of the five pages matter to the image (bytes 4 to 6 touch
  pages 2 and 3, one of them partly), two lie below and one above; the low limit of
  4 leaves frames on both sides, so a grant beyond it would show.  Two regions are enough for order and overlap: pages are added
  one at a time and the only interaction is between the page and its own bit.
  The theorems remove the bounds.
- `MCAcpiMap`: five slots with 4-entry tables span two leaf tables, so one call
  crosses a table boundary and needs up to four new tables.  Starting with none to
  four free frames puts the failure at each level.  Two records let the table of
  records run out before the window.  The requests include the last
  identity-mapped byte, a range across that limit, a range whose last page is
  beyond the physical address width (so `mapping_was_installed` fails half way),
  one that is too long, an empty one, one that overflows, and one of three pages that
  is given back as two.
- `MCKbdIrq`: a ring of three holds two scancodes; four bytes wrap it, fill it and
  drop one.
- `MCServices`: `Mixes` says which parts run together.  The parts share no variable,
  so a behaviour that mixes two of them is, for each, one that uses it alone
  (`ServicesProject`); the events and sections are mixed with the global lock, whose
  client they are, the rest run one at a time.  *Ports*: two handles over overlapping ranges of eight ports;
  registers of bytes, of a word, of three bytes in words, with a bit offset, of 12
  and of 4 bits.  *Configuration*: two functions that differ in bus, device
  and function number, one absent and one in another segment; constant, plain
  and status bytes; accesses of all widths at all positions in a doubleword.
  *Enumeration*: every machine of three buses, two devices and two functions.  A
  byte-wide counter has three values, as many as there are buses (256 in the code):
  it holds the other two loop bounds and not this one, so a `uint8_t` for the buses
  would never reach the end.  *Synchronisation*: one event; three nested sections have an
  inner, a middle and an outer one of any kind.  *Time*: waits of none, one and two
  units, ticks of up to two units, so that every remainder of both divisions occurs.
  *Global lock*: four attempts let the firmware intervene in the first, a middle and
  the last one; the theorems remove the bound.
- `MCConsole`: boot messages scroll the screen of four rows; of the cells of a row
  one is the prompt's, so lines of up to two letters stay clear of the margin and one
  of three reaches it; the commands include one that is a prefix of another.  All 9-bit ints, which have up to three digits, as many as the buffer
  holds; 32-bit ints have ten and the buffer 16.
- `MCHeap`: 28 bytes hold up to four blocks, so that a free block can have a free
  neighbour on either side, blocks split and do not split, and `realloc` can
  shrink, grow in place, move and fail.  Sizes are odd, even, too large and
  overflowing, and so are products.  Owners are interchangeable (`SYMMETRY`); no property of these
  runs is temporal.

### Fairness

- `AcpiMap`: weak fairness of the kernel's own steps: a call is sequential code.
- `KbdIrq`: weak fairness of start-up and handler, for the same reason; weak
  fairness of the timer line, which the PIT drives without the kernel.
  `TicksSpaced` says that, as long as ticks are delivered, the CPU is again and
  again out of the handler with no tick pending: ticks are 55 ms apart, a handler
  takes microseconds.  It says nothing of a CPU that takes no more ticks, so a
  line left in service or a `hlt` with interrupts off would still show.  Under it the
  keyboard's request and the interrupted thread get their turn, which is the strong
  fairness of `Deliver` and `ReaderStep`: each is disabled for the length
  of a handler, never for ever.  The main thread is taken to call a reader
  again and again, as the command loop does.
- `PciScan`, `Printf`: weak fairness of the steps of a call: sequential code.
- `OslTime`: the same for the polling loop; the counter advances while it polls.
- `GlobalLock`: weak fairness of uACPI's steps.  Strong fairness of its two
  swaps: the firmware may change the word between a load and the swap, but not every
  time, since it takes and gives up the lock a few times in a second.  The
  firmware owes only that it looks at a notice it waits for; it may keep the lock.

## 4. Proofs

`MemBootProofs` proves, for every `MAX_PAGES`, page size, low limit, memory map and
kernel image that satisfies `PmmAssumption` and `BootAssumption`:

| Theorem | Statement |
|---|---|
| `TypeCorrect` | `Spec => []TypeOK` |
| `CountCorrect` | `Spec => []FreeCountExact` |
| `ConservationCorrect` | `Spec => []PagesConserved` |
| `GrantsCorrect` | `Spec => []GrantsExclusive` |
| `AllocatorCorrect` | `Spec => AllocatorImplemented` |

Assumptions.  The counter's width exceeds the number of pages; every region of
the map, and the image, ends more than a page below the top of the 64-bit range
(physical addresses have at most 52 bits); the image is not empty.

Argument.  `PagesConserved` speaks of state `run` only and is not inductive: it
needs to know what the loops have done so far.  `FillInv` says it per phase: while
the map is walked the free pages are those of the entries already seen
(`WalkInv`); inside `pmm_add_region`, those and the part of the entry below the
loop variable (`AddInv`); inside `pmm_reserve_region`, the RAM less the part of the
image below the loop variable (`ReserveInv`); after that, `RunInv`.
The geometry lemmas (`BelowFloor`, `CeilAtMost`, `AddedGeometry`,
`KernelGeometry`) relate the loop bounds, computed with `div` and `%`, to the byte
ranges of the definition.  That the counter does not wrap follows from
`Cardinality(FreeSet) <= MAX_PAGES < WORD`.

Refinement.  In `AllocatorCorrect` the steps of the boot loops are stuttering steps
(`BootStutters`); leaving the last one is `Open` (`RunOpens`), and that the frames
are then the RAM less the image is `PagesConserved` in the next state, which is
why the refinement rests on the theorems before it.  A call that finds a page is
`Grant` (`TakeGrants`); one that finds none is `Refuse`, because the search visits
every page below the limit (`FailureRefuses`); a free is `Return` or, for a page
nobody holds, `Ignore` (`FreeReturns`).

### The interrupt path and the ring: `KbdIrqProofs`

For every size of the ring, every set of lines that contains the timer and the
keyboard and not the cascade line 2, and every number of key presses:

| Theorem | Statement |
|---|---|
| `TypeCorrect` | `Spec => [](TypeOK /\ BytesCounted)` |
| `BytesRequested` | `Spec => []ByteHasRequest` |
| `ServiceCorrect` | `Spec => [](NeverResets => ServiceMatchesHandler)` |
| `NeverResetsCorrect` | with `Irqs = {TIMER, KEYBOARD}`: `Spec => []NeverResets` |
| `FifoCorrect` | `Spec => RingIsFifo` |

`IrqInv` adds to the three properties what the CPU's state says of gates and
offsets (`CpuInv`: once the start-up is over the gates are 14, 32 and 33 and the
PIC delivers from 32) and that a keyboard handler that has just been entered finds a
byte (`HandlerFindsByte`); without the latter a handler could read an empty
controller and leave a byte without its request.  `NeverResetsCorrect` is about the
two lines that the kernel has gates for; with any third line that fires it is
false, which is what the run `kbd_sci` shows.  The refinement needs, for each step of
a pop, what a push in between may have changed (`PopInv`): a ring found nonempty
stays so and its oldest scancode stays in its place, because a push writes only the
slot at the head and drops its code when the ring is full.

### The host services: `HostProofs`

| Theorem | Statement | For every |
|---|---|---|
| `MaskingCorrect` | `SyncSpec => []SectionsMask` | depth of nesting |
| `WaitsNotShort` | `TimeSpec => []WaitNotShort` | duration, tick length and advance of the counter |
| `AccessesLandCorrect` | `PortSpec => [](PortTypeOK /\ AccessesLand)` | set of registers inside the ports |
| `WholeWritesStay` | `PortSpec => WholeWritesStayInRange` | same |
| `LockTypeCorrect` | `LockSpec => []LockTypeOK` | limit on the attempts |
| `ExclusionCorrect` | `LockSpec => []MutualExclusion` | same |
| `ServicesTypeCorrect` | `Spec => []TypeOK` | all of these, and those of `PciProofs` |
| `ServicesCorrect` | `Spec => []ServicesPromise /\ WholeWritesStayInRange /\ ReadsExact /\ WritesExact` | same |

- *Sections.*  `FramesInv`: exactly the outermost section with interrupts off has
  saved `TRUE`, every inner one `FALSE`; so leaving an inner section restores "off".
  `FlagExact` says what the flag is in every state, spinlock sections included.
- *Waits.*  `TimeInv`: `start` is the clock at the call, and the poll that ended the
  wait read it a full duration later.  The rest is arithmetic on two truncating
  divisions (one unit can be lost, no more).  The counter is taken to be above 0 at
  the first call: 0 is the code's mark for "no base yet".
- *Ports.*  `PortInv`: of an access under way the pieces done are the bytes of the
  ports, and a read that has gone past the skipped pieces lies within the range.
- *Global lock.*  The types need `AttemptsLeft` (who waits has attempts left), or the
  counter could pass the limit; exclusion needs `OwnedBit` (whoever owns the
  lock, the bit in the word is set), from which a successful swap on a word without
  it excludes an owner.
- *Together.*  `Spec` is that of `MCServices`, for any `Mixes`.  The services have
  disjoint variables, so a step is one of one service and a stuttering step of every
  other (`ServiceStep`) and a behaviour of the whole is one of each part
  (`ServicesProject`): by that, what is proved of the parts is stated of the whole.  It
  says nothing about the code that the parts' own proofs do not.  What the services do
  share in the code is not here: the heap their handles come from (`Heap` has it by
  itself; a handle is taken or free), and one thread, on which they nest, as when uACPI
  writes ports and stalls inside a section with interrupts off
  (`external/uacpi/source/sleep.c:81-133`).

### PCI: `PciProofs`

| Theorem | Statement |
|---|---|
| `PciTypeCorrect` | `PciSpec => []PciTypeOK` |
| `ReadsExactCorrect` | `PciSpec => ReadsExact` |
| `WritesExactCorrect` | `PciSpec => WritesExact` |
| `ScanSoundCorrect` | `ScanSpec => [](ScanTypeOK /\ ScanSound)` |

The numbers of buses, devices and functions, the size of a configuration space (a
multiple of four), the functions present and the accesses are parameters.  The
access properties are action properties; they follow from `PciInv`, which says what
0xCF8 selects while an access is under way and that the doubleword a narrow write
has read still agrees with the device in its plain bytes.  The
arithmetic lemmas show that the address packing is one to one.  `ScanInv` describes
the three loops: the functions found are, each once, those that exist before the
position of the counters; it needs the assumption that the counters can hold
the loop bounds, which `uint16_t` for 256 buses and `uint8_t` for 32 devices and
8 functions do.  That the loops end, the other half of `ScanExact`, is liveness.

### The mapping window: `AcpiMapProofs` on `VmmProofs`

For every window, number of records, table size, physical limit, set of requests and
set of frames that boot leaves free:

| Theorem | Statement |
|---|---|
| `SlotsCorrect` | `Spec => []SlotsMatchRecords` |
| `IdentityCorrect` | `Spec => []IdentityIntact` |
| `TlbCorrect` | `Spec => []TlbCoherent` |
| `TableFramesCorrect` | `Spec => []TableFramesAccounted` |
| `LiveMappingsCorrect` | `Spec => []LiveMappingsTranslate` |
| `OnlyHeldCorrect` | `Spec => []OnlyHeldTranslates` |

Assumptions.  Tables have an even number of entries, the three static tables are
different frames, a page that starts below the physical limit does not wrap (52-bit
addresses in 64-bit words), and the window begins the upper half of the translated
addresses and is smaller than it: 0xFFFF800000000000 and 64 MiB in the
code.

Argument.  `BaseInv` has six parts.  `CallInv`: where the call is and what its locals
hold.  `SlotsInv`: the bitmap is the disjoint union of the recorded runs and of the
run of the call under way.  `WalkInv`: the walk of `map_page` or `unmap_page` is at a
table that the MMU would reach on the way to the page asked for.  `FramesInv`: the
frame in preparation is taken, linked nowhere, and zero before it is linked.
`TreeInv`: there is an assignment of levels under which the frames in memory form a
tree (`TreeOK`): no two entries lead to the same table, each leads one level down,
and every frame taken is reached by one.  `TlbInv`: a cached translation is the one of
the tables, except for the page between its store and its `invlpg`.  The lemmas of
`VmmProofs` say what one store does to such a tree: linking a zeroed table changes
no translation, and storing a leaf changes that of one page.  On top,
`ContentsInv` says page by page what the run of the call under way holds: installed
up to `index`, clear from there on, and during a roll-back or an unmap the other way round;
slots that are free are clear.  `LiveInv` relates what uACPI holds to a record and its
installed pages, and two mappings never share a record.  `HeldInv`, the converse,
gives every record a holder, unless it is `Stranded`: as long as a request that is
given back with another number of pages.

### The heap: `HeapProofs`

For every size of the pool and of a header, every alignment that divides them,
every set of callers, sizes and counts, and every sequence of calls:

| Theorem | Statement |
|---|---|
| `HeapTiled` | `Spec => []BlocksTilePool` |
| `PayloadsIntact` | `Spec => []PayloadIntact` |
| `UsedAreLive` | `Spec => []UsedBlocksAreLive` |
| `FreesCoalesce` | `Spec => []FreeCoalesces` |

`BlocksTilePool` is not inductive: a header on the list that no chain reaches could
lie inside another block.  `ListOK` adds that blocks are disjoint, and `HeapOK`
that every header byte is a header.  `LiveOK` and `DataOK` are the other
two properties, with the types of a caller's record.  Each operation on the heap has
a lemma that says what it changes, in terms of `KeepsBut(h, g, S)`: outside the blocks
`S` the used blocks, their sizes and their contents stay.  `AbsorbHeap`,
`SplitHeap`, `MarkHeap` and `PayloadWrite` are the four elementary changes;
`AllocateOK`, `ReleaseOK` and `ResizeOK` put the calls together from them, and
`OthersKeep` turns them into statements about callers: a call of one caller leaves
the others their blocks and their data.  `ProductFits` is what the overflow check of
`calloc` is for: a product that passes it does not wrap.

`coalesce_all` and the search of `malloc` are loops over a list whose length is not
bounded by a constant of the proof, so the lemmas about them are inductions.  They use
no induction theorem with an operator as its parameter but the least number principle
(`LeastNat`, from `WFMin`), applied to the set of the numbers for which the claim
fails (`UpTo`); the same argument shows that the recursive functions `Sweep` and
`Chain` satisfy their equations (`SweepEquation`, `ChainEquation`).  The claim about
the sweep is `SweepOK`: after `n` steps no block below `current` has a free
neighbour that could be merged, and `current` ends beyond byte `n`; so after
`POOL_SIZE` steps it has left the list.

### The console and printf: `OutputProofs`

For every size of the screen and of the line buffer, all texts, commands and keys,
every width of `int` and `uint64_t`, and every set of calls of `printf`:

| Theorem | Statement |
|---|---|
| `OutputTypeCorrect` | `Spec => []TypeOK` |
| `LineAsTypedCorrect` | `Spec => []LineAsTyped` |
| `BlankAheadCorrect` | `Spec => []BlankAhead` |
| `LineShownCorrect` | `Spec => []LineShown` |
| `NumbersExactCorrect` | `Spec => []NumbersExact` |
| `ArgumentsTaken` | `Spec => [](conv = "done" => next = Len(call[2]) + 1)` |

Assumptions.  `VgaAssumption`: at least two rows and one column.
`ConsoleAssumption`: the commands are typed with letters, and no letter is a blank,
a line end, a backspace or the terminator (the scancode table gives 0 for keys without
a character, and `console` ignores it).  `PrintfAssumption`: a call has the arguments
its format asks for, of the types it asks for; the widths are positive; the buffers of
16 and 21 characters hold the digits of any number of their type, `2^31 <= 10^16` and
`2^64 <= 10^21`.

*Screen.*  `Screen(s)` is the state inside an output: as `ScreenOK(s)`, which holds
between calls, but the cursor may have reached the row below the last one.  Each case of
`putchar`, and `scroll_screen`, keeps it (`Behind` says what a printed letter leaves
behind), and an induction over the characters carries that through `PutString`, for
texts of any length.

*Line editor.*  `LineAsTyped` is inductive only together with what the buffer holds:
`Held`, its first `pos` characters are the line.  What lies behind them, the rest of
older lines, does not matter because `Terminated` overwrites the first of it and no
letter is the terminator.  `LineShown` needs `Shown`, which adds that the whole line lies
in the row of the cursor, behind the prompt: without it a backspace at the left margin
could be reached with characters left, and would not erase the last one.

*Numbers.*  `PrintfInv`: the position in the format and the number of the next argument
agree with `Place` (`AtPlace`), which gives `ArgumentsTaken` and that no argument is
read beyond the last.  While digits are collected, those found and those to come fit the
buffer (`DigitsOK`: the rest is below a power of ten), and rest and digits make up the
argument (`Pending`: `|n| = num * 10^Len(buf) + Value(Reverse(buf))`); that the last digit
found is not zero excludes leading zeros.  `-INT_MIN` is `INT_MIN`, so for it the loop
ends at once and only the sign is printed: `NumbersExact` leaves it out.
`PutString`, `Pow`, `Value` and `Place` are recursive functions, whose equations and
properties are shown with the least number principle, as in `HeapProofs`.

### Only model-checked

- All liveness, which the proof system does not treat: `CallsReturn`,
  `ScancodesRead`, `BytesServed`, `WaitEnds`, `AcquireReturns`, `FirmwareNotified`,
  and in `ArgumentsUsed` and `ScanExact` that the call ends (what holds when it does is
  `ArgumentsTaken` and `ScanSoundCorrect`).
- The findings: a violation is a behaviour of one instance.

## 5. Mutants

Every property of a passing run has a mutant: a definition of the model with a
plausible bug in it (a `Mut...` operator before the original) under which TLC finds
the property violated.

## 6. What is left out of the modelled parts

- `get_all_pages` (no caller); the second-call return of `paging_init`; the
  `unmap_page` return for a page without a table, which its callers cannot reach;
  the failure branch of `physical_to_bootstrap_virtual`, unreachable because low
  frames lie in the identity map.
- The page-fault handler prints and stops the machine.
- The slave PIC's acknowledgement: no gate at or above 40 exists.
- Misuse of the heap by its callers (double free after reuse, foreign pointers);
  no caller does it.
- `scanf`, which polls the controller past the interrupt handler, and
  `clear_screen`: no caller.
- Mutexes, which do nothing with a single thread; the thread id, firmware requests
  and the removal of interrupt handlers, which return constants;
  `uacpi_kernel_get_rsdp`, which looks once at memory the firmware wrote.
- The nesting of host services in one another and the heap they share (section 4,
  *Together*).
- Misuse of `pmm_free_page` (a used page that nobody was given): its one caller frees
  its own frame.
- Failed allocations of event and PCI handles: the call returns an error and
  changes nothing.  `PortIo` has the case.
- Formats that end in a lone `%`: no caller.
- `VGA_HEIGHT` is 60 while the boot loader's text mode has 25 rows: nothing in the
  repository sets the mode, so what part of the screen can be seen is left open.
- Regions at the top of the 64-bit range, and addresses that differ from a canonical
  one in bit 47 only: neither reaches the code.
- What `pci_scan` reads of a function it has found: nobody uses it.  The
  structures of `pci.h` have no code.
- Optimising builds.  `kbd_head` and `kbd_tail` are not `volatile` and the `hlt`
  of the wait loops has no memory clobber; the Makefile passes no `-O`, so the
  compiled code loads them in every iteration, as the model does.
- Scancode tables and the wording of messages.

## 7. Plan

Every safety property of the passing runs has a theorem.  What could follow is an
abstract map from virtual to physical ranges that `AcpiMap` implements, on the
invariants of `AcpiMapProofs`.

Not planned: the entry code and the GDT (constant tables and mode switches, which
are the initial state of the models), and uACPI itself.
