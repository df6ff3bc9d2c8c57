------------------------------ MODULE MemBoot -------------------------------
(***************************************************************************)
(* Physical memory from reset to steady state: _main of kernel/main.c       *)
(* initialises the PMM, walks the multiboot memory map, reserves the kernel *)
(* image, and from then on the rest of the kernel allocates and frees       *)
(* pages.  The region loops are modelled one page at a time.                *)
(***************************************************************************)
EXTENDS Pmm, Sequences

CONSTANTS
  MemoryMaps,      \* the memory maps firmware may pass, sequences of entries
  kernel_start,    \* linker symbols: the image is [kernel_start, kernel_end)
  kernel_end,
  Addresses        \* arguments of pmm_free_page

AVAILABLE == 1     \* MULTIBOOT_MEMORY_AVAILABLE
RESERVED  == 2     \* any other entry type

(* An entry of the map.  Physical addresses have at most 52 bits, so a      *)
(* region ends more than a page below the top of the 64-bit range; the      *)
(* alignment in pmm_add_region would wrap for one that did not.             *)
IsEntry(e) ==
  /\ e.type \in {AVAILABLE, RESERVED}
  /\ e.base \in Nat
  /\ e.length \in Nat
  /\ e.base + e.length + PMM_PAGE_SIZE <= WORD

ASSUME BootAssumption ==
  /\ \A m \in MemoryMaps :
       Len(m) \in Nat /\ \A i \in 1 .. Len(m) : IsEntry(m[i])
  /\ kernel_start \in Nat /\ kernel_end \in Nat
  /\ kernel_start < kernel_end
  /\ kernel_end + PMM_PAGE_SIZE <= WORD
  /\ Addresses \subseteq 0 .. WORD - 1

VARIABLES
  pc,              \* where _main is
  mmap,            \* the memory map
  entry,           \* index of the entry _main looks at
  page,            \* loop variable of the region loops
  end,             \* their bound
  held,            \* pages handed out and not yet freed
  ret              \* the last allocation call and the address it returned

pmmVars  == <<bitmap, free_pages>>
bootVars == <<pc, mmap, entry, page, end>>
vars     == <<pmmVars, bootVars, held, ret>>

NoCall == [op |-> "none", address |-> 0]

(* The bitmap is in .bss, so before pmm_init every bit is clear.            *)
Init ==
  /\ bitmap = {} /\ free_pages = 0
  /\ pc = "pmm_init" /\ mmap \in MemoryMaps /\ entry = 1
  /\ page = 0 /\ end = 0
  /\ held = {} /\ ret = NoCall

-----------------------------------------------------------------------------
(* Boot.                                                                    *)

InitPmm ==
  /\ pc = "pmm_init"
  /\ pmm_init
  /\ pc' = "mmap"
  /\ UNCHANGED <<mmap, entry, page, end, held, ret>>

(* One entry of the map: only available regions are added, and              *)
(* pmm_add_region returns at once when no whole page is inside.             *)
MmapEntry ==
  /\ pc = "mmap" /\ entry <= Len(mmap)
  /\ LET e == mmap[entry]
         s == AddStart(e.base, e.length)
         t == AddEnd(e.base, e.length)
     IN IF e.type = AVAILABLE /\ s < t
        THEN pc' = "add" /\ page' = s /\ end' = t /\ UNCHANGED entry
        ELSE entry' = entry + 1 /\ UNCHANGED <<pc, page, end>>
  /\ UNCHANGED <<pmmVars, mmap, held, ret>>

LoopOver == page >= end \/ page >= MAX_PAGES

AddRegionPage ==
  /\ pc = "add" /\ ~LoopOver
  /\ AddPage(page)
  /\ page' = page + 1
  /\ UNCHANGED <<pc, mmap, entry, end, held, ret>>

AddRegionDone ==
  /\ pc = "add" /\ LoopOver
  /\ pc' = "mmap" /\ entry' = entry + 1
  /\ UNCHANGED <<pmmVars, mmap, page, end, held, ret>>

(* A bug in the action below: only whole pages of the image are reserved.   *)
MutReserveKernelAlignsDown ==
  /\ pc = "mmap" /\ entry > Len(mmap)
  /\ pc' = "reserve"
  /\ page' = AddStart(kernel_start, kernel_end - kernel_start)
  /\ end' = AddEnd(kernel_start, kernel_end - kernel_start)
  /\ UNCHANGED <<pmmVars, mmap, entry, held, ret>>

(* pmm_reserve_region(start, end - start) for the kernel image.             *)
ReserveKernel ==
  /\ pc = "mmap" /\ entry > Len(mmap)
  /\ pc' = "reserve"
  /\ page' = ReserveStart(kernel_start, kernel_end - kernel_start)
  /\ end' = ReserveEnd(kernel_start, kernel_end - kernel_start)
  /\ UNCHANGED <<pmmVars, mmap, entry, held, ret>>

ReserveRegionPage ==
  /\ pc = "reserve" /\ ~LoopOver
  /\ ReservePage(page)
  /\ page' = page + 1
  /\ UNCHANGED <<pc, mmap, entry, end, held, ret>>

ReserveRegionDone ==
  /\ pc = "reserve" /\ LoopOver
  /\ pc' = "run"
  /\ UNCHANGED <<pmmVars, mmap, entry, page, end, held, ret>>

-----------------------------------------------------------------------------
(* Steady state.                                                            *)

Alloc(p) ==
  /\ pc = "run"
  /\ pmm_alloc_page(p)
  /\ held' = held \cup {p}
  /\ ret' = [op |-> "alloc", address |-> p * PMM_PAGE_SIZE]
  /\ UNCHANGED bootVars

AllocFails ==
  /\ pc = "run" /\ NoneFree(MAX_PAGES)
  /\ ret' = [op |-> "alloc", address |-> 0]
  /\ UNCHANGED <<pmmVars, bootVars, held>>

AllocLow(p) ==
  /\ pc = "run"
  /\ pmm_alloc_page_low(p)
  /\ held' = held \cup {p}
  /\ ret' = [op |-> "alloc_low", address |-> p * PMM_PAGE_SIZE]
  /\ UNCHANGED bootVars

AllocLowFails ==
  /\ pc = "run" /\ NoneFree(LOW_PAGES)
  /\ ret' = [op |-> "alloc_low", address |-> 0]
  /\ UNCHANGED <<pmmVars, bootVars, held>>

(* Callers free pages they were given: the one caller in the kernel,        *)
(* allocate_table in mm/vmm.c, frees a frame it has just got.  A repeated   *)
(* free, a misaligned or an out-of-range address is allowed here besides,   *)
(* and pmm_free_page ignores it; a used page that nobody was given is not.  *)
Free(address) ==
  /\ pc = "run"
  /\ FreeIgnored(address) \/ address \div PMM_PAGE_SIZE \in held
  /\ pmm_free_page(address)
  /\ held' = IF FreeIgnored(address) THEN held
             ELSE held \ {address \div PMM_PAGE_SIZE}
  /\ ret' = NoCall
  /\ UNCHANGED bootVars

Next ==
  \/ InitPmm \/ MmapEntry \/ AddRegionPage \/ AddRegionDone
  \/ ReserveKernel \/ ReserveRegionPage \/ ReserveRegionDone
  \/ AllocFails \/ AllocLowFails
  \/ \E p \in Pages : Alloc(p) \/ AllocLow(p)
  \/ \E address \in Addresses : Free(address)

Spec == Init /\ [][Next]_vars

-----------------------------------------------------------------------------
(* Properties.                                                              *)

(* The whole state of the PMM and of _main stays within its types.          *)
TypeOK ==
  /\ bitmap \subseteq Pages
  /\ free_pages \in 0 .. WORD - 1
  /\ pc \in {"pmm_init", "mmap", "add", "reserve", "run"}
  /\ mmap \in MemoryMaps /\ entry \in Nat \ {0}
  /\ page \in Nat /\ end \in Nat
  /\ held \subseteq Pages
  /\ ret.op \in {"none", "alloc", "alloc_low"} /\ ret.address \in Nat

(* The counter and the bitmap never part: once pmm_init has run,            *)
(* pmm_get_free_pages is the number of clear bits, through overlapping      *)
(* regions, repeated frees and exhaustion.                                  *)
FreeCountExact == pc # "pmm_init" => free_pages = Cardinality(FreeSet)

(* RAM a client may be given: pages wholly inside one available region.     *)
RamPages ==
  {p \in Pages : \E i \in 1 .. Len(mmap) :
     /\ mmap[i].type = AVAILABLE
     /\ mmap[i].base <= p * PMM_PAGE_SIZE
     /\ (p + 1) * PMM_PAGE_SIZE <= mmap[i].base + mmap[i].length}

(* Pages that hold at least one byte of the kernel image.                   *)
KernelPages ==
  {p \in Pages : /\ p * PMM_PAGE_SIZE < kernel_end
                 /\ kernel_start < (p + 1) * PMM_PAGE_SIZE}

(* After boot the pages that are free or handed out are exactly the RAM the *)
(* map describes less the kernel image: no page of the image or of a hole   *)
(* ever circulates, whatever the alignment, order and overlap of the map's  *)
(* regions, and no page of RAM is lost over any sequence of calls.          *)
PagesConserved ==
  pc = "run" => FreeSet \cup held = RamPages \ KernelPages

(* A page handed out has its bit set, so that it cannot be handed out       *)
(* again, and is never page 0, whose address means failure.                 *)
GrantsExclusive == held \subseteq bitmap /\ 0 \notin held

(* The comment at the end of pmm_alloc_page_low says that the allocation    *)
(* falls back to a normal page when no low page is left, so the call would  *)
(* return 0 only when no page at all can be allocated.                      *)
LowFallsBack ==
  ret.op = "alloc_low" /\ ret.address = 0 => FreeSet \subseteq {0}

-----------------------------------------------------------------------------
(* The abstract allocator.  It opens when _main leaves the boot loops; what *)
(* it then has to hand out is the RAM of the map less the kernel image.     *)

LimitOf(op) ==
  IF op = "alloc" THEN MAX_PAGES ELSE IF op = "alloc_low" THEN LOW_PAGES ELSE 0

Grantable == IF pc = "run" THEN FreeSet ELSE {}

Allocator == INSTANCE FrameAllocator WITH
  Limits <- {LOW_PAGES, MAX_PAGES},
  ram    <- RamPages \ KernelPages,
  open   <- pc = "run",
  free   <- Grantable,
  held   <- held,
  answer <- [limit |-> LimitOf(ret.op), frame |-> ret.address \div PMM_PAGE_SIZE]

(* The boot sequence and the four calls of pmm.c implement that allocator:  *)
(* pmm_alloc_page and pmm_alloc_page_low grant a frame nobody holds and     *)
(* refuse only when there is none below their limit; pmm_free_page makes    *)
(* the frame available again and ignores what is not allocated.             *)
AllocatorImplemented == Allocator!Spec

=============================================================================
