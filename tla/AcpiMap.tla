------------------------------ MODULE AcpiMap -------------------------------
(***************************************************************************)
(* uacpi_kernel_map and uacpi_kernel_unmap of kernel/acpi/kernel_apis.c on  *)
(* top of the VMM: a window of virtual pages handed out first fit, a table  *)
(* of mapping records, and a roll-back when a page cannot be installed.     *)
(* uACPI, the client, calls one operation at a time and gives back every    *)
(* address it was given; it reads and writes through its mappings at any    *)
(* time, so the CPU's walks interleave with every store.                    *)
(***************************************************************************)
EXTENDS Vmm

CONSTANTS
  ACPI_MAP_WINDOW_BASE,    \* virtual address of slot 0
  ACPI_MAP_WINDOW_PAGES,   \* slots (16384)
  ACPI_MAP_RECORDS,        \* records (256)
  Requests,                \* <<address, length mapped, length unmapped>>: the
                           \* two lengths differ for a register that is wider
                           \* than one access to it (uacpi_unmap_gas_nofree)
  FreeLow                  \* the sets of low frames boot may leave free

ASSUME AcpiAssumption ==
  /\ ACPI_MAP_WINDOW_BASE = WORD - VA_SPAN \div 2
  /\ ACPI_MAP_WINDOW_PAGES \in Nat /\ ACPI_MAP_WINDOW_PAGES > 0
  /\ ACPI_MAP_WINDOW_PAGES * PMM_PAGE_SIZE < VA_SPAN \div 2
  /\ ACPI_MAP_RECORDS \in Nat /\ ACPI_MAP_RECORDS > 0
  /\ Requests \subseteq (0 .. WORD - 1) \X (0 .. WORD - 1) \X (0 .. WORD - 1)
  /\ \A F \in FreeLow : F \subseteq Low \ (Statics \cup {0, JunkPage})

VARIABLES
  map_slots,       \* the slots whose bit is set
  mappings,        \* the records
  apc,             \* where the call of uACPI is; "idle" between calls
  call,            \* its arguments and locals
  index,           \* the loop variable
  live,            \* the mappings uACPI holds
  bootFree         \* the low frames that were free when the VMM started

acpiVars == <<map_slots, mappings, apc, call, index, live, bootFree>>
pmmVars  == <<bitmap, free_pages>>
vars     == <<pmmVars, vmmVars, acpiVars>>

Slots   == 0 .. ACPI_MAP_WINDOW_PAGES - 1
Records == 1 .. ACPI_MAP_RECORDS

NoRecord == [virtual_base |-> 0, page_count |-> 0]

NoCall == [pa |-> 0, len |-> 0, back |-> 0, start |-> 0, count |-> 0, record |-> 0]

ACPI_IDENTITY_MAP_LIMIT == IDENTITY_PAGES * PMM_PAGE_SIZE

SlotAddress(s) == ACPI_MAP_WINDOW_BASE + s * PMM_PAGE_SIZE

WindowPages == {Vpn(SlotAddress(s)) : s \in Slots}

Init ==
  /\ bootFree \in FreeLow
  /\ bitmap = Pages \ bootFree /\ free_pages = Cardinality(bootFree)
  /\ mem = [f \in Low |-> IF f \in Statics THEN ZeroTable ELSE JunkTable]
  /\ tlb = [v \in WindowPages |-> NoPage]
  /\ paging_enabled = FALSE
  /\ vpc = "done" /\ vop = "none" /\ cva = 0 /\ cpa = 0
  /\ level = 0 /\ table = NULL /\ frame = 0
  /\ map_slots = {} /\ mappings = [r \in Records |-> NoRecord]
  /\ apc = "boot" /\ call = NoCall /\ index = 0 /\ live = {}

-----------------------------------------------------------------------------
(* Helpers of the two calls.                                                *)

Offset(address) == address % PMM_PAGE_SIZE

(* The two overflow tests on the length.                                    *)
LengthOverflows(address, len) ==
  \/ len > WORD - 1 - Offset(address)
  \/ len + Offset(address) > WORD - 1 - (PMM_PAGE_SIZE - 1)

PageCount(address, len) ==
  (len + Offset(address) + PMM_PAGE_SIZE - 1) \div PMM_PAGE_SIZE

(* A run of count clear slots at start that ends inside the window.         *)
Fits(start, count) ==
  /\ start <= ACPI_MAP_WINDOW_PAGES - count
  /\ \A i \in 0 .. count - 1 : start + i \notin map_slots

FirstFit(start, count) ==
  Fits(start, count) /\ \A s \in 0 .. start - 1 : ~Fits(s, count)

SlotRange(start, count) == start .. start + count - 1

(* A bug in reserve_slots: only the first slot of the run is marked.        *)
MutReserve(start, count) == map_slots' = map_slots \cup {start}

reserve_slots(start, count) ==
  map_slots' = map_slots \cup SlotRange(start, count)

release_slots(start, count) ==
  IF start >= ACPI_MAP_WINDOW_PAGES \/ count > ACPI_MAP_WINDOW_PAGES - start
  THEN UNCHANGED map_slots
  ELSE map_slots' = map_slots \ SlotRange(start, count)

(* The record reserve_mapping_record returns: the first empty one.          *)
FirstEmpty(r) ==
  /\ mappings[r].page_count = 0
  /\ \A q \in 1 .. r - 1 : mappings[q].page_count # 0

(* find_mapping: the first exact match.                                     *)
Matches(r, base, count) == mappings[r] = [virtual_base |-> base, page_count |-> count]

FirstMatch(r, base, count) ==
  /\ Matches(r, base, count)
  /\ \A q \in 1 .. r - 1 : ~Matches(q, base, count)

mapping_was_installed(va, pa) ==
  LET pt == get_page_table(va)
  IN pt # NULL /\ mem[pt][IndexOf(Vpn(va), 1)].page = pa \div PMM_PAGE_SIZE

-----------------------------------------------------------------------------
(* uacpi_kernel_map.                                                        *)

VmmInit ==
  /\ apc = "boot"
  /\ paging_init
  /\ apc' = "idle"
  /\ UNCHANGED <<pmmVars, map_slots, mappings, call, index, live, bootFree>>

InIdentity(pa, len) ==
  pa < ACPI_IDENTITY_MAP_LIMIT /\ len <= ACPI_IDENTITY_MAP_LIMIT - pa

(* A range inside the identity map needs no window.                         *)
MapIdentity(pa, len, back) ==
  /\ apc = "idle" /\ len # 0 /\ InIdentity(pa, len)
  /\ live' = live \cup {[va |-> pa, pa |-> pa, len |-> len, back |-> back]}
  /\ UNCHANGED <<pmmVars, vmmVars, map_slots, mappings, apc, call, index, bootFree>>

WindowRequest(pa, len) ==
  /\ len # 0 /\ ~InIdentity(pa, len) /\ ~LengthOverflows(pa, len)
  /\ PageCount(pa, len) \in 1 .. ACPI_MAP_WINDOW_PAGES

(* The early returns with UACPI_MAP_FAILED.                                 *)
MapRefused(pa, len) ==
  /\ apc = "idle"
  /\ \/ len = 0
     \/ ~InIdentity(pa, len) /\ ~WindowRequest(pa, len)
     \/ /\ WindowRequest(pa, len)
        /\ \/ \A r \in Records : mappings[r].page_count # 0
           \/ \A s \in Slots : ~Fits(s, PageCount(pa, len))
  /\ UNCHANGED vars

(* A record and a run of slots are found; the loop over the pages begins.   *)
MapBegin(pa, len, back, r, s) ==
  /\ apc = "idle" /\ WindowRequest(pa, len)
  /\ FirstEmpty(r) /\ FirstFit(s, PageCount(pa, len))
  /\ reserve_slots(s, PageCount(pa, len))
  /\ call' = [pa |-> pa, len |-> len, back |-> back, start |-> s,
              count |-> PageCount(pa, len), record |-> r]
  /\ index' = 0 /\ apc' = "install"
  /\ UNCHANGED <<pmmVars, vmmVars, mappings, live, bootFree>>

VirtualPage(i) == SlotAddress(call.start + i)

PhysicalPage(i) ==
  (call.pa - Offset(call.pa) + i * PMM_PAGE_SIZE) % WORD

InstallPage ==
  /\ apc = "install" /\ index < call.count
  /\ map_page(VirtualPage(index), PhysicalPage(index))
  /\ apc' = "check"
  /\ UNCHANGED <<pmmVars, map_slots, mappings, call, index, live, bootFree>>

CheckPage ==
  /\ apc = "check" /\ vpc = "done"
  /\ IF mapping_was_installed(VirtualPage(index), PhysicalPage(index))
     THEN index' = index + 1 /\ apc' = "install"
     ELSE index' = index /\ apc' = "rollback"
  /\ UNCHANGED <<pmmVars, vmmVars, map_slots, mappings, call, live, bootFree>>

MapReturn ==
  /\ apc = "install" /\ index = call.count
  /\ mappings' = [mappings EXCEPT ![call.record] =
       [virtual_base |-> SlotAddress(call.start), page_count |-> call.count]]
  /\ live' = live \cup {[va |-> SlotAddress(call.start) + Offset(call.pa),
                         pa |-> call.pa, len |-> call.len, back |-> call.back]}
  /\ apc' = "idle" /\ call' = NoCall /\ index' = 0
  /\ UNCHANGED <<pmmVars, vmmVars, map_slots, bootFree>>

(* A bug in the roll-back: index is not decremented.                        *)
MutRollbackStuck ==
  /\ apc = "rollback" /\ index # 0
  /\ unmap_page(VirtualPage(index - 1))
  /\ UNCHANGED <<pmmVars, map_slots, mappings, apc, call, index, live, bootFree>>

(* One iteration of "while (index != 0)": the pages installed before the    *)
(* failing one are unmapped, last first.                                    *)
RollbackPage ==
  /\ apc = "rollback" /\ index # 0
  /\ unmap_page(VirtualPage(index - 1))
  /\ index' = index - 1
  /\ UNCHANGED <<pmmVars, map_slots, mappings, apc, call, live, bootFree>>

(* A bug in the roll-back: it stops before the first page of the run.       *)
MutRollbackShort ==
  /\ apc = "rollback" /\ index <= 1 /\ vpc = "done"
  /\ release_slots(call.start, call.count)
  /\ apc' = "idle" /\ call' = NoCall /\ index' = 0
  /\ UNCHANGED <<pmmVars, vmmVars, mappings, live, bootFree>>

RollbackDone ==
  /\ apc = "rollback" /\ index = 0 /\ vpc = "done"
  /\ release_slots(call.start, call.count)
  /\ apc' = "idle" /\ call' = NoCall /\ index' = 0
  /\ UNCHANGED <<pmmVars, vmmVars, mappings, live, bootFree>>

-----------------------------------------------------------------------------
(* uacpi_kernel_unmap.                                                      *)

(* The early returns: null, UACPI_MAP_FAILED (all ones), a length that      *)
(* overflows, an address outside the window.                                *)
UnmapOutside(va, len) ==
  LET base == va - Offset(va)
      count == PageCount(va, len)
  IN \/ va \in {0, WORD - 1} \/ len = 0 \/ LengthOverflows(va, len)
     \/ base < ACPI_MAP_WINDOW_BASE
     \/ count \notin 1 .. ACPI_MAP_WINDOW_PAGES
     \/ base > SlotAddress(ACPI_MAP_WINDOW_PAGES - count)

(* An identity mapping is given back: nothing to undo.                      *)
UnmapIdentity(m) ==
  /\ apc = "idle" /\ UnmapOutside(m.va, m.back)
  /\ live' = live \ {m}
  /\ UNCHANGED <<pmmVars, vmmVars, map_slots, mappings, apc, call, index, bootFree>>

UnmapBegin(m, r) ==
  /\ apc = "idle" /\ ~UnmapOutside(m.va, m.back)
  /\ FirstMatch(r, m.va - Offset(m.va), PageCount(m.va, m.back))
  /\ call' = [NoCall EXCEPT !.count = PageCount(m.va, m.back), !.record = r,
       !.start = (m.va - Offset(m.va) - ACPI_MAP_WINDOW_BASE) \div PMM_PAGE_SIZE]
  /\ live' = live \ {m}
  /\ index' = 0 /\ apc' = "unmap"
  /\ UNCHANGED <<pmmVars, vmmVars, map_slots, mappings, bootFree>>

(* A call that matches no record returns: a second unmap of the same range, *)
(* or one whose length comes to another number of pages than was mapped.    *)
(* Either way uACPI has no further use for the address.                     *)
UnmapUnknown(va, len) ==
  /\ apc = "idle" /\ ~UnmapOutside(va, len)
  /\ \A r \in Records : ~Matches(r, va - Offset(va), PageCount(va, len))
  /\ live' = {m \in live : m.va # va \/ m.back # len}
  /\ UNCHANGED <<pmmVars, vmmVars, map_slots, mappings, apc, call, index, bootFree>>

UnmapPage ==
  /\ apc = "unmap" /\ index < call.count
  /\ unmap_page(VirtualPage(index))
  /\ index' = index + 1
  /\ UNCHANGED <<pmmVars, map_slots, mappings, apc, call, live, bootFree>>

(* A bug in uacpi_kernel_unmap: the slots stay reserved.                    *)
MutUnmapDone ==
  /\ apc = "unmap" /\ index = call.count /\ vpc = "done"
  /\ mappings' = [mappings EXCEPT ![call.record] = NoRecord]
  /\ apc' = "idle" /\ call' = NoCall /\ index' = 0
  /\ UNCHANGED <<pmmVars, vmmVars, map_slots, live, bootFree>>

UnmapDone ==
  /\ apc = "unmap" /\ index = call.count /\ vpc = "done"
  /\ release_slots(call.start, call.count)
  /\ mappings' = [mappings EXCEPT ![call.record] = NoRecord]
  /\ apc' = "idle" /\ call' = NoCall /\ index' = 0
  /\ UNCHANGED <<pmmVars, vmmVars, live, bootFree>>

-----------------------------------------------------------------------------
(* The system.                                                              *)

(* The thread of the kernel inside a call.                                  *)
KernelStep ==
  \/ VmmInit \/ InstallPage \/ CheckPage \/ MapReturn
  \/ RollbackPage \/ RollbackDone \/ UnmapPage \/ UnmapDone
  \/ VmmStep /\ UNCHANGED acpiVars

ClientCall ==
  \/ \E q \in Requests :
       \/ MapIdentity(q[1], q[2], q[3]) \/ MapRefused(q[1], q[2])
       \/ \E r \in Records, s \in Slots : MapBegin(q[1], q[2], q[3], r, s)
       \/ \E s \in Slots : UnmapUnknown(SlotAddress(s) + Offset(q[1]), q[3])
  \/ \E m \in live : UnmapIdentity(m) \/ \E r \in Records : UnmapBegin(m, r)

CpuStep == \E v \in WindowPages : TlbFill(v) /\ UNCHANGED <<pmmVars, acpiVars>>

Next == KernelStep \/ ClientCall \/ CpuStep

(* A call in progress is ordinary sequential code: it keeps executing.      *)
Spec == Init /\ [][Next]_vars /\ WF_vars(KernelStep)

-----------------------------------------------------------------------------
(* Properties.                                                              *)

(* The state stays within its types; in particular no slot outside the      *)
(* window is ever marked.                                                   *)
TypeOK ==
  /\ bitmap \subseteq Pages /\ free_pages \in 0 .. WORD - 1
  /\ mem \in [Low -> [Index -> Entry]]
  /\ tlb \in [WindowPages -> Nat \cup {NoPage}]
  /\ paging_enabled \in BOOLEAN
  /\ vpc \in {"done", "walk", "zero", "link", "flush"}
  /\ vop \in {"none", "map", "unmap"}
  /\ cva \in 0 .. WORD - 1 /\ cpa \in 0 .. WORD - 1
  /\ level \in 0 .. 4 /\ table \in Low /\ frame \in Low
  /\ map_slots \subseteq Slots
  /\ mappings \in [Records -> [virtual_base : Nat, page_count : Nat]]
  /\ apc \in {"boot", "idle", "install", "check", "rollback", "unmap"}
  /\ index \in 0 .. ACPI_MAP_WINDOW_PAGES

(* The run of slots a record stands for.                                    *)
RunOf(rec) ==
  SlotRange((rec.virtual_base - ACPI_MAP_WINDOW_BASE) \div PMM_PAGE_SIZE, rec.page_count)

(* The runs of slots in use: one per record, and that of a map call under   *)
(* way, which has no record yet.                                            *)
Runs == {RunOf(mappings[r]) : r \in {q \in Records : mappings[q].page_count # 0}}

CallRun ==
  IF apc \in {"install", "check", "rollback"}
  THEN SlotRange(call.start, call.count) ELSE {}

(* The bitmap of slots and the records agree: a slot is marked exactly when *)
(* one record, or the map call under way, covers it, and no two cover the   *)
(* same slot.  Nothing leaks when a mapping fails half way.                 *)
SlotsMatchRecords ==
  /\ map_slots = (UNION Runs) \cup CallRun
  /\ \A a, b \in Runs \cup {CallRun} : a # b => a \cap b = {}
  /\ Cardinality(Runs) =
       Cardinality({q \in Records : mappings[q].page_count # 0})

(* Byte b of the mapping m, as the CPU sees it through the tables.          *)
SeenAt(va) == HwWalk(Vpn(va)) * PMM_PAGE_SIZE + Offset(va)

(* Every byte uACPI asked for is reachable at the address it was given, at  *)
(* any moment from the return of uacpi_kernel_map to the call of            *)
(* uacpi_kernel_unmap, through the tables and through the TLB, whatever     *)
(* other calls succeed, fail half way or are under way.                     *)
LiveMappingsTranslate ==
  \A m \in live : \A b \in 0 .. m.len - 1 :
    LET v == Vpn(m.va + b)
    IN /\ HwWalk(v) # NoPage /\ SeenAt(m.va + b) = m.pa + b
       /\ v \in WindowPages => tlb[v] \in {NoPage, HwWalk(v)}

(* A cached translation differs from the tables only between the store of   *)
(* the entry and the invlpg of the same page.                               *)
TlbCoherent ==
  \A v \in WindowPages :
    tlb[v] \in {NoPage, HwWalk(v)} \/ (vpc = "flush" /\ Vpn(cva) = v)

(* A record as long as a request whose mapping the client gives back with   *)
(* another number of pages: the call that gives it back finds no record, so *)
(* it keeps this one and its slots for good.                                *)
Stranded(rec) ==
  \E q \in Requests :
    /\ q[2] # 0 /\ rec.page_count = PageCount(q[1], q[2])
    /\ q[3] = 0 \/ PageCount(q[1], q[3]) # rec.page_count

(* Between calls only what uACPI holds translates, in the tables or in the  *)
(* TLB, besides the mappings it gave back with the wrong length: neither an *)
(* unmap nor a failed map leaves an entry or a cached translation behind,   *)
(* and no garbage word of a frame has become one.                           *)
OnlyHeldTranslates ==
  apc = "idle" =>
    \A s \in Slots :
      LET v == Vpn(SlotAddress(s)) IN
      HwWalk(v) # NoPage \/ tlb[v] # NoPage =>
        \/ \E m \in live : \E b \in 0 .. m.len - 1 : v = Vpn(m.va + b)
        \/ \E r \in Records : Stranded(mappings[r]) /\ s \in RunOf(mappings[r])

(* The low frames in use as tables of the window, found from the top.       *)
Children(f) ==
  {mem[f][i].page : i \in {j \in Index : mem[f][j].present /\ ~mem[f][j].ps}}

Pdpts == Children(PML4) \ {PDPT}
Pds   == UNION {Children(f) : f \in Pdpts}
Pts   == UNION {Children(f) : f \in Pds}

(* Every frame the VMM took from the PMM is a table of the tree or the one  *)
(* being prepared: a map call that fails for want of memory loses none, and *)
(* the tables of one tree level are distinct frames.                        *)
TableFramesAccounted ==
  paging_enabled =>
    /\ bootFree \ FreeSet = Pdpts \cup Pds \cup Pts \cup ({frame} \ {0})
    /\ (Pdpts \cap Pds) \cup (Pdpts \cap Pts) \cup (Pds \cap Pts) = {}
    /\ frame \notin Pdpts \cup Pds \cup Pts

(* The identity map of the kernel survives every operation.                 *)
IdentityIntact ==
  paging_enabled => \A v \in 0 .. IDENTITY_PAGES - 1 : HwWalk(v) = v

(* Every call of uACPI returns.                                             *)
CallsReturn == apc # "idle" ~> apc = "idle"

=============================================================================
