-------------------------------- MODULE Vmm ---------------------------------
(***************************************************************************)
(* The virtual memory manager of kernel/mm/vmm.c: four-level page tables    *)
(* kept in physical frames that the kernel reaches through the bootstrap    *)
(* identity map, and the CPU's TLB, which may cache a translation at any    *)
(* moment between two stores of the kernel.                                 *)
(*                                                                          *)
(* One call of map_page or unmap_page is in progress at a time; vpc says    *)
(* where it is.  Every store to a linked table is a step of its own.        *)
(* An entry is its present and page-size bits and the page it points to;    *)
(* the only other flag ever set, writable, plays no part.                   *)
(***************************************************************************)
EXTENDS Pmm

CONSTANTS
  PAGE_ENTRIES,    \* entries in a table (512)
  PML4, PDPT, PD,  \* the frames of initial_pml4, initial_pdpt, initial_pd
  PHYS_LIMIT,      \* first address outside PAGE_ADDRESS_MASK (2^52)
  JunkPage         \* what the words of a frame nobody has zeroed point to

(* The reach of one entry of a table of level k, in pages; that of the     *)
(* whole top table has k = 5.                                               *)
Reach(k) ==
  LET n == PAGE_ENTRIES IN <<1, n, n * n, n * n * n, n * n * n * n>>[k]

(* The bootstrap identity map is one full page directory of large pages     *)
(* (512 * 2 MiB = 1 GiB).                                                   *)
IDENTITY_PAGES == PAGE_ENTRIES * PAGE_ENTRIES

(* Size of the part of an address that paging translates (2^48).            *)
VA_SPAN == Reach(5) * PMM_PAGE_SIZE

Statics == {PML4, PDPT, PD}

(* The low-memory allocator stays inside the identity map, so that          *)
(* physical_to_bootstrap_virtual accepts every frame it returns.            *)
ASSUME VmmAssumption ==
  /\ PAGE_ENTRIES \in Nat /\ PAGE_ENTRIES > 1 /\ PAGE_ENTRIES % 2 = 0
  /\ LOW_PAGES <= IDENTITY_PAGES
  /\ Statics \subseteq 1 .. LOW_PAGES - 1
  /\ PML4 # PDPT /\ PML4 # PD /\ PDPT # PD
  /\ JunkPage \in 1 .. LOW_PAGES - 1 /\ JunkPage \notin Statics
  /\ PHYS_LIMIT \in Nat /\ PHYS_LIMIT > 0 /\ PHYS_LIMIT + PMM_PAGE_SIZE <= WORD
  /\ WORD % VA_SPAN = 0

VARIABLES
  mem,             \* the tables: mem[frame][index] is an entry
  tlb,             \* the translations the CPU has cached, by virtual page
  paging_enabled,
  vpc,             \* where the call in progress is; "done" between calls
  vop,             \* "map" or "unmap"
  cva, cpa,        \* its virtual and physical address
  level,           \* level of the table the walk has reached
  table,           \* that table
  frame            \* the frame allocate_table is preparing, 0 if none

vmmVars == <<mem, tlb, paging_enabled, vpc, vop, cva, cpa, level, table, frame>>

-----------------------------------------------------------------------------
(* Entries and addresses.                                                   *)

Index == 0 .. PAGE_ENTRIES - 1

Low == 0 .. LOW_PAGES - 1

NULL == 0

NoPage == -1

Entry == [present : BOOLEAN, ps : BOOLEAN, page : Nat]

Absent == [present |-> FALSE, ps |-> FALSE, page |-> 0]

(* table_entry, and the entry map_page writes.                              *)
PresentEntry(page) == [present |-> TRUE, ps |-> FALSE, page |-> page]

LargeEntry(index) ==
  [present |-> TRUE, ps |-> TRUE, page |-> index * PAGE_ENTRIES]

ZeroTable == [i \in Index |-> Absent]

JunkTable == [i \in Index |-> PresentEntry(JunkPage)]

page_aligned_address(address) == address % PMM_PAGE_SIZE = 0

(* The code tests the 16 bits above the translated part only.               *)
canonical_address(address) ==
  address \div VA_SPAN \in {0, WORD \div VA_SPAN - 1}

Vpn(address) == (address % VA_SPAN) \div PMM_PAGE_SIZE

(* The index a walk for virtual page v uses in a table of level k.          *)
IndexOf(v, k) == (v \div Reach(k)) % PAGE_ENTRIES

(* entry_table: the table an entry points to, NULL if it is not present or  *)
(* out of the identity map.  It does not look at the page-size bit, and the *)
(* frame at physical address 0 is the null pointer.                         *)
entry_table(e) ==
  IF e.present /\ e.page < IDENTITY_PAGES THEN e.page ELSE NULL

(* Contents of a table in physical memory, for a reader of any page.        *)
TableAt(page) == IF page \in Low THEN mem[page] ELSE JunkTable

-----------------------------------------------------------------------------
(* The hardware.                                                            *)

(* The page the CPU's own walk finds for virtual page v, NoPage if the walk *)
(* meets an entry that is not present.  A large page ends the walk early.   *)
HwWalk(v) ==
  LET e4 == mem[PML4][IndexOf(v, 4)]
      e3 == TableAt(e4.page)[IndexOf(v, 3)]
      e2 == TableAt(e3.page)[IndexOf(v, 2)]
      e1 == TableAt(e2.page)[IndexOf(v, 1)]
  IN IF ~e4.present \/ ~e3.present \/ ~e2.present THEN NoPage
     ELSE IF e2.ps THEN e2.page + IndexOf(v, 1)
     ELSE IF ~e1.present THEN NoPage
     ELSE e1.page

(* The CPU may walk for any page at any time, also speculatively; it caches *)
(* translations that are present and keeps them until they are flushed.     *)
TlbFill(v) ==
  /\ paging_enabled
  /\ tlb[v] = NoPage /\ HwWalk(v) # NoPage
  /\ tlb' = [tlb EXCEPT ![v] = HwWalk(v)]
  /\ UNCHANGED <<mem, paging_enabled, vpc, vop, cva, cpa, level, table, frame>>

-----------------------------------------------------------------------------
(* The kernel.                                                              *)

(* A bug in paging_init: consecutive entries one page apart.                *)
MutIdentityEntry(index) ==
  [present |-> TRUE, ps |-> TRUE, page |-> index]

(* The entries of initial_pd.                                               *)
IdentityEntry(index) == LargeEntry(index)

(* paging_init (its early return is for a second call, which nobody makes). *)
paging_init ==
  /\ ~paging_enabled
  /\ mem' = [mem EXCEPT
       ![PML4] = [ZeroTable EXCEPT ![0] = PresentEntry(PDPT)],
       ![PDPT] = [ZeroTable EXCEPT ![0] = PresentEntry(PD)],
       ![PD]   = [i \in Index |-> IdentityEntry(i)]]
  /\ tlb' = [v \in DOMAIN tlb |-> NoPage]
  /\ paging_enabled' = TRUE
  /\ UNCHANGED <<vpc, vop, cva, cpa, level, table, frame>>

BeginWalk(op, va, pa) ==
  /\ vpc' = "walk" /\ vop' = op /\ cva' = va /\ cpa' = pa
  /\ level' = 4 /\ table' = PML4
  /\ UNCHANGED <<mem, tlb, paging_enabled, frame>>

(* The guards of map_page; a call that fails one returns silently.          *)
MapGuards(va, pa) ==
  /\ paging_enabled
  /\ canonical_address(va) /\ page_aligned_address(va)
  /\ page_aligned_address(pa) /\ pa < PHYS_LIMIT

map_page(va, pa) ==
  /\ vpc = "done"
  /\ IF MapGuards(va, pa) THEN BeginWalk("map", va, pa) ELSE UNCHANGED vmmVars

unmap_page(va) ==
  /\ vpc = "done"
  /\ IF paging_enabled /\ canonical_address(va) /\ page_aligned_address(va)
     THEN BeginWalk("unmap", va, 0)
     ELSE UNCHANGED vmmVars

(* The entry of the current table that the walk looks at.                   *)
Slot == IndexOf(Vpn(cva), level)

Walking == vpc = "walk" /\ level > 1

Next_ == entry_table(mem[table][Slot])

(* The call returns: its locals go.                                         *)
VmmReturn ==
  /\ vpc' = "done" /\ vop' = "none" /\ cva' = 0 /\ cpa' = 0
  /\ level' = 0 /\ table' = NULL

(* The walk goes down one level.  unmap_page returns where there is nothing *)
(* below; its callers only unmap pages they have mapped, so for them there  *)
(* always is.                                                               *)
Descend ==
  /\ Walking /\ (Next_ # NULL \/ vop = "unmap")
  /\ IF Next_ = NULL THEN VmmReturn
     ELSE /\ table' = Next_ /\ level' = level - 1
          /\ UNCHANGED <<vpc, vop, cva, cpa>>
  /\ UNCHANGED <<mem, tlb, paging_enabled, frame>>

(* allocate_table takes a frame ...                                         *)
AllocateTable(f) ==
  /\ Walking /\ Next_ = NULL /\ vop = "map"
  /\ pmm_alloc_page_low(f)
  /\ frame' = f /\ vpc' = "zero"
  /\ UNCHANGED <<mem, tlb, paging_enabled, vop, cva, cpa, level, table>>

(* ... or fails, and map_page returns, leaving the tables it has linked.    *)
AllocateTableFails ==
  /\ Walking /\ Next_ = NULL /\ vop = "map"
  /\ NoneFree(LOW_PAGES)
  /\ VmmReturn
  /\ UNCHANGED <<mem, tlb, paging_enabled, frame>>

(* zero_page, on a frame nobody else can reach yet.                         *)
ZeroPage ==
  /\ vpc = "zero" /\ vpc' = "link"
  /\ mem' = [mem EXCEPT ![frame] = ZeroTable]
  /\ UNCHANGED <<tlb, paging_enabled, vop, cva, cpa, level, table, frame>>

(* A bug in next_table: the new table is not entered in its parent.         *)
MutLinkTable ==
  /\ vpc = "link" /\ vpc' = "walk"
  /\ table' = frame /\ level' = level - 1 /\ frame' = 0
  /\ UNCHANGED <<mem, tlb, paging_enabled, vop, cva, cpa>>

LinkTable ==
  /\ vpc = "link" /\ vpc' = "walk"
  /\ mem' = [mem EXCEPT ![table][Slot] = PresentEntry(frame)]
  /\ table' = frame /\ level' = level - 1 /\ frame' = 0
  /\ UNCHANGED <<tlb, paging_enabled, vop, cva, cpa>>

(* The store into the page table.                                           *)
WriteEntry ==
  /\ vpc = "walk" /\ level = 1
  /\ mem' = [mem EXCEPT ![table][Slot] =
       IF vop = "map" THEN PresentEntry(cpa \div PMM_PAGE_SIZE) ELSE Absent]
  /\ vpc' = "flush"
  /\ UNCHANGED <<tlb, paging_enabled, vop, cva, cpa, level, table, frame>>

(* A bug: the invlpg is missing.                                            *)
MutFlush ==
  /\ vpc = "flush"
  /\ VmmReturn
  /\ UNCHANGED <<mem, tlb, paging_enabled, frame>>

(* flush_tlb_page, and the return of map_page or unmap_page.                *)
Flush ==
  /\ vpc = "flush"
  /\ tlb' = [tlb EXCEPT ![Vpn(cva)] = NoPage]
  /\ VmmReturn
  /\ UNCHANGED <<mem, paging_enabled, frame>>

(* get_page_table: the table of level 1 for an address, NULL if none.       *)
get_page_table(va) ==
  LET v == Vpn(va)
      pdpt == entry_table(mem[PML4][IndexOf(v, 4)])
      pd == IF pdpt = NULL THEN NULL ELSE entry_table(mem[pdpt][IndexOf(v, 3)])
  IN IF ~paging_enabled \/ ~canonical_address(va) \/ pd = NULL THEN NULL
     ELSE entry_table(mem[pd][IndexOf(v, 2)])

(* The steps that leave the PMM alone, and the one that takes a frame.      *)
VmmStep ==
  \/ /\ Descend \/ AllocateTableFails \/ ZeroPage \/ LinkTable
        \/ WriteEntry \/ Flush
     /\ UNCHANGED <<bitmap, free_pages>>
  \/ \E f \in Low : AllocateTable(f)

=============================================================================
