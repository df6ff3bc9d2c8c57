--------------------------- MODULE MemBootProofs ----------------------------
(***************************************************************************)
(* Proofs about MemBoot: what MCMemBoot checks on a machine of five pages   *)
(* holds for every size of memory, every memory map and every place of the  *)
(* kernel image.                                                            *)
(***************************************************************************)
EXTENDS MemBoot, FiniteSetTheorems, TLAPS

-----------------------------------------------------------------------------
(* Arithmetic: the prover knows little about a symbolic divisor, so its     *)
(* defining property is stated once.                                        *)

(* Division and remainder by a positive divisor of a natural number.        *)
LEMMA DivMod ==
  ASSUME NEW x \in Nat, NEW n \in Nat, n > 0
  PROVE  /\ x \div n \in Nat
         /\ x % n \in 0 .. n - 1
         /\ (x \div n) * n <= x
         /\ x < (x \div n) * n + n
  OBVIOUS

(* Below the modulus the remainder is the number itself.                    *)
LEMMA ModSmall ==
  ASSUME NEW x \in Nat, NEW n \in Nat, x < n
  PROVE  x % n = x
  OBVIOUS

-----------------------------------------------------------------------------
(* Cardinality facts about the set of free pages.                           *)

(* Pages is finite and has MAX_PAGES members.                               *)
LEMMA PagesFinite ==
  IsFiniteSet(Pages) /\ Cardinality(Pages) = MAX_PAGES
  <1>1. 0 \in Int /\ MAX_PAGES - 1 \in Int  BY PmmAssumption
  <1>2. IsFiniteSet(0 .. MAX_PAGES - 1)
        /\ Cardinality(0 .. MAX_PAGES - 1) =
             IF 0 > MAX_PAGES - 1 THEN 0 ELSE (MAX_PAGES - 1) - 0 + 1
    BY <1>1, FS_Interval
  <1> QED  BY <1>2, PmmAssumption DEF Pages

(* A set of pages is finite and no larger than Pages.                       *)
LEMMA PageSetSize ==
  ASSUME NEW S, S \subseteq Pages
  PROVE  IsFiniteSet(S) /\ Cardinality(S) \in Nat /\ Cardinality(S) <= MAX_PAGES
  BY PagesFinite, FS_Subset, FS_CardinalityType

(* Clearing the bit of a used page raises the number of clear bits by one,  *)
(* which still fits in the counter.                                         *)
LEMMA ClearGrows ==
  ASSUME NEW B, B \subseteq Pages, NEW p \in B
  PROVE  /\ Cardinality(Pages \ (B \ {p})) = Cardinality(Pages \ B) + 1
         /\ Inc(Cardinality(Pages \ B)) = Cardinality(Pages \ B) + 1
  <1>1. Pages \ (B \ {p}) = (Pages \ B) \cup {p}  OBVIOUS
  <1>2. p \notin Pages \ B  OBVIOUS
  <1>3. IsFiniteSet(Pages \ B) /\ Cardinality(Pages \ B) \in Nat
    BY PageSetSize, Pages \ B \subseteq Pages
  <1>4. Cardinality((Pages \ B) \cup {p}) = Cardinality(Pages \ B) + 1
    BY <1>2, <1>3, FS_AddElement
  <1>5. Cardinality(Pages \ (B \ {p})) <= MAX_PAGES
    BY PageSetSize, Pages \ (B \ {p}) \subseteq Pages
  <1> QED  BY <1>1, <1>3, <1>4, <1>5, PmmAssumption DEF Inc

(* Setting the bit of a free page lowers it by one, and it was not zero.    *)
LEMMA SetShrinks ==
  ASSUME NEW B, B \subseteq Pages, NEW p \in Pages, p \notin B
  PROVE  /\ Cardinality(Pages \ (B \cup {p})) = Dec(Cardinality(Pages \ B))
         /\ Cardinality(Pages \ B) \in 1 .. MAX_PAGES
  <1>1. Pages \ (B \cup {p}) = (Pages \ B) \ {p}  OBVIOUS
  <1>2. p \in Pages \ B  OBVIOUS
  <1>3. /\ IsFiniteSet(Pages \ B) /\ Cardinality(Pages \ B) \in Nat
        /\ Cardinality(Pages \ B) <= MAX_PAGES
    BY PageSetSize, Pages \ B \subseteq Pages
  <1>4. Cardinality((Pages \ B) \ {p}) = Cardinality(Pages \ B) - 1
    BY <1>2, <1>3, FS_RemoveElement
  <1>5. Cardinality((Pages \ B) \ {p}) \in Nat
    BY PageSetSize, (Pages \ B) \ {p} \subseteq Pages
  <1> QED  BY <1>1, <1>3, <1>4, <1>5, PmmAssumption DEF Dec

-----------------------------------------------------------------------------
(* Types.                                                                   *)

(* The bounds the region loops start from are natural numbers.              *)
LEMMA BoundsNat ==
  ASSUME NEW base \in Nat, NEW length \in Nat
  PROVE  /\ AddStart(base, length) \in Nat /\ AddEnd(base, length) \in Nat
         /\ ReserveStart(base, length) \in Nat
         /\ ReserveEnd(base, length) \in Nat
  <1> DEFINE x == base + PMM_PAGE_SIZE - 1
             y == base + length
             z == base + length + PMM_PAGE_SIZE - 1
  <1>1. x \in Nat /\ y \in Nat /\ z \in Nat  BY PmmAssumption
  <1> HIDE DEF x, y, z
  <1>2. x % WORD \in Nat /\ y % WORD \in Nat /\ z % WORD \in Nat
    BY <1>1, PmmAssumption, DivMod
  <1>3. /\ (x % WORD) \div PMM_PAGE_SIZE \in Nat
        /\ (y % WORD) \div PMM_PAGE_SIZE \in Nat
        /\ (z % WORD) \div PMM_PAGE_SIZE \in Nat
        /\ base \div PMM_PAGE_SIZE \in Nat
    BY <1>2, PmmAssumption, DivMod
  <1> QED
    BY <1>3 DEF x, y, z, AddStart, AddEnd, ReserveStart, ReserveEnd

(* A page whose bit pmm_free_page clears is a page of the bitmap.           *)
LEMMA FreedIsUsed ==
  ASSUME NEW address \in Addresses, TypeOK, ~FreeIgnored(address)
  PROVE  /\ address \div PMM_PAGE_SIZE \in Pages
         /\ address \div PMM_PAGE_SIZE \in bitmap
  BY DEF TypeOK, FreeIgnored, page_used

(* Inc and Dec stay within the word.                                        *)
LEMMA WordOps ==
  ASSUME NEW n \in 0 .. WORD - 1
  PROVE  Inc(n) \in 0 .. WORD - 1 /\ Dec(n) \in 0 .. WORD - 1
  BY PmmAssumption DEF Inc, Dec

(* Every step keeps the state of the PMM and of _main within its types.     *)
LEMMA TypeStep ==
  ASSUME TypeOK, [Next]_vars
  PROVE  TypeOK'
  <1> USE DEF TypeOK, pmmVars, bootVars, NoCall
  <1>0. /\ Inc(free_pages) \in 0 .. WORD - 1
        /\ Dec(free_pages) \in 0 .. WORD - 1
    BY WordOps
  <1>1. CASE InitPmm
    BY <1>1, PmmAssumption DEF InitPmm, pmm_init
  <1>2. CASE MmapEntry
    <2>1. /\ mmap[entry].base \in Nat /\ mmap[entry].length \in Nat
      BY <1>2, BootAssumption DEF MmapEntry, IsEntry
    <2>2. /\ AddStart(mmap[entry].base, mmap[entry].length) \in Nat
          /\ AddEnd(mmap[entry].base, mmap[entry].length) \in Nat
      BY <2>1, BoundsNat
    <2> QED  BY <1>2, <2>2 DEF MmapEntry
  <1>3. CASE AddRegionPage
    BY <1>0, <1>3 DEF AddRegionPage, AddPage, clear_page
  <1>4. CASE AddRegionDone
    BY <1>4 DEF AddRegionDone
  <1>5. CASE ReserveKernel
    <2>1. kernel_end - kernel_start \in Nat  BY BootAssumption
    <2>2. /\ ReserveStart(kernel_start, kernel_end - kernel_start) \in Nat
          /\ ReserveEnd(kernel_start, kernel_end - kernel_start) \in Nat
      BY <2>1, BoundsNat, BootAssumption
    <2> QED  BY <1>5, <2>2 DEF ReserveKernel
  <1>6. CASE ReserveRegionPage
    <2>1. page \in Pages
      BY <1>6, PmmAssumption DEF ReserveRegionPage, LoopOver, Pages
    <2>2. bitmap' \subseteq Pages /\ free_pages' \in 0 .. WORD - 1
      BY <1>0, <1>6, <2>1 DEF ReserveRegionPage, ReservePage, set_page
    <2> QED  BY <1>6, <2>2 DEF ReserveRegionPage
  <1>7. CASE ReserveRegionDone
    BY <1>7 DEF ReserveRegionDone
  <1>8. CASE AllocFails
    BY <1>8 DEF AllocFails
  <1>9. CASE AllocLowFails
    BY <1>9 DEF AllocLowFails
  <1>10. ASSUME NEW p \in Pages, Alloc(p) \/ AllocLow(p)  PROVE TypeOK'
    <2>1. p * PMM_PAGE_SIZE \in Nat  BY PmmAssumption DEF Pages
    <2> QED
      BY <1>0, <1>10, <2>1
      DEF Alloc, AllocLow, pmm_alloc_page, pmm_alloc_page_low, TakePage, set_page
  <1>11. ASSUME NEW address \in Addresses, Free(address)  PROVE TypeOK'
    BY <1>0, <1>11 DEF Free, pmm_free_page, clear_page
  <1>12. CASE UNCHANGED vars
    BY <1>12 DEF vars
  <1> QED
    BY <1>1, <1>2, <1>3, <1>4, <1>5, <1>6, <1>7, <1>8, <1>9, <1>10, <1>11, <1>12
    DEF Next

(* Type correctness: the bitmap never gets a bit for a page it does not     *)
(* track, whatever regions the memory map holds, and free_pages and the     *)
(* loop variables of _main keep their ranges.                               *)
THEOREM TypeCorrect == Spec => []TypeOK
  <1>1. Init => TypeOK
    BY PmmAssumption DEF Init, TypeOK, NoCall
  <1>2. TypeOK /\ [Next]_vars => TypeOK'
    BY TypeStep
  <1> QED  BY <1>1, <1>2, PTL DEF Spec

-----------------------------------------------------------------------------
(* The counter.                                                             *)

(* Every step keeps free_pages equal to the number of clear bits.           *)
LEMMA CountStep ==
  ASSUME TypeOK, FreeCountExact, [Next]_vars
  PROVE  FreeCountExact'
  <1> USE DEF FreeCountExact, FreeSet
  <1>1. CASE InitPmm
    <2>1. Pages \ Pages = {}  OBVIOUS
    <2>2. Cardinality({}) = 0  BY FS_EmptySet
    <2> QED  BY <1>1, <2>1, <2>2 DEF InitPmm, pmm_init
  <1>2. CASE UNCHANGED pmmVars /\ pc # "pmm_init"
    BY <1>2 DEF pmmVars
  <1>3. ASSUME NEW p \in bitmap, pc # "pmm_init",
               bitmap' = bitmap \ {p}, free_pages' = Inc(free_pages)
        PROVE  FreeCountExact'
    BY <1>3, ClearGrows DEF TypeOK
  <1>4. ASSUME NEW p \in Pages, p \notin bitmap, pc # "pmm_init",
               bitmap' = bitmap \cup {p}, free_pages' = Dec(free_pages)
        PROVE  FreeCountExact'
    BY <1>4, SetShrinks DEF TypeOK
  <1>5. CASE MmapEntry \/ AddRegionDone \/ ReserveKernel
             \/ ReserveRegionDone \/ AllocFails \/ AllocLowFails
    BY <1>2, <1>5
    DEF MmapEntry, AddRegionDone, ReserveKernel, ReserveRegionDone,
        AllocFails, AllocLowFails
  <1>6. CASE AddRegionPage
    BY <1>2, <1>3, <1>6
    DEF AddRegionPage, AddPage, clear_page, page_used, pmmVars
  <1>7. CASE ReserveRegionPage
    <2>1. page \in Pages
      BY <1>7, PmmAssumption DEF ReserveRegionPage, LoopOver, Pages, TypeOK
    <2> QED
      BY <1>2, <1>4, <1>7, <2>1
      DEF ReserveRegionPage, ReservePage, set_page, page_used, pmmVars
  <1>8. ASSUME NEW p \in Pages, Alloc(p) \/ AllocLow(p)  PROVE FreeCountExact'
    BY <1>4, <1>8
    DEF Alloc, AllocLow, pmm_alloc_page, pmm_alloc_page_low, FirstFree,
        TakePage, set_page, page_used
  <1>9. ASSUME NEW address \in Addresses, Free(address)  PROVE FreeCountExact'
    BY <1>2, <1>3, <1>9, FreedIsUsed
    DEF Free, pmm_free_page, clear_page, pmmVars
  <1>10. CASE UNCHANGED vars
    BY <1>10 DEF vars, pmmVars, bootVars
  <1> QED
    BY <1>1, <1>5, <1>6, <1>7, <1>8, <1>9, <1>10 DEF Next

(* pmm_get_free_pages always tells the number of clear bits: the counter    *)
(* never wraps and never drifts, for any map and any sequence of calls.     *)
THEOREM CountCorrect == Spec => []FreeCountExact
  <1>1. Init => FreeCountExact
    BY DEF Init, FreeCountExact
  <1>2. TypeOK /\ FreeCountExact /\ [Next]_vars => FreeCountExact'
    BY CountStep
  <1> QED  BY <1>1, <1>2, TypeCorrect, PTL DEF Spec

-----------------------------------------------------------------------------
(* Where free pages come from.                                              *)

(* The loop of pmm_add_region runs over page p for entry e.                 *)
InAdded(e, p) ==
  /\ e.type = AVAILABLE
  /\ AddStart(e.base, e.length) <= p
  /\ p < AddEnd(e.base, e.length)

(* One of the first n entries added page p.                                 *)
AddedUpTo(n, p) == \E i \in 1 .. n : InAdded(mmap[i], p)

KStart == ReserveStart(kernel_start, kernel_end - kernel_start)
KEnd   == ReserveEnd(kernel_start, kernel_end - kernel_start)

(* The loops that fill the bitmap, point by point: what is free while the   *)
(* map is walked, inside one region, while the kernel image is reserved,    *)
(* and once the kernel runs.  held stays empty until then.                  *)
WalkInv ==
  pc = "mmap" =>
    /\ entry <= Len(mmap) + 1 /\ held = {}
    /\ \A p \in Pages : p \notin bitmap <=> AddedUpTo(entry - 1, p)

AddInv ==
  pc = "add" =>
    /\ entry <= Len(mmap) /\ held = {}
    /\ mmap[entry].type = AVAILABLE
    /\ AddStart(mmap[entry].base, mmap[entry].length) <= page
    /\ page <= end
    /\ end = AddEnd(mmap[entry].base, mmap[entry].length)
    /\ \A p \in Pages : p \notin bitmap <=>
         \/ AddedUpTo(entry - 1, p)
         \/ AddStart(mmap[entry].base, mmap[entry].length) <= p /\ p < page

ReserveInv ==
  pc = "reserve" =>
    /\ held = {} /\ KStart <= page /\ end = KEnd /\ page <= end
    /\ \A p \in Pages : p \notin bitmap <=>
         AddedUpTo(Len(mmap), p) /\ ~(KStart <= p /\ p < page)

RunInv ==
  pc = "run" =>
    \A p \in Pages : p \notin bitmap \/ p \in held <=>
      AddedUpTo(Len(mmap), p) /\ ~(KStart <= p /\ p < KEnd)

FillInv ==
  /\ pc = "pmm_init" => held = {} /\ entry = 1
  /\ WalkInv /\ AddInv /\ ReserveInv /\ RunInv
  /\ GrantsExclusive

(* The image occupies at least one page of the reserve loop.                *)
LEMMA KernelBounds ==
  KStart \in Nat /\ KEnd \in Nat /\ KStart <= KEnd
  <1> DEFINE n == PMM_PAGE_SIZE
             z == kernel_start + (kernel_end - kernel_start) + n - 1
  <1>1. n \in Nat /\ n > 0 /\ z \in Nat /\ z < WORD /\ kernel_start <= z
    BY PmmAssumption, BootAssumption
  <1>2. z % WORD = z  BY <1>1, ModSmall, PmmAssumption
  <1> HIDE DEF z, n
  <1>3. /\ kernel_start \div n \in Nat /\ (kernel_start \div n) * n <= kernel_start
        /\ z \div n \in Nat /\ z < (z \div n) * n + n
    BY <1>1, DivMod, BootAssumption
  <1>4. kernel_start \div n <= z \div n
    <2> DEFINE a == kernel_start \div n
               b == z \div n
    <2>1. a \in Nat /\ b \in Nat /\ a * n < b * n + n
      BY <1>1, <1>3, BootAssumption
    <2> HIDE DEF a, b
    <2>2. ASSUME b + 1 <= a  PROVE FALSE
      <3>1. (b + 1) * n <= a * n  BY <1>1, <2>1, <2>2
      <3> QED  BY <1>1, <2>1, <3>1
    <2> QED  BY <2>1, <2>2 DEF a, b
  <1> QED
    BY <1>2, <1>3, <1>4 DEF KStart, KEnd, ReserveStart, ReserveEnd, z, n

(* Every step keeps the description of the bitmap.                          *)
LEMMA FillStep ==
  ASSUME TypeOK, FillInv, [Next]_vars
  PROVE  FillInv'
  <1> USE DEF TypeOK, pmmVars, bootVars
  <1>1. CASE InitPmm
    <2>1. \A p \in Pages : ~AddedUpTo(0, p)  BY DEF AddedUpTo
    <2>2. /\ pc' = "mmap" /\ entry' = 1 /\ held' = {} /\ bitmap' = Pages
          /\ mmap' = mmap
      BY <1>1 DEF InitPmm, pmm_init, FillInv
    <2>3. Len(mmap) \in Nat  BY BootAssumption
    <2>4. \A p \in Pages : ~AddedUpTo(0, p)'  BY <2>1, <2>2 DEF AddedUpTo
    <2> QED
      BY <2>2, <2>3, <2>4
      DEF FillInv, WalkInv, AddInv, ReserveInv, RunInv, GrantsExclusive
  <1>2. CASE MmapEntry
    <2> DEFINE e == mmap[entry]
               s == AddStart(e.base, e.length)
               t == AddEnd(e.base, e.length)
    <2>0. Len(mmap) \in Nat /\ e.base \in Nat /\ e.length \in Nat
      BY <1>2, BootAssumption DEF MmapEntry, IsEntry
    <2>1. Len(mmap) \in Nat /\ s \in Nat /\ t \in Nat
      BY <2>0, BoundsNat
    <2>2. \A p \in Pages : AddedUpTo(entry, p) <=> AddedUpTo(entry - 1, p) \/ InAdded(e, p)
      BY DEF AddedUpTo
    <2>3. /\ pc = "mmap" /\ entry <= Len(mmap) /\ held = {}
          /\ \A p \in Pages : p \notin bitmap <=> AddedUpTo(entry - 1, p)
      BY <1>2 DEF MmapEntry, FillInv, WalkInv
    <2>4. UNCHANGED <<bitmap, mmap, held>>
      BY <1>2 DEF MmapEntry
    <2>5. CASE e.type = AVAILABLE /\ s < t
      <3>1. pc' = "add" /\ page' = s /\ end' = t /\ entry' = entry
        BY <1>2, <2>5 DEF MmapEntry
      <3>2. \A p \in Pages : AddedUpTo(entry - 1, p)' <=> AddedUpTo(entry - 1, p)
        BY <2>4, <3>1 DEF AddedUpTo
      <3>3. \A p \in Pages : ~(s <= p /\ p < s)
        BY <2>1 DEF Pages
      <3>4. AddInv'
        BY <2>1, <2>3, <2>4, <2>5, <3>1, <3>2, <3>3 DEF AddInv
      <3> QED
        BY <2>3, <2>4, <3>1, <3>4
        DEF FillInv, WalkInv, ReserveInv, RunInv, GrantsExclusive
    <2>6. CASE ~(e.type = AVAILABLE /\ s < t)
      <3>1. pc' = "mmap" /\ entry' = entry + 1
        BY <1>2, <2>3, <2>6 DEF MmapEntry
      <3>2. \A p \in Pages : ~InAdded(e, p)
        BY <2>1, <2>6 DEF InAdded, Pages
      <3>3. \A p \in Pages : AddedUpTo(entry - 1, p)' <=> AddedUpTo(entry, p)
        BY <2>4, <3>1 DEF AddedUpTo
      <3>4. WalkInv'
        BY <2>1, <2>2, <2>3, <2>4, <3>1, <3>2, <3>3 DEF WalkInv
      <3> QED
        BY <2>3, <2>4, <3>1, <3>4
        DEF FillInv, AddInv, ReserveInv, RunInv, GrantsExclusive
    <2> QED  BY <2>5, <2>6
  <1>3. CASE AddRegionPage
    <2> DEFINE s == AddStart(mmap[entry].base, mmap[entry].length)
    <2>1. /\ pc = "add" /\ entry <= Len(mmap) /\ held = {}
          /\ page < end /\ page < MAX_PAGES /\ s <= page
          /\ mmap[entry].type = AVAILABLE
          /\ end = AddEnd(mmap[entry].base, mmap[entry].length)
          /\ \A p \in Pages : p \notin bitmap <=>
               AddedUpTo(entry - 1, p) \/ (s <= p /\ p < page)
      BY <1>3, PmmAssumption DEF AddRegionPage, LoopOver, FillInv, AddInv
    <2>2. /\ page' = page + 1 /\ bitmap' = bitmap \ {page}
          /\ UNCHANGED <<pc, mmap, entry, end, held>>
      BY <1>3 DEF AddRegionPage, AddPage, clear_page, page_used
    <2>3. s \in Nat
      <3>1. mmap[entry].base \in Nat /\ mmap[entry].length \in Nat
        BY <2>1, BootAssumption DEF IsEntry
      <3> QED  BY <3>1, BoundsNat
    <2>4. \A p \in Pages : AddedUpTo(entry - 1, p)' <=> AddedUpTo(entry - 1, p)
      BY <2>2 DEF AddedUpTo
    <2>5. \A p \in Pages : s <= p /\ p < page + 1 <=> (s <= p /\ p < page) \/ p = page
      BY <2>1, <2>3 DEF Pages
    <2>6. AddInv'
      BY <2>1, <2>2, <2>3, <2>4, <2>5 DEF AddInv
    <2> QED
      BY <2>1, <2>2, <2>6
      DEF FillInv, WalkInv, ReserveInv, RunInv, GrantsExclusive
  <1>4. CASE AddRegionDone
    <2> DEFINE e == mmap[entry]
               s == AddStart(e.base, e.length)
    <2>1. /\ pc = "add" /\ entry <= Len(mmap) /\ held = {}
          /\ page = end \/ page >= MAX_PAGES
          /\ e.type = AVAILABLE /\ page <= end
          /\ end = AddEnd(e.base, e.length)
          /\ \A p \in Pages : p \notin bitmap <=>
               AddedUpTo(entry - 1, p) \/ (s <= p /\ p < page)
      BY <1>4, PmmAssumption DEF AddRegionDone, LoopOver, FillInv, AddInv
    <2>2. /\ pc' = "mmap" /\ entry' = entry + 1
          /\ UNCHANGED <<bitmap, mmap, held>>
      BY <1>4 DEF AddRegionDone
    <2>3. \A p \in Pages : InAdded(e, p) <=> s <= p /\ p < page
      BY <2>1, PmmAssumption DEF InAdded, Pages
    <2>4. \A p \in Pages : AddedUpTo(entry, p) <=> AddedUpTo(entry - 1, p) \/ InAdded(e, p)
      BY DEF AddedUpTo
    <2>5. \A p \in Pages : AddedUpTo(entry - 1, p)' <=> AddedUpTo(entry, p)
      BY <2>2 DEF AddedUpTo
    <2>6. Len(mmap) \in Nat  BY BootAssumption
    <2>7. WalkInv'
      BY <2>1, <2>2, <2>3, <2>4, <2>5, <2>6 DEF WalkInv
    <2> QED
      BY <2>1, <2>2, <2>7
      DEF FillInv, AddInv, ReserveInv, RunInv, GrantsExclusive
  <1>5. CASE ReserveKernel
    <2>1. /\ pc = "mmap" /\ entry = Len(mmap) + 1 /\ held = {}
          /\ \A p \in Pages : p \notin bitmap <=> AddedUpTo(entry - 1, p)
      BY <1>5, BootAssumption DEF ReserveKernel, FillInv, WalkInv
    <2>2. /\ pc' = "reserve" /\ page' = KStart /\ end' = KEnd
          /\ UNCHANGED <<bitmap, mmap, held>>
      BY <1>5 DEF ReserveKernel, KStart, KEnd
    <2>3. entry - 1 = Len(mmap)  BY <2>1, BootAssumption
    <2>4. \A p \in Pages : AddedUpTo(Len(mmap), p)' <=> AddedUpTo(Len(mmap), p)
      BY <2>2 DEF AddedUpTo
    <2>5. \A p \in Pages : ~(KStart <= p /\ p < KStart)
      BY KernelBounds DEF Pages
    <2>6. ReserveInv'
      BY <2>1, <2>2, <2>3, <2>4, <2>5, KernelBounds DEF ReserveInv, KStart, KEnd
    <2> QED
      BY <2>1, <2>2, <2>6
      DEF FillInv, WalkInv, AddInv, RunInv, GrantsExclusive
  <1>6. CASE ReserveRegionPage
    <2>1. /\ pc = "reserve" /\ held = {} /\ KStart <= page /\ end = KEnd
          /\ page < end /\ page < MAX_PAGES
          /\ \A p \in Pages : p \notin bitmap <=>
               AddedUpTo(Len(mmap), p) /\ ~(KStart <= p /\ p < page)
      BY <1>6, PmmAssumption
      DEF ReserveRegionPage, LoopOver, FillInv, ReserveInv
    <2>2. /\ page' = page + 1 /\ bitmap' = bitmap \cup {page}
          /\ UNCHANGED <<pc, mmap, entry, end, held>>
      BY <1>6 DEF ReserveRegionPage, ReservePage, set_page, page_used
    <2>3. \A p \in Pages : AddedUpTo(Len(mmap), p)' <=> AddedUpTo(Len(mmap), p)
      BY <2>2 DEF AddedUpTo
    <2>4. \A p \in Pages :
            KStart <= p /\ p < page + 1 <=> (KStart <= p /\ p < page) \/ p = page
      BY <2>1, KernelBounds DEF Pages
    <2>5. ReserveInv'
      BY <2>1, <2>2, <2>3, <2>4, KernelBounds DEF ReserveInv, KStart, KEnd
    <2> QED
      BY <2>1, <2>2, <2>5
      DEF FillInv, WalkInv, AddInv, RunInv, GrantsExclusive
  <1>7. CASE ReserveRegionDone
    <2>1. /\ pc = "reserve" /\ held = {}
          /\ page = KEnd \/ (page >= MAX_PAGES /\ page <= KEnd)
          /\ \A p \in Pages : p \notin bitmap <=>
               AddedUpTo(Len(mmap), p) /\ ~(KStart <= p /\ p < page)
      BY <1>7, PmmAssumption, KernelBounds
      DEF ReserveRegionDone, LoopOver, FillInv, ReserveInv
    <2>2. pc' = "run" /\ UNCHANGED <<bitmap, mmap, held>>
      BY <1>7 DEF ReserveRegionDone
    <2>3. \A p \in Pages : AddedUpTo(Len(mmap), p)' <=> AddedUpTo(Len(mmap), p)
      BY <2>2 DEF AddedUpTo
    <2>4. \A p \in Pages : p < page <=> p < KEnd
      BY <2>1, PmmAssumption, KernelBounds DEF Pages
    <2>5. RunInv'
      BY <2>1, <2>2, <2>3, <2>4 DEF RunInv, KStart, KEnd
    <2> QED
      BY <2>1, <2>2, <2>5
      DEF FillInv, WalkInv, AddInv, ReserveInv, GrantsExclusive
  <1>8. ASSUME pc = "run", pc' = "run", mmap' = mmap,
               \A p \in Pages : (p \notin bitmap \/ p \in held)
                                <=> (p \notin bitmap' \/ p \in held'),
               held' \subseteq bitmap', 0 \notin held'
        PROVE  FillInv'
    <2>1. \A p \in Pages : AddedUpTo(Len(mmap), p)' <=> AddedUpTo(Len(mmap), p)
      BY <1>8 DEF AddedUpTo
    <2>2. RunInv'
      BY <1>8, <2>1 DEF RunInv, FillInv, KStart, KEnd
    <2> QED
      BY <1>8, <2>2
      DEF FillInv, WalkInv, AddInv, ReserveInv, GrantsExclusive
  <1>9. CASE AllocFails \/ AllocLowFails
    BY <1>8, <1>9 DEF AllocFails, AllocLowFails, FillInv, GrantsExclusive
  <1>10. ASSUME NEW p \in Pages, Alloc(p) \/ AllocLow(p)  PROVE FillInv'
    <2>1. p # 0 /\ p \notin bitmap
      BY <1>10, PmmAssumption
      DEF Alloc, AllocLow, pmm_alloc_page, pmm_alloc_page_low, FirstFree,
          page_used
    <2>2. /\ pc = "run" /\ pc' = "run" /\ mmap' = mmap
          /\ bitmap' = bitmap \cup {p} /\ held' = held \cup {p}
      BY <1>10
      DEF Alloc, AllocLow, pmm_alloc_page, pmm_alloc_page_low, TakePage, set_page
    <2> QED  BY <1>8, <2>1, <2>2 DEF FillInv, GrantsExclusive
  <1>11. ASSUME NEW address \in Addresses, Free(address)  PROVE FillInv'
    <2>1. CASE FreeIgnored(address)
      BY <1>8, <1>11, <2>1 DEF Free, pmm_free_page, FillInv, GrantsExclusive
    <2>2. CASE ~FreeIgnored(address)
      <3> DEFINE q == address \div PMM_PAGE_SIZE
      <3>1. /\ pc = "run" /\ pc' = "run" /\ mmap' = mmap /\ q \in held
            /\ bitmap' = bitmap \ {q} /\ held' = held \ {q}
        BY <1>11, <2>2 DEF Free, pmm_free_page, clear_page
      <3> HIDE DEF q
      <3> QED  BY <1>8, <3>1 DEF FillInv, GrantsExclusive
    <2> QED  BY <2>1, <2>2
  <1>12. CASE UNCHANGED vars
    <2>1. \A n, p : AddedUpTo(n, p)' <=> AddedUpTo(n, p)
      BY <1>12 DEF vars, AddedUpTo
    <2> QED
      BY <1>12, <2>1
      DEF vars, FillInv, WalkInv, AddInv, ReserveInv, RunInv, GrantsExclusive,
          KStart, KEnd
  <1> QED
    BY <1>1, <1>2, <1>3, <1>4, <1>5, <1>6, <1>7, <1>9, <1>10, <1>11, <1>12
    DEF Next

-----------------------------------------------------------------------------
(* From page numbers back to bytes.                                         *)

(* A page number is below a rounded-down quotient iff the whole page fits.  *)
LEMMA BelowFloor ==
  ASSUME NEW x \in Nat, NEW n \in Nat, n > 0, NEW p \in Nat
  PROVE  p < x \div n <=> (p + 1) * n <= x
  <1> DEFINE q == x \div n
  <1>1. q \in Nat /\ q * n <= x /\ x < q * n + n  BY DivMod
  <1> HIDE DEF q
  <1>2. ASSUME p + 1 <= q  PROVE (p + 1) * n <= q * n
    <2>1. PICK d \in Nat : q = p + 1 + d  BY <1>1, <1>2, q - (p + 1) \in Nat
    <2>2. q * n = (p + 1) * n + d * n /\ d * n \in Nat  BY <2>1
    <2> QED  BY <2>2
  <1>3. ASSUME q + 1 <= p + 1  PROVE (q + 1) * n <= (p + 1) * n
    <2>1. PICK d \in Nat : p + 1 = q + 1 + d
      BY <1>1, <1>3, (p + 1) - (q + 1) \in Nat
    <2>2. (p + 1) * n = (q + 1) * n + d * n /\ d * n \in Nat  BY <1>1, <2>1
    <2> QED  BY <1>1, <2>2
  <1>4. (q + 1) * n = q * n + n  BY <1>1
  <1>5. (p + 1) * n \in Nat /\ q * n \in Nat  BY <1>1
  <1> QED  BY <1>1, <1>2, <1>3, <1>4, <1>5 DEF q

(* A rounded-up quotient is at most p iff the bytes before end by page p.   *)
LEMMA CeilAtMost ==
  ASSUME NEW x \in Nat, NEW n \in Nat, n > 0, NEW p \in Nat
  PROVE  (x + n - 1) \div n <= p <=> x <= p * n
  <1>1. x + n - 1 \in Nat  OBVIOUS
  <1>2. p < (x + n - 1) \div n <=> (p + 1) * n <= x + n - 1
    BY <1>1, BelowFloor
  <1>3. (p + 1) * n = p * n + n /\ p * n \in Nat  OBVIOUS
  <1>4. (x + n - 1) \div n \in Nat  BY <1>1, DivMod
  <1> QED  BY <1>2, <1>3, <1>4

(* The loop of pmm_add_region covers exactly the pages inside the region.   *)
LEMMA AddedGeometry ==
  ASSUME NEW e, IsEntry(e), NEW p \in Pages
  PROVE  InAdded(e, p) <=>
           /\ e.type = AVAILABLE
           /\ e.base <= p * PMM_PAGE_SIZE
           /\ (p + 1) * PMM_PAGE_SIZE <= e.base + e.length
  <1> DEFINE b == e.base
             l == e.length
             n == PMM_PAGE_SIZE
  <1>1. /\ b \in Nat /\ l \in Nat /\ n \in Nat /\ n > 0 /\ p \in Nat
        /\ WORD \in Nat /\ b + l + n <= WORD
    BY PmmAssumption DEF IsEntry, Pages
  <1> HIDE DEF b, l, n
  <1>2. (b + n - 1) % WORD = b + n - 1 /\ (b + l) % WORD = b + l
    BY <1>1, ModSmall, b + n - 1 \in Nat, b + l \in Nat, b + n - 1 < WORD,
       b + l < WORD
  <1>3. (b + n - 1) \div n <= p <=> b <= p * n
    BY <1>1, CeilAtMost
  <1>4. p < (b + l) \div n <=> (p + 1) * n <= b + l
    BY <1>1, BelowFloor, b + l \in Nat
  <1> QED  BY <1>2, <1>3, <1>4 DEF InAdded, AddStart, AddEnd, b, l, n

(* The loop of pmm_reserve_region covers exactly the pages the image        *)
(* touches.                                                                 *)
LEMMA KernelGeometry ==
  ASSUME NEW p \in Pages
  PROVE  KStart <= p /\ p < KEnd <=> p \in KernelPages
  <1> DEFINE n == PMM_PAGE_SIZE
             k == kernel_start + (kernel_end - kernel_start)
  <1>1. /\ n \in Nat /\ n > 0 /\ p \in Nat /\ k = kernel_end
        /\ WORD \in Nat /\ kernel_start \in Nat /\ kernel_end \in Nat
        /\ kernel_end + n <= WORD
    BY PmmAssumption, BootAssumption DEF Pages
  <1> HIDE DEF n, k
  <1>2. (k + n - 1) % WORD = k + n - 1
    BY <1>1, ModSmall, k + n - 1 \in Nat, k + n - 1 < WORD
  <1>3. (kernel_end + n - 1) \div n <= p <=> kernel_end <= p * n
    BY <1>1, CeilAtMost
  <1>4. p < kernel_start \div n <=> (p + 1) * n <= kernel_start
    BY <1>1, BelowFloor
  <1>5. /\ kernel_start \div n \in Nat
        /\ (kernel_end + n - 1) \div n \in Nat
    BY <1>1, DivMod, kernel_end + n - 1 \in Nat
  <1>6. p * n \in Nat /\ (p + 1) * n \in Nat  BY <1>1
  <1>7. KStart = kernel_start \div n /\ KEnd = (kernel_end + n - 1) \div n
    BY <1>1, <1>2 DEF KStart, KEnd, ReserveStart, ReserveEnd, n, k
  <1> QED  BY <1>1, <1>3, <1>4, <1>5, <1>6, <1>7 DEF KernelPages, n

(* In a running kernel the description of the bitmap is PagesConserved.     *)
LEMMA FillConserves ==
  ASSUME TypeOK, FillInv
  PROVE  PagesConserved
  <1> SUFFICES ASSUME pc = "run"  PROVE FreeSet \cup held = RamPages \ KernelPages
    BY DEF PagesConserved
  <1>1. \A i \in 1 .. Len(mmap) : IsEntry(mmap[i])
    BY BootAssumption DEF TypeOK
  <1>2. \A p \in Pages : AddedUpTo(Len(mmap), p) <=> p \in RamPages
    BY <1>1, AddedGeometry DEF AddedUpTo, RamPages
  <1>3. \A p \in Pages : p \notin bitmap \/ p \in held <=>
          p \in RamPages /\ p \notin KernelPages
    BY <1>2, KernelGeometry DEF FillInv, RunInv
  <1>4. held \subseteq Pages /\ RamPages \subseteq Pages
    BY DEF TypeOK, RamPages
  <1> QED  BY <1>3, <1>4 DEF FreeSet

(* The description of the bitmap holds throughout.                          *)
LEMMA FillCorrect == Spec => []FillInv
  <1>1. Init => FillInv
    BY DEF Init, FillInv, WalkInv, AddInv, ReserveInv, RunInv, GrantsExclusive
  <1>2. TypeOK /\ FillInv /\ [Next]_vars => FillInv'
    BY FillStep
  <1> QED  BY <1>1, <1>2, TypeCorrect, PTL DEF Spec

(* No page of the kernel image, of a hole or outside the memory map is ever *)
(* free or handed out once the kernel runs, and no page of RAM is lost.     *)
THEOREM ConservationCorrect == Spec => []PagesConserved
  <1>1. TypeOK /\ FillInv => PagesConserved
    BY FillConserves
  <1> QED  BY <1>1, TypeCorrect, FillCorrect, PTL

(* A page is never handed out twice and never is the failure value.         *)
THEOREM GrantsCorrect == Spec => []GrantsExclusive
  <1>1. FillInv => GrantsExclusive
    BY DEF FillInv
  <1> QED  BY <1>1, FillCorrect, PTL

-----------------------------------------------------------------------------
(* The boot sequence and the PMM implement FrameAllocator, for every memory *)
(* size, memory map and kernel image.                                       *)

(* The frame of the address of a frame.                                     *)
LEMMA FrameOfAddress ==
  ASSUME NEW p \in Nat, NEW n \in Nat, n > 0
  PROVE  (p * n) \div n = p
  <1> DEFINE q == (p * n) \div n
  <1>1. p * n \in Nat  OBVIOUS
  <1>2. q \in Nat /\ q * n <= p * n /\ p * n < q * n + n  BY <1>1, DivMod
  <1> HIDE DEF q
  <1>3. ASSUME q + 1 <= p  PROVE FALSE
    <2>1. (q + 1) * n <= p * n  BY <1>2, <1>3
    <2> QED  BY <1>2, <2>1
  <1>4. ASSUME p + 1 <= q  PROVE FALSE
    <2>1. (p + 1) * n <= q * n  BY <1>2, <1>4
    <2> QED  BY <1>2, <2>1
  <1> QED  BY <1>2, <1>3, <1>4 DEF q

(* The first state maps to the first state of the allocator.                *)
LEMMA AllocatorInit ==
  ASSUME Init
  PROVE  Allocator!Init
  <1>1. 0 \div PMM_PAGE_SIZE = 0  BY PmmAssumption
  <1> QED
    BY <1>1 DEF Init, NoCall, Allocator!Init, Allocator!NoAnswer, Grantable, LimitOf

(* What the allocator is there to hand out is fixed by the memory map.      *)
LEMMA RamFixed ==
  ASSUME mmap' = mmap
  PROVE  (RamPages \ KernelPages)' = RamPages \ KernelPages
  BY DEF RamPages, KernelPages

(* A step of the boot loops before the last is invisible.                   *)
LEMMA BootStutters ==
  ASSUME pc # "run", pc' # "run", UNCHANGED <<mmap, held, ret>>
  PROVE  UNCHANGED Allocator!vars
  BY RamFixed DEF Allocator!vars, Grantable

(* Leaving the last loop opens the allocator on the whole RAM.              *)
LEMMA RunOpens ==
  ASSUME FillInv, PagesConserved', ReserveRegionDone
  PROVE  Allocator!Open
  <1>1. /\ held' = {} /\ held = {} /\ pc # "run" /\ pc' = "run"
        /\ mmap' = mmap /\ ret' = ret
    BY DEF FillInv, ReserveInv, ReserveRegionDone
  <1>2. FreeSet' = (RamPages \ KernelPages)'
    BY <1>1 DEF PagesConserved
  <1>3. Grantable' = RamPages \ KernelPages
    BY <1>1, <1>2, RamFixed DEF Grantable
  <1> QED  BY <1>1, <1>3, RamFixed DEF Allocator!Open

(* A call leaves the allocator open and its RAM as it was.                  *)
LEMMA CallContext ==
  ASSUME pc = "run", UNCHANGED bootVars
  PROVE  /\ pc' = "run" /\ Grantable = FreeSet /\ Grantable' = FreeSet'
         /\ (RamPages \ KernelPages)' = RamPages \ KernelPages
  BY RamFixed DEF bootVars, Grantable

(* The scan of an allocator finds a page below its limit; taking it out of  *)
(* the bitmap is a grant.                                                   *)
LEMMA TakeGrants ==
  ASSUME NEW p \in Pages, NEW op, NEW limit \in {LOW_PAGES, MAX_PAGES},
         pc = "run", UNCHANGED bootVars, limit = LimitOf(op),
         FirstFree(p, limit), TakePage(p), held' = held \cup {p},
         ret' = [op |-> op, address |-> p * PMM_PAGE_SIZE]
  PROVE  Allocator!Next
  <1>1. (p * PMM_PAGE_SIZE) \div PMM_PAGE_SIZE = p
    BY FrameOfAddress, PmmAssumption DEF Pages
  <1>2. p \in Grantable /\ p \in 1 .. limit - 1
    BY CallContext DEF FirstFree, page_used, FreeSet
  <1>3. Grantable' = Grantable \ {p}
    BY CallContext DEF TakePage, set_page, FreeSet
  <1>4. Allocator!Grant(limit, p)
    BY <1>1, <1>2, <1>3, CallContext DEF Allocator!Grant
  <1> QED  BY <1>2, <1>4 DEF Allocator!Next

(* An allocator returns 0 only when no page below its limit is free.        *)
LEMMA FailureRefuses ==
  ASSUME NEW op, NEW limit \in {LOW_PAGES, MAX_PAGES},
         pc = "run", UNCHANGED <<pmmVars, bootVars, held>>, limit = LimitOf(op),
         NoneFree(limit), ret' = [op |-> op, address |-> 0]
  PROVE  Allocator!Next
  <1>1. 0 \div PMM_PAGE_SIZE = 0  BY PmmAssumption
  <1>2. Grantable \cap 1 .. limit - 1 = {}
    BY CallContext DEF NoneFree, page_used, FreeSet
  <1>3. Grantable' = Grantable
    BY CallContext DEF pmmVars, FreeSet
  <1>4. Allocator!Refuse(limit)
    BY <1>1, <1>2, <1>3, CallContext DEF Allocator!Refuse
  <1> QED  BY <1>4 DEF Allocator!Next

(* A free gives a held page back, or does nothing.                          *)
LEMMA FreeReturns ==
  ASSUME TypeOK, NEW address \in Addresses, Free(address)
  PROVE  Allocator!Next
  <1> DEFINE f == address \div PMM_PAGE_SIZE
  <1>1. 0 \div PMM_PAGE_SIZE = 0  BY PmmAssumption
  <1>2. pc = "run" /\ UNCHANGED bootVars /\ ret' = NoCall
    BY DEF Free
  <1>3. CASE FreeIgnored(address)
    <2>1. held' = held /\ Grantable' = Grantable
      BY <1>2, <1>3, CallContext DEF Free, pmm_free_page, FreeSet
    <2>2. Allocator!Ignore
      BY <1>1, <1>2, <2>1, CallContext
      DEF Allocator!Ignore, Allocator!NoAnswer, NoCall, LimitOf
    <2> QED  BY <2>2 DEF Allocator!Next
  <1>4. CASE ~FreeIgnored(address)
    <2>1. f \in held /\ held' = held \ {f} /\ bitmap' = bitmap \ {f}
      BY <1>4 DEF Free, pmm_free_page, clear_page
    <2>2. f \in Pages  BY <1>4, FreedIsUsed
    <2>3. Grantable' = Grantable \cup {f}
      BY <1>2, <2>1, <2>2, CallContext DEF FreeSet
    <2>4. Allocator!Return(f)
      BY <1>1, <1>2, <2>1, <2>3, CallContext
      DEF Allocator!Return, Allocator!NoAnswer, NoCall, LimitOf
    <2> QED  BY <2>1, <2>4 DEF Allocator!Next
  <1> QED  BY <1>3, <1>4

(* Every step of the kernel is a step of the allocator or invisible to it.  *)
LEMMA AllocatorStep ==
  ASSUME TypeOK, FillInv, PagesConserved', [Next]_vars
  PROVE  [Allocator!Next]_Allocator!vars
  <1>1. CASE \/ InitPmm \/ MmapEntry \/ AddRegionPage \/ AddRegionDone
             \/ ReserveKernel \/ ReserveRegionPage
    BY <1>1, BootStutters
    DEF InitPmm, MmapEntry, AddRegionPage, AddRegionDone, ReserveKernel,
        ReserveRegionPage
  <1>2. CASE ReserveRegionDone
    BY <1>2, RunOpens DEF Allocator!Next
  <1>3. CASE AllocFails
    BY <1>3, FailureRefuses DEF AllocFails, LimitOf
  <1>4. CASE AllocLowFails
    BY <1>4, FailureRefuses DEF AllocLowFails, LimitOf
  <1>5. ASSUME NEW p \in Pages, Alloc(p)
        PROVE  Allocator!Next
    BY <1>5, TakeGrants DEF Alloc, pmm_alloc_page, LimitOf
  <1>6. ASSUME NEW p \in Pages, AllocLow(p)
        PROVE  Allocator!Next
    BY <1>6, TakeGrants DEF AllocLow, pmm_alloc_page_low, LimitOf
  <1>7. ASSUME NEW address \in Addresses, Free(address)
        PROVE  Allocator!Next
    BY <1>7, FreeReturns
  <1>8. CASE UNCHANGED vars
    BY <1>8, RamFixed
    DEF vars, pmmVars, bootVars, Allocator!vars, Grantable, FreeSet
  <1> QED
    BY <1>1, <1>2, <1>3, <1>4, <1>5, <1>6, <1>7, <1>8 DEF Next

(* The boot sequence of _main and pmm_alloc_page, pmm_alloc_page_low and    *)
(* pmm_free_page implement the abstract allocator: after boot a caller gets *)
(* a frame of RAM that nobody holds, is refused only when none is left      *)
(* below its limit, and can give the frame back.                            *)
THEOREM AllocatorCorrect == Spec => AllocatorImplemented
  <1>1. Init => Allocator!Init
    BY AllocatorInit
  <1>2. TypeOK /\ FillInv /\ PagesConserved' /\ [Next]_vars
          => [Allocator!Next]_Allocator!vars
    BY AllocatorStep
  <1> QED
    BY <1>1, <1>2, TypeCorrect, FillCorrect, ConservationCorrect, PTL
    DEF Spec, AllocatorImplemented, Allocator!Spec

=============================================================================
