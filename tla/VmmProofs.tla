----------------------------- MODULE VmmProofs ------------------------------
(***************************************************************************)
(* Proofs about the page tables: the stores of map_page and unmap_page keep *)
(* them a tree, a new table shows the CPU nothing when it is linked, and an *)
(* entry that is written changes the translation of one page only.  For     *)
(* every size of a table and every number of low frames.                    *)
(***************************************************************************)
EXTENDS Vmm, TLAPS

-----------------------------------------------------------------------------
(* The tree.                                                                *)

(* The entries of m that point to a table of the window: lv gives the level *)
(* of each table, and entry 0 of the top table is the identity map.         *)
Dir(lv, f, i) == lv[f] \in 2 .. 4 /\ ~(f = PML4 /\ i = 0)

(* The top table has level 4, the frames in taken are the tables below it,  *)
(* and the identity map stands.                                             *)
LevelsOK(lv, m, taken) ==
  /\ lv \in [Low -> 0 .. 4] /\ m \in [Low -> [Index -> Entry]]
  /\ taken \subseteq Low \ (Statics \cup {0})
  /\ \A f \in Low : lv[f] \in 1 .. 3 <=> f \in taken
  /\ \A f \in Low : lv[f] = 4 <=> f = PML4

IdentityOK(m) ==
  /\ m[PML4][0] = PresentEntry(PDPT) /\ m[PDPT][0] = PresentEntry(PD)
  /\ \A i \in Index : m[PD][i] = LargeEntry(i)

(* Every entry points one level down, the empty ones of a page table are    *)
(* zero, no two entries point to the same table, and no table is lost.      *)
EntriesOK(lv, m, taken) ==
  /\ \A f \in Low, i \in Index : Dir(lv, f, i) /\ m[f][i].present =>
       ~m[f][i].ps /\ m[f][i].page \in Low /\ lv[m[f][i].page] = lv[f] - 1
  /\ \A f \in Low, i \in Index : lv[f] = 1 /\ ~m[f][i].present => m[f][i].page = 0
  /\ \A f, g \in Low, i, j \in Index :
       /\ Dir(lv, f, i) /\ Dir(lv, g, j) /\ m[f][i].present /\ m[g][j].present
       /\ m[f][i].page = m[g][j].page
       => f = g /\ i = j
  /\ \A t \in taken : \E f \in Low, i \in Index :
       Dir(lv, f, i) /\ m[f][i].present /\ m[f][i].page = t

TreeOK(lv, m, taken) ==
  LevelsOK(lv, m, taken) /\ IdentityOK(m) /\ EntriesOK(lv, m, taken)

LEMMA LowFacts ==
  /\ PML4 \in Low /\ PDPT \in Low /\ PD \in Low /\ 0 \in Low
  /\ PML4 # 0 /\ PDPT # 0 /\ PD # 0 /\ 0 \in Index /\ JunkPage \in Low
  /\ Low \subseteq Nat /\ Index \subseteq Nat
  /\ \A f \in Low : f < IDENTITY_PAGES
  <1>1. LOW_PAGES \in Nat /\ PAGE_ENTRIES \in Nat /\ PAGE_ENTRIES > 1
    BY PmmAssumption, VmmAssumption
  <1>2. IDENTITY_PAGES \in Nat  BY <1>1 DEF IDENTITY_PAGES
  <1> QED  BY <1>1, <1>2, VmmAssumption DEF Low, Index, Statics

-----------------------------------------------------------------------------
(* Walks.                                                                   *)

(* The pages outside the entry of the top table that maps the kernel.       *)
High(v) ==
  /\ \A k \in 1 .. 4 : IndexOf(v, k) \in Index
  /\ IndexOf(v, 4) # 0

E4(m, v) == m[PML4][IndexOf(v, 4)]
E3(m, v) == m[E4(m, v).page][IndexOf(v, 3)]
E2(m, v) == m[E3(m, v).page][IndexOf(v, 2)]
E1(m, v) == m[E2(m, v).page][IndexOf(v, 1)]

Has3(m, v) == E4(m, v).present
Has2(m, v) == Has3(m, v) /\ E3(m, v).present
Has1(m, v) == Has2(m, v) /\ E2(m, v).present

(* The table of level k on the way to v is t.                               *)
Reached(m, v, k, t) ==
  \/ k = 4 /\ t = PML4
  \/ k = 3 /\ Has3(m, v) /\ t = E4(m, v).page
  \/ k = 2 /\ Has2(m, v) /\ t = E3(m, v).page
  \/ k = 1 /\ Has1(m, v) /\ t = E2(m, v).page

(* What the CPU finds.                                                      *)
Seen(m, v) == IF Has1(m, v) /\ E1(m, v).present THEN E1(m, v).page ELSE NoPage

LEMMA WalkFacts ==
  ASSUME NEW lv, NEW m, NEW taken, TreeOK(lv, m, taken), NEW v, High(v)
  PROVE  /\ E4(m, v) \in Entry
         /\ Has3(m, v) => /\ E4(m, v).page \in Low /\ lv[E4(m, v).page] = 3
                          /\ E3(m, v) \in Entry
         /\ Has2(m, v) => /\ E3(m, v).page \in Low /\ lv[E3(m, v).page] = 2
                          /\ E2(m, v) \in Entry
         /\ Has1(m, v) => /\ E2(m, v).page \in Low /\ lv[E2(m, v).page] = 1
                          /\ E1(m, v) \in Entry /\ ~E2(m, v).ps
  <1> USE LowFacts DEF TreeOK
  <1>0. \A f \in Low, i \in Index : m[f][i] \in Entry  BY DEF LevelsOK
  <1>1. /\ IndexOf(v, 4) \in Index /\ IndexOf(v, 3) \in Index /\ IndexOf(v, 2) \in Index
        /\ IndexOf(v, 1) \in Index /\ IndexOf(v, 4) # 0
    BY DEF High
  <1> HIDE DEF High
  <1>2. lv[PML4] = 4 /\ \A f \in Low : lv[f] \in 0 .. 4  BY DEF LevelsOK
  <1>3. \A f \in Low, i \in Index : Dir(lv, f, i) /\ m[f][i].present =>
          ~m[f][i].ps /\ m[f][i].page \in Low /\ lv[m[f][i].page] = lv[f] - 1
    BY DEF EntriesOK
  <1>4. E4(m, v) \in Entry  BY <1>0, <1>1 DEF E4
  <1>5. Has3(m, v) => E4(m, v).page \in Low /\ lv[E4(m, v).page] = 3
    <2>1. Dir(lv, PML4, IndexOf(v, 4))  BY <1>1, <1>2 DEF Dir
    <2>2. E4(m, v).present => E4(m, v).page \in Low /\ lv[E4(m, v).page] = lv[PML4] - 1
      BY <1>1, <1>3, <2>1, Zenon DEF E4
    <2> QED  BY <1>2, <2>2 DEF Has3
  <1>6. Has3(m, v) => E3(m, v) \in Entry  BY <1>0, <1>1, <1>5 DEF E3
  <1>7. Has2(m, v) => E3(m, v).page \in Low /\ lv[E3(m, v).page] = 2
    <2> SUFFICES ASSUME Has2(m, v) PROVE E3(m, v).page \in Low /\ lv[E3(m, v).page] = 2
      OBVIOUS
    <2> DEFINE f == E4(m, v).page
    <2>1. f \in Low /\ lv[f] = 3  BY <1>5 DEF Has2
    <2>2. f # PML4  BY <1>2, <2>1
    <2>3. Dir(lv, f, IndexOf(v, 3))  BY <2>1, <2>2 DEF Dir
    <2>4. m[f][IndexOf(v, 3)].present  BY DEF Has2, E3
    <2> HIDE DEF f
    <2>5. m[f][IndexOf(v, 3)].page \in Low /\ lv[m[f][IndexOf(v, 3)].page] = lv[f] - 1
      BY <1>1, <1>3, <2>1, <2>3, <2>4, Zenon
    <2> QED  BY <2>1, <2>5 DEF E3, f
  <1>8. Has2(m, v) => E2(m, v) \in Entry  BY <1>0, <1>1, <1>7 DEF E2
  <1>9. Has1(m, v) => E2(m, v).page \in Low /\ lv[E2(m, v).page] = 1 /\ ~E2(m, v).ps
    <2> SUFFICES ASSUME Has1(m, v)
                 PROVE  E2(m, v).page \in Low /\ lv[E2(m, v).page] = 1 /\ ~E2(m, v).ps
      OBVIOUS
    <2> DEFINE f == E3(m, v).page
    <2>1. f \in Low /\ lv[f] = 2  BY <1>7 DEF Has1
    <2>2. f # PML4  BY <1>2, <2>1
    <2>3. Dir(lv, f, IndexOf(v, 2))  BY <2>1, <2>2 DEF Dir
    <2>4. m[f][IndexOf(v, 2)].present  BY DEF Has1, E2
    <2> HIDE DEF f
    <2>5. /\ m[f][IndexOf(v, 2)].page \in Low /\ lv[m[f][IndexOf(v, 2)].page] = lv[f] - 1
          /\ ~m[f][IndexOf(v, 2)].ps
      BY <1>1, <1>3, <2>1, <2>3, <2>4, Zenon
    <2> QED  BY <2>1, <2>5 DEF E2, f
  <1>10. Has1(m, v) => E1(m, v) \in Entry  BY <1>0, <1>1, <1>9 DEF E1
  <1> QED  BY <1>4, <1>5, <1>6, <1>7, <1>8, <1>9, <1>10

(* The walk of the CPU through the tables m, and what it finds.             *)
HwOf(m, v) ==
  LET At(page) == IF page \in Low THEN m[page] ELSE JunkTable
      e4 == m[PML4][IndexOf(v, 4)]
      e3 == At(e4.page)[IndexOf(v, 3)]
      e2 == At(e3.page)[IndexOf(v, 2)]
      e1 == At(e2.page)[IndexOf(v, 1)]
  IN IF ~e4.present \/ ~e3.present \/ ~e2.present THEN NoPage
     ELSE IF e2.ps THEN e2.page + IndexOf(v, 1)
     ELSE IF ~e1.present THEN NoPage
     ELSE e1.page

LEMMA HwOfFacts == \A v : HwWalk(v) = HwOf(mem, v) /\ HwWalk(v)' = HwOf(mem', v)
  BY DEF HwWalk, HwOf, TableAt

LEMMA SeenByCpu ==
  ASSUME NEW lv, NEW m, NEW taken, TreeOK(lv, m, taken), NEW v, High(v)
  PROVE  HwOf(m, v) = Seen(m, v)
  <1> DEFINE At(page) == IF page \in Low THEN m[page] ELSE JunkTable
             e4 == m[PML4][IndexOf(v, 4)]
             e3 == At(e4.page)[IndexOf(v, 3)]
             e2 == At(e3.page)[IndexOf(v, 2)]
             e1 == At(e2.page)[IndexOf(v, 1)]
  <1>1. e4 = E4(m, v)  BY DEF E4
  <1>2. Has3(m, v) => e3 = E3(m, v)  BY <1>1, WalkFacts DEF E3
  <1>3. Has2(m, v) => e2 = E2(m, v)  BY <1>2, WalkFacts DEF E2, Has2
  <1>4. Has1(m, v) => e1 = E1(m, v)  BY <1>3, WalkFacts DEF E1, Has1
  <1>5. HwOf(m, v) = IF ~e4.present \/ ~e3.present \/ ~e2.present THEN NoPage
                     ELSE IF e2.ps THEN e2.page + IndexOf(v, 1)
                     ELSE IF ~e1.present THEN NoPage
                     ELSE e1.page
    BY DEF HwOf
  <1> HIDE DEF e4, e3, e2, e1
  <1>6. Has3(m, v) <=> e4.present  BY <1>1 DEF Has3
  <1>7. Has2(m, v) <=> e4.present /\ e3.present  BY <1>2, <1>6 DEF Has2
  <1>8. Has1(m, v) <=> e4.present /\ e3.present /\ e2.present  BY <1>3, <1>7 DEF Has1
  <1>9. CASE ~Has1(m, v)  BY <1>5, <1>8, <1>9 DEF Seen
  <1>10. CASE Has1(m, v)
    <2>1. ~e2.ps  BY <1>3, <1>10, WalkFacts DEF Has1
    <2> QED  BY <1>4, <1>5, <1>8, <1>10, <2>1 DEF Seen
  <1> QED  BY <1>9, <1>10

(* Tables of the upper levels that do not change lead to the same place.    *)
LEMMA SamePath ==
  ASSUME NEW lv, NEW m, NEW taken, TreeOK(lv, m, taken), NEW v, High(v), NEW n,
         \A f \in Low : lv[f] \in 2 .. 4 => n[f] = m[f]
  PROVE  /\ E4(n, v) = E4(m, v) /\ (Has3(n, v) <=> Has3(m, v))
         /\ Has3(m, v) => E3(n, v) = E3(m, v)
         /\ Has2(n, v) <=> Has2(m, v)
         /\ Has2(m, v) => E2(n, v) = E2(m, v)
         /\ Has1(n, v) <=> Has1(m, v)
         /\ \A k, t : Reached(n, v, k, t) <=> Reached(m, v, k, t)
  <1>1. PML4 \in Low /\ lv[PML4] = 4  BY LowFacts DEF TreeOK, LevelsOK
  <1>2. E4(n, v) = E4(m, v)  BY <1>1 DEF E4
  <1>3. Has3(n, v) <=> Has3(m, v)  BY <1>2 DEF Has3
  <1>4. Has3(m, v) => E3(n, v) = E3(m, v)
    <2>1. Has3(m, v) => n[E4(m, v).page] = m[E4(m, v).page]  BY WalkFacts
    <2> QED  BY <1>2, <2>1 DEF E3
  <1>5. Has2(n, v) <=> Has2(m, v)  BY <1>3, <1>4 DEF Has2
  <1>6. Has2(m, v) => E2(n, v) = E2(m, v)
    <2>1. Has2(m, v) => n[E3(m, v).page] = m[E3(m, v).page]  BY WalkFacts
    <2> QED  BY <1>4, <2>1 DEF E2, Has2
  <1>7. Has1(n, v) <=> Has1(m, v)  BY <1>5, <1>6 DEF Has1
  <1>8. ASSUME NEW k, NEW t  PROVE Reached(n, v, k, t) <=> Reached(m, v, k, t)
    BY <1>2, <1>3, <1>4, <1>5, <1>6, <1>7 DEF Reached, Has2, Has1
  <1> QED  BY <1>2, <1>3, <1>4, <1>5, <1>6, <1>7, <1>8

(* A page table belongs to one page of each index.                          *)
LEMMA PathUnique ==
  ASSUME NEW lv, NEW m, NEW taken, TreeOK(lv, m, taken), NEW v, NEW w,
         High(v), High(w), Has1(m, v), Has1(m, w), E2(m, v).page = E2(m, w).page
  PROVE  \A k \in 2 .. 4 : IndexOf(v, k) = IndexOf(w, k)
  <1>1. \A f, g \in Low, i, j \in Index :
          /\ Dir(lv, f, i) /\ Dir(lv, g, j) /\ m[f][i].present /\ m[g][j].present
          /\ m[f][i].page = m[g][j].page
          => f = g /\ i = j
    BY DEF TreeOK, EntriesOK
  <1>2. PML4 \in Low /\ lv[PML4] = 4  BY LowFacts DEF TreeOK, LevelsOK
  <1>3. ASSUME NEW u, High(u), Has1(m, u)
        PROVE  /\ Has2(m, u) /\ Has3(m, u)
               /\ Dir(lv, PML4, IndexOf(u, 4)) /\ Dir(lv, E4(m, u).page, IndexOf(u, 3))
               /\ Dir(lv, E3(m, u).page, IndexOf(u, 2))
               /\ E4(m, u).page \in Low /\ E3(m, u).page \in Low
               /\ IndexOf(u, 4) \in Index /\ IndexOf(u, 3) \in Index
               /\ IndexOf(u, 2) \in Index
    <2>1. Has2(m, u) /\ Has3(m, u)  BY <1>3 DEF Has1, Has2
    <2>2. /\ E4(m, u).page \in Low /\ lv[E4(m, u).page] = 3
          /\ E3(m, u).page \in Low /\ lv[E3(m, u).page] = 2
      BY <1>3, <2>1, WalkFacts
    <2> QED  BY <1>2, <1>3, <2>1, <2>2 DEF Dir, High
  <1>4. E3(m, v).page = E3(m, w).page /\ IndexOf(v, 2) = IndexOf(w, 2)
    BY <1>1, <1>3 DEF E2, Has1
  <1>5. E4(m, v).page = E4(m, w).page /\ IndexOf(v, 3) = IndexOf(w, 3)
    BY <1>1, <1>3, <1>4 DEF E3, Has2
  <1>6. IndexOf(v, 4) = IndexOf(w, 4)
    BY <1>1, <1>2, <1>3, <1>5 DEF E4, Has3
  <1> QED  BY <1>4, <1>5, <1>6

(* One step of a walk: an entry that is present leads one level down, and   *)
(* below one that is not there is nothing to find.                          *)
LEMMA StepDown ==
  ASSUME NEW lv, NEW m, NEW taken, TreeOK(lv, m, taken), NEW v, High(v),
         NEW k \in 1 .. 4, NEW t, Reached(m, v, k, t)
  PROVE  /\ t \in Low /\ lv[t] = k /\ IndexOf(v, k) \in Index
         /\ m[t][IndexOf(v, k)] \in Entry
         /\ k > 1 => Dir(lv, t, IndexOf(v, k))
         /\ k > 1 /\ m[t][IndexOf(v, k)].present =>
              /\ m[t][IndexOf(v, k)].page \in Low /\ m[t][IndexOf(v, k)].page # 0
              /\ entry_table(m[t][IndexOf(v, k)]) = m[t][IndexOf(v, k)].page
              /\ Reached(m, v, k - 1, m[t][IndexOf(v, k)].page)
         /\ k > 1 /\ ~m[t][IndexOf(v, k)].present =>
              /\ entry_table(m[t][IndexOf(v, k)]) = NULL
              /\ ~Has1(m, v) /\ Seen(m, v) = NoPage
  <1> USE LowFacts
  <1>1. /\ k = 4 => t = PML4
        /\ k = 3 => Has3(m, v) /\ t = E4(m, v).page
        /\ k = 2 => Has2(m, v) /\ t = E3(m, v).page
        /\ k = 1 => Has1(m, v) /\ t = E2(m, v).page
    BY DEF Reached
  <1>2. t \in Low /\ lv[t] = k
    <2>1. PML4 \in Low /\ lv[PML4] = 4  BY DEF TreeOK, LevelsOK
    <2>2. k = 1 \/ k = 2 \/ k = 3 \/ k = 4  OBVIOUS
    <2> QED  BY <1>1, <2>1, <2>2, WalkFacts
  <1>3. IndexOf(v, k) \in Index /\ IndexOf(v, 4) # 0  BY DEF High
  <1>4. m[t][IndexOf(v, k)] \in Entry  BY <1>2, <1>3 DEF TreeOK, LevelsOK
  <1>5. k > 1 => Dir(lv, t, IndexOf(v, k))
    <2>1. t = PML4 => k = 4  BY <1>2 DEF TreeOK, LevelsOK
    <2> QED  BY <1>2, <1>3, <2>1 DEF Dir
  <1>6. /\ k = 4 => m[t][IndexOf(v, k)] = E4(m, v)
        /\ k = 3 => m[t][IndexOf(v, k)] = E3(m, v)
        /\ k = 2 => m[t][IndexOf(v, k)] = E2(m, v)
    BY <1>1 DEF E4, E3, E2
  <1>7. ASSUME k > 1, m[t][IndexOf(v, k)].present
        PROVE  /\ m[t][IndexOf(v, k)].page \in Low /\ m[t][IndexOf(v, k)].page # 0
               /\ entry_table(m[t][IndexOf(v, k)]) = m[t][IndexOf(v, k)].page
               /\ Reached(m, v, k - 1, m[t][IndexOf(v, k)].page)
    <2> DEFINE e == m[t][IndexOf(v, k)]
    <2>1. e.page \in Low /\ lv[e.page] = lv[t] - 1
      <3>1. \A f \in Low, i \in Index : Dir(lv, f, i) /\ m[f][i].present =>
              m[f][i].page \in Low /\ lv[m[f][i].page] = lv[f] - 1
        BY DEF TreeOK, EntriesOK
      <3> QED  BY <1>2, <1>3, <1>5, <1>7, <3>1, Zenon
    <2>2. lv[e.page] \in 1 .. 3
      <3>1. k - 1 \in 1 .. 3  BY <1>7
      <3> QED  BY <1>2, <2>1, <3>1
    <2>3. e.page # 0
      <3>1. 0 \notin taken /\ \A f \in Low : lv[f] \in 1 .. 3 => f \in taken
        BY DEF TreeOK, LevelsOK
      <3> QED  BY <2>1, <2>2, <3>1
    <2>4. entry_table(e) = e.page
      <3>1. e.page < IDENTITY_PAGES  BY <2>1
      <3> QED  BY <1>7, <3>1 DEF entry_table
    <2>5. Reached(m, v, k - 1, e.page)
      <3>1. CASE k = 4  BY <1>6, <1>7, <3>1 DEF Reached, Has3
      <3>2. CASE k = 3  BY <1>1, <1>6, <1>7, <3>2 DEF Reached, Has2
      <3>3. CASE k = 2  BY <1>1, <1>6, <1>7, <3>3 DEF Reached, Has1
      <3> QED  BY <1>7, <3>1, <3>2, <3>3
    <2> QED  BY <2>1, <2>3, <2>4, <2>5
  <1>8. ASSUME k > 1, ~m[t][IndexOf(v, k)].present
        PROVE  /\ entry_table(m[t][IndexOf(v, k)]) = NULL
               /\ ~Has1(m, v) /\ Seen(m, v) = NoPage
    <2>1. k = 2 \/ k = 3 \/ k = 4  BY <1>8
    <2>2. ~Has1(m, v)  BY <1>6, <1>8, <2>1 DEF Has1, Has2, Has3
    <2> QED  BY <1>8, <2>2 DEF entry_table, Seen
  <1> QED  BY <1>2, <1>3, <1>4, <1>5, <1>7, <1>8

(* The walk of get_page_table ends at the page table, if there is one.      *)
LEMMA PageTableOf ==
  ASSUME NEW lv, NEW m, NEW taken, TreeOK(lv, m, taken), NEW v, High(v)
  PROVE  LET pdpt == entry_table(m[PML4][IndexOf(v, 4)])
             pd == IF pdpt = NULL THEN NULL ELSE entry_table(m[pdpt][IndexOf(v, 3)])
             pt == IF pd = NULL THEN NULL ELSE entry_table(m[pd][IndexOf(v, 2)])
         IN /\ Has1(m, v) => pt = E2(m, v).page /\ pt # NULL
            /\ ~Has1(m, v) => pt = NULL
  <1> DEFINE pdpt == entry_table(m[PML4][IndexOf(v, 4)])
             pd == IF pdpt = NULL THEN NULL ELSE entry_table(m[pdpt][IndexOf(v, 3)])
             pt == IF pd = NULL THEN NULL ELSE entry_table(m[pd][IndexOf(v, 2)])
  <1>1. Reached(m, v, 4, PML4)  BY DEF Reached
  <1>2. /\ Has3(m, v) => pdpt = E4(m, v).page /\ pdpt # NULL
        /\ ~Has3(m, v) => pdpt = NULL
    BY <1>1, StepDown DEF Has3, E4, NULL
  <1> HIDE DEF pdpt
  <1>3. Has3(m, v) => Reached(m, v, 3, pdpt)  BY <1>2 DEF Reached
  <1>4. /\ Has2(m, v) => pd = E3(m, v).page /\ pd # NULL
        /\ ~Has2(m, v) => pd = NULL
    <2>1. CASE ~Has3(m, v)  BY <1>2, <2>1 DEF Has2
    <2>2. CASE Has3(m, v)
      <3>1. m[pdpt][IndexOf(v, 3)] = E3(m, v)  BY <1>2, <2>2 DEF E3
      <3>2. /\ E3(m, v).present => E3(m, v).page # 0 /\ entry_table(E3(m, v)) = E3(m, v).page
            /\ ~E3(m, v).present => entry_table(E3(m, v)) = NULL
        <4>1. 3 \in 1 .. 4 /\ 3 > 1  OBVIOUS
        <4> QED  BY <1>3, <2>2, <3>1, <4>1, StepDown
      <3> QED  BY <1>2, <2>2, <3>1, <3>2 DEF Has2, NULL
    <2> QED  BY <2>1, <2>2
  <1> HIDE DEF pd
  <1>5. Has2(m, v) => Reached(m, v, 2, pd)  BY <1>4 DEF Reached
  <1>6. /\ Has1(m, v) => pt = E2(m, v).page /\ pt # NULL
        /\ ~Has1(m, v) => pt = NULL
    <2>1. CASE ~Has2(m, v)  BY <1>4, <2>1 DEF Has1
    <2>2. CASE Has2(m, v)
      <3>1. m[pd][IndexOf(v, 2)] = E2(m, v)  BY <1>4, <2>2 DEF E2
      <3>2. /\ E2(m, v).present => E2(m, v).page # 0 /\ entry_table(E2(m, v)) = E2(m, v).page
            /\ ~E2(m, v).present => entry_table(E2(m, v)) = NULL
        <4>1. 2 \in 1 .. 4 /\ 2 > 1  OBVIOUS
        <4> QED  BY <1>5, <2>2, <3>1, <4>1, StepDown
      <3> QED  BY <1>4, <2>2, <3>1, <3>2 DEF Has1, NULL
    <2> QED  BY <2>1, <2>2
  <1> HIDE DEF pt
  <1> QED  BY <1>6 DEF pt, pd, pdpt

-----------------------------------------------------------------------------
(* The stores.                                                              *)

(* A store into a frame outside the tree.                                   *)
LEMMA StoreOutside ==
  ASSUME NEW lv, NEW m, NEW taken, TreeOK(lv, m, taken),
         NEW f \in Low, f \notin taken \cup Statics,
         NEW n \in [Low -> [Index -> Entry]], \A g \in Low : g # f => n[g] = m[g]
  PROVE  /\ TreeOK(lv, n, taken)
         /\ \A v : High(v) => /\ Seen(n, v) = Seen(m, v)
                              /\ \A k, t : Reached(n, v, k, t) <=> Reached(m, v, k, t)
  <1>3. \A g \in Low : g # f => n[g] = m[g]  OBVIOUS
  <1>4. \A g \in Low : lv[g] \in 1 .. 4 => g # f
    <2>1. \A g \in Low : lv[g] \in 1 .. 4 => lv[g] \in 1 .. 3 \/ lv[g] = 4  OBVIOUS
    <2> QED  BY <2>1 DEF TreeOK, LevelsOK, Statics
  <1>5. \A g \in Low : lv[g] \in 1 .. 4 => n[g] = m[g]  BY <1>3, <1>4
  <1>6. n[PML4] = m[PML4] /\ n[PDPT] = m[PDPT] /\ n[PD] = m[PD]
    BY <1>3, LowFacts DEF Statics
  <1>7. LevelsOK(lv, n, taken)  BY <1>3 DEF TreeOK, LevelsOK
  <1>8. IdentityOK(n)  BY <1>6 DEF TreeOK, IdentityOK
  <1>9. \A g \in Low, i \in Index : Dir(lv, g, i) \/ lv[g] = 1 => n[g] = m[g]
    BY <1>5 DEF Dir
  <1>10. EntriesOK(lv, n, taken)
    <2>1. EntriesOK(lv, m, taken)  BY DEF TreeOK
    <2>2. \A g \in Low, i \in Index : Dir(lv, g, i) => n[g] = m[g]  BY <1>9
    <2>3. \A g \in Low, i \in Index : lv[g] = 1 => n[g] = m[g]  BY <1>9
    <2>4. \A g \in Low, i \in Index : lv[g] = 1 /\ ~n[g][i].present => n[g][i].page = 0
      BY <2>1, <2>3 DEF EntriesOK
    <2>5. \A g \in Low, i \in Index : Dir(lv, g, i) /\ n[g][i].present =>
            ~n[g][i].ps /\ n[g][i].page \in Low /\ lv[n[g][i].page] = lv[g] - 1
      <3>1. \A g \in Low, i \in Index : Dir(lv, g, i) /\ m[g][i].present =>
              ~m[g][i].ps /\ m[g][i].page \in Low /\ lv[m[g][i].page] = lv[g] - 1
        BY <2>1, Zenon DEF EntriesOK
      <3> QED  BY <2>2, <3>1
    <2>6. \A g, h \in Low, i, j \in Index :
            /\ Dir(lv, g, i) /\ Dir(lv, h, j) /\ n[g][i].present /\ n[h][j].present
            /\ n[g][i].page = n[h][j].page
            => g = h /\ i = j
      BY <2>1, <2>2 DEF EntriesOK
    <2>7. \A t \in taken : \E g \in Low, i \in Index :
            Dir(lv, g, i) /\ n[g][i].present /\ n[g][i].page = t
      BY <2>1, <2>2 DEF EntriesOK
    <2> QED  BY <2>4, <2>5, <2>6, <2>7, Zenon DEF EntriesOK
  <1>11. ASSUME NEW v, High(v)
         PROVE  /\ Seen(n, v) = Seen(m, v)
                /\ \A k, t : Reached(n, v, k, t) <=> Reached(m, v, k, t)
    <2>1. \A g \in Low : lv[g] \in 2 .. 4 => n[g] = m[g]  BY <1>5
    <2>2. /\ Has1(n, v) <=> Has1(m, v)
          /\ Has1(m, v) => E2(n, v) = E2(m, v)
          /\ \A k, t : Reached(n, v, k, t) <=> Reached(m, v, k, t)
      <3>1. Has1(m, v) => Has2(m, v)  BY DEF Has1
      <3>2. /\ Has1(n, v) <=> Has1(m, v)
            /\ Has2(m, v) => E2(n, v) = E2(m, v)
            /\ \A k, t : Reached(n, v, k, t) <=> Reached(m, v, k, t)
        BY <1>11, <2>1, SamePath, Zenon
      <3> QED  BY <3>1, <3>2
    <2>3. Has1(m, v) => E1(n, v) = E1(m, v)
      <3>1. Has1(m, v) => n[E2(m, v).page] = m[E2(m, v).page]
        BY <1>5, <1>11, WalkFacts
      <3> QED  BY <2>2, <3>1 DEF E1
    <2> QED  BY <2>2, <2>3 DEF Seen
  <1> QED  BY <1>7, <1>8, <1>10, <1>11 DEF TreeOK

(* The store of an entry of a page table changes the translation of the     *)
(* page it is for and of no other.                                          *)
LEMMA StoreLeaf ==
  ASSUME NEW lv, NEW m, NEW taken, TreeOK(lv, m, taken),
         NEW f \in Low, lv[f] = 1, NEW i \in Index,
         NEW e \in Entry, ~e.present => e.page = 0,
         NEW n \in [Low -> [Index -> Entry]], \A g \in Low : g # f => n[g] = m[g],
         n[f][i] = e, \A j \in Index : j # i => n[f][j] = m[f][j]
  PROVE  /\ TreeOK(lv, n, taken)
         /\ \A v : High(v) =>
              /\ \A k, t : Reached(n, v, k, t) <=> Reached(m, v, k, t)
              /\ Reached(m, v, 1, f) /\ IndexOf(v, 1) = i =>
                   Seen(n, v) = IF e.present THEN e.page ELSE NoPage
              /\ ~(Reached(m, v, 1, f) /\ IndexOf(v, 1) = i) => Seen(n, v) = Seen(m, v)
  <1>2. /\ n \in [Low -> [Index -> Entry]] /\ \A g \in Low : g # f => n[g] = m[g]
        /\ n[f][i] = e /\ \A j \in Index : j # i => n[f][j] = m[f][j]
    OBVIOUS
  <1>3. \A g \in Low : lv[g] \in 2 .. 4 => n[g] = m[g]  BY <1>2
  <1>4. PML4 # f /\ PDPT # f /\ PD # f
    BY LowFacts DEF TreeOK, LevelsOK, Statics
  <1>5. LevelsOK(lv, n, taken)  BY <1>2 DEF TreeOK, LevelsOK
  <1>6. IdentityOK(n)
    <2>1. n[PML4] = m[PML4] /\ n[PDPT] = m[PDPT] /\ n[PD] = m[PD]
      BY <1>2, <1>4, LowFacts
    <2> QED  BY <2>1 DEF TreeOK, IdentityOK
  <1>7. EntriesOK(lv, n, taken)
    <2>1. EntriesOK(lv, m, taken)  BY DEF TreeOK
    <2>2. \A g \in Low, j \in Index : Dir(lv, g, j) => n[g] = m[g]  BY <1>3 DEF Dir
    <2>3. \A g \in Low, j \in Index : lv[g] = 1 /\ ~n[g][j].present => n[g][j].page = 0
      BY <1>2, <2>1 DEF EntriesOK
    <2> QED  BY <2>1, <2>2, <2>3 DEF EntriesOK
  <1>8. ASSUME NEW v, High(v)
        PROVE  /\ \A k, t : Reached(n, v, k, t) <=> Reached(m, v, k, t)
               /\ Reached(m, v, 1, f) /\ IndexOf(v, 1) = i =>
                    Seen(n, v) = IF e.present THEN e.page ELSE NoPage
               /\ ~(Reached(m, v, 1, f) /\ IndexOf(v, 1) = i) => Seen(n, v) = Seen(m, v)
    <2>1. /\ Has1(n, v) <=> Has1(m, v)
          /\ Has1(m, v) => E2(n, v) = E2(m, v)
          /\ \A k, t : Reached(n, v, k, t) <=> Reached(m, v, k, t)
      <3>1. Has1(m, v) => Has2(m, v)  BY DEF Has1
      <3>2. /\ Has1(n, v) <=> Has1(m, v)
            /\ Has2(m, v) => E2(n, v) = E2(m, v)
            /\ \A k, t : Reached(n, v, k, t) <=> Reached(m, v, k, t)
        BY <1>3, <1>8, SamePath, Zenon
      <3> QED  BY <3>1, <3>2
    <2>2. Reached(m, v, 1, f) <=> Has1(m, v) /\ f = E2(m, v).page
      BY DEF Reached
    <2>3. IndexOf(v, 1) \in Index  BY <1>8 DEF High
    <2>4. Has1(m, v) => E2(m, v).page \in Low  BY <1>8, WalkFacts
    <2>5. CASE Reached(m, v, 1, f) /\ IndexOf(v, 1) = i
      <3>1. E1(n, v) = e  BY <1>2, <2>1, <2>2, <2>5 DEF E1
      <3> QED  BY <2>1, <2>2, <2>5, <3>1 DEF Seen
    <2>6. CASE ~(Reached(m, v, 1, f) /\ IndexOf(v, 1) = i)
      <3>1. Has1(m, v) => E1(n, v) = E1(m, v)
        BY <1>2, <2>1, <2>2, <2>3, <2>4, <2>6 DEF E1
      <3> QED  BY <2>1, <2>6, <3>1 DEF Seen
    <2> QED  BY <2>1, <2>5, <2>6
  <1> QED  BY <1>5, <1>6, <1>7, <1>8 DEF TreeOK

(* The store that links a zeroed table into an empty entry: one table more, *)
(* and nothing new for the CPU to find.                                     *)
LEMMA LinkTree ==
  ASSUME NEW lv, NEW m, NEW taken, TreeOK(lv, m, taken),
         NEW f \in Low, NEW i \in Index, Dir(lv, f, i), ~m[f][i].present,
         NEW g \in Low, g \notin taken \cup Statics \cup {0}, m[g] = ZeroTable,
         NEW n, n = [m EXCEPT ![f][i] = PresentEntry(g)],
         NEW up, up = [lv EXCEPT ![g] = lv[f] - 1]
  PROVE  TreeOK(up, n, taken \cup {g})
  <1> USE LowFacts
  <1>1. /\ m \in [Low -> [Index -> Entry]] /\ lv \in [Low -> 0 .. 4] /\ lv[f] \in 2 .. 4
        /\ taken \subseteq Low \ (Statics \cup {0})
        /\ \A h \in Low : lv[h] \in 1 .. 3 <=> h \in taken
        /\ \A h \in Low : lv[h] = 4 <=> h = PML4
    BY DEF TreeOK, LevelsOK, Dir
  <1>2. lv[g] = 0 /\ g # f /\ g # PML4
    <2>1. g \notin taken /\ g # PML4  BY DEF Statics
    <2> QED  BY <1>1, <2>1
  <1>3. PresentEntry(g) \in Entry  BY DEF PresentEntry, Entry
  <1>4. /\ n \in [Low -> [Index -> Entry]] /\ \A h \in Low : h # f => n[h] = m[h]
        /\ n[f][i] = PresentEntry(g) /\ \A j \in Index : j # i => n[f][j] = m[f][j]
    BY <1>1, <1>3
  <1>5. /\ up \in [Low -> 0 .. 4] /\ up[g] = lv[f] - 1 /\ up[g] \in 1 .. 3
        /\ \A h \in Low : h # g => up[h] = lv[h]
    BY <1>1
  <1>6. LevelsOK(up, n, taken \cup {g})
    <2>1. taken \cup {g} \subseteq Low \ (Statics \cup {0})  BY <1>1
    <2>2. \A h \in Low : up[h] \in 1 .. 3 <=> h \in taken \cup {g}  BY <1>1, <1>5
    <2>3. \A h \in Low : up[h] = 4 <=> h = PML4  BY <1>1, <1>2, <1>5
    <2> QED  BY <1>4, <1>5, <2>1, <2>2, <2>3 DEF LevelsOK
  <1>7. IdentityOK(n)
    <2>1. f \notin {PDPT, PD}
      <3>1. lv[PDPT] \notin 1 .. 3 /\ lv[PD] \notin 1 .. 3
        BY <1>1 DEF Statics
      <3>2. lv[PDPT] # 4 /\ lv[PD] # 4  BY <1>1, VmmAssumption
      <3> QED  BY <1>1, <3>1, <3>2
    <2>2. n[PML4][0] = m[PML4][0]  BY <1>4 DEF Dir
    <2> QED  BY <1>4, <2>1, <2>2 DEF TreeOK, IdentityOK
  <1>8. \A j \in Index : ~m[g][j].present /\ ~n[g][j].present /\ n[g][j].page = 0
    BY <1>2, <1>4 DEF ZeroTable, Absent
  <1>9. \A h \in Low, j \in Index : Dir(up, h, j) /\ h # g => Dir(lv, h, j)
    BY <1>5 DEF Dir
  <1>10. \A h \in Low, j \in Index : Dir(lv, h, j) => Dir(up, h, j) /\ h # g
    BY <1>2, <1>5 DEF Dir
  <1>11. n[f][i].present /\ n[f][i].page = g /\ ~n[f][i].ps
    BY <1>4 DEF PresentEntry
  <1>12. \A h \in Low, j \in Index : ~(h = f /\ j = i) => n[h][j] = m[h][j]
    BY <1>4
  <1>13. EntriesOK(lv, m, taken)  BY DEF TreeOK
  <1>14. ASSUME NEW h \in Low, NEW j \in Index, Dir(up, h, j), n[h][j].present,
                ~(h = f /\ j = i)
         PROVE  /\ Dir(lv, h, j) /\ m[h][j].present /\ n[h][j] = m[h][j]
                /\ ~n[h][j].ps /\ n[h][j].page \in Low /\ n[h][j].page # g
                /\ up[n[h][j].page] = up[h] - 1
    <2>1. h # g  BY <1>8, <1>14
    <2>2. Dir(lv, h, j) /\ n[h][j] = m[h][j]  BY <1>9, <1>12, <1>14, <2>1
    <2>3. ~m[h][j].ps /\ m[h][j].page \in Low /\ lv[m[h][j].page] = lv[h] - 1
      BY <1>13, <1>14, <2>2 DEF EntriesOK
    <2>4. lv[h] \in 2 .. 4  BY <2>2 DEF Dir
    <2>5. m[h][j].page # g  BY <1>2, <2>3, <2>4
    <2>6. up[h] = lv[h] /\ up[m[h][j].page] = lv[m[h][j].page]
      BY <1>5, <2>1, <2>3, <2>5
    <2> QED  BY <1>14, <2>2, <2>3, <2>5, <2>6
  <1>15. \A h \in Low, j \in Index : Dir(up, h, j) /\ n[h][j].present =>
           ~n[h][j].ps /\ n[h][j].page \in Low /\ up[n[h][j].page] = up[h] - 1
    <2>1. up[g] = up[f] - 1  BY <1>2, <1>5
    <2> QED  BY <1>11, <1>14, <2>1
  <1>16. \A h \in Low, j \in Index : up[h] = 1 /\ ~n[h][j].present => n[h][j].page = 0
    <2> SUFFICES ASSUME NEW h \in Low, NEW j \in Index, up[h] = 1, ~n[h][j].present
                 PROVE  n[h][j].page = 0
      OBVIOUS
    <2>1. CASE h = g  BY <1>8, <2>1
    <2>2. CASE h # g
      <3>1. lv[h] = 1 /\ h # f  BY <1>1, <1>5, <2>2
      <3>2. n[h][j] = m[h][j]  BY <1>12, <3>1
      <3> QED  BY <1>13, <3>1, <3>2 DEF EntriesOK
    <2> QED  BY <2>1, <2>2
  <1>17. ASSUME NEW h \in Low, NEW k \in Low, NEW j \in Index, NEW l \in Index,
                Dir(up, h, j), Dir(up, k, l), n[h][j].present, n[k][l].present,
                n[h][j].page = n[k][l].page
         PROVE  h = k /\ j = l
    <2>1. CASE h = f /\ j = i
      <3>1. n[k][l].page = g  BY <1>11, <1>17, <2>1
      <3> QED  BY <1>14, <1>17, <2>1, <3>1
    <2>2. CASE k = f /\ l = i
      <3>1. n[h][j].page = g  BY <1>11, <1>17, <2>2
      <3> QED  BY <1>14, <1>17, <2>2, <3>1
    <2>3. CASE ~(h = f /\ j = i) /\ ~(k = f /\ l = i)
      <3>1. /\ Dir(lv, h, j) /\ m[h][j].present /\ n[h][j] = m[h][j]
            /\ Dir(lv, k, l) /\ m[k][l].present /\ n[k][l] = m[k][l]
        BY <1>14, <1>17, <2>3
      <3> QED  BY <1>13, <1>17, <3>1 DEF EntriesOK
    <2> QED  BY <2>1, <2>2, <2>3
  <1>18. ASSUME NEW t \in taken \cup {g}
         PROVE  \E h \in Low, j \in Index : Dir(up, h, j) /\ n[h][j].present /\ n[h][j].page = t
    <2>1. CASE t = g  BY <1>10, <1>11, <2>1
    <2>2. CASE t \in taken
      <3>1. PICK h \in Low, j \in Index : Dir(lv, h, j) /\ m[h][j].present /\ m[h][j].page = t
        BY <1>13, <2>2 DEF EntriesOK
      <3>2. ~(h = f /\ j = i)  BY <3>1
      <3> QED  BY <1>10, <1>12, <3>1, <3>2
    <2> QED  BY <2>1, <2>2
  <1>19. EntriesOK(up, n, taken \cup {g})
    <2>1. \A h, k \in Low, j, l \in Index :
            /\ Dir(up, h, j) /\ Dir(up, k, l) /\ n[h][j].present /\ n[k][l].present
            /\ n[h][j].page = n[k][l].page
            => h = k /\ j = l
      BY <1>17
    <2> QED  BY <1>15, <1>16, <1>18, <2>1, Zenon DEF EntriesOK
  <1> QED  BY <1>6, <1>7, <1>19 DEF TreeOK

(* The CPU finds what it found before, every table that was on the way to a *)
(* page still is, and the new one is on the way to the pages of its entry.  *)
LEMMA LinkWalks ==
  ASSUME NEW lv, NEW m, NEW taken, TreeOK(lv, m, taken),
         NEW f \in Low, NEW i \in Index, Dir(lv, f, i), ~m[f][i].present,
         NEW g \in Low, g # f, m[g] = ZeroTable,
         NEW n, \A h \in Low : h # f => n[h] = m[h],
         n[f][i] = PresentEntry(g), \A j \in Index : j # i => n[f][j] = m[f][j],
         NEW v, High(v)
  PROVE  /\ Seen(n, v) = Seen(m, v)
         /\ \A k, t : Reached(m, v, k, t) => Reached(n, v, k, t)
         /\ Reached(m, v, lv[f], f) /\ i = IndexOf(v, lv[f]) => Reached(n, v, lv[f] - 1, g)
  <1> USE LowFacts
  <1>1. \A h \in Low, j \in Index : ~(h = f /\ j = i) => n[h][j] = m[h][j]  OBVIOUS
  <1>2. n[f][i].present /\ n[f][i].page = g  BY DEF PresentEntry
  <1>3. \A j \in Index : ~n[g][j].present  BY DEF ZeroTable, Absent
  <1>4. /\ IndexOf(v, 4) \in Index /\ IndexOf(v, 3) \in Index
        /\ IndexOf(v, 2) \in Index /\ IndexOf(v, 1) \in Index
    BY DEF High
  <1>5. PML4 \in Low /\ lv[PML4] = 4 /\ lv[f] \in 2 .. 4  BY DEF TreeOK, LevelsOK, Dir
  <1>6. /\ Has3(m, v) => E4(m, v).page \in Low /\ lv[E4(m, v).page] = 3
        /\ Has2(m, v) => E3(m, v).page \in Low /\ lv[E3(m, v).page] = 2
        /\ Has1(m, v) => E2(m, v).page \in Low /\ lv[E2(m, v).page] = 1
    BY WalkFacts
  <1>7. (Has1(m, v) => Has2(m, v)) /\ (Has2(m, v) => Has3(m, v))  BY DEF Has1, Has2
  <1>8. CASE f = PML4 /\ i = IndexOf(v, 4)
    <2>1. E4(n, v).present /\ E4(n, v).page = g /\ ~E4(m, v).present  BY <1>2, <1>8 DEF E4
    <2>2. ~E3(n, v).present  BY <1>3, <1>4, <2>1 DEF E3
    <2>3. Has3(n, v) /\ ~Has2(n, v) /\ ~Has1(n, v) /\ ~Has3(m, v) /\ ~Has2(m, v) /\ ~Has1(m, v)
      BY <2>1, <2>2 DEF Has1, Has2, Has3
    <2>4. Seen(n, v) = Seen(m, v)  BY <2>3 DEF Seen
    <2>5. \A k, t : Reached(m, v, k, t) => Reached(n, v, k, t)  BY <2>3 DEF Reached
    <2>6. Reached(n, v, 3, g)  BY <2>1, <2>3 DEF Reached
    <2> QED  BY <1>5, <1>8, <2>4, <2>5, <2>6
  <1>9. CASE ~(f = PML4 /\ i = IndexOf(v, 4))
    <2>1. E4(n, v) = E4(m, v)  BY <1>1, <1>4, <1>5, <1>9 DEF E4
    <2>2. Has3(n, v) <=> Has3(m, v)  BY <2>1 DEF Has3
    <2>3. CASE ~Has3(m, v)
      <3>1. ~Has2(n, v) /\ ~Has1(n, v) /\ ~Has2(m, v) /\ ~Has1(m, v)
        BY <2>2, <2>3 DEF Has1, Has2
      <3>2. Seen(n, v) = Seen(m, v)  BY <3>1 DEF Seen
      <3>3. \A k, t : Reached(m, v, k, t) => Reached(n, v, k, t)
        BY <2>3, <3>1 DEF Reached
      <3>4. ~(Reached(m, v, lv[f], f) /\ i = IndexOf(v, lv[f]))
        BY <1>5, <1>9, <2>3, <3>1 DEF Reached
      <3> QED  BY <3>2, <3>3, <3>4
    <2>4. CASE Has3(m, v) /\ f = E4(m, v).page /\ i = IndexOf(v, 3)
      <3>1. E3(n, v).present /\ E3(n, v).page = g /\ ~E3(m, v).present
        BY <1>2, <2>1, <2>4 DEF E3
      <3>2. ~E2(n, v).present  BY <1>3, <1>4, <3>1 DEF E2
      <3>3. Has2(n, v) /\ ~Has1(n, v) /\ ~Has2(m, v) /\ ~Has1(m, v)
        BY <2>2, <2>4, <3>1, <3>2 DEF Has1, Has2
      <3>4. Seen(n, v) = Seen(m, v)  BY <3>3 DEF Seen
      <3>5. \A k, t : Reached(m, v, k, t) => Reached(n, v, k, t)
        BY <2>1, <2>2, <2>4, <3>3 DEF Reached
      <3>6. Reached(n, v, 2, g)  BY <3>1, <3>3 DEF Reached
      <3>7. lv[f] = 3  BY <1>6, <2>4
      <3> QED  BY <3>4, <3>5, <3>6, <3>7
    <2>5. CASE Has3(m, v) /\ ~(f = E4(m, v).page /\ i = IndexOf(v, 3))
      <3>1. E3(n, v) = E3(m, v)
        <4> DEFINE p == E4(m, v).page
        <4>1. p \in Low /\ ~(p = f /\ IndexOf(v, 3) = i)  BY <1>6, <2>5
        <4>2. n[p][IndexOf(v, 3)] = m[p][IndexOf(v, 3)]  BY <1>1, <1>4, <4>1, Zenon
        <4> QED  BY <2>1, <4>2 DEF E3
      <3>2. Has2(n, v) <=> Has2(m, v)  BY <2>2, <3>1 DEF Has2
      <3>3. CASE ~Has2(m, v)
        <4>1. ~Has1(n, v) /\ ~Has1(m, v)  BY <3>2, <3>3 DEF Has1
        <4>2. Seen(n, v) = Seen(m, v)  BY <4>1 DEF Seen
        <4>3. \A k, t : Reached(m, v, k, t) => Reached(n, v, k, t)
          BY <2>1, <2>2, <3>3, <4>1 DEF Reached
        <4>4. ~(Reached(m, v, lv[f], f) /\ i = IndexOf(v, lv[f]))
          BY <1>5, <1>9, <2>5, <3>3, <4>1 DEF Reached
        <4> QED  BY <4>2, <4>3, <4>4
      <3>4. CASE Has2(m, v) /\ f = E3(m, v).page /\ i = IndexOf(v, 2)
        <4>1. E2(n, v).present /\ E2(n, v).page = g /\ ~E2(m, v).present
          BY <1>2, <3>1, <3>4 DEF E2
        <4>2. ~E1(n, v).present  BY <1>3, <1>4, <4>1 DEF E1
        <4>3. Has1(n, v) /\ ~Has1(m, v)  BY <3>2, <3>4, <4>1 DEF Has1
        <4>4. Seen(n, v) = Seen(m, v)  BY <4>2, <4>3 DEF Seen
        <4>5. \A k, t : Reached(m, v, k, t) => Reached(n, v, k, t)
          BY <2>1, <2>2, <3>1, <3>2, <4>3 DEF Reached
        <4>6. Reached(n, v, 1, g)  BY <4>1, <4>3 DEF Reached
        <4>7. lv[f] = 2  BY <1>6, <3>4
        <4> QED  BY <4>4, <4>5, <4>6, <4>7
      <3>5. CASE Has2(m, v) /\ ~(f = E3(m, v).page /\ i = IndexOf(v, 2))
        <4>1. E2(n, v) = E2(m, v)
          <5> DEFINE p == E3(m, v).page
          <5>1. p \in Low /\ ~(p = f /\ IndexOf(v, 2) = i)  BY <1>6, <3>5
          <5>2. n[p][IndexOf(v, 2)] = m[p][IndexOf(v, 2)]  BY <1>1, <1>4, <5>1, Zenon
          <5> QED  BY <3>1, <5>2 DEF E2
        <4>2. Has1(n, v) <=> Has1(m, v)  BY <3>2, <4>1 DEF Has1
        <4>3. Has1(m, v) => E1(n, v) = E1(m, v)
          <5>1. Has1(m, v) => E2(m, v).page # f  BY <1>5, <1>6
          <5> QED  BY <1>6, <4>1, <5>1 DEF E1
        <4>4. Seen(n, v) = Seen(m, v)  BY <4>2, <4>3 DEF Seen
        <4>5. \A k, t : Reached(m, v, k, t) => Reached(n, v, k, t)
          BY <2>1, <2>2, <3>1, <3>2, <4>1, <4>2 DEF Reached
        <4>6. ~(Reached(m, v, lv[f], f) /\ i = IndexOf(v, lv[f]))
          BY <1>5, <1>9, <2>5, <3>5 DEF Reached
        <4> QED  BY <4>4, <4>5, <4>6
      <3> QED  BY <3>3, <3>4, <3>5
    <2> QED  BY <2>3, <2>4, <2>5
  <1> QED  BY <1>8, <1>9

-----------------------------------------------------------------------------
(* Addresses.                                                               *)

(* The quotient is the number of whole divisors below.                      *)
LEMMA DivideBy ==
  ASSUME NEW x \in Nat, NEW n \in Nat \ {0}
  PROVE  /\ x \div n \in Nat /\ (x \div n) * n <= x /\ x < (x \div n) * n + n
         /\ x % n \in 0 .. n - 1 /\ x = (x \div n) * n + (x % n)
  OBVIOUS

LEMMA QuotientIs ==
  ASSUME NEW n \in Nat \ {0}, NEW q \in Nat, NEW r \in 0 .. n - 1
  PROVE  (q * n + r) \div n = q /\ (q * n + r) % n = r
  <1> DEFINE x == q * n + r
             p == x \div n
  <1>1. x \in Nat /\ q * n \in Nat  OBVIOUS
  <1>2. /\ p \in Nat /\ p * n <= x /\ x < p * n + n
        /\ x % n \in 0 .. n - 1 /\ x = p * n + (x % n)
    BY <1>1, DivideBy
  <1>3. x = q * n + r  OBVIOUS
  <1> HIDE DEF p, x
  <1>4. ASSUME p + 1 <= q  PROVE FALSE
    <2>1. (p + 1) * n <= q * n  BY <1>2, <1>4
    <2> QED  BY <1>1, <1>2, <1>3, <2>1
  <1>5. ASSUME q + 1 <= p  PROVE FALSE
    <2>1. (q + 1) * n <= p * n  BY <1>2, <1>5
    <2> QED  BY <1>1, <1>2, <1>3, <2>1
  <1>6. p = q  BY <1>2, <1>4, <1>5
  <1>7. x % n = r  BY <1>1, <1>2, <1>3, <1>6
  <1> QED  BY <1>6, <1>7 DEF p, x

LEMMA ReachFacts ==
  /\ PAGE_ENTRIES \in Nat \ {0}
  /\ Reach(1) = 1 /\ Reach(2) = PAGE_ENTRIES /\ Reach(3) = PAGE_ENTRIES * PAGE_ENTRIES
  /\ Reach(4) = PAGE_ENTRIES * PAGE_ENTRIES * PAGE_ENTRIES
  /\ Reach(5) = PAGE_ENTRIES * PAGE_ENTRIES * PAGE_ENTRIES * PAGE_ENTRIES
  /\ \A k \in 1 .. 5 : Reach(k) \in Nat \ {0}
  <1>1. PAGE_ENTRIES \in Nat \ {0}  BY VmmAssumption
  <1>2. /\ Reach(1) = 1 /\ Reach(2) = PAGE_ENTRIES /\ Reach(3) = PAGE_ENTRIES * PAGE_ENTRIES
        /\ Reach(4) = PAGE_ENTRIES * PAGE_ENTRIES * PAGE_ENTRIES
        /\ Reach(5) = PAGE_ENTRIES * PAGE_ENTRIES * PAGE_ENTRIES * PAGE_ENTRIES
    BY DEF Reach
  <1>3. \A a, b \in Nat \ {0} : a * b \in Nat \ {0}  OBVIOUS
  <1>4. Reach(3) \in Nat \ {0}  BY <1>1, <1>2, <1>3
  <1>5. Reach(4) \in Nat \ {0}  BY <1>1, <1>2, <1>3, <1>4
  <1>6. Reach(5) \in Nat \ {0}  BY <1>1, <1>2, <1>3, <1>5
  <1>7. \A k \in 1 .. 5 : k = 1 \/ k = 2 \/ k = 3 \/ k = 4 \/ k = 5  OBVIOUS
  <1> QED  BY <1>1, <1>2, <1>4, <1>5, <1>6, <1>7

LEMMA IndexInTable ==
  ASSUME NEW v \in Nat, NEW k \in 1 .. 4
  PROVE  IndexOf(v, k) \in Index
  <1> DEFINE n == PAGE_ENTRIES
             d == Reach(k)
             q == v \div d
  <1>1. n \in Nat \ {0} /\ d \in Nat \ {0}  BY ReachFacts
  <1>2. IndexOf(v, k) = q % n  BY DEF IndexOf
  <1> HIDE DEF n, d
  <1>3. q \in Nat  BY <1>1, DivideBy
  <1> HIDE DEF q
  <1>4. q % n \in 0 .. n - 1  BY <1>1, <1>3, DivideBy
  <1> QED  BY <1>2, <1>4 DEF Index, n

(* The identity map translates every page to itself.                        *)
LEMMA IdentityWalk ==
  ASSUME NEW m, IdentityOK(m), NEW v \in 0 .. IDENTITY_PAGES - 1
  PROVE  HwOf(m, v) = v
  <1> DEFINE n == PAGE_ENTRIES
  <1>1. n \in Nat \ {0} /\ v \in Nat /\ v < n * n /\ n * n \in Nat
    BY ReachFacts DEF IDENTITY_PAGES
  <1> USE LowFacts
  <1>2. IndexOf(v, 4) = 0
    <2>1. 1 <= n /\ n * n <= n * n * n  BY <1>1
    <2>2. v \in 0 .. Reach(4) - 1  BY <1>1, <2>1, ReachFacts
    <2>3. (0 * Reach(4) + v) \div Reach(4) = 0  BY <2>2, QuotientIs, ReachFacts
    <2>4. 0 * Reach(4) + v = v  BY <1>1, ReachFacts
    <2> QED  BY <1>1, <2>3, <2>4 DEF IndexOf
  <1>3. IndexOf(v, 3) = 0
    <2>2. v \in 0 .. Reach(3) - 1  BY <1>1, ReachFacts
    <2>3. (0 * Reach(3) + v) \div Reach(3) = 0  BY <2>2, QuotientIs, ReachFacts
    <2>4. 0 * Reach(3) + v = v  BY <1>1, ReachFacts
    <2> QED  BY <1>1, <2>3, <2>4 DEF IndexOf
  <1>4. IndexOf(v, 1) = v % n
    BY <1>1, ReachFacts DEF IndexOf
  <1>5. /\ v \div n \in Nat /\ (v \div n) * n <= v /\ v = (v \div n) * n + (v % n)
        /\ v % n \in Nat
    <2>1. n \in Nat \ {0} /\ v \in Nat  BY <1>1
    <2> HIDE DEF n
    <2>2. /\ v \div n \in Nat /\ (v \div n) * n <= v /\ v < (v \div n) * n + n
          /\ v % n \in 0 .. n - 1 /\ v = (v \div n) * n + (v % n)
      BY <2>1, DivideBy, Zenon
    <2> QED  BY <2>1, <2>2
  <1>6. v \div n \in 0 .. n - 1
    <2> DEFINE q == v \div n
    <2>1. q \in Nat /\ q * n <= v  BY <1>5
    <2> HIDE DEF q
    <2>2. ASSUME q >= n  PROVE FALSE
      <3>1. q * n >= n * n  BY <1>1, <2>1, <2>2
      <3> QED  BY <1>1, <2>1, <3>1
    <2>3. q \in 0 .. n - 1  BY <1>1, <2>1, <2>2
    <2> QED  BY <2>3 DEF q
  <1>7. IndexOf(v, 2) = v \div n /\ v \div n \in Index
    <2>1. (0 * n + (v \div n)) % n = v \div n  BY <1>1, <1>6, QuotientIs
    <2>2. 0 * n + (v \div n) = v \div n  BY <1>1, <1>5
    <2> QED  BY <1>6, <2>1, <2>2, ReachFacts DEF IndexOf, Index
  <1>8. m[PD][IndexOf(v, 2)] = LargeEntry(v \div n)  BY <1>7 DEF IdentityOK
  <1>9. /\ m[PML4][IndexOf(v, 4)] = PresentEntry(PDPT)
        /\ m[PDPT][IndexOf(v, 3)] = PresentEntry(PD)
    BY <1>2, <1>3 DEF IdentityOK
  <1>10. HwOf(m, v) = LargeEntry(v \div n).page + IndexOf(v, 1)
    <2> DEFINE At(page) == IF page \in Low THEN m[page] ELSE JunkTable
               e4 == m[PML4][IndexOf(v, 4)]
               e3 == At(e4.page)[IndexOf(v, 3)]
               e2 == At(e3.page)[IndexOf(v, 2)]
               e1 == At(e2.page)[IndexOf(v, 1)]
    <2>1. HwOf(m, v) = IF ~e4.present \/ ~e3.present \/ ~e2.present THEN NoPage
                       ELSE IF e2.ps THEN e2.page + IndexOf(v, 1)
                       ELSE IF ~e1.present THEN NoPage
                       ELSE e1.page
      BY DEF HwOf
    <2>2. e4.present /\ e4.page = PDPT  BY <1>9 DEF PresentEntry
    <2>3. e3.present /\ e3.page = PD  BY <1>9, <2>2 DEF PresentEntry
    <2>4. e2 = LargeEntry(v \div n)  BY <1>8, <2>3
    <2> HIDE DEF e4, e3, e2, e1
    <2>5. e2.present /\ e2.ps  BY <2>4 DEF LargeEntry
    <2> QED  BY <2>1, <2>2, <2>3, <2>4, <2>5
  <1>11. LargeEntry(v \div n).page = (v \div n) * n  BY DEF LargeEntry
  <1> QED  BY <1>4, <1>5, <1>10, <1>11

=============================================================================
