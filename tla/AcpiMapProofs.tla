--------------------------- MODULE AcpiMapProofs ----------------------------
(***************************************************************************)
(* The mapping window keeps its promises for every size of the window, the  *)
(* tables and the memory, every set of requests and every amount of memory  *)
(* that boot leaves free.                                                   *)
(***************************************************************************)
EXTENDS AcpiMap, VmmProofs, FiniteSetTheorems

-----------------------------------------------------------------------------
(* The inductive invariant.                                                 *)

(* The window is the first half of the upper half of the pages.             *)
HalfPages == Reach(5) \div 2
PageOf(s) == HalfPages + s

(* Records, by the run of slots they stand for.                             *)
RecordFor(s, c) == [virtual_base |-> SlotAddress(s), page_count |-> c]

InWindow(s, c) ==
  s \in Slots /\ c \in 1 .. ACPI_MAP_WINDOW_PAGES /\ s + c <= ACPI_MAP_WINDOW_PAGES

RecordOK(rec) ==
  rec = NoRecord \/ \E s \in Slots, c \in 1 .. ACPI_MAP_WINDOW_PAGES :
                      InWindow(s, c) /\ rec = RecordFor(s, c)

SlotsInv ==
  /\ DOMAIN mappings = Records /\ \A r \in Records : RecordOK(mappings[r])
  /\ \A r, q \in Records : r # q => RunOf(mappings[r]) \cap RunOf(mappings[q]) = {}
  /\ \A r \in Records : RunOf(mappings[r]) \cap CallRun = {}
  /\ \A s : s \in map_slots <=> s \in CallRun \/ \E r \in Records : s \in RunOf(mappings[r])

(* Where a call is, and what its locals hold there.                         *)
CallType ==
  [pa : Nat, len : Nat, back : Nat, start : Nat, count : Nat, record : Nat]

Mapping == apc \in {"install", "check", "rollback"}

CallInv ==
  /\ apc \in {"boot", "idle", "install", "check", "rollback", "unmap"}
  /\ call \in CallType /\ index \in Nat
  /\ apc \in {"boot", "idle"} => call = NoCall /\ index = 0
  /\ apc \in {"boot", "idle", "install"} => vpc = "done"
  /\ Mapping =>
       /\ call.record \in Records /\ mappings[call.record] = NoRecord
       /\ InWindow(call.start, call.count) /\ index <= call.count
       /\ apc # "install" => index < call.count
       /\ <<call.pa, call.len, call.back>> \in Requests
       /\ WindowRequest(call.pa, call.len) /\ call.count = PageCount(call.pa, call.len)
  /\ apc = "unmap" =>
       /\ call.record \in Records /\ InWindow(call.start, call.count)
       /\ mappings[call.record] = RecordFor(call.start, call.count)
       /\ index <= call.count /\ (vpc # "done" => index > 0)

(* The slot whose page the VMM is asked about.                              *)
Target == call.start + (IF apc = "unmap" THEN index - 1 ELSE index)

(* The walk of the VMM is on the way to that page.                          *)
WalkInv ==
  /\ vpc \in {"done", "walk", "zero", "link", "flush"}
  /\ vpc # "done" =>
       /\ paging_enabled /\ cva = SlotAddress(Target)
       /\ (apc = "check" => vop = "map") /\ (apc # "check" => vop = "unmap")
       /\ level \in 1 .. 4 /\ Reached(mem, PageOf(Target), level, table)
  /\ vpc = "flush" => level = 1
  /\ vpc \in {"zero", "link"} =>
       level > 1 /\ vop = "map" /\ ~mem[table][IndexOf(PageOf(Target), level)].present
  /\ vpc # "done" /\ apc = "check" =>
       cpa = PhysicalPage(index) /\ cpa < PHYS_LIMIT /\ cpa % PMM_PAGE_SIZE = 0

(* The frames the VMM has taken are the tables and the frame in preparation.*)
FramesInv ==
  /\ bootFree \in FreeLow /\ bitmap \subseteq Pages /\ FreeSet \subseteq bootFree
  /\ mem \in [Low -> [Index -> Entry]] /\ frame \in Low
  /\ paging_enabled \in BOOLEAN /\ (paging_enabled <=> apc # "boot")
  /\ ~paging_enabled => FreeSet = bootFree
  /\ vpc \in {"zero", "link"} => frame \in bootFree \ FreeSet
  /\ vpc \notin {"zero", "link"} => frame = 0
  /\ vpc = "link" => mem[frame] = ZeroTable

Taken == (bootFree \ FreeSet) \ {frame}

TreeInv == paging_enabled => \E lv : TreeOK(lv, mem, Taken)

TlbInv ==
  /\ tlb \in [WindowPages -> Nat \cup {NoPage}]
  /\ \A v \in WindowPages :
       tlb[v] \in {NoPage, HwOf(mem, v)} \/ (vpc = "flush" /\ v = PageOf(Target))

(* The address of page i of a request, in unbounded arithmetic.             *)
Plain(pa, i) == pa - Offset(pa) + i * PMM_PAGE_SIZE

Installed(s, pa, i) ==
  /\ Plain(pa, i) < PHYS_LIMIT
  /\ Seen(mem, PageOf(s)) = Plain(pa, i) \div PMM_PAGE_SIZE

Clear(s) == Seen(mem, PageOf(s)) = NoPage

(* A slot outside every run translates to nothing.                          *)
FreeClear == paging_enabled => \A s \in Slots : s \notin map_slots => Clear(s)

(* The loop of uacpi_kernel_map has installed the pages before index ...    *)
DoneInstalled ==
  apc \in {"install", "check"} =>
    \A i \in 0 .. index - 1 : Installed(call.start + i, call.pa, i)

(* ... and none after it; the roll-back has cleared those.                  *)
RestClear == Mapping => \A i \in index + 1 .. call.count - 1 : Clear(call.start + i)

(* The page at index, by how far the call of the VMM is.                    *)
CurrentPage ==
  /\ apc = "install" /\ index < call.count => Clear(call.start + index)
  /\ apc = "check" /\ vpc \in {"walk", "zero", "link"} => Clear(call.start + index)
  /\ apc = "rollback" /\ vpc # "walk" => Clear(call.start + index)
  /\ apc = "check" /\ vpc = "flush" =>
       Seen(mem, PageOf(call.start + index)) = cpa \div PMM_PAGE_SIZE
  /\ apc = "check" /\ vpc = "done" =>
       \/ /\ PhysicalPage(index) < PHYS_LIMIT
          /\ Seen(mem, PageOf(call.start + index)) = PhysicalPage(index) \div PMM_PAGE_SIZE
       \/ /\ Clear(call.start + index)
          /\ ~Has1(mem, PageOf(call.start + index)) \/ PhysicalPage(index) >= PHYS_LIMIT

(* The loop of uacpi_kernel_unmap has cleared the pages before index.       *)
UnmapClear ==
  apc = "unmap" =>
    /\ \A i \in 0 .. index - 2 : Clear(call.start + i)
    /\ index > 0 /\ vpc \in {"done", "flush"} => Clear(call.start + (index - 1))

ContentsInv == FreeClear /\ DoneInstalled /\ RestClear /\ CurrentPage /\ UnmapClear

(* What uACPI holds.                                                        *)
Mapped == [va : Nat, pa : Nat, len : Nat, back : Nat]

IdentityMap(m) == m.va = m.pa /\ m.pa + m.len <= ACPI_IDENTITY_MAP_LIMIT

WindowMap(m, r, s) ==
  /\ mappings[r] = RecordFor(s, PageCount(m.pa, m.len))
  /\ m.va = SlotAddress(s) + Offset(m.pa)
  /\ \A i \in 0 .. PageCount(m.pa, m.len) - 1 : Installed(s + i, m.pa, i)
  /\ ~(apc = "unmap" /\ r = call.record)

LiveInv ==
  /\ live \subseteq Mapped /\ (apc = "boot" => live = {})
  /\ \A m \in live : <<m.pa, m.len, m.back>> \in Requests /\ m.len # 0
  /\ \A m \in live : IdentityMap(m) \/ \E r \in Records, s \in Slots : WindowMap(m, r, s)
  /\ \A m, n \in live : \A r \in Records, s, t \in Slots :
       WindowMap(m, r, s) /\ WindowMap(n, r, t) => m = n

(* Every record belongs to a mapping that is held, is being undone, or may  *)
(* have been given back with the wrong length.                              *)
HeldInv ==
  \A r \in Records :
    \/ mappings[r] = NoRecord
    \/ apc = "unmap" /\ r = call.record
    \/ \E m \in live, s \in Slots : WindowMap(m, r, s)
    \/ Stranded(mappings[r])

-----------------------------------------------------------------------------
(* The addresses of the window.                                             *)

(* What one level divides by and the next, together.                        *)
LEMMA DivideTwice ==
  ASSUME NEW x \in Nat, NEW a \in Nat \ {0}, NEW b \in Nat \ {0}
  PROVE  (x \div a) \div b = x \div (a * b)
  <1> DEFINE q == x \div a
             r == x % a
             p == q \div b
             t == q % b
  <1>1. q \in Nat /\ r \in 0 .. a - 1 /\ x = q * a + r  BY DivideBy
  <1> HIDE DEF q, r
  <1>2. p \in Nat /\ t \in 0 .. b - 1 /\ q = p * b + t  BY <1>1, DivideBy
  <1> HIDE DEF p, t
  <1>3. a * b \in Nat \ {0}  OBVIOUS
  <1>4. t * a + r \in 0 .. (a * b) - 1
    <2>1. t \in Nat /\ r \in Nat /\ t + 1 <= b /\ r + 1 <= a  BY <1>1, <1>2
    <2>2. (t + 1) * a <= b * a  BY <2>1
    <2>3. (t + 1) * a = t * a + a /\ t * a \in Nat /\ b * a = a * b  BY <2>1
    <2> QED  BY <2>1, <2>2, <2>3
  <1>5. x = p * (a * b) + (t * a + r)
    <2>1. (p * b + t) * a = p * (a * b) + t * a  BY <1>2
    <2> QED  BY <1>1, <1>2, <2>1
  <1>6. (p * (a * b) + (t * a + r)) \div (a * b) = p  BY <1>2, <1>3, <1>4, QuotientIs
  <1> QED  BY <1>5, <1>6 DEF p, q

(* Half of the pages: the top table's entries from the middle on.           *)
LEMMA HalfFacts ==
  /\ HalfPages \in Nat \ {0} /\ Reach(5) = 2 * HalfPages
  /\ PAGE_ENTRIES \div 2 \in Nat \ {0} /\ PAGE_ENTRIES = 2 * (PAGE_ENTRIES \div 2)
  /\ HalfPages = (PAGE_ENTRIES \div 2) * Reach(4)
  /\ HalfPages >= IDENTITY_PAGES
  <1> DEFINE n == PAGE_ENTRIES
             h == n \div 2
  <1>1. n \in Nat /\ n > 1 /\ n % 2 = 0  BY VmmAssumption
  <1>2. h \in Nat \ {0} /\ n = 2 * h  BY <1>1
  <1>3. Reach(4) \in Nat \ {0} /\ Reach(5) = Reach(4) * n /\ Reach(4) = n * n * n
    BY ReachFacts
  <1> HIDE DEF h
  <1>4. Reach(5) = (h * Reach(4)) * 2 + 0
    <2>1. Reach(4) * (2 * h) = (h * Reach(4)) * 2  BY <1>2, <1>3
    <2> QED  BY <1>2, <1>3, <2>1
  <1>5. h * Reach(4) \in Nat \ {0}  BY <1>2, <1>3
  <1>6. HalfPages = h * Reach(4)
    BY <1>4, <1>5, QuotientIs DEF HalfPages
  <1>7. h * Reach(4) >= n * n
    <2>1. n * n \in Nat /\ n * n * n >= n * n  BY <1>1
    <2>2. h * Reach(4) >= Reach(4)  BY <1>2, <1>3
    <2> QED  BY <1>3, <1>5, <2>1, <2>2
  <1> QED  BY <1>2, <1>4, <1>5, <1>6, <1>7 DEF IDENTITY_PAGES, h

LEMMA SizeFacts ==
  /\ PMM_PAGE_SIZE \in Nat \ {0} /\ VA_SPAN \in Nat \ {0}
  /\ VA_SPAN \div 2 = HalfPages * PMM_PAGE_SIZE /\ VA_SPAN = 2 * (HalfPages * PMM_PAGE_SIZE)
  /\ WORD \in Nat /\ WORD \div VA_SPAN \in Nat \ {0}
  /\ WORD = (WORD \div VA_SPAN) * VA_SPAN
  /\ ACPI_MAP_WINDOW_PAGES \in Nat \ {0} /\ ACPI_MAP_WINDOW_PAGES < HalfPages
  /\ ACPI_MAP_WINDOW_BASE = (WORD \div VA_SPAN - 1) * VA_SPAN + HalfPages * PMM_PAGE_SIZE
  /\ ACPI_MAP_WINDOW_BASE \in Nat
  <1> DEFINE P == PMM_PAGE_SIZE
             H == HalfPages
             W == WORD \div VA_SPAN
  <1>1. P \in Nat \ {0} /\ WORD \in Nat /\ WORD > 0  BY PmmAssumption
  <1>2. H \in Nat \ {0} /\ Reach(5) = 2 * H  BY HalfFacts
  <1>3. H * P \in Nat \ {0}  BY <1>1, <1>2
  <1>4. VA_SPAN = 2 * (H * P)  BY <1>1, <1>2 DEF VA_SPAN
  <1>5. VA_SPAN \in Nat \ {0} /\ VA_SPAN \div 2 = H * P  BY <1>3, <1>4
  <1>6. W \in Nat /\ WORD = W * VA_SPAN
    <2>1. WORD % VA_SPAN = 0  BY VmmAssumption
    <2> DEFINE d == VA_SPAN
    <2>2. d \in Nat \ {0} /\ WORD % d = 0  BY <1>5, <2>1
    <2>3. WORD \div d \in Nat /\ WORD = (WORD \div d) * d + (WORD % d)
      <3> HIDE DEF d
      <3> QED  BY <1>1, <2>2, DivideBy
    <2>4. (WORD \div d) * d + 0 = (WORD \div d) * d
      <3> HIDE DEF d
      <3> QED  BY <2>2, <2>3
    <2> QED  BY <2>2, <2>3, <2>4
  <1>7. W # 0  BY <1>1, <1>5, <1>6
  <1>8. ACPI_MAP_WINDOW_BASE = (W - 1) * VA_SPAN + H * P
    <2>1. ACPI_MAP_WINDOW_BASE = WORD - H * P  BY <1>5, AcpiAssumption
    <2>2. (W - 1) * VA_SPAN = W * VA_SPAN - VA_SPAN  BY <1>5, <1>6
    <2> QED  BY <1>3, <1>4, <1>5, <1>6, <2>1, <2>2
  <1>9. (W - 1) * VA_SPAN \in Nat  BY <1>5, <1>6, <1>7
  <1>10. ACPI_MAP_WINDOW_PAGES \in Nat \ {0} /\ ACPI_MAP_WINDOW_PAGES < H
    <2>1. /\ ACPI_MAP_WINDOW_PAGES \in Nat \ {0}
          /\ ACPI_MAP_WINDOW_PAGES * P < H * P
      BY <1>5, AcpiAssumption
    <2>2. ASSUME ACPI_MAP_WINDOW_PAGES >= H  PROVE FALSE
      <3>1. ACPI_MAP_WINDOW_PAGES * P >= H * P  BY <1>1, <1>2, <2>1, <2>2
      <3> QED  BY <1>1, <1>3, <2>1, <3>1
    <2> QED  BY <1>2, <2>1, <2>2
  <1> QED  BY <1>1, <1>3, <1>4, <1>5, <1>6, <1>7, <1>8, <1>9, <1>10

(* Byte o of slot s.                                                        *)
LEMMA SlotFacts ==
  ASSUME NEW s \in Slots, NEW o \in 0 .. PMM_PAGE_SIZE - 1
  PROVE  /\ SlotAddress(s) \in Nat /\ SlotAddress(s) + o \in 0 .. WORD - 1
         /\ SlotAddress(s) + o # WORD - 1
         /\ Offset(SlotAddress(s) + o) = o /\ page_aligned_address(SlotAddress(s))
         /\ canonical_address(SlotAddress(s))
         /\ Vpn(SlotAddress(s) + o) = PageOf(s) /\ Vpn(SlotAddress(s)) = PageOf(s)
         /\ (SlotAddress(s) - ACPI_MAP_WINDOW_BASE) \div PMM_PAGE_SIZE = s
         /\ SlotAddress(s) >= ACPI_MAP_WINDOW_BASE
  <1> DEFINE P == PMM_PAGE_SIZE
             H == HalfPages
             S == VA_SPAN
             W == WORD \div S
             B == ACPI_MAP_WINDOW_BASE
             Q == ACPI_MAP_WINDOW_PAGES
  <1>1. /\ P \in Nat \ {0} /\ S \in Nat \ {0} /\ S = 2 * (H * P)
        /\ W \in Nat \ {0} /\ WORD = W * S /\ WORD \in Nat
        /\ Q \in Nat \ {0} /\ Q < H /\ B = (W - 1) * S + H * P /\ B \in Nat
    BY SizeFacts
  <1>2. H \in Nat \ {0}  BY HalfFacts
  <1>3. s \in Nat /\ s < Q /\ o \in Nat /\ o < P  BY <1>1 DEF Slots
  <1>4. SlotAddress(s) = B + s * P  BY DEF SlotAddress
  <1>5. Offset(SlotAddress(s) + o) = (SlotAddress(s) + o) % P  BY DEF Offset
  <1>6. Vpn(SlotAddress(s) + o) = ((SlotAddress(s) + o) % S) \div P  BY DEF Vpn
  <1>7. Vpn(SlotAddress(s)) = (SlotAddress(s) % S) \div P  BY DEF Vpn
  <1>8. PageOf(s) = H + s  BY DEF PageOf
  <1>9. page_aligned_address(SlotAddress(s)) <=> SlotAddress(s) % P = 0
    BY DEF page_aligned_address
  <1>10. canonical_address(SlotAddress(s)) <=> SlotAddress(s) \div S \in {0, W - 1}
    BY DEF canonical_address
  <1> HIDE DEF P, H, S, W, B, Q
  <1>11. ASSUME NEW u \in 0 .. P - 1
         PROVE  /\ SlotAddress(s) + u = (W - 1) * S + ((H + s) * P + u)
                /\ (H + s) * P + u \in 0 .. S - 2
                /\ (H + s) * P + u \in 0 .. S - 1
    <2>1. (H + s) * P = H * P + s * P /\ s * P \in Nat /\ H * P \in Nat
      BY <1>1, <1>2, <1>3
    <2>2. s * P + u + 1 <= Q * P
      <3>1. (s + 1) * P <= Q * P  BY <1>1, <1>3
      <3>2. (s + 1) * P = s * P + P  BY <1>1, <1>3
      <3> QED  BY <1>1, <1>3, <2>1, <3>1, <3>2
    <2>3. Q * P + 1 <= H * P
      <3>1. (Q + 1) * P <= H * P  BY <1>1, <1>2
      <3>2. (Q + 1) * P = Q * P + P /\ Q * P \in Nat  BY <1>1
      <3> QED  BY <1>1, <2>1, <3>1, <3>2
    <2>4. (W - 1) * S \in Nat /\ u \in Nat /\ Q * P \in Nat  BY <1>1
    <2> QED  BY <1>1, <1>4, <2>1, <2>2, <2>3, <2>4
  <1>12. W - 1 \in Nat /\ H + s \in Nat /\ 0 \in 0 .. P - 1 /\ o \in 0 .. P - 1
    BY <1>1, <1>2, <1>3
  <1>13. ASSUME NEW u \in 0 .. P - 1
         PROVE  /\ (SlotAddress(s) + u) \div S = W - 1
                /\ ((SlotAddress(s) + u) % S) \div P = H + s
                /\ (SlotAddress(s) + u) % P = u
                /\ SlotAddress(s) + u \in 0 .. WORD - 2
    <2> DEFINE y == (H + s) * P + u
    <2>1. SlotAddress(s) + u = (W - 1) * S + y /\ y \in 0 .. S - 2 /\ y \in 0 .. S - 1
      BY <1>11
    <2>2. y \div P = H + s  BY <1>1, <1>12, QuotientIs
    <2>3. ((W - 1) * S + y) \div S = W - 1 /\ ((W - 1) * S + y) % S = y
      <3> HIDE DEF y
      <3> QED  BY <1>1, <1>12, <2>1, QuotientIs
    <2>4. ((W - 1) * (2 * H) + (H + s)) * P + u = (W - 1) * S + y
      <3>1. (W - 1) * (2 * (H * P)) = ((W - 1) * (2 * H)) * P
        BY <1>1, <1>2, <1>12
      <3>2. (W - 1) * (2 * H) \in Nat  BY <1>2, <1>12
      <3>3. ((W - 1) * (2 * H) + (H + s)) * P = ((W - 1) * (2 * H)) * P + (H + s) * P
        BY <1>1, <1>12, <3>2
      <3> QED  BY <1>1, <1>12, <3>1, <3>2, <3>3
    <2>5. (W - 1) * (2 * H) + (H + s) \in Nat  BY <1>2, <1>12
    <2>6. (((W - 1) * (2 * H) + (H + s)) * P + u) % P = u  BY <1>1, <2>5, QuotientIs
    <2>7. (W - 1) * S + y <= WORD - 2 /\ (W - 1) * S + y \in Nat
      <3> HIDE DEF y
      <3>1. (W - 1) * S = WORD - S /\ (W - 1) * S \in Nat  BY <1>1, <1>12
      <3> QED  BY <1>1, <2>1, <3>1
    <2> QED  BY <1>1, <2>1, <2>2, <2>3, <2>4, <2>6, <2>7
  <1>14. SlotAddress(s) \in Nat /\ SlotAddress(s) + 0 = SlotAddress(s)
    <2>1. s * P \in Nat  BY <1>1, <1>3
    <2> QED  BY <1>1, <1>4, <2>1
  <1>15. /\ SlotAddress(s) \div S = W - 1 /\ (SlotAddress(s) % S) \div P = H + s
         /\ SlotAddress(s) % P = 0
    BY <1>12, <1>13, <1>14
  <1>16. /\ ((SlotAddress(s) + o) % S) \div P = H + s /\ (SlotAddress(s) + o) % P = o
         /\ SlotAddress(s) + o \in 0 .. WORD - 2
    BY <1>12, <1>13
  <1>17. (SlotAddress(s) - B) \div P = s /\ SlotAddress(s) >= B
    <2>1. s * P \in Nat  BY <1>1, <1>3
    <2>2. SlotAddress(s) - B = s * P + 0 /\ SlotAddress(s) >= B  BY <1>1, <1>4, <2>1
    <2>3. (s * P + 0) \div P = s  BY <1>1, <1>3, <1>12, QuotientIs
    <2> QED  BY <2>2, <2>3
  <1>18. SlotAddress(s) + o \in 0 .. WORD - 1 /\ SlotAddress(s) + o # WORD - 1
    BY <1>1, <1>16
  <1> USE DEF P, B
  <1>19. /\ Offset(SlotAddress(s) + o) = o /\ page_aligned_address(SlotAddress(s))
         /\ canonical_address(SlotAddress(s))
    BY <1>5, <1>9, <1>10, <1>15, <1>16
  <1>20. Vpn(SlotAddress(s) + o) = PageOf(s) /\ Vpn(SlotAddress(s)) = PageOf(s)
    BY <1>6, <1>7, <1>8, <1>15, <1>16, Zenon
  <1> QED  BY <1>14, <1>17, <1>18, <1>19, <1>20

(* The pages of the window are outside the identity map's entry.            *)
LEMMA WindowHigh ==
  ASSUME NEW s \in Slots
  PROVE  PageOf(s) \in Nat /\ PageOf(s) < Reach(5) /\ High(PageOf(s))
  <1> DEFINE v == PageOf(s)
             h == PAGE_ENTRIES \div 2
             d == Reach(4)
  <1>1. /\ HalfPages \in Nat \ {0} /\ Reach(5) = 2 * HalfPages
        /\ h \in Nat \ {0} /\ PAGE_ENTRIES = 2 * h /\ HalfPages = h * d
    BY HalfFacts
  <1>2. s \in Nat /\ s < HalfPages
    <2>1. ACPI_MAP_WINDOW_PAGES \in Nat \ {0} /\ ACPI_MAP_WINDOW_PAGES < HalfPages
      BY SizeFacts
    <2> QED  BY <1>1, <2>1 DEF Slots
  <1>3. v = HalfPages + s  BY DEF PageOf
  <1>4. v \in Nat /\ v < Reach(5)  BY <1>1, <1>2, <1>3
  <1>5. d \in Nat \ {0}  BY ReachFacts
  <1>6. IndexOf(v, 4) = (v \div d) % PAGE_ENTRIES  BY DEF IndexOf
  <1>7. \A k \in 1 .. 4 : IndexOf(v, k) \in Index  BY <1>4, IndexInTable
  <1> HIDE DEF h, d, v
  <1>8. v \div d >= h /\ v \div d < 2 * h /\ v \div d \in Nat
    <2> DEFINE q == v \div d
    <2>1. q \in Nat /\ q * d <= v /\ v < q * d + d  BY <1>4, <1>5, DivideBy
    <2> HIDE DEF q
    <2>2. ASSUME q + 1 <= h  PROVE FALSE
      <3>1. (q + 1) * d <= h * d  BY <1>1, <1>5, <2>1, <2>2
      <3>2. (q + 1) * d = q * d + d  BY <1>5, <2>1
      <3>3. h * d <= v  BY <1>1, <1>2, <1>3
      <3> QED  BY <1>1, <1>4, <1>5, <2>1, <3>1, <3>2, <3>3
    <2>3. ASSUME q >= 2 * h  PROVE FALSE
      <3>1. q * d >= (2 * h) * d  BY <1>1, <1>5, <2>1, <2>3
      <3>2. (2 * h) * d = 2 * (h * d)  BY <1>1, <1>5
      <3>3. v < 2 * (h * d)  BY <1>1, <1>4
      <3>4. q * d \in Nat /\ h * d \in Nat  BY <1>1, <1>5, <2>1
      <3> QED  BY <1>4, <2>1, <3>1, <3>2, <3>3, <3>4
    <2>4. q >= h /\ q < 2 * h /\ q \in Nat  BY <1>1, <2>1, <2>2, <2>3
    <2> QED  BY <2>4 DEF q
  <1>9. (v \div d) % PAGE_ENTRIES = v \div d  BY <1>1, <1>8
  <1>10. IndexOf(v, 4) # 0  BY <1>1, <1>6, <1>8, <1>9
  <1> QED  BY <1>4, <1>7, <1>10 DEF High, v

(* Pages with the same four indices are the same.                           *)
LEMMA SameIndices ==
  ASSUME NEW v \in Nat, NEW w \in Nat, v < Reach(5), w < Reach(5),
         \A k \in 1 .. 4 : IndexOf(v, k) = IndexOf(w, k)
  PROVE  v = w
  <1> DEFINE n == PAGE_ENTRIES
  <1>1. /\ n \in Nat \ {0} /\ Reach(1) = 1 /\ Reach(2) = n /\ Reach(3) = n * n
        /\ Reach(4) = n * n * n /\ Reach(5) = Reach(4) * n
        /\ Reach(3) \in Nat \ {0} /\ Reach(4) \in Nat \ {0}
    BY ReachFacts
  <1>2. ASSUME NEW x \in Nat, x < Reach(5)
        PROVE  /\ x = (x \div n) * n + IndexOf(x, 1)
               /\ x \div n = (x \div Reach(3)) * n + IndexOf(x, 2)
               /\ x \div Reach(3) = (x \div Reach(4)) * n + IndexOf(x, 3)
               /\ x \div Reach(4) = IndexOf(x, 4)
    <2>1. x \div n \in Nat /\ x \div Reach(3) \in Nat /\ x \div Reach(4) \in Nat
      <3>1. \A d \in Nat \ {0} : x \div d \in Nat  BY <1>2, DivideBy
      <3> QED  BY <1>1, <3>1
    <2>2. \A y \in Nat : y = (y \div n) * n + (y % n)
      <3> HIDE DEF n
      <3> QED  BY <1>1, DivideBy
    <2>3. (x \div n) \div n = x \div Reach(3)
      <3> HIDE DEF n
      <3>1. (x \div n) \div n = x \div (n * n)  BY <1>1, <1>2, DivideTwice
      <3> QED  BY <1>1, <3>1
    <2>4. (x \div Reach(3)) \div n = x \div Reach(4)
      <3> HIDE DEF n
      <3>1. (x \div Reach(3)) \div n = x \div (Reach(3) * n)
        BY <1>1, <1>2, DivideTwice
      <3> QED  BY <1>1, <3>1
    <2>5. IndexOf(x, 1) = x % n
      <3>1. x \div 1 = x  BY <1>2
      <3> QED  BY <1>1, <3>1 DEF IndexOf
    <2>6. IndexOf(x, 2) = (x \div n) % n  BY <1>1 DEF IndexOf
    <2>7. /\ IndexOf(x, 3) = (x \div Reach(3)) % n
          /\ IndexOf(x, 4) = (x \div Reach(4)) % n
      BY DEF IndexOf
    <2>8. x \div Reach(4) < n
      <3> DEFINE d == Reach(4)
                 q == x \div d
      <3>1. d \in Nat \ {0} /\ x < d * n  BY <1>1, <1>2
      <3> HIDE DEF d, n
      <3>2. q \in Nat /\ q * d <= x  BY <1>2, <3>1, DivideBy
      <3> HIDE DEF q
      <3>3. ASSUME q >= n  PROVE FALSE
        <4>1. q * d >= n * d  BY <1>1, <3>1, <3>2, <3>3
        <4>2. n * d = d * n /\ d * n \in Nat  BY <1>1, <3>1
        <4> QED  BY <1>2, <3>1, <3>2, <4>1, <4>2
      <3>4. q < n  BY <1>1, <3>2, <3>3
      <3> QED  BY <3>4 DEF q, d
    <2>9. (x \div Reach(4)) % n = x \div Reach(4)
      <3> DEFINE q == x \div Reach(4)
      <3>1. q \in Nat /\ q < n  BY <2>1, <2>8
      <3> HIDE DEF q, n
      <3>2. q % n = q  BY <1>1, <3>1
      <3> QED  BY <3>2 DEF q
    <2> HIDE DEF n
    <2>10. x = (x \div n) * n + IndexOf(x, 1)  BY <1>2, <2>2, <2>5, Zenon
    <2>11. x \div n = (x \div Reach(3)) * n + IndexOf(x, 2)
      BY <2>1, <2>2, <2>3, <2>6, Zenon
    <2>12. x \div Reach(3) = (x \div Reach(4)) * n + IndexOf(x, 3)
      BY <2>1, <2>2, <2>4, <2>7, Zenon
    <2> QED  BY <2>7, <2>9, <2>10, <2>11, <2>12
  <1>3. /\ IndexOf(v, 1) = IndexOf(w, 1) /\ IndexOf(v, 2) = IndexOf(w, 2)
        /\ IndexOf(v, 3) = IndexOf(w, 3) /\ IndexOf(v, 4) = IndexOf(w, 4)
    OBVIOUS
  <1> HIDE DEF n
  <1>4. v \div Reach(4) = w \div Reach(4)  BY <1>2, <1>3, Zenon
  <1>5. v \div Reach(3) = w \div Reach(3)  BY <1>2, <1>3, <1>4, Zenon
  <1>6. v \div n = w \div n  BY <1>2, <1>3, <1>5, Zenon
  <1> QED  BY <1>2, <1>3, <1>6, Zenon

LEMMA WindowPagesAre ==
  /\ \A s \in Slots : PageOf(s) \in WindowPages
  /\ \A v \in WindowPages : \E s \in Slots : v = PageOf(s)
  /\ \A s, t : s \in Nat /\ t \in Nat /\ PageOf(s) = PageOf(t) => s = t
  <1>1. \A s \in Slots : Vpn(SlotAddress(s)) = PageOf(s)
    <2>1. 0 \in 0 .. PMM_PAGE_SIZE - 1  BY SizeFacts
    <2> QED  BY <2>1, SlotFacts
  <1>2. \A s, t : s \in Nat /\ t \in Nat /\ PageOf(s) = PageOf(t) => s = t
    BY HalfFacts DEF PageOf
  <1> QED  BY <1>1, <1>2 DEF WindowPages

(* The address of page i of a request: a multiple of the page size, also    *)
(* where it wraps.                                                          *)
LEMMA PlainFacts ==
  ASSUME NEW pa \in Nat, NEW i \in Nat
  PROVE  /\ Plain(pa, i) \in Nat /\ Plain(pa, i) = (pa \div PMM_PAGE_SIZE + i) * PMM_PAGE_SIZE
         /\ pa \div PMM_PAGE_SIZE \in Nat /\ Offset(pa) \in 0 .. PMM_PAGE_SIZE - 1
         /\ pa = (pa \div PMM_PAGE_SIZE) * PMM_PAGE_SIZE + Offset(pa)
         /\ Plain(pa, i) \div PMM_PAGE_SIZE = pa \div PMM_PAGE_SIZE + i
         /\ Plain(pa, i) % WORD \in Nat /\ (Plain(pa, i) % WORD) % PMM_PAGE_SIZE = 0
         /\ Plain(pa, i) < WORD => Plain(pa, i) % WORD = Plain(pa, i)
  <1> DEFINE P == PMM_PAGE_SIZE
             a == pa \div P
             o == pa % P
             x == Plain(pa, i)
  <1>1. P \in Nat \ {0} /\ WORD \in Nat /\ WORD > 0
    BY SizeFacts, PmmAssumption
  <1>2. Offset(pa) = o /\ x = pa - o + i * P  BY DEF Offset, Plain
  <1>3. a \in Nat /\ o \in 0 .. P - 1 /\ pa = a * P + o
    <2> HIDE DEF P
    <2> QED  BY <1>1, DivideBy
  <1> HIDE DEF P, a, o, x
  <1>4. x = (a + i) * P /\ x \in Nat
    <2>1. (a + i) * P = a * P + i * P /\ a * P \in Nat /\ i * P \in Nat  BY <1>1, <1>3
    <2> QED  BY <1>1, <1>2, <1>3, <2>1
  <1>5. x \div P = a + i
    <2>1. ((a + i) * P + 0) \div P = a + i  BY <1>1, <1>3, QuotientIs
    <2> QED  BY <1>1, <1>3, <1>4, <2>1
  <1>6. x % WORD \in Nat /\ (x < WORD => x % WORD = x)  BY <1>1, <1>4
  <1>7. (x % WORD) % P = 0
    <2> DEFINE k == (WORD \div VA_SPAN) * (2 * HalfPages)
               q == (a + i) \div k
               r == (a + i) % k
    <2>1. k \in Nat \ {0} /\ WORD = k * P
      <3>1. /\ WORD = (WORD \div VA_SPAN) * VA_SPAN /\ VA_SPAN = 2 * (HalfPages * P)
            /\ WORD \div VA_SPAN \in Nat \ {0} /\ HalfPages \in Nat \ {0}
        BY SizeFacts, HalfFacts DEF P
      <3> DEFINE w == WORD \div VA_SPAN
      <3>2. w \in Nat \ {0} /\ WORD = w * (2 * (HalfPages * P))  BY <3>1
      <3> HIDE DEF w
      <3>3. w * (2 * HalfPages) \in Nat \ {0}  BY <3>1, <3>2
      <3>4. w * (2 * (HalfPages * P)) = (w * (2 * HalfPages)) * P  BY <1>1, <3>1, <3>2
      <3> QED  BY <3>2, <3>3, <3>4 DEF w
    <2> HIDE DEF k
    <2>2. a + i \in Nat /\ q \in Nat /\ r \in 0 .. k - 1 /\ a + i = q * k + r
      <3> DEFINE z == a + i
      <3>1. z \in Nat  BY <1>3
      <3> HIDE DEF z
      <3>2. z \div k \in Nat /\ z % k \in 0 .. k - 1 /\ z = (z \div k) * k + (z % k)
        BY <2>1, <3>1, DivideBy
      <3> QED  BY <3>1, <3>2 DEF z
    <2> HIDE DEF q, r
    <2>3. x = q * (k * P) + r * P
      <3>1. (q * k + r) * P = q * (k * P) + r * P  BY <1>1, <2>1, <2>2
      <3> QED  BY <1>4, <2>2, <3>1
    <2>4. r * P \in 0 .. (k * P) - 1
      <3>1. r \in Nat /\ r + 1 <= k  BY <2>1, <2>2
      <3>2. (r + 1) * P <= k * P  BY <1>1, <2>1, <3>1
      <3>3. (r + 1) * P = r * P + P /\ r * P \in Nat /\ k * P \in Nat  BY <1>1, <2>1, <3>1
      <3> QED  BY <1>1, <3>2, <3>3
    <2>5. k * P \in Nat \ {0}  BY <1>1, <2>1
    <2>6. (q * (k * P) + r * P) % (k * P) = r * P  BY <2>2, <2>4, <2>5, QuotientIs
    <2>7. x % WORD = r * P + 0  BY <1>1, <2>1, <2>2, <2>3, <2>6
    <2>8. (r * P + 0) % P = 0  BY <1>1, <2>2, QuotientIs
    <2> QED  BY <2>7, <2>8
  <1> QED  BY <1>2, <1>3, <1>4, <1>5, <1>6, <1>7 DEF P, a, x

-----------------------------------------------------------------------------
(* Calls, records and slots.                                                *)

LEMMA RunFacts ==
  /\ RunOf(NoRecord) = {}
  /\ \A s, c : InWindow(s, c) =>
       /\ RunOf(RecordFor(s, c)) = SlotRange(s, c)
       /\ SlotRange(s, c) \subseteq Slots /\ s \in SlotRange(s, c)
       /\ RecordFor(s, c) # NoRecord
  <1>1. RunOf(NoRecord) = {}
    <2> DEFINE x == (0 - ACPI_MAP_WINDOW_BASE) \div PMM_PAGE_SIZE
    <2>1. x \in Int  BY SizeFacts
    <2>2. RunOf(NoRecord) = x .. x + 0 - 1  BY DEF RunOf, NoRecord, SlotRange
    <2> HIDE DEF x
    <2> QED  BY <2>1, <2>2
  <1>2. ASSUME NEW s, NEW c, InWindow(s, c)
        PROVE  /\ RunOf(RecordFor(s, c)) = SlotRange(s, c)
               /\ SlotRange(s, c) \subseteq Slots /\ s \in SlotRange(s, c)
               /\ RecordFor(s, c) # NoRecord
    <2>1. s \in Slots /\ s \in Nat /\ c \in Nat /\ c > 0 /\ s + c <= ACPI_MAP_WINDOW_PAGES
      BY <1>2, SizeFacts DEF InWindow, Slots
    <2>2. (SlotAddress(s) - ACPI_MAP_WINDOW_BASE) \div PMM_PAGE_SIZE = s
      <3>1. 0 \in 0 .. PMM_PAGE_SIZE - 1  BY SizeFacts
      <3> QED  BY <2>1, <3>1, SlotFacts
    <2>3. RunOf(RecordFor(s, c)) = SlotRange(s, c)  BY <2>2 DEF RunOf, RecordFor
    <2>4. SlotRange(s, c) \subseteq Slots /\ s \in SlotRange(s, c)
      BY <2>1, SizeFacts DEF SlotRange, Slots
    <2>5. RecordFor(s, c) # NoRecord  BY <2>1 DEF RecordFor, NoRecord
    <2> QED  BY <2>3, <2>4, <2>5
  <1> QED  BY <1>1, <1>2

LEMMA RecordFacts ==
  ASSUME NEW rec, RecordOK(rec)
  PROVE  /\ rec \in [virtual_base : Nat, page_count : Nat]
         /\ RunOf(rec) \subseteq Slots
         /\ rec.page_count = 0 <=> rec = NoRecord
  <1>1. CASE rec = NoRecord  BY <1>1, RunFacts DEF NoRecord
  <1>2. CASE rec # NoRecord
    <2>1. PICK s \in Slots, c \in 1 .. ACPI_MAP_WINDOW_PAGES :
            InWindow(s, c) /\ rec = RecordFor(s, c)
      BY <1>2 DEF RecordOK
    <2>2. SlotAddress(s) \in Nat
      <3>1. 0 \in 0 .. PMM_PAGE_SIZE - 1  BY SizeFacts
      <3> QED  BY <3>1, SlotFacts
    <2>3. c \in Nat /\ c # 0  BY SizeFacts
    <2>4. rec \in [virtual_base : Nat, page_count : Nat] /\ rec.page_count # 0
      BY <2>1, <2>2, <2>3 DEF RecordFor
    <2>5. RunOf(rec) \subseteq Slots  BY <2>1, RunFacts
    <2> QED  BY <1>2, <2>4, <2>5
  <1> QED  BY <1>1, <1>2

LEMMA RequestFacts ==
  ASSUME NEW q \in Requests
  PROVE  /\ q[1] \in Nat /\ q[2] \in Nat /\ q[3] \in Nat
         /\ q = <<q[1], q[2], q[3]>> /\ q[1] < WORD /\ q[2] < WORD
  <1>1. q \in (0 .. WORD - 1) \X (0 .. WORD - 1) \X (0 .. WORD - 1)  BY AcpiAssumption
  <1> QED  BY <1>1, PmmAssumption

(* map_page and unmap_page begin a walk or return at once.                  *)
LEMMA PageCallVpc ==
  /\ \A va, pa : map_page(va, pa) => vpc = "done" /\ vpc' \in {"done", "walk"}
  /\ \A va : unmap_page(va) => vpc = "done" /\ vpc' \in {"done", "walk"}
  BY DEF map_page, unmap_page, BeginWalk, vmmVars

LEMMA VmmStepVpc == VmmStep => vpc # "done"
  BY DEF VmmStep, Descend, AllocateTableFails, ZeroPage, LinkTable, WriteEntry, Flush,
         AllocateTable, Walking

LEMMA CallInit == Init => CallInv /\ SlotsInv
  <1> SUFFICES ASSUME Init  PROVE CallInv /\ SlotsInv
    OBVIOUS
  <1>1. CallInv  BY DEF Init, CallInv, CallType, NoCall, Mapping
  <1>2. CallRun = {} /\ map_slots = {} /\ mappings = [r \in Records |-> NoRecord]
    BY DEF Init, CallRun
  <1>3. SlotsInv  BY <1>2, RunFacts DEF SlotsInv, RecordOK
  <1> QED  BY <1>1, <1>3

(* The steps that leave records and slots alone.                            *)
LEMMA SlotsUnchanged ==
  ASSUME SlotsInv, UNCHANGED <<map_slots, mappings>>, CallRun' = CallRun
  PROVE  SlotsInv'
  BY DEF SlotsInv

(* A record is found and a run of clear slots is reserved.                  *)
LEMMA MapBeginSlots ==
  ASSUME CallInv, SlotsInv, NEW q \in Requests, NEW r \in Records, NEW s \in Slots,
         MapBegin(q[1], q[2], q[3], r, s)
  PROVE  CallInv' /\ SlotsInv'
  <1> DEFINE c == PageCount(q[1], q[2])
  <1>1. /\ apc = "idle" /\ WindowRequest(q[1], q[2]) /\ FirstEmpty(r) /\ FirstFit(s, c)
        /\ map_slots' = map_slots \cup SlotRange(s, c)
        /\ call' = [pa |-> q[1], len |-> q[2], back |-> q[3], start |-> s,
                    count |-> c, record |-> r]
        /\ index' = 0 /\ apc' = "install" /\ mappings' = mappings /\ vpc' = vpc
    BY DEF MapBegin, reserve_slots, vmmVars
  <1>2. InWindow(s, c)
    <2>1. c \in 1 .. ACPI_MAP_WINDOW_PAGES /\ s <= ACPI_MAP_WINDOW_PAGES - c
      BY <1>1 DEF WindowRequest, FirstFit, Fits
    <2>2. s \in Nat  BY SizeFacts DEF Slots
    <2> QED  BY <2>1, <2>2, SizeFacts DEF InWindow
  <1>3. mappings[r] = NoRecord
    BY <1>1, RecordFacts DEF FirstEmpty, SlotsInv
  <1>4. /\ call'.pa = q[1] /\ call'.len = q[2] /\ call'.back = q[3] /\ call'.start = s
        /\ call'.count = c /\ call'.record = r
    BY <1>1
  <1>5. s \in Nat /\ c \in Nat /\ r \in Nat
    BY <1>2, SizeFacts, AcpiAssumption DEF Slots, Records, InWindow
  <1> HIDE DEF c
  <1>6. vpc = "done"  BY <1>1 DEF CallInv
  <1>7. call' \in CallType  BY <1>1, <1>5, RequestFacts DEF CallType
  <1>8. <<q[1], q[2], q[3]>> \in Requests  BY RequestFacts
  <1>9. CallInv'
    <2>1. c = PageCount(q[1], q[2])  BY DEF c
    <2>2. WindowRequest(call'.pa, call'.len) /\ call'.count = PageCount(call'.pa, call'.len)
      BY <1>1, <1>4, <2>1
    <2> QED
      BY <1>1, <1>2, <1>3, <1>4, <1>5, <1>6, <1>7, <1>8, <2>2 DEF CallInv, Mapping
  <1>10. CallRun = {} /\ CallRun' = SlotRange(s, c)  BY <1>1, <1>4 DEF CallRun
  <1>11. SlotRange(s, c) \cap map_slots = {}
    <2>1. \A i \in 0 .. c - 1 : s + i \notin map_slots  BY <1>1 DEF FirstFit, Fits, c
    <2>2. \A t \in SlotRange(s, c) : t - s \in 0 .. c - 1 /\ s + (t - s) = t
      BY <1>5 DEF SlotRange
    <2> QED  BY <2>1, <2>2
  <1>12. SlotsInv'
    BY <1>1, <1>10, <1>11 DEF SlotsInv
  <1> QED  BY <1>9, <1>12

(* The record is filled in when all pages are installed.                    *)
LEMMA MapReturnSlots ==
  ASSUME CallInv, SlotsInv, MapReturn
  PROVE  CallInv' /\ SlotsInv'
  <1> DEFINE rec == RecordFor(call.start, call.count)
             r == call.record
  <1>1. /\ apc = "install" /\ mappings' = [mappings EXCEPT ![r] = rec]
        /\ apc' = "idle" /\ call' = NoCall /\ index' = 0
        /\ map_slots' = map_slots /\ vpc' = vpc
    BY DEF MapReturn, RecordFor, vmmVars
  <1>2. /\ vpc = "done" /\ r \in Records /\ mappings[r] = NoRecord
        /\ InWindow(call.start, call.count)
    BY <1>1 DEF CallInv, Mapping
  <1>3. CallInv'
    BY <1>1, <1>2 DEF CallInv, Mapping, CallType, NoCall
  <1>4. CallRun = SlotRange(call.start, call.count) /\ CallRun' = {}
    BY <1>1 DEF CallRun
  <1>5. RunOf(rec) = CallRun /\ RunOf(mappings[r]) = {}  BY <1>2, <1>4, RunFacts
  <1>6. RecordOK(rec)  BY <1>2 DEF RecordOK, InWindow
  <1>7. /\ DOMAIN mappings' = Records /\ mappings'[r] = rec
        /\ \A q \in Records : q # r => mappings'[q] = mappings[q]
    BY <1>1, <1>2 DEF SlotsInv
  <1> HIDE DEF rec, r
  <1>8. SlotsInv'
    <2>1. \A q \in Records : RecordOK(mappings'[q])  BY <1>6, <1>7 DEF SlotsInv
    <2>2. \A p, q \in Records : p # q => RunOf(mappings'[p]) \cap RunOf(mappings'[q]) = {}
      <3> SUFFICES ASSUME NEW p \in Records, NEW q \in Records, p # q
                   PROVE  RunOf(mappings'[p]) \cap RunOf(mappings'[q]) = {}
        OBVIOUS
      <3>1. CASE p = r  BY <1>5, <1>7, <3>1 DEF SlotsInv
      <3>2. CASE q = r  BY <1>5, <1>7, <3>2 DEF SlotsInv
      <3>3. CASE p # r /\ q # r  BY <1>7, <3>3 DEF SlotsInv
      <3> QED  BY <3>1, <3>2, <3>3
    <2>3. \A t : t \in map_slots' <=> \E q \in Records : t \in RunOf(mappings'[q])
      BY <1>1, <1>2, <1>5, <1>7 DEF SlotsInv
    <2> QED  BY <1>4, <1>7, <2>1, <2>2, <2>3 DEF SlotsInv
  <1> QED  BY <1>3, <1>8

LEMMA RollbackDoneSlots ==
  ASSUME CallInv, SlotsInv, RollbackDone
  PROVE  CallInv' /\ SlotsInv'
  <1>1. /\ apc = "rollback" /\ vpc = "done" /\ release_slots(call.start, call.count)
        /\ apc' = "idle" /\ call' = NoCall /\ index' = 0
        /\ mappings' = mappings /\ vpc' = vpc
    BY DEF RollbackDone, vmmVars
  <1>2. InWindow(call.start, call.count)  BY <1>1 DEF CallInv, Mapping
  <1>3. CallInv'  BY <1>1 DEF CallInv, Mapping, CallType, NoCall
  <1>4. CallRun = SlotRange(call.start, call.count) /\ CallRun' = {}
    BY <1>1 DEF CallRun
  <1>5. map_slots' = map_slots \ SlotRange(call.start, call.count)
    BY <1>1, <1>2, SizeFacts DEF release_slots, InWindow, Slots
  <1>6. SlotsInv'  BY <1>1, <1>4, <1>5 DEF SlotsInv
  <1> QED  BY <1>3, <1>6

LEMMA UnmapDoneSlots ==
  ASSUME CallInv, SlotsInv, UnmapDone
  PROVE  CallInv' /\ SlotsInv'
  <1> DEFINE r == call.record
  <1>1. /\ apc = "unmap" /\ vpc = "done" /\ release_slots(call.start, call.count)
        /\ mappings' = [mappings EXCEPT ![r] = NoRecord]
        /\ apc' = "idle" /\ call' = NoCall /\ index' = 0 /\ vpc' = vpc
    BY DEF UnmapDone, vmmVars
  <1>2. /\ InWindow(call.start, call.count) /\ r \in Records
        /\ mappings[r] = RecordFor(call.start, call.count)
    BY <1>1 DEF CallInv, Mapping
  <1>3. CallInv'  BY <1>1 DEF CallInv, Mapping, CallType, NoCall
  <1>4. CallRun = {} /\ CallRun' = {}  BY <1>1 DEF CallRun
  <1>5. RunOf(mappings[r]) = SlotRange(call.start, call.count)  BY <1>2, RunFacts
  <1>6. map_slots' = map_slots \ RunOf(mappings[r])
    BY <1>1, <1>2, <1>5, SizeFacts DEF release_slots, InWindow, Slots
  <1>7. /\ DOMAIN mappings' = Records /\ mappings'[r] = NoRecord
        /\ \A q \in Records : q # r => mappings'[q] = mappings[q]
    BY <1>1, <1>2 DEF SlotsInv
  <1>8. RunOf(mappings'[r]) = {}  BY <1>7, RunFacts
  <1> HIDE DEF r
  <1>9. \A q \in Records : RecordOK(mappings'[q])  BY <1>7 DEF SlotsInv, RecordOK
  <1>10. \A p, q \in Records : p # q => RunOf(mappings'[p]) \cap RunOf(mappings'[q]) = {}
    <2> SUFFICES ASSUME NEW p \in Records, NEW q \in Records, p # q
                 PROVE  RunOf(mappings'[p]) \cap RunOf(mappings'[q]) = {}
      OBVIOUS
    <2>1. CASE p = r  BY <1>8, <2>1
    <2>2. CASE q = r  BY <1>8, <2>2
    <2>3. CASE p # r /\ q # r  BY <1>7, <2>3 DEF SlotsInv
    <2> QED  BY <2>1, <2>2, <2>3
  <1>11. \A t : t \in map_slots' <=> \E q \in Records : t \in RunOf(mappings'[q])
    <2>1. \A t : t \in map_slots <=> \E q \in Records : t \in RunOf(mappings[q])
      BY <1>4 DEF SlotsInv
    <2>2. \A q \in Records : q # r => RunOf(mappings[q]) \cap RunOf(mappings[r]) = {}
      BY <1>2 DEF SlotsInv
    <2> QED  BY <1>6, <1>7, <1>8, <2>1, <2>2
  <1>12. SlotsInv'  BY <1>4, <1>7, <1>9, <1>10, <1>11 DEF SlotsInv
  <1> QED  BY <1>3, <1>12

LEMMA UnmapBeginSlots ==
  ASSUME CallInv, SlotsInv, NEW m, NEW r \in Records, UnmapBegin(m, r)
  PROVE  /\ CallInv' /\ SlotsInv' /\ mappings[r] # NoRecord
         /\ \E s \in Slots : /\ m.va - Offset(m.va) = SlotAddress(s) /\ call'.start = s
                            /\ mappings[r] = RecordFor(s, PageCount(m.va, m.back))
  <1> DEFINE base == m.va - Offset(m.va)
             c == PageCount(m.va, m.back)
             d == (base - ACPI_MAP_WINDOW_BASE) \div PMM_PAGE_SIZE
  <1>1. /\ apc = "idle" /\ ~UnmapOutside(m.va, m.back) /\ FirstMatch(r, base, c)
        /\ call' = [NoCall EXCEPT !.count = c, !.record = r, !.start = d]
        /\ index' = 0 /\ apc' = "unmap"
        /\ map_slots' = map_slots /\ mappings' = mappings /\ vpc' = vpc
    BY DEF UnmapBegin, vmmVars
  <1>2. mappings[r] = [virtual_base |-> base, page_count |-> c]
    BY <1>1 DEF FirstMatch, Matches
  <1>3. c \in 1 .. ACPI_MAP_WINDOW_PAGES  BY <1>1 DEF UnmapOutside
  <1>4. call' = [pa |-> 0, len |-> 0, back |-> 0, start |-> d, count |-> c, record |-> r]
    BY <1>1 DEF NoCall
  <1> HIDE DEF base, c, d
  <1>5. RecordOK(mappings[r])  BY DEF SlotsInv
  <1>6. mappings[r] # NoRecord
    <2>1. c # 0  BY <1>3
    <2> QED  BY <1>2, <2>1 DEF NoRecord
  <1>7. PICK s \in Slots, e \in 1 .. ACPI_MAP_WINDOW_PAGES :
          InWindow(s, e) /\ mappings[r] = RecordFor(s, e)
    BY <1>5, <1>6 DEF RecordOK
  <1>8. base = SlotAddress(s) /\ e = c  BY <1>2, <1>7 DEF RecordFor
  <1>9. d = s
    <2>1. 0 \in 0 .. PMM_PAGE_SIZE - 1  BY SizeFacts
    <2> QED  BY <1>8, <2>1, SlotFacts DEF d
  <1>10. /\ call'.start = s /\ call'.count = c /\ call'.record = r  BY <1>4, <1>9
  <1>11. s \in Nat /\ c \in Nat /\ r \in Nat
    BY <1>3, SizeFacts, AcpiAssumption DEF Slots, Records
  <1>12. call' \in CallType  BY <1>4, <1>9, <1>11 DEF CallType
  <1>13. vpc = "done"  BY <1>1 DEF CallInv
  <1>14. CallInv'
    BY <1>1, <1>7, <1>8, <1>10, <1>11, <1>12, <1>13 DEF CallInv, Mapping
  <1>15. CallRun' = {} /\ CallRun = {}  BY <1>1 DEF CallRun
  <1>16. SlotsInv'  BY <1>1, <1>15, SlotsUnchanged
  <1>17. base = m.va - Offset(m.va) /\ c = PageCount(m.va, m.back)  BY DEF base, c
  <1> QED  BY <1>6, <1>7, <1>8, <1>10, <1>14, <1>16, <1>17

(* The other steps change neither records nor slots.                        *)
LEMMA OtherSlots ==
  ASSUME CallInv, SlotsInv,
         \/ InstallPage \/ CheckPage \/ RollbackPage \/ UnmapPage
         \/ VmmStep /\ UNCHANGED acpiVars
  PROVE  CallInv' /\ SlotsInv'
  <1>1. call \in CallType /\ index \in Nat  BY DEF CallInv
  <1>2. call.count \in Nat  BY <1>1 DEF CallType
  <1>3. CASE InstallPage
    <2>1. /\ apc = "install" /\ apc' = "check" /\ index < call.count
          /\ UNCHANGED <<map_slots, mappings, call, index>>
      BY <1>3 DEF InstallPage
    <2>2. CallRun' = CallRun  BY <2>1 DEF CallRun
    <2>3. CallInv'  BY <2>1 DEF CallInv, Mapping
    <2> QED  BY <2>1, <2>2, <2>3, SlotsUnchanged
  <1>4. CASE CheckPage
    <2>1. /\ apc = "check" /\ vpc = "done" /\ vpc' = vpc
          /\ \/ apc' = "install" /\ index' = index + 1
             \/ apc' = "rollback" /\ index' = index
          /\ UNCHANGED <<map_slots, mappings, call>>
      BY <1>4 DEF CheckPage, vmmVars
    <2>2. CallRun' = CallRun  BY <2>1 DEF CallRun
    <2>3. CallInv'  BY <1>1, <1>2, <2>1 DEF CallInv, Mapping
    <2> QED  BY <2>1, <2>2, <2>3, SlotsUnchanged
  <1>5. CASE RollbackPage
    <2>1. /\ apc = "rollback" /\ apc' = apc /\ index # 0 /\ index' = index - 1
          /\ UNCHANGED <<map_slots, mappings, call>>
      BY <1>5 DEF RollbackPage
    <2>2. CallRun' = CallRun  BY <2>1 DEF CallRun
    <2>3. CallInv'  BY <1>1, <1>2, <2>1 DEF CallInv, Mapping
    <2> QED  BY <2>1, <2>2, <2>3, SlotsUnchanged
  <1>6. CASE UnmapPage
    <2>1. /\ apc = "unmap" /\ apc' = apc /\ index < call.count /\ index' = index + 1
          /\ UNCHANGED <<map_slots, mappings, call>>
      BY <1>6 DEF UnmapPage
    <2>2. CallRun' = CallRun  BY <2>1 DEF CallRun
    <2>3. CallInv'  BY <1>1, <1>2, <2>1 DEF CallInv, Mapping
    <2> QED  BY <2>1, <2>2, <2>3, SlotsUnchanged
  <1>7. CASE VmmStep /\ UNCHANGED acpiVars
    <2>1. vpc # "done" /\ UNCHANGED <<map_slots, mappings, call, apc, index>>
      BY <1>7, VmmStepVpc DEF acpiVars
    <2>2. CallRun' = CallRun  BY <2>1 DEF CallRun
    <2>3. CallInv'  BY <2>1 DEF CallInv, Mapping
    <2> QED  BY <2>1, <2>2, <2>3, SlotsUnchanged
  <1> QED  BY <1>3, <1>4, <1>5, <1>6, <1>7

LEMMA IdleSlots ==
  ASSUME CallInv, SlotsInv, UNCHANGED <<map_slots, mappings, call, index, vpc>>,
         apc' = apc \/ (apc = "boot" /\ apc' = "idle")
  PROVE  CallInv' /\ SlotsInv'
  <1>1. CallRun' = CallRun  BY DEF CallRun
  <1>2. CallInv'  BY DEF CallInv, Mapping
  <1> QED  BY <1>1, <1>2, SlotsUnchanged

LEMMA SlotsStep == CallInv /\ SlotsInv /\ [Next]_vars => CallInv' /\ SlotsInv'
  <1> SUFFICES ASSUME CallInv, SlotsInv, [Next]_vars  PROVE CallInv' /\ SlotsInv'
    OBVIOUS
  <1>1. ASSUME NEW q \in Requests, NEW r \in Records, NEW s \in Slots,
               MapBegin(q[1], q[2], q[3], r, s)
        PROVE  CallInv' /\ SlotsInv'
    BY <1>1, MapBeginSlots
  <1>2. ASSUME NEW m \in live, NEW r \in Records, UnmapBegin(m, r)
        PROVE  CallInv' /\ SlotsInv'
    BY <1>2, UnmapBeginSlots
  <1>3. CASE MapReturn  BY <1>3, MapReturnSlots
  <1>4. CASE RollbackDone  BY <1>4, RollbackDoneSlots
  <1>5. CASE UnmapDone  BY <1>5, UnmapDoneSlots
  <1>6. CASE \/ InstallPage \/ CheckPage \/ RollbackPage \/ UnmapPage
             \/ VmmStep /\ UNCHANGED acpiVars
    BY <1>6, OtherSlots
  <1>7. CASE VmmInit
    <2>1. /\ UNCHANGED <<map_slots, mappings, call, index, vpc>>
          /\ apc = "boot" /\ apc' = "idle"
      BY <1>7 DEF VmmInit, paging_init
    <2> QED  BY <2>1, IdleSlots
  <1>8. CASE UNCHANGED vars
    <2>1. UNCHANGED <<map_slots, mappings, call, index, vpc, apc>>
      BY <1>8 DEF vars, acpiVars, vmmVars
    <2> QED  BY <2>1, IdleSlots
  <1>9. CASE CpuStep
    <2>1. UNCHANGED <<map_slots, mappings, call, index, vpc, apc>>
      BY <1>9 DEF CpuStep, TlbFill, acpiVars
    <2> QED  BY <2>1, IdleSlots
  <1>10. ASSUME NEW q \in Requests, NEW s \in Slots,
                \/ MapIdentity(q[1], q[2], q[3]) \/ MapRefused(q[1], q[2])
                \/ UnmapUnknown(SlotAddress(s) + Offset(q[1]), q[3])
         PROVE  CallInv' /\ SlotsInv'
    <2>1. UNCHANGED <<map_slots, mappings, call, index, vpc, apc>>
      BY <1>10 DEF MapIdentity, MapRefused, UnmapUnknown, vars, acpiVars, vmmVars
    <2> QED  BY <2>1, IdleSlots
  <1>11. ASSUME NEW m \in live, UnmapIdentity(m)  PROVE CallInv' /\ SlotsInv'
    <2>1. UNCHANGED <<map_slots, mappings, call, index, vpc, apc>>
      BY <1>11 DEF UnmapIdentity, vmmVars
    <2> QED  BY <2>1, IdleSlots
  <1>12. 0 \in Slots  BY SizeFacts DEF Slots
  <1> QED
    BY <1>1, <1>2, <1>3, <1>4, <1>5, <1>6, <1>7, <1>8, <1>9, <1>10, <1>11, <1>12
    DEF Next, KernelStep, ClientCall

(* Disjoint runs that are not empty are different, so there is one for each *)
(* record in use.                                                           *)
LEMMA SlotsImply == SlotsInv => SlotsMatchRecords
  <1> SUFFICES ASSUME SlotsInv  PROVE SlotsMatchRecords
    OBVIOUS
  <1> DEFINE used == {q \in Records : mappings[q].page_count # 0}
             run(q) == RunOf(mappings[q])
  <1>1. Runs = {run(q) : q \in used}  BY DEF Runs, RunOf
  <1>2. \A q \in Records : q \in used \/ run(q) = {}
    BY RecordFacts, RunFacts DEF SlotsInv
  <1>3. \A q \in used : run(q) # {}
    <2> SUFFICES ASSUME NEW q \in used  PROVE run(q) # {}
      OBVIOUS
    <2>1. mappings[q] # NoRecord /\ RecordOK(mappings[q])
      BY RecordFacts DEF SlotsInv
    <2> QED  BY <2>1, RunFacts DEF RecordOK
  <1>4. \A p, q \in used : run(p) = run(q) => p = q
    BY <1>3 DEF SlotsInv
  <1>5. \A p, q \in Records : p # q => run(p) \cap run(q) = {}  BY DEF SlotsInv
  <1>6. \A q \in Records : run(q) \cap CallRun = {}  BY DEF SlotsInv
  <1>7. \A s : s \in map_slots <=> s \in CallRun \/ \E q \in Records : s \in run(q)
    BY DEF SlotsInv
  <1> HIDE DEF run
  <1>8. map_slots = (UNION Runs) \cup CallRun
    <2>1. \A s : s \in UNION Runs <=> \E q \in used : s \in run(q)  BY <1>1
    <2>2. \A s : s \in UNION Runs <=> \E q \in Records : s \in run(q)  BY <1>2, <2>1
    <2> QED  BY <1>7, <2>2
  <1>9. \A a, b \in Runs \cup {CallRun} : a # b => a \cap b = {}
    BY <1>1, <1>5, <1>6
  <1>10. Cardinality(Runs) = Cardinality(used)
    <2> DEFINE f == [q \in used |-> run(q)]
    <2>1. f \in Bijection(used, Runs)
      <3>1. f \in Injection(used, Runs)  BY <1>1, <1>4 DEF Injection, IsInjective
      <3>2. f \in Surjection(used, Runs)  BY <1>1 DEF Surjection
      <3> QED  BY <3>1, <3>2 DEF Bijection
    <2>2. IsFiniteSet(used)
      <3>1. IsFiniteSet(Records)  BY FS_Interval, AcpiAssumption DEF Records
      <3> QED  BY <3>1, FS_Subset
    <2> QED  BY <2>1, <2>2, FS_Bijection DEF ExistsBijection
  <1> QED  BY <1>8, <1>9, <1>10 DEF SlotsMatchRecords

(* The bitmap of slots and the records of uacpi_kernel_map agree, for every *)
(* window, every number of records and every mix of calls: no slot is       *)
(* handed out twice and a mapping that fails half way loses none.           *)
THEOREM SlotsCorrect == Spec => []SlotsMatchRecords
  <1>1. Init => CallInv /\ SlotsInv  BY CallInit
  <1>2. CallInv /\ SlotsInv /\ [Next]_vars => (CallInv /\ SlotsInv)'  BY SlotsStep
  <1>3. CallInv /\ SlotsInv => SlotsMatchRecords  BY SlotsImply
  <1> QED  BY <1>1, <1>2, <1>3, PTL DEF Spec

-----------------------------------------------------------------------------
(* Walks, frames, tables and the TLB.                                       *)

BaseInv == CallInv /\ SlotsInv /\ WalkInv /\ FramesInv /\ TreeInv /\ TlbInv

(* A call of the VMM is about a page of the window.                         *)
LEMMA TargetFacts ==
  ASSUME CallInv, WalkInv, vpc # "done"
  PROVE  /\ apc \in {"check", "rollback", "unmap"} /\ Target \in Slots
         /\ paging_enabled /\ level \in 1 .. 4 /\ Reached(mem, PageOf(Target), level, table)
         /\ Vpn(cva) = PageOf(Target) /\ Slot = IndexOf(PageOf(Target), level)
         /\ PageOf(Target) \in WindowPages /\ High(PageOf(Target))
         /\ Target \in SlotRange(call.start, call.count)
  <1>1. apc \in {"check", "rollback", "unmap"}  BY DEF CallInv
  <1>2. /\ call.start \in Nat /\ call.count \in Nat /\ index \in Nat
    BY DEF CallInv, CallType
  <1>3. call.start + call.count <= ACPI_MAP_WINDOW_PAGES
    BY <1>1 DEF CallInv, Mapping, InWindow
  <1>4. /\ apc # "unmap" => index < call.count /\ Target = call.start + index
        /\ apc = "unmap" => index > 0 /\ index <= call.count
                          /\ Target = call.start + (index - 1)
    BY <1>1 DEF CallInv, Mapping, Target
  <1>5. Target \in Slots /\ Target \in SlotRange(call.start, call.count)
    BY <1>2, <1>3, <1>4, SizeFacts DEF Slots, SlotRange
  <1>6. 0 \in 0 .. PMM_PAGE_SIZE - 1  BY SizeFacts
  <1>7. cva = SlotAddress(Target)  BY DEF WalkInv
  <1>8. Vpn(cva) = PageOf(Target)  BY <1>5, <1>6, <1>7, SlotFacts
  <1>9. Slot = IndexOf(PageOf(Target), level)  BY <1>8 DEF Slot
  <1>10. /\ paging_enabled /\ level \in 1 .. 4 /\ Reached(mem, PageOf(Target), level, table)
    BY DEF WalkInv
  <1> QED  BY <1>1, <1>5, <1>8, <1>9, <1>10, WindowPagesAre, WindowHigh

(* The pages of the window have distinct ways through the tables.           *)
LEMMA OnePath ==
  ASSUME NEW lv, NEW m, NEW taken, TreeOK(lv, m, taken), NEW s \in Slots, NEW t \in Slots,
         NEW f, Reached(m, PageOf(s), 1, f), Reached(m, PageOf(t), 1, f),
         IndexOf(PageOf(s), 1) = IndexOf(PageOf(t), 1)
  PROVE  s = t
  <1> DEFINE v == PageOf(s)
             w == PageOf(t)
  <1>1. /\ v \in Nat /\ v < Reach(5) /\ High(v)
        /\ w \in Nat /\ w < Reach(5) /\ High(w)
    BY WindowHigh
  <1>2. Has1(m, v) /\ Has1(m, w) /\ E2(m, v).page = E2(m, w).page  BY DEF Reached
  <1>3. \A k \in 2 .. 4 : IndexOf(v, k) = IndexOf(w, k)  BY <1>1, <1>2, PathUnique
  <1>4. \A k \in 1 .. 4 : k = 1 \/ k \in 2 .. 4  OBVIOUS
  <1>5. \A k \in 1 .. 4 : IndexOf(v, k) = IndexOf(w, k)  BY <1>3, <1>4
  <1>6. v = w  BY <1>1, <1>5, SameIndices
  <1> QED  BY <1>6, WindowPagesAre, SizeFacts DEF Slots

LEMMA BootFreeFacts ==
  ASSUME FramesInv
  PROVE  /\ bootFree \subseteq Low \ (Statics \cup {0}) /\ Taken \subseteq Low
         /\ \A f \in Low : f \in Pages
  <1>1. bootFree \subseteq Low \ (Statics \cup {0})  BY AcpiAssumption DEF FramesInv
  <1>2. \A f \in Low : f \in Pages  BY PmmAssumption DEF Low, Pages
  <1> QED  BY <1>1, <1>2 DEF Taken

LEMMA BaseInit == Init => BaseInv
  <1> SUFFICES ASSUME Init  PROVE BaseInv
    OBVIOUS
  <1>1. CallInv /\ SlotsInv  BY CallInit
  <1>2. WalkInv  BY DEF Init, WalkInv
  <1>3. FramesInv
    <2>1. bootFree \subseteq Low  BY AcpiAssumption DEF Init
    <2>2. Low \subseteq Pages /\ 0 \in Low  BY PmmAssumption, LowFacts DEF Low, Pages
    <2>3. FreeSet = bootFree  BY <2>1, <2>2 DEF Init, FreeSet
    <2>4. ZeroTable \in [Index -> Entry] /\ JunkTable \in [Index -> Entry]
      BY LowFacts DEF ZeroTable, JunkTable, Entry, Absent, PresentEntry
    <2>5. mem \in [Low -> [Index -> Entry]]  BY <2>4 DEF Init
    <2> QED  BY <2>2, <2>3, <2>5 DEF Init, FramesInv
  <1>4. TreeInv  BY DEF Init, TreeInv
  <1>5. TlbInv  BY DEF Init, TlbInv
  <1> QED  BY <1>1, <1>2, <1>3, <1>4, <1>5 DEF BaseInv

(* The calls of uACPI and the loops between two calls of the VMM.           *)
LEMMA BaseQuiet ==
  ASSUME BaseInv, CallInv', SlotsInv', UNCHANGED <<pmmVars, vmmVars, bootFree>>,
         vpc = "done", apc' = "boot" <=> apc = "boot"
  PROVE  BaseInv'
  <1>1. UNCHANGED <<bitmap, mem, tlb, paging_enabled, vpc, frame, bootFree>>
    BY DEF pmmVars, vmmVars
  <1>2. UNCHANGED FreeSet /\ UNCHANGED Taken  BY <1>1 DEF FreeSet, Taken
  <1>3. WalkInv'  BY <1>1 DEF WalkInv
  <1>4. FramesInv'  BY <1>1, <1>2 DEF BaseInv, FramesInv
  <1>5. TreeInv'  BY <1>1, <1>2 DEF BaseInv, TreeInv
  <1>6. TlbInv'  BY <1>1 DEF BaseInv, TlbInv
  <1> QED  BY <1>3, <1>4, <1>5, <1>6 DEF BaseInv

LEMMA BaseStutter ==
  ASSUME BaseInv, UNCHANGED <<pmmVars, vmmVars, bootFree, map_slots, mappings, apc, call, index>>
  PROVE  BaseInv'
  <1>1. UNCHANGED <<bitmap, mem, tlb, paging_enabled, vpc, vop, cva, cpa, level, table, frame>>
    BY DEF pmmVars, vmmVars
  <1>2. UNCHANGED <<FreeSet, Taken, Target, CallRun, PhysicalPage(index)>>
    BY <1>1 DEF FreeSet, Taken, Target, CallRun, PhysicalPage
  <1>3. CallInv' /\ SlotsInv'  BY <1>1, <1>2 DEF BaseInv, CallInv, SlotsInv, Mapping
  <1>4. WalkInv'  BY <1>1, <1>2 DEF BaseInv, WalkInv
  <1>5. FramesInv'  BY <1>1, <1>2 DEF BaseInv, FramesInv
  <1>6. TreeInv'  BY <1>1, <1>2 DEF BaseInv, TreeInv
  <1>7. TlbInv'  BY <1>1, <1>2 DEF BaseInv, TlbInv
  <1> QED  BY <1>3, <1>4, <1>5, <1>6, <1>7 DEF BaseInv

(* paging_init leaves the identity map and no other table.                  *)
LEMMA BaseVmmInit ==
  ASSUME BaseInv, CallInv', SlotsInv', VmmInit
  PROVE  BaseInv' /\ \A s \in Slots : Seen(mem', PageOf(s)) = NoPage
  <1> USE LowFacts
  <1>1. /\ apc = "boot" /\ apc' = "idle" /\ ~paging_enabled /\ paging_enabled' = TRUE
        /\ mem' = [mem EXCEPT
             ![PML4] = [ZeroTable EXCEPT ![0] = PresentEntry(PDPT)],
             ![PDPT] = [ZeroTable EXCEPT ![0] = PresentEntry(PD)],
             ![PD]   = [i \in Index |-> IdentityEntry(i)]]
        /\ tlb' = [v \in DOMAIN tlb |-> NoPage]
        /\ UNCHANGED <<vpc, frame, bitmap, bootFree>>
    BY DEF VmmInit, paging_init, pmmVars
  <1>2. vpc = "done"  BY <1>1 DEF BaseInv, CallInv
  <1>3. /\ mem \in [Low -> [Index -> Entry]] /\ bootFree \in FreeLow
        /\ FreeSet = bootFree /\ frame = 0
    BY <1>1, <1>2 DEF BaseInv, FramesInv
  <1>4. PML4 # PDPT /\ PML4 # PD /\ PDPT # PD  BY VmmAssumption
  <1>5. ZeroTable \in [Index -> Entry] /\ \A i \in Index : IdentityEntry(i) \in Entry
    <2>1. PAGE_ENTRIES \in Nat  BY VmmAssumption
    <2>2. \A i \in Index : i * PAGE_ENTRIES \in Nat  BY <2>1
    <2> QED  BY <2>2 DEF ZeroTable, Absent, Entry, IdentityEntry, LargeEntry
  <1>6. PresentEntry(PDPT) \in Entry /\ PresentEntry(PD) \in Entry
    BY DEF PresentEntry, Entry
  <1>7. /\ mem' \in [Low -> [Index -> Entry]]
        /\ mem'[PML4] = [ZeroTable EXCEPT ![0] = PresentEntry(PDPT)]
        /\ mem'[PDPT] = [ZeroTable EXCEPT ![0] = PresentEntry(PD)]
        /\ mem'[PD] = [i \in Index |-> IdentityEntry(i)]
    BY <1>1, <1>3, <1>4, <1>5, <1>6
  <1>8. /\ mem'[PML4][0] = PresentEntry(PDPT) /\ mem'[PDPT][0] = PresentEntry(PD)
        /\ \A i \in Index : mem'[PD][i] = LargeEntry(i)
        /\ \A i \in Index : i # 0 => mem'[PML4][i] = Absent
    BY <1>5, <1>7 DEF ZeroTable, IdentityEntry
  <1>9. FreeSet' = FreeSet /\ Taken' = {}  BY <1>1, <1>3 DEF FreeSet, Taken
  <1> DEFINE lv == [f \in Low |-> IF f = PML4 THEN 4 ELSE 0]
  <1>10. lv \in [Low -> 0 .. 4] /\ \A f \in Low : lv[f] = IF f = PML4 THEN 4 ELSE 0
    OBVIOUS
  <1> HIDE DEF lv
  <1>11. LevelsOK(lv, mem', {})  BY <1>7, <1>10 DEF LevelsOK
  <1>12. \A f \in Low, i \in Index : ~(Dir(lv, f, i) /\ mem'[f][i].present)
    BY <1>8, <1>10 DEF Dir, Absent
  <1>13. \A f \in Low : lv[f] # 1  BY <1>10
  <1>14. EntriesOK(lv, mem', {})  BY <1>12, <1>13, Zenon DEF EntriesOK
  <1>15. TreeOK(lv, mem', {})  BY <1>8, <1>11, <1>14 DEF TreeOK, IdentityOK
  <1>16. TreeInv'  BY <1>9, <1>15 DEF TreeInv
  <1>17. WalkInv'  BY <1>1, <1>2 DEF WalkInv
  <1>18. FramesInv'
    BY <1>1, <1>2, <1>3, <1>7, <1>9 DEF BaseInv, FramesInv
  <1>19. TlbInv'  BY <1>1 DEF BaseInv, TlbInv
  <1>20. ASSUME NEW s \in Slots  PROVE Seen(mem', PageOf(s)) = NoPage
    <2>1. IndexOf(PageOf(s), 4) \in Index \ {0}  BY WindowHigh DEF High
    <2>2. E4(mem', PageOf(s)) = Absent  BY <1>8, <2>1 DEF E4
    <2>3. ~E4(mem', PageOf(s)).present  BY <2>2 DEF Absent
    <2> QED  BY <2>3 DEF Seen, Has1, Has2, Has3
  <1> QED  BY <1>16, <1>17, <1>18, <1>19, <1>20 DEF BaseInv

(* The CPU caches what it finds.                                            *)
LEMMA BaseTlbFill ==
  ASSUME BaseInv, NEW v \in WindowPages, TlbFill(v), UNCHANGED <<pmmVars, acpiVars>>
  PROVE  BaseInv'
  <1>1. /\ paging_enabled /\ tlb' = [tlb EXCEPT ![v] = HwWalk(v)]
        /\ UNCHANGED <<mem, paging_enabled, vpc, vop, cva, cpa, level, table, frame,
                        bitmap, map_slots, mappings, apc, call, index, bootFree>>
    BY DEF TlbFill, pmmVars, acpiVars
  <1>2. UNCHANGED <<FreeSet, Taken, Target, CallRun, PhysicalPage(index)>>
    BY <1>1 DEF FreeSet, Taken, Target, CallRun, PhysicalPage
  <1>3. CallInv' /\ SlotsInv'  BY <1>1, <1>2 DEF BaseInv, CallInv, SlotsInv, Mapping
  <1>4. WalkInv'  BY <1>1, <1>2 DEF BaseInv, WalkInv
  <1>5. FramesInv'  BY <1>1, <1>2 DEF BaseInv, FramesInv
  <1>6. TreeInv'  BY <1>1, <1>2 DEF BaseInv, TreeInv
  <1>7. HwWalk(v) = HwOf(mem, v)  BY HwOfFacts
  <1>8. HwOf(mem, v) \in Nat \cup {NoPage}
    <2>1. PICK lv : TreeOK(lv, mem, Taken)  BY <1>1 DEF BaseInv, TreeInv
    <2>2. High(v)  BY WindowPagesAre, WindowHigh
    <2>3. HwOf(mem, v) = Seen(mem, v)  BY <2>1, <2>2, SeenByCpu
    <2>4. Has1(mem, v) => E1(mem, v) \in Entry  BY <2>1, <2>2, WalkFacts
    <2> QED  BY <2>3, <2>4 DEF Seen, Entry
  <1>9. TlbInv'  BY <1>1, <1>2, <1>7, <1>8 DEF BaseInv, TlbInv
  <1> QED  BY <1>3, <1>4, <1>5, <1>6, <1>9 DEF BaseInv

(* A walk starts at the top table.                                          *)
LEMMA BaseBeginWalk ==
  ASSUME BaseInv, CallInv', SlotsInv', vpc = "done", paging_enabled,
         UNCHANGED <<pmmVars, bootFree>>, apc \in {"install", "rollback", "unmap"},
         NEW op, NEW pa, BeginWalk(op, SlotAddress(Target'), pa),
         (apc' = "check" => op = "map") /\ (apc' # "check" => op = "unmap"),
         apc' = "check" =>
           pa = PhysicalPage(index)' /\ pa < PHYS_LIMIT /\ pa % PMM_PAGE_SIZE = 0,
         apc' # "boot"
  PROVE  BaseInv'
  <1>1. /\ vpc' = "walk" /\ vop' = op /\ cva' = SlotAddress(Target') /\ cpa' = pa
        /\ level' = 4 /\ table' = PML4 /\ UNCHANGED <<mem, tlb, paging_enabled, frame>>
        /\ UNCHANGED <<bitmap, bootFree>>
    BY DEF BeginWalk, pmmVars
  <1>2. UNCHANGED <<FreeSet, Taken>>  BY <1>1 DEF FreeSet, Taken
  <1>3. Reached(mem', PageOf(Target'), 4, PML4)  BY DEF Reached
  <1>4. WalkInv'  BY <1>1, <1>3 DEF WalkInv
  <1>5. FramesInv'  BY <1>1, <1>2 DEF BaseInv, FramesInv
  <1>6. TreeInv'  BY <1>1, <1>2 DEF BaseInv, TreeInv
  <1>7. TlbInv'  BY <1>1 DEF BaseInv, TlbInv
  <1> QED  BY <1>4, <1>5, <1>6, <1>7 DEF BaseInv

(* The loops call map_page and unmap_page; the guards of map_page turn down *)
(* a physical address only.                                                 *)
LEMMA BaseInstall ==
  ASSUME BaseInv, InstallPage
  PROVE  /\ BaseInv' /\ UNCHANGED <<mem, map_slots, mappings, call, index, live>>
         /\ apc = "install" /\ apc' = "check" /\ index < call.count
         /\ \/ vpc' = "walk"
            \/ vpc' = "done" /\ PhysicalPage(index) >= PHYS_LIMIT
  <1>1. CallInv' /\ SlotsInv'  BY OtherSlots DEF BaseInv
  <1>2. /\ apc = "install" /\ apc' = "check" /\ index < call.count
        /\ map_page(VirtualPage(index), PhysicalPage(index))
        /\ UNCHANGED <<pmmVars, map_slots, mappings, call, index, live, bootFree>>
    BY DEF InstallPage
  <1>3. vpc = "done" /\ paging_enabled
    BY <1>2 DEF BaseInv, CallInv, FramesInv
  <1>4. Target' = call.start + index  BY <1>2 DEF Target
  <1>5. VirtualPage(index) = SlotAddress(Target')  BY <1>4 DEF VirtualPage
  <1>6. PhysicalPage(index)' = PhysicalPage(index)  BY <1>2 DEF PhysicalPage
  <1>7. Target' \in Slots
    <2>1. call.start \in Nat /\ call.count \in Nat /\ index \in Nat
      BY DEF BaseInv, CallInv, CallType
    <2>2. call.start + call.count <= ACPI_MAP_WINDOW_PAGES
      BY <1>2 DEF BaseInv, CallInv, Mapping, InWindow
    <2> QED  BY <1>2, <1>4, <2>1, <2>2, SizeFacts DEF Slots
  <1>8. canonical_address(SlotAddress(Target')) /\ page_aligned_address(SlotAddress(Target'))
    <2>1. 0 \in 0 .. PMM_PAGE_SIZE - 1  BY SizeFacts
    <2> QED  BY <1>7, <2>1, SlotFacts
  <1>9. PhysicalPage(index) \in Nat /\ PhysicalPage(index) % PMM_PAGE_SIZE = 0
    <2>1. call.pa \in Nat /\ index \in Nat  BY DEF BaseInv, CallInv, CallType
    <2>2. PhysicalPage(index) = Plain(call.pa, index) % WORD  BY DEF PhysicalPage, Plain
    <2>3. /\ Plain(call.pa, index) % WORD \in Nat
          /\ (Plain(call.pa, index) % WORD) % PMM_PAGE_SIZE = 0
      BY <2>1, PlainFacts, Zenon
    <2> QED  BY <2>2, <2>3, Zenon
  <1>10. CASE MapGuards(VirtualPage(index), PhysicalPage(index))
    <2>1. BeginWalk("map", SlotAddress(Target'), PhysicalPage(index))
      BY <1>2, <1>5, <1>10 DEF map_page
    <2>2. PhysicalPage(index) < PHYS_LIMIT  BY <1>10 DEF MapGuards
    <2>3. BaseInv'
      BY <1>1, <1>2, <1>3, <1>6, <1>9, <2>1, <2>2, BaseBeginWalk
    <2>4. vpc' = "walk" /\ mem' = mem  BY <2>1 DEF BeginWalk
    <2> QED  BY <1>2, <2>3, <2>4
  <1>11. CASE ~MapGuards(VirtualPage(index), PhysicalPage(index))
    <2>1. UNCHANGED vmmVars  BY <1>2, <1>11 DEF map_page
    <2>2. BaseInv'  BY <1>1, <1>2, <1>3, <2>1, BaseQuiet
    <2>3. vpc' = vpc /\ mem' = mem  BY <2>1 DEF vmmVars
    <2>4. ~(PhysicalPage(index) < PHYS_LIMIT)
      BY <1>3, <1>5, <1>8, <1>9, <1>11 DEF MapGuards, page_aligned_address
    <2>5. PhysicalPage(index) >= PHYS_LIMIT  BY <1>9, <2>4, VmmAssumption
    <2> QED  BY <1>2, <1>3, <2>2, <2>3, <2>5
  <1> QED  BY <1>10, <1>11

LEMMA BaseUnmapCall ==
  ASSUME BaseInv, RollbackPage \/ UnmapPage
  PROVE  /\ BaseInv' /\ UNCHANGED <<mem, map_slots, mappings, call, live, apc>>
         /\ vpc = "done" /\ vpc' = "walk"
         /\ \/ apc = "rollback" /\ index > 0 /\ index' = index - 1
            \/ apc = "unmap" /\ index < call.count /\ index' = index + 1
  <1>1. CallInv' /\ SlotsInv'  BY OtherSlots DEF BaseInv
  <1>2. call.start \in Nat /\ call.count \in Nat /\ index \in Nat
    BY DEF BaseInv, CallInv, CallType
  <1>3. /\ UNCHANGED <<pmmVars, map_slots, mappings, call, live, bootFree, apc>>
        /\ \/ /\ apc = "rollback" /\ index # 0 /\ index' = index - 1
              /\ unmap_page(VirtualPage(index - 1))
           \/ /\ apc = "unmap" /\ index < call.count /\ index' = index + 1
              /\ unmap_page(VirtualPage(index))
    BY DEF RollbackPage, UnmapPage
  <1>4. call.start + call.count <= ACPI_MAP_WINDOW_PAGES
    BY <1>3 DEF BaseInv, CallInv, Mapping, InWindow
  <1>5. /\ apc = "rollback" => Target' = call.start + (index - 1)
        /\ apc = "unmap" => Target' = call.start + index
    <2>1. CASE apc = "rollback"  BY <1>3, <2>1 DEF Target
    <2>2. CASE apc = "unmap"
      <3>1. Target' = call.start + (index' - 1)  BY <1>3, <2>2 DEF Target
      <3> QED  BY <1>2, <1>3, <2>2, <3>1
    <2> QED  BY <2>1, <2>2
  <1>6. apc = "rollback" => index < call.count
    BY DEF BaseInv, CallInv, Mapping
  <1>7. unmap_page(SlotAddress(Target')) /\ Target' \in Slots
    BY <1>2, <1>3, <1>4, <1>5, <1>6, SizeFacts DEF VirtualPage, Slots
  <1>8. canonical_address(SlotAddress(Target')) /\ page_aligned_address(SlotAddress(Target'))
    <2>1. 0 \in 0 .. PMM_PAGE_SIZE - 1  BY SizeFacts
    <2> QED  BY <1>7, <2>1, SlotFacts
  <1>9. vpc = "done"  BY <1>7 DEF unmap_page
  <1>10. paging_enabled  BY <1>3 DEF BaseInv, FramesInv
  <1>11. BeginWalk("unmap", SlotAddress(Target'), 0)  BY <1>7, <1>8, <1>10 DEF unmap_page
  <1>12. BaseInv'
    BY <1>1, <1>3, <1>9, <1>10, <1>11, BaseBeginWalk
  <1>13. vpc' = "walk" /\ mem' = mem  BY <1>11 DEF BeginWalk
  <1>14. apc = "rollback" => index > 0  BY <1>2, <1>3
  <1> QED  BY <1>3, <1>9, <1>12, <1>13, <1>14

(* What a step of the VMM leaves alone.                                     *)
LEMMA VmmStepFrame ==
  ASSUME BaseInv, UNCHANGED acpiVars, VmmStep
  PROVE  /\ CallInv' /\ SlotsInv' /\ Target' = Target /\ paging_enabled' = paging_enabled
         /\ UNCHANGED <<map_slots, mappings, apc, call, index, live, bootFree>>
         /\ \A i : PhysicalPage(i)' = PhysicalPage(i)
         /\ vpc # "done"
  <1>1. UNCHANGED <<map_slots, mappings, apc, call, index, live, bootFree>>
    BY DEF acpiVars
  <1>2. CallInv' /\ SlotsInv'  BY OtherSlots DEF BaseInv
  <1>3. Target' = Target /\ \A i : PhysicalPage(i)' = PhysicalPage(i)
    BY <1>1 DEF Target, PhysicalPage
  <1>4. paging_enabled' = paging_enabled
    BY DEF VmmStep, Descend, AllocateTableFails, ZeroPage, LinkTable, WriteEntry, Flush,
           AllocateTable
  <1> QED  BY <1>1, <1>2, <1>3, <1>4, VmmStepVpc

(* The walk goes down, or ends where there is nothing to unmap.             *)
LEMMA BaseDescend ==
  ASSUME BaseInv, UNCHANGED acpiVars, Descend, UNCHANGED <<bitmap, free_pages>>
  PROVE  /\ BaseInv' /\ mem' = mem /\ vpc = "walk"
         /\ \/ vpc' = "walk"
            \/ vpc' = "done" /\ apc # "check" /\ Seen(mem, PageOf(Target)) = NoPage
  <1> DEFINE v == PageOf(Target)
             e == mem[table][IndexOf(v, level)]
  <1>1. VmmStep  BY DEF VmmStep
  <1>2. /\ CallInv' /\ SlotsInv' /\ Target' = Target
        /\ UNCHANGED <<map_slots, mappings, apc, call, index, live, bootFree>>
        /\ \A i : PhysicalPage(i)' = PhysicalPage(i)
    BY <1>1, VmmStepFrame
  <1>3. /\ vpc = "walk" /\ level > 1
        /\ UNCHANGED <<mem, tlb, paging_enabled, frame, bitmap>>
    BY DEF Descend, Walking
  <1>4. /\ level \in 1 .. 4 /\ Reached(mem, v, level, table) /\ High(v)
        /\ Slot = IndexOf(v, level) /\ paging_enabled
    BY <1>3, TargetFacts DEF BaseInv
  <1>5. PICK lv : TreeOK(lv, mem, Taken)  BY <1>4 DEF BaseInv, TreeInv
  <1>6. Next_ = entry_table(e)  BY <1>4 DEF Next_
  <1>7. /\ e.present => Next_ = e.page /\ Next_ # 0 /\ Reached(mem, v, level - 1, e.page)
        /\ ~e.present => Next_ = NULL /\ Seen(mem, v) = NoPage
    BY <1>3, <1>4, <1>5, <1>6, StepDown
  <1>8. UNCHANGED <<FreeSet, Taken>>  BY <1>2, <1>3 DEF FreeSet, Taken
  <1>9. FramesInv' /\ TreeInv'
    <2>1. vpc' \in {"walk", "done"}  BY <1>3 DEF Descend, VmmReturn
    <2>2. FramesInv'  BY <1>2, <1>3, <1>8, <2>1 DEF BaseInv, FramesInv
    <2>3. TreeInv'  BY <1>3, <1>8 DEF BaseInv, TreeInv
    <2> QED  BY <2>2, <2>3
  <1>10. TlbInv'
    <2>1. vpc # "flush"  BY <1>3
    <2> QED  BY <1>3, <2>1 DEF BaseInv, TlbInv
  <1>11. CASE Next_ = NULL
    <2>1. vpc' = "done" /\ vop = "unmap"  BY <1>11 DEF Descend, VmmReturn
    <2>2. ~e.present  BY <1>7, <1>11 DEF NULL
    <2>3. apc # "check"  BY <1>3, <2>1 DEF BaseInv, WalkInv
    <2>4. WalkInv'  BY <2>1 DEF WalkInv
    <2> QED  BY <1>2, <1>3, <1>7, <1>9, <1>10, <2>1, <2>2, <2>3, <2>4 DEF BaseInv
  <1>12. CASE Next_ # NULL
    <2>1. /\ table' = Next_ /\ level' = level - 1 /\ UNCHANGED <<vpc, vop, cva, cpa>>
      BY <1>12 DEF Descend
    <2>2. e.present  BY <1>7, <1>12
    <2>3. Reached(mem', PageOf(Target'), level', table')
      BY <1>2, <1>3, <1>7, <2>1, <2>2
    <2>4. level' \in 1 .. 4  BY <1>3, <1>4, <2>1
    <2>5. WalkInv'
      <3>1. vpc' = "walk"  BY <1>3, <2>1
      <3>2. /\ paging_enabled' /\ cva' = SlotAddress(Target')
            /\ (apc' = "check" => vop' = "map") /\ (apc' # "check" => vop' = "unmap")
        BY <1>2, <1>3, <2>1 DEF BaseInv, WalkInv
      <3>3. apc' = "check" =>
              cpa' = PhysicalPage(index)' /\ cpa' < PHYS_LIMIT /\ cpa' % PMM_PAGE_SIZE = 0
        BY <1>2, <1>3, <2>1 DEF BaseInv, WalkInv
      <3> QED  BY <2>3, <2>4, <3>1, <3>2, <3>3 DEF WalkInv
    <2> QED  BY <1>2, <1>3, <1>9, <1>10, <2>1, <2>5 DEF BaseInv
  <1> QED  BY <1>11, <1>12

(* Both outcomes of allocate_table happen below an entry that is absent.    *)
LEMMA WalkBlocked ==
  ASSUME BaseInv, Walking, Next_ = NULL
  PROVE  /\ vpc = "walk" /\ level > 1 /\ paging_enabled
         /\ ~mem[table][IndexOf(PageOf(Target), level)].present
         /\ ~Has1(mem, PageOf(Target)) /\ Seen(mem, PageOf(Target)) = NoPage
  <1> DEFINE v == PageOf(Target)
             e == mem[table][IndexOf(v, level)]
  <1>1. vpc = "walk" /\ level > 1  BY DEF Walking
  <1>2. /\ level \in 1 .. 4 /\ Reached(mem, v, level, table) /\ High(v)
        /\ Slot = IndexOf(v, level) /\ paging_enabled
    BY <1>1, TargetFacts DEF BaseInv
  <1>3. PICK lv : TreeOK(lv, mem, Taken)  BY <1>2 DEF BaseInv, TreeInv
  <1>4. Next_ = entry_table(e)  BY <1>2 DEF Next_
  <1>5. /\ e.present => Next_ = e.page /\ Next_ # 0
        /\ ~e.present => ~Has1(mem, v) /\ Seen(mem, v) = NoPage
    BY <1>1, <1>2, <1>3, <1>4, StepDown
  <1> QED  BY <1>1, <1>2, <1>5 DEF NULL

LEMMA BaseAllocateFails ==
  ASSUME BaseInv, UNCHANGED acpiVars, AllocateTableFails, UNCHANGED <<bitmap, free_pages>>
  PROVE  /\ BaseInv' /\ mem' = mem /\ vpc = "walk" /\ vpc' = "done" /\ apc = "check"
         /\ ~Has1(mem, PageOf(Target)) /\ Seen(mem, PageOf(Target)) = NoPage
  <1>1. VmmStep  BY DEF VmmStep
  <1>2. /\ CallInv' /\ SlotsInv' /\ UNCHANGED <<apc, bootFree>>  BY <1>1, VmmStepFrame
  <1>3. /\ Walking /\ Next_ = NULL /\ vop = "map" /\ vpc' = "done"
        /\ UNCHANGED <<mem, tlb, paging_enabled, frame, bitmap>>
    BY DEF AllocateTableFails, VmmReturn
  <1>4. /\ vpc = "walk" /\ ~Has1(mem, PageOf(Target)) /\ Seen(mem, PageOf(Target)) = NoPage
    BY <1>3, WalkBlocked
  <1>5. apc = "check"  BY <1>3, <1>4 DEF BaseInv, WalkInv
  <1>6. UNCHANGED <<FreeSet, Taken>>  BY <1>2, <1>3 DEF FreeSet, Taken
  <1>7. WalkInv'  BY <1>3 DEF WalkInv
  <1>8. FramesInv'  BY <1>2, <1>3, <1>4, <1>6 DEF BaseInv, FramesInv
  <1>9. TreeInv'  BY <1>3, <1>6 DEF BaseInv, TreeInv
  <1>10. TlbInv'  BY <1>3, <1>4 DEF BaseInv, TlbInv
  <1> QED  BY <1>2, <1>3, <1>4, <1>5, <1>7, <1>8, <1>9, <1>10 DEF BaseInv

(* The frame taken was free, so it is not a table.                          *)
LEMMA BaseAllocate ==
  ASSUME BaseInv, UNCHANGED acpiVars, NEW f \in Low, AllocateTable(f)
  PROVE  BaseInv' /\ mem' = mem /\ vpc = "walk" /\ vpc' = "zero"
  <1>1. VmmStep  BY DEF VmmStep
  <1>2. /\ CallInv' /\ SlotsInv' /\ Target' = Target /\ UNCHANGED <<apc, call, index, bootFree>>
        /\ \A i : PhysicalPage(i)' = PhysicalPage(i)
    BY <1>1, VmmStepFrame
  <1>3. /\ Walking /\ Next_ = NULL /\ vop = "map" /\ vpc' = "zero" /\ frame' = f
        /\ UNCHANGED <<mem, tlb, paging_enabled, vop, cva, cpa, level, table>>
        /\ f \notin bitmap /\ bitmap' = bitmap \cup {f}
    BY DEF AllocateTable, pmm_alloc_page_low, FirstFree, TakePage, set_page, page_used
  <1>4. /\ vpc = "walk" /\ level > 1
        /\ ~mem[table][IndexOf(PageOf(Target), level)].present
    BY <1>3, WalkBlocked
  <1>5. frame = 0 /\ f \in FreeSet /\ f \in bootFree /\ f # 0 /\ 0 \notin bootFree
    <2>1. f \in FreeSet  BY <1>3, BootFreeFacts DEF BaseInv, FreeSet
    <2> QED  BY <1>4, <2>1, BootFreeFacts DEF BaseInv, FramesInv
  <1>6. FreeSet' = FreeSet \ {f}  BY <1>3 DEF FreeSet
  <1>7. Taken' = Taken
    <2>1. Taken = (bootFree \ FreeSet) \ {0} /\ Taken' = (bootFree \ (FreeSet \ {f})) \ {f}
      BY <1>2, <1>3, <1>5, <1>6 DEF Taken
    <2> QED  BY <1>5, <2>1
  <1>8. WalkInv'
    BY <1>2, <1>3, <1>4 DEF BaseInv, WalkInv
  <1>9. FramesInv'
    <2>1. bitmap' \subseteq Pages  BY <1>3, BootFreeFacts DEF BaseInv, FramesInv
    <2>2. paging_enabled  BY <1>3, WalkBlocked
    <2> QED  BY <1>2, <1>3, <1>5, <1>6, <2>1, <2>2 DEF BaseInv, FramesInv
  <1>10. TreeInv'  BY <1>3, <1>7 DEF BaseInv, TreeInv
  <1>11. TlbInv'  BY <1>3, <1>4 DEF BaseInv, TlbInv
  <1> QED  BY <1>2, <1>3, <1>4, <1>8, <1>9, <1>10, <1>11 DEF BaseInv

(* The translations the CPU may have cached stay right when the tables      *)
(* change and the pages of the window do not.                               *)
LEMMA TlbKept ==
  ASSUME TlbInv, tlb' = tlb, vpc # "flush", NEW lv, NEW lw, NEW t, NEW u,
         TreeOK(lv, mem, t), TreeOK(lw, mem', u),
         \A s \in Slots : Seen(mem', PageOf(s)) = Seen(mem, PageOf(s)) \/
                          (vpc' = "flush" /\ s = Target')
  PROVE  TlbInv'
  <1>1. tlb' \in [WindowPages -> Nat \cup {NoPage}]  BY DEF TlbInv
  <1>2. ASSUME NEW v \in WindowPages
        PROVE  tlb'[v] \in {NoPage, HwOf(mem', v)} \/ (vpc' = "flush" /\ v = PageOf(Target'))
    <2>1. PICK s \in Slots : v = PageOf(s)  BY WindowPagesAre
    <2>2. High(v)  BY <2>1, WindowHigh
    <2>3. HwOf(mem, v) = Seen(mem, v) /\ HwOf(mem', v) = Seen(mem', v)
      BY <2>2, SeenByCpu
    <2>4. tlb[v] \in {NoPage, HwOf(mem, v)}  BY DEF TlbInv
    <2> QED  BY <2>1, <2>3, <2>4
  <1> QED  BY <1>1, <1>2 DEF TlbInv

(* zero_page clears a frame outside the tables.                             *)
LEMMA BaseZero ==
  ASSUME BaseInv, UNCHANGED acpiVars, ZeroPage, UNCHANGED <<bitmap, free_pages>>
  PROVE  /\ BaseInv' /\ vpc = "zero" /\ vpc' = "link"
         /\ \A s \in Slots : Seen(mem', PageOf(s)) = Seen(mem, PageOf(s))
  <1>1. VmmStep  BY DEF VmmStep
  <1>2. /\ CallInv' /\ SlotsInv' /\ Target' = Target /\ UNCHANGED <<apc, call, index, bootFree>>
        /\ \A i : PhysicalPage(i)' = PhysicalPage(i)
    BY <1>1, VmmStepFrame
  <1>3. /\ vpc = "zero" /\ vpc' = "link" /\ mem' = [mem EXCEPT ![frame] = ZeroTable]
        /\ UNCHANGED <<tlb, paging_enabled, vop, cva, cpa, level, table, frame, bitmap>>
    BY DEF ZeroPage
  <1>4. /\ frame \in bootFree /\ frame \in Low /\ mem \in [Low -> [Index -> Entry]]
        /\ frame \in bootFree \ FreeSet
    BY <1>3 DEF BaseInv, FramesInv
  <1>5. frame \notin Taken \cup Statics  BY <1>4, BootFreeFacts DEF BaseInv, Taken
  <1>6. ZeroTable \in [Index -> Entry]  BY DEF ZeroTable, Absent, Entry
  <1>7. /\ mem' \in [Low -> [Index -> Entry]] /\ mem'[frame] = ZeroTable
        /\ \A g \in Low : g # frame => mem'[g] = mem[g]
    BY <1>3, <1>4, <1>6
  <1>8. paging_enabled /\ level \in 1 .. 4 /\ Reached(mem, PageOf(Target), level, table)
        /\ High(PageOf(Target))
    BY <1>3, TargetFacts DEF BaseInv
  <1>9. PICK lv : TreeOK(lv, mem, Taken)  BY <1>8 DEF BaseInv, TreeInv
  <1>10. /\ TreeOK(lv, mem', Taken)
         /\ \A v : High(v) => /\ Seen(mem', v) = Seen(mem, v)
                              /\ \A k, t : Reached(mem', v, k, t) <=> Reached(mem, v, k, t)
    BY <1>4, <1>5, <1>7, <1>9, StoreOutside
  <1>11. \A s \in Slots : Seen(mem', PageOf(s)) = Seen(mem, PageOf(s))
    BY <1>10, WindowHigh
  <1>12. UNCHANGED <<FreeSet, Taken>>  BY <1>2, <1>3 DEF FreeSet, Taken
  <1>13. WalkInv'
    <2>1. Reached(mem', PageOf(Target'), level', table')  BY <1>2, <1>3, <1>8, <1>10
    <2>2. table \in Low /\ table # frame
      <3>1. table \in Low /\ lv[table] = level  BY <1>8, <1>9, StepDown
      <3>2. lv[frame] \notin 1 .. 3 /\ lv[frame] # 4
        BY <1>4, <1>5, <1>9 DEF TreeOK, LevelsOK, Statics
      <3>3. level \in 1 .. 3 \/ level = 4  BY <1>8
      <3> QED  BY <3>1, <3>2, <3>3
    <2>3. mem'[table] = mem[table]  BY <1>7, <2>2
    <2>4. /\ level > 1 /\ vop = "map" /\ ~mem[table][IndexOf(PageOf(Target), level)].present
      BY <1>3 DEF BaseInv, WalkInv
    <2>5. /\ cva = SlotAddress(Target)
          /\ (apc = "check" => vop = "map") /\ (apc # "check" => vop = "unmap")
      BY <1>3 DEF BaseInv, WalkInv
    <2>6. apc = "check" =>
            cpa = PhysicalPage(index) /\ cpa < PHYS_LIMIT /\ cpa % PMM_PAGE_SIZE = 0
      BY <1>3 DEF BaseInv, WalkInv
    <2> QED  BY <1>2, <1>3, <1>8, <2>1, <2>3, <2>4, <2>5, <2>6 DEF WalkInv
  <1>14. FramesInv'
    BY <1>2, <1>3, <1>4, <1>7, <1>12 DEF BaseInv, FramesInv
  <1>15. TreeInv'  BY <1>10, <1>12 DEF TreeInv
  <1>16. TlbInv'
    BY <1>3, <1>9, <1>10, <1>11, TlbKept DEF BaseInv
  <1> QED  BY <1>2, <1>3, <1>11, <1>13, <1>14, <1>15, <1>16 DEF BaseInv

(* The new table is entered in its parent: one table more, and the CPU      *)
(* finds what it found before.                                              *)
LEMMA BaseLink ==
  ASSUME BaseInv, UNCHANGED acpiVars, LinkTable, UNCHANGED <<bitmap, free_pages>>
  PROVE  /\ BaseInv' /\ vpc = "link" /\ vpc' = "walk"
         /\ \A s \in Slots : Seen(mem', PageOf(s)) = Seen(mem, PageOf(s))
  <1> DEFINE v == PageOf(Target)
             i == IndexOf(v, level)
  <1>1. VmmStep  BY DEF VmmStep
  <1>2. /\ CallInv' /\ SlotsInv' /\ Target' = Target /\ UNCHANGED <<apc, call, index, bootFree>>
        /\ \A j : PhysicalPage(j)' = PhysicalPage(j)
    BY <1>1, VmmStepFrame
  <1>3. /\ vpc = "link" /\ vpc' = "walk"
        /\ mem' = [mem EXCEPT ![table][Slot] = PresentEntry(frame)]
        /\ table' = frame /\ level' = level - 1 /\ frame' = 0
        /\ UNCHANGED <<tlb, paging_enabled, vop, cva, cpa, bitmap>>
    BY DEF LinkTable
  <1>4. /\ paging_enabled /\ level \in 1 .. 4 /\ Reached(mem, v, level, table)
        /\ High(v) /\ Slot = i
    BY <1>3, TargetFacts DEF BaseInv
  <1>5. /\ level > 1 /\ vop = "map" /\ ~mem[table][i].present
    BY <1>3 DEF BaseInv, WalkInv
  <1>6. /\ frame \in Low /\ mem \in [Low -> [Index -> Entry]] /\ mem[frame] = ZeroTable
        /\ frame \in bootFree \ FreeSet
    BY <1>3 DEF BaseInv, FramesInv
  <1>7. frame \notin Taken \cup Statics \cup {0} /\ 0 \notin bootFree
    BY <1>6, BootFreeFacts DEF BaseInv, Taken
  <1>8. PICK lv : TreeOK(lv, mem, Taken)  BY <1>4 DEF BaseInv, TreeInv
  <1>9. table \in Low /\ lv[table] = level /\ i \in Index /\ Dir(lv, table, i)
    BY <1>4, <1>5, <1>8, StepDown
  <1>10. table # frame
    <2>1. lv[frame] \notin 1 .. 3 /\ lv[frame] # 4
      BY <1>6, <1>7, <1>8 DEF TreeOK, LevelsOK, Statics
    <2>2. level \in 1 .. 3 \/ level = 4  BY <1>4
    <2> QED  BY <1>9, <2>1, <2>2
  <1> DEFINE up == [lv EXCEPT ![frame] = lv[table] - 1]
  <1>11. mem' = [mem EXCEPT ![table][i] = PresentEntry(frame)]  BY <1>3, <1>4
  <1> HIDE DEF i
  <1>12. TreeOK(up, mem', Taken \cup {frame})
    <2>1. up = [lv EXCEPT ![frame] = lv[table] - 1]  OBVIOUS
    <2> HIDE DEF up
    <2> QED  BY <1>5, <1>6, <1>7, <1>8, <1>9, <1>11, <2>1, LinkTree
  <1>13. PresentEntry(frame) \in Entry  BY <1>6, LowFacts DEF PresentEntry, Entry
  <1>14. /\ mem' \in [Low -> [Index -> Entry]] /\ \A h \in Low : h # table => mem'[h] = mem[h]
         /\ mem'[table][i] = PresentEntry(frame)
         /\ \A j \in Index : j # i => mem'[table][j] = mem[table][j]
    BY <1>6, <1>9, <1>11, <1>13
  <1>15. ASSUME NEW w, High(w)
         PROVE  /\ Seen(mem', w) = Seen(mem, w)
                /\ Reached(mem, w, level, table) /\ i = IndexOf(w, level) =>
                     Reached(mem', w, level - 1, frame)
    <2>1. /\ Seen(mem', w) = Seen(mem, w)
          /\ Reached(mem, w, lv[table], table) /\ i = IndexOf(w, lv[table]) =>
               Reached(mem', w, lv[table] - 1, frame)
      BY <1>5, <1>6, <1>8, <1>9, <1>10, <1>14, <1>15, LinkWalks
    <2> QED  BY <1>9, <2>1
  <1>16. \A s \in Slots : Seen(mem', PageOf(s)) = Seen(mem, PageOf(s))
    BY <1>15, WindowHigh
  <1>17. Reached(mem', v, level - 1, frame)  BY <1>4, <1>15 DEF i
  <1>18. FreeSet' = FreeSet /\ Taken' = Taken \cup {frame}
    <2>1. FreeSet' = FreeSet  BY <1>3 DEF FreeSet
    <2> QED  BY <1>2, <1>3, <1>6, <1>7, <2>1 DEF Taken
  <1>19. WalkInv'
    <2>1. /\ cva = SlotAddress(Target)
          /\ (apc = "check" => vop = "map") /\ (apc # "check" => vop = "unmap")
      BY <1>3 DEF BaseInv, WalkInv
    <2>2. apc = "check" =>
            cpa = PhysicalPage(index) /\ cpa < PHYS_LIMIT /\ cpa % PMM_PAGE_SIZE = 0
      BY <1>3 DEF BaseInv, WalkInv
    <2>3. level' \in 1 .. 4  BY <1>3, <1>4, <1>5
    <2>4. Reached(mem', PageOf(Target'), level', table')  BY <1>2, <1>3, <1>17
    <2> QED  BY <1>2, <1>3, <1>4, <2>1, <2>2, <2>3, <2>4 DEF WalkInv
  <1>20. FramesInv'
    BY <1>2, <1>3, <1>14, <1>18, LowFacts DEF BaseInv, FramesInv
  <1>21. TreeInv'  BY <1>12, <1>18 DEF TreeInv
  <1>22. TlbInv'
    <2> HIDE DEF up
    <2> QED  BY <1>3, <1>8, <1>12, <1>16, TlbKept DEF BaseInv
  <1> QED  BY <1>2, <1>3, <1>16, <1>19, <1>20, <1>21, <1>22 DEF BaseInv

(* The store into the page table changes one page of the window.            *)
LEMMA BaseWrite ==
  ASSUME BaseInv, UNCHANGED acpiVars, WriteEntry, UNCHANGED <<bitmap, free_pages>>
  PROVE  /\ BaseInv' /\ vpc = "walk" /\ vpc' = "flush" /\ UNCHANGED cpa
         /\ \A s \in Slots : s # Target => Seen(mem', PageOf(s)) = Seen(mem, PageOf(s))
         /\ apc = "check" => Seen(mem', PageOf(Target)) = cpa \div PMM_PAGE_SIZE
         /\ apc # "check" => Seen(mem', PageOf(Target)) = NoPage
  <1> DEFINE v == PageOf(Target)
             i == IndexOf(v, 1)
             e == IF vop = "map" THEN PresentEntry(cpa \div PMM_PAGE_SIZE) ELSE Absent
  <1>1. VmmStep  BY DEF VmmStep
  <1>2. /\ CallInv' /\ SlotsInv' /\ Target' = Target /\ UNCHANGED <<apc, call, index, bootFree>>
        /\ \A j : PhysicalPage(j)' = PhysicalPage(j)
    BY <1>1, VmmStepFrame
  <1>3. /\ vpc = "walk" /\ vpc' = "flush" /\ level = 1
        /\ mem' = [mem EXCEPT ![table][Slot] = e]
        /\ UNCHANGED <<tlb, paging_enabled, vop, cva, cpa, level, table, frame, bitmap>>
    BY DEF WriteEntry
  <1>4. /\ paging_enabled /\ Reached(mem, v, 1, table) /\ Target \in Slots
        /\ High(v) /\ Slot = i
    BY <1>3, TargetFacts DEF BaseInv
  <1>5. mem \in [Low -> [Index -> Entry]]  BY DEF BaseInv, FramesInv
  <1>6. PICK lv : TreeOK(lv, mem, Taken)  BY <1>4 DEF BaseInv, TreeInv
  <1>7. table \in Low /\ lv[table] = 1 /\ i \in Index
    BY <1>4, <1>6, StepDown
  <1>8. /\ apc = "check" => vop = "map" /\ cpa = PhysicalPage(index)
        /\ apc # "check" => vop = "unmap"
    BY <1>3 DEF BaseInv, WalkInv
  <1>9. apc = "check" => cpa \div PMM_PAGE_SIZE \in Nat
    <2>1. call.pa \in Nat /\ index \in Nat  BY DEF BaseInv, CallInv, CallType
    <2>2. PhysicalPage(index) = Plain(call.pa, index) % WORD  BY DEF PhysicalPage, Plain
    <2>3. Plain(call.pa, index) % WORD \in Nat  BY <2>1, PlainFacts, Zenon
    <2>4. apc = "check" => cpa \in Nat  BY <1>8, <2>2, <2>3
    <2> QED  BY <2>4, DivideBy, SizeFacts
  <1>10. /\ e \in Entry /\ (~e.present => e.page = 0)
         /\ apc = "check" => e.present /\ e.page = cpa \div PMM_PAGE_SIZE
         /\ apc # "check" => ~e.present
    BY <1>8, <1>9 DEF PresentEntry, Absent, Entry
  <1> HIDE DEF e, i
  <1>11. /\ mem' \in [Low -> [Index -> Entry]] /\ \A g \in Low : g # table => mem'[g] = mem[g]
         /\ mem'[table][i] = e /\ \A j \in Index : j # i => mem'[table][j] = mem[table][j]
    BY <1>3, <1>4, <1>5, <1>7, <1>10
  <1>12. /\ TreeOK(lv, mem', Taken)
         /\ \A w : High(w) =>
              /\ \A k, t : Reached(mem', w, k, t) <=> Reached(mem, w, k, t)
              /\ Reached(mem, w, 1, table) /\ IndexOf(w, 1) = i =>
                   Seen(mem', w) = IF e.present THEN e.page ELSE NoPage
              /\ ~(Reached(mem, w, 1, table) /\ IndexOf(w, 1) = i) => Seen(mem', w) = Seen(mem, w)
    BY <1>6, <1>7, <1>10, <1>11, StoreLeaf
  <1>13. ASSUME NEW s \in Slots, s # Target
         PROVE  Seen(mem', PageOf(s)) = Seen(mem, PageOf(s))
    <2>1. ~(Reached(mem, PageOf(s), 1, table) /\ IndexOf(PageOf(s), 1) = i)
      BY <1>4, <1>6, <1>13, OnePath DEF i
    <2> QED  BY <1>12, <2>1, WindowHigh
  <1>14. Seen(mem', v) = IF e.present THEN e.page ELSE NoPage
    BY <1>4, <1>12 DEF i
  <1>15. /\ apc = "check" => Seen(mem', v) = cpa \div PMM_PAGE_SIZE
         /\ apc # "check" => Seen(mem', v) = NoPage
    BY <1>10, <1>14
  <1>16. UNCHANGED <<FreeSet, Taken>>  BY <1>2, <1>3 DEF FreeSet, Taken
  <1>17. WalkInv'
    <2>1. /\ cva = SlotAddress(Target)
          /\ (apc = "check" => vop = "map") /\ (apc # "check" => vop = "unmap")
      BY <1>3 DEF BaseInv, WalkInv
    <2>2. apc = "check" =>
            cpa = PhysicalPage(index) /\ cpa < PHYS_LIMIT /\ cpa % PMM_PAGE_SIZE = 0
      BY <1>3 DEF BaseInv, WalkInv
    <2>3. Reached(mem', PageOf(Target'), level', table')  BY <1>2, <1>3, <1>4, <1>12
    <2> QED  BY <1>2, <1>3, <1>4, <2>1, <2>2, <2>3 DEF WalkInv
  <1>18. FramesInv'
    BY <1>2, <1>3, <1>11, <1>16 DEF BaseInv, FramesInv
  <1>19. TreeInv'  BY <1>12, <1>16 DEF TreeInv
  <1>20. TlbInv'
    <2>1. \A s \in Slots : Seen(mem', PageOf(s)) = Seen(mem, PageOf(s)) \/
                           (vpc' = "flush" /\ s = Target')
      BY <1>2, <1>3, <1>13
    <2> QED  BY <1>3, <1>6, <1>12, <2>1, TlbKept DEF BaseInv
  <1> QED  BY <1>2, <1>3, <1>13, <1>15, <1>17, <1>18, <1>19, <1>20 DEF BaseInv

(* invlpg drops the one translation that may be stale.                      *)
LEMMA BaseFlush ==
  ASSUME BaseInv, UNCHANGED acpiVars, Flush, UNCHANGED <<bitmap, free_pages>>
  PROVE  BaseInv' /\ mem' = mem /\ vpc = "flush" /\ vpc' = "done"
  <1>1. VmmStep  BY DEF VmmStep
  <1>2. /\ CallInv' /\ SlotsInv' /\ UNCHANGED <<apc, bootFree>>  BY <1>1, VmmStepFrame
  <1>3. /\ vpc = "flush" /\ vpc' = "done" /\ tlb' = [tlb EXCEPT ![Vpn(cva)] = NoPage]
        /\ UNCHANGED <<mem, paging_enabled, frame, bitmap>>
    BY DEF Flush, VmmReturn
  <1>4. Vpn(cva) = PageOf(Target) /\ PageOf(Target) \in WindowPages
    BY <1>3, TargetFacts DEF BaseInv
  <1>5. UNCHANGED <<FreeSet, Taken>>  BY <1>2, <1>3 DEF FreeSet, Taken
  <1>6. WalkInv'  BY <1>3 DEF WalkInv
  <1>7. FramesInv'  BY <1>2, <1>3, <1>5 DEF BaseInv, FramesInv
  <1>8. TreeInv'  BY <1>3, <1>5 DEF BaseInv, TreeInv
  <1>9. TlbInv'
    <2>1. /\ tlb \in [WindowPages -> Nat \cup {NoPage}]
          /\ \A v \in WindowPages : tlb[v] \in {NoPage, HwOf(mem, v)} \/ v = PageOf(Target)
      BY DEF BaseInv, TlbInv
    <2>2. tlb' \in [WindowPages -> Nat \cup {NoPage}]  BY <1>3, <1>4, <2>1
    <2>3. \A v \in WindowPages : tlb'[v] \in {NoPage, HwOf(mem', v)}
      BY <1>3, <1>4, <2>1
    <2> QED  BY <2>2, <2>3 DEF TlbInv
  <1> QED  BY <1>2, <1>3, <1>6, <1>7, <1>8, <1>9 DEF BaseInv

(* The steps of uACPI's calls that neither walk nor write.                  *)
LEMMA BaseCalls ==
  ASSUME BaseInv,
         \/ CheckPage \/ MapReturn \/ RollbackDone \/ UnmapDone
         \/ \E q \in Requests, r \in Records, s \in Slots : MapBegin(q[1], q[2], q[3], r, s)
         \/ \E m \in live, r \in Records : UnmapBegin(m, r)
  PROVE  BaseInv' /\ mem' = mem /\ vpc = "done" /\ vpc' = "done" /\ apc # "boot"
  <1>1. Next
    BY DEF Next, KernelStep, ClientCall
  <1>2. CallInv' /\ SlotsInv'  BY <1>1, SlotsStep DEF BaseInv
  <1>3. UNCHANGED <<pmmVars, vmmVars, bootFree>>
    BY DEF CheckPage, MapReturn, RollbackDone, UnmapDone, MapBegin, UnmapBegin
  <1>4. apc # "boot" /\ apc' # "boot" /\ (vpc = "done" \/ apc \in {"idle", "install"})
    BY DEF CheckPage, MapReturn, RollbackDone, UnmapDone, MapBegin, UnmapBegin
  <1>5. vpc = "done"  BY <1>4 DEF BaseInv, CallInv
  <1>6. BaseInv'  BY <1>2, <1>3, <1>4, <1>5, BaseQuiet
  <1>7. mem' = mem /\ vpc' = vpc  BY <1>3 DEF vmmVars
  <1> QED  BY <1>4, <1>5, <1>6, <1>7

(* The calls that only change what uACPI holds, and stuttering.             *)
LEMMA BaseIdle ==
  ASSUME BaseInv,
         \/ UNCHANGED vars
         \/ \E q \in Requests : MapIdentity(q[1], q[2], q[3]) \/ MapRefused(q[1], q[2])
         \/ \E q \in Requests, s \in Slots : UnmapUnknown(SlotAddress(s) + Offset(q[1]), q[3])
         \/ \E m \in live : UnmapIdentity(m)
  PROVE  /\ BaseInv' /\ UNCHANGED <<mem, map_slots, mappings, apc, call, index, vpc, cpa>>
         /\ UNCHANGED paging_enabled
  <1>1. UNCHANGED <<pmmVars, vmmVars, bootFree, map_slots, mappings, apc, call, index>>
    BY DEF MapIdentity, MapRefused, UnmapUnknown, UnmapIdentity, vars, acpiVars
  <1>2. BaseInv'  BY <1>1, BaseStutter
  <1>3. UNCHANGED <<mem, vpc, cpa, paging_enabled>>  BY <1>1 DEF vmmVars
  <1> QED  BY <1>1, <1>2, <1>3

(* The disjuncts of the next-state relation, grouped by what they touch.    *)
LEMMA NextCases ==
  [Next]_vars =>
    \/ VmmInit \/ InstallPage \/ RollbackPage \/ UnmapPage
    \/ \/ CheckPage \/ MapReturn \/ RollbackDone \/ UnmapDone
       \/ \E q \in Requests, r \in Records, s \in Slots : MapBegin(q[1], q[2], q[3], r, s)
       \/ \E m \in live, r \in Records : UnmapBegin(m, r)
    \/ \/ UNCHANGED vars
       \/ \E q \in Requests : MapIdentity(q[1], q[2], q[3]) \/ MapRefused(q[1], q[2])
       \/ \E q \in Requests, s \in Slots : UnmapUnknown(SlotAddress(s) + Offset(q[1]), q[3])
       \/ \E m \in live : UnmapIdentity(m)
    \/ \E v \in WindowPages : TlbFill(v) /\ UNCHANGED <<pmmVars, acpiVars>>
    \/ VmmStep /\ UNCHANGED acpiVars
  BY DEF Next, KernelStep, ClientCall, CpuStep

LEMMA BaseStep == BaseInv /\ [Next]_vars => BaseInv'
  <1> SUFFICES ASSUME BaseInv, [Next]_vars  PROVE BaseInv'
    OBVIOUS
  <1>1. CASE VmmInit
    <2>1. CallInv' /\ SlotsInv'  BY SlotsStep DEF BaseInv
    <2> QED  BY <1>1, <2>1, BaseVmmInit
  <1>2. CASE InstallPage  BY <1>2, BaseInstall
  <1>3. CASE RollbackPage \/ UnmapPage  BY <1>3, BaseUnmapCall
  <1>4. CASE \/ CheckPage \/ MapReturn \/ RollbackDone \/ UnmapDone
             \/ \E q \in Requests, r \in Records, s \in Slots : MapBegin(q[1], q[2], q[3], r, s)
             \/ \E m \in live, r \in Records : UnmapBegin(m, r)
    BY <1>4, BaseCalls
  <1>5. CASE \/ UNCHANGED vars
             \/ \E q \in Requests : MapIdentity(q[1], q[2], q[3]) \/ MapRefused(q[1], q[2])
             \/ \E q \in Requests, s \in Slots : UnmapUnknown(SlotAddress(s) + Offset(q[1]), q[3])
             \/ \E m \in live : UnmapIdentity(m)
    BY <1>5, BaseIdle
  <1>6. ASSUME NEW v \in WindowPages, TlbFill(v), UNCHANGED <<pmmVars, acpiVars>>
        PROVE  BaseInv'
    BY <1>6, BaseTlbFill
  <1>7. CASE VmmStep /\ UNCHANGED acpiVars
    <2>1. CASE \E f \in Low : AllocateTable(f)  BY <1>7, <2>1, BaseAllocate
    <2>2. CASE UNCHANGED <<bitmap, free_pages>> /\ Descend  BY <1>7, <2>2, BaseDescend
    <2>3. CASE UNCHANGED <<bitmap, free_pages>> /\ AllocateTableFails
      BY <1>7, <2>3, BaseAllocateFails
    <2>4. CASE UNCHANGED <<bitmap, free_pages>> /\ ZeroPage  BY <1>7, <2>4, BaseZero
    <2>5. CASE UNCHANGED <<bitmap, free_pages>> /\ LinkTable  BY <1>7, <2>5, BaseLink
    <2>6. CASE UNCHANGED <<bitmap, free_pages>> /\ WriteEntry  BY <1>7, <2>6, BaseWrite
    <2>7. CASE UNCHANGED <<bitmap, free_pages>> /\ Flush  BY <1>7, <2>7, BaseFlush
    <2> QED  BY <1>7, <2>1, <2>2, <2>3, <2>4, <2>5, <2>6, <2>7 DEF VmmStep
  <1> QED  BY <1>1, <1>2, <1>3, <1>4, <1>5, <1>6, <1>7, NextCases

LEMMA BaseAlways == Spec => []BaseInv
  BY BaseInit, BaseStep, PTL DEF Spec

-----------------------------------------------------------------------------
(* What the tables guarantee.                                               *)

(* The kernel's identity map survives every call of uACPI, whatever the     *)
(* window maps and however often memory for tables runs out.                *)
THEOREM IdentityCorrect == Spec => []IdentityIntact
  <1>1. BaseInv => IdentityIntact
    <2> SUFFICES ASSUME BaseInv, paging_enabled, NEW v \in 0 .. IDENTITY_PAGES - 1
                 PROVE  HwWalk(v) = v
      BY DEF IdentityIntact
    <2>1. PICK lv : TreeOK(lv, mem, Taken)  BY DEF BaseInv, TreeInv
    <2>2. HwOf(mem, v) = v  BY <2>1, IdentityWalk DEF TreeOK
    <2> QED  BY <2>2, HwOfFacts
  <1> QED  BY <1>1, BaseAlways, PTL

(* The TLB is stale only for the page map_page or unmap_page has just       *)
(* written and not yet flushed.                                             *)
THEOREM TlbCorrect == Spec => []TlbCoherent
  <1>1. BaseInv => TlbCoherent
    <2> SUFFICES ASSUME BaseInv, NEW v \in WindowPages
                 PROVE  tlb[v] \in {NoPage, HwWalk(v)} \/ (vpc = "flush" /\ Vpn(cva) = v)
      BY DEF TlbCoherent
    <2>1. tlb[v] \in {NoPage, HwOf(mem, v)} \/ (vpc = "flush" /\ v = PageOf(Target))
      BY DEF BaseInv, TlbInv
    <2>2. vpc = "flush" => Vpn(cva) = PageOf(Target)  BY TargetFacts DEF BaseInv
    <2> QED  BY <2>1, <2>2, HwOfFacts
  <1> QED  BY <1>1, BaseAlways, PTL

(* The tables of each level, by the levels of the tree.                     *)
LEMMA TablesByLevel ==
  ASSUME NEW lv, TreeOK(lv, mem, Taken)
  PROVE  /\ \A t : t \in Pdpts <=> t \in Low /\ lv[t] = 3
         /\ \A t : t \in Pds <=> t \in Low /\ lv[t] = 2
         /\ \A t : t \in Pts <=> t \in Low /\ lv[t] = 1
  <1> USE LowFacts
  <1>1. /\ \A f \in Low : lv[f] \in 0 .. 4 /\ (lv[f] \in 1 .. 3 <=> f \in Taken)
        /\ \A f \in Low : lv[f] = 4 <=> f = PML4
        /\ Taken \subseteq Low \ (Statics \cup {0}) /\ mem[PML4][0] = PresentEntry(PDPT)
    BY DEF TreeOK, LevelsOK, IdentityOK
  <1>2. \A f \in Low, i \in Index : Dir(lv, f, i) /\ mem[f][i].present =>
          ~mem[f][i].ps /\ mem[f][i].page \in Low /\ lv[mem[f][i].page] = lv[f] - 1
    BY DEF TreeOK, EntriesOK
  <1>3. \A t \in Taken : \E f \in Low, i \in Index :
          Dir(lv, f, i) /\ mem[f][i].present /\ mem[f][i].page = t
    BY DEF TreeOK, EntriesOK
  <1>4. \A f, t : t \in Children(f) <=>
          \E i \in Index : mem[f][i].present /\ ~mem[f][i].ps /\ mem[f][i].page = t
    BY DEF Children
  <1>5. ASSUME NEW k \in 2 .. 4, NEW f \in Low, NEW i \in Index, lv[f] = k, Dir(lv, f, i),
               mem[f][i].present
        PROVE  mem[f][i].page \in Low /\ lv[mem[f][i].page] = k - 1
    <2>1. mem[f][i].page \in Low /\ lv[mem[f][i].page] = lv[f] - 1
      BY <1>2, <1>5, Zenon
    <2> QED  BY <1>5, <2>1
  <1>6. ASSUME NEW k \in 2 .. 4, NEW t \in Low, lv[t] = k - 1
        PROVE  \E f \in Low, i \in Index : /\ lv[f] = k /\ Dir(lv, f, i) /\ mem[f][i].present
                                          /\ ~mem[f][i].ps /\ mem[f][i].page = t
    <2>1. lv[t] \in 1 .. 3  BY <1>6
    <2>2. t \in Taken  BY <1>1, <2>1
    <2>3. PICK f \in Low, i \in Index : Dir(lv, f, i) /\ mem[f][i].present /\ mem[f][i].page = t
      BY <1>3, <2>2
    <2>4. ~mem[f][i].ps /\ lv[t] = lv[f] - 1  BY <1>2, <2>3, Zenon
    <2>5. lv[f] \in 0 .. 4  BY <1>1
    <2>6. lv[f] = k  BY <1>6, <2>4, <2>5
    <2> QED  BY <2>3, <2>4, <2>6
  <1>7. lv[PML4] = 4 /\ lv[PDPT] \notin 1 .. 3  BY <1>1 DEF Statics
  <1>8. ASSUME NEW t  PROVE t \in Pdpts <=> t \in Low /\ lv[t] = 3
    <2>1. ASSUME t \in Pdpts  PROVE t \in Low /\ lv[t] = 3
      <3>1. t \in Children(PML4) /\ t # PDPT  BY <2>1 DEF Pdpts
      <3>2. PICK i \in Index : mem[PML4][i].present /\ ~mem[PML4][i].ps /\ mem[PML4][i].page = t
        BY <1>4, <3>1
      <3>3. i # 0  BY <1>1, <3>1, <3>2 DEF PresentEntry
      <3>4. Dir(lv, PML4, i)  BY <1>7, <3>3 DEF Dir
      <3>5. 4 \in 2 .. 4 /\ 4 - 1 = 3  OBVIOUS
      <3>6. mem[PML4][i].page \in Low /\ lv[mem[PML4][i].page] = 4 - 1
        BY <1>5, <1>7, <3>2, <3>4, <3>5, Zenon
      <3> QED  BY <3>2, <3>5, <3>6
    <2>2. ASSUME t \in Low, lv[t] = 3  PROVE t \in Pdpts
      <3>1. 4 \in 2 .. 4 /\ lv[t] = 4 - 1  BY <2>2
      <3>2. PICK f \in Low, i \in Index : /\ lv[f] = 4 /\ Dir(lv, f, i) /\ mem[f][i].present
                                          /\ ~mem[f][i].ps /\ mem[f][i].page = t
        <4> HIDE LowFacts
        <4> QED  BY <1>6, <2>2, <3>1
      <3>3. f = PML4  BY <1>1, <3>2
      <3>4. t # PDPT  BY <1>7, <2>2
      <3> QED  BY <1>4, <3>2, <3>3, <3>4 DEF Pdpts
    <2> QED  BY <2>1, <2>2
  <1>9. ASSUME NEW t  PROVE t \in Pds <=> t \in Low /\ lv[t] = 2
    <2>1. ASSUME t \in Pds  PROVE t \in Low /\ lv[t] = 2
      <3>1. PICK f \in Pdpts : t \in Children(f)  BY <2>1 DEF Pds
      <3>2. f \in Low /\ lv[f] = 3 /\ f # PML4  BY <1>7, <1>8
      <3>3. PICK i \in Index : mem[f][i].present /\ ~mem[f][i].ps /\ mem[f][i].page = t
        <4>1. t \in Children(f)  BY <3>1
        <4> HIDE LowFacts
        <4> QED  BY <1>4, <4>1
      <3>4. Dir(lv, f, i)  BY <3>2 DEF Dir
      <3>5. 3 \in 2 .. 4 /\ 3 - 1 = 2  OBVIOUS
      <3>6. mem[f][i].page \in Low /\ lv[mem[f][i].page] = 3 - 1
        BY <1>5, <3>2, <3>3, <3>4, <3>5, Zenon
      <3> QED  BY <3>3, <3>5, <3>6
    <2>2. ASSUME t \in Low, lv[t] = 2  PROVE t \in Pds
      <3>1. 3 \in 2 .. 4 /\ lv[t] = 3 - 1  BY <2>2
      <3>2. PICK f \in Low, i \in Index : /\ lv[f] = 3 /\ Dir(lv, f, i) /\ mem[f][i].present
                                          /\ ~mem[f][i].ps /\ mem[f][i].page = t
        <4> HIDE LowFacts
        <4> QED  BY <1>6, <2>2, <3>1
      <3> QED  BY <1>4, <1>8, <3>2 DEF Pds
    <2> QED  BY <2>1, <2>2
  <1>10. ASSUME NEW t  PROVE t \in Pts <=> t \in Low /\ lv[t] = 1
    <2>1. ASSUME t \in Pts  PROVE t \in Low /\ lv[t] = 1
      <3>1. PICK f \in Pds : t \in Children(f)  BY <2>1 DEF Pts
      <3>2. f \in Low /\ lv[f] = 2 /\ f # PML4  BY <1>7, <1>9
      <3>3. PICK i \in Index : mem[f][i].present /\ ~mem[f][i].ps /\ mem[f][i].page = t
        <4>1. t \in Children(f)  BY <3>1
        <4> HIDE LowFacts
        <4> QED  BY <1>4, <4>1
      <3>4. Dir(lv, f, i)  BY <3>2 DEF Dir
      <3>5. 2 \in 2 .. 4 /\ 2 - 1 = 1  OBVIOUS
      <3>6. mem[f][i].page \in Low /\ lv[mem[f][i].page] = 2 - 1
        BY <1>5, <3>2, <3>3, <3>4, <3>5, Zenon
      <3> QED  BY <3>3, <3>5, <3>6
    <2>2. ASSUME t \in Low, lv[t] = 1  PROVE t \in Pts
      <3>1. 2 \in 2 .. 4 /\ lv[t] = 2 - 1  BY <2>2
      <3>2. PICK f \in Low, i \in Index : /\ lv[f] = 2 /\ Dir(lv, f, i) /\ mem[f][i].present
                                          /\ ~mem[f][i].ps /\ mem[f][i].page = t
        <4> HIDE LowFacts
        <4> QED  BY <1>6, <2>2, <3>1
      <3> QED  BY <1>4, <1>9, <3>2 DEF Pts
    <2> QED  BY <2>1, <2>2
  <1> QED  BY <1>8, <1>9, <1>10

(* The frames the VMM has taken from the PMM are exactly the tables of the  *)
(* tree and the frame being prepared: none is lost when a mapping fails.    *)
THEOREM TableFramesCorrect == Spec => []TableFramesAccounted
  <1>1. BaseInv => TableFramesAccounted
    <2> SUFFICES ASSUME BaseInv, paging_enabled
                 PROVE  /\ bootFree \ FreeSet = Pdpts \cup Pds \cup Pts \cup ({frame} \ {0})
                        /\ (Pdpts \cap Pds) \cup (Pdpts \cap Pts) \cup (Pds \cap Pts) = {}
                        /\ frame \notin Pdpts \cup Pds \cup Pts
      BY DEF TableFramesAccounted
    <2>1. PICK lv : TreeOK(lv, mem, Taken)  BY DEF BaseInv, TreeInv
    <2>2. /\ \A t : t \in Pdpts <=> t \in Low /\ lv[t] = 3
          /\ \A t : t \in Pds <=> t \in Low /\ lv[t] = 2
          /\ \A t : t \in Pts <=> t \in Low /\ lv[t] = 1
      BY <2>1, TablesByLevel
    <2>3. \A f \in Low : lv[f] \in 1 .. 3 <=> f \in Taken  BY <2>1 DEF TreeOK, LevelsOK
    <2>4. Taken \subseteq Low  BY BootFreeFacts DEF BaseInv
    <2>5. \A t : t \in Taken <=> t \in Pdpts \/ t \in Pds \/ t \in Pts
      <3>1. \A t \in Low : lv[t] \in 1 .. 3 <=> lv[t] = 3 \/ lv[t] = 2 \/ lv[t] = 1
        OBVIOUS
      <3> QED  BY <2>2, <2>3, <2>4, <3>1
    <2>6. (Pdpts \cap Pds) \cup (Pdpts \cap Pts) \cup (Pds \cap Pts) = {}  BY <2>2
    <2>7. frame \notin Pdpts \cup Pds \cup Pts  BY <2>5 DEF Taken
    <2>8. 0 \notin bootFree  BY BootFreeFacts DEF BaseInv
    <2>9. frame \in bootFree \ FreeSet \/ frame = 0  BY DEF BaseInv, FramesInv
    <2>10. \A t : t \in bootFree \ FreeSet <=> t \in Taken \/ (t = frame /\ t # 0)
      BY <2>8, <2>9 DEF Taken
    <2>11. bootFree \ FreeSet = Pdpts \cup Pds \cup Pts \cup ({frame} \ {0})
      BY <2>5, <2>10
    <2> QED  BY <2>6, <2>7, <2>11
  <1> QED  BY <1>1, BaseAlways, PTL

-----------------------------------------------------------------------------
(* What uACPI holds, and what the tables hold for it.                       *)

(* The identity map ends below the window.                                  *)
LEMMA IdentityBelow ==
  /\ ACPI_IDENTITY_MAP_LIMIT \in Nat /\ ACPI_IDENTITY_MAP_LIMIT <= ACPI_MAP_WINDOW_BASE
  /\ ACPI_IDENTITY_MAP_LIMIT > 0
  <1>1. IDENTITY_PAGES \in Nat \ {0} /\ HalfPages \in Nat /\ HalfPages >= IDENTITY_PAGES
    BY HalfFacts, ReachFacts DEF IDENTITY_PAGES
  <1>2. PMM_PAGE_SIZE \in Nat \ {0}  BY SizeFacts
  <1>3. /\ IDENTITY_PAGES * PMM_PAGE_SIZE \in Nat \ {0}
        /\ IDENTITY_PAGES * PMM_PAGE_SIZE <= HalfPages * PMM_PAGE_SIZE
        /\ HalfPages * PMM_PAGE_SIZE \in Nat
    BY <1>1, <1>2
  <1>4. (WORD \div VA_SPAN - 1) * VA_SPAN \in Nat
    <2> DEFINE w == WORD \div VA_SPAN
    <2>1. w \in Nat \ {0} /\ VA_SPAN \in Nat  BY SizeFacts
    <2> HIDE DEF w
    <2>2. (w - 1) * VA_SPAN \in Nat  BY <2>1
    <2> QED  BY <2>2 DEF w
  <1>5. ACPI_MAP_WINDOW_BASE = (WORD \div VA_SPAN - 1) * VA_SPAN + HalfPages * PMM_PAGE_SIZE
    BY SizeFacts
  <1> QED  BY <1>3, <1>4, <1>5 DEF ACPI_IDENTITY_MAP_LIMIT

(* A record for slot s is no empty one, and its run is inside the window.   *)
LEMMA RunSlots ==
  ASSUME NEW rec, RecordOK(rec), NEW s \in Slots, NEW c, rec = RecordFor(s, c)
  PROVE  /\ InWindow(s, c) /\ rec # NoRecord /\ RunOf(rec) = SlotRange(s, c)
         /\ s \in RunOf(rec) /\ \A i \in 0 .. c - 1 : s + i \in RunOf(rec) /\ s + i \in Slots
  <1>1. 0 \in 0 .. PMM_PAGE_SIZE - 1 /\ ACPI_MAP_WINDOW_BASE \in Nat
    BY SizeFacts
  <1>2. \A t \in Slots : /\ SlotAddress(t) \in Nat /\ SlotAddress(t) >= ACPI_MAP_WINDOW_BASE
                         /\ (SlotAddress(t) - ACPI_MAP_WINDOW_BASE) \div PMM_PAGE_SIZE = t
    BY <1>1, SlotFacts
  <1>3. ACPI_MAP_WINDOW_BASE > 0  BY <1>1, IdentityBelow
  <1>4. rec.virtual_base = SlotAddress(s) /\ rec.page_count = c  BY DEF RecordFor
  <1>5. rec # NoRecord
    <2>1. SlotAddress(s) # 0  BY <1>1, <1>2, <1>3
    <2> QED  BY <1>4, <2>1 DEF NoRecord
  <1>6. PICK t \in Slots, d \in 1 .. ACPI_MAP_WINDOW_PAGES :
          InWindow(t, d) /\ rec = RecordFor(t, d)
    BY <1>5 DEF RecordOK
  <1>7. SlotAddress(t) = SlotAddress(s) /\ d = c  BY <1>4, <1>6 DEF RecordFor
  <1>8. InWindow(s, c)  BY <1>2, <1>6, <1>7
  <1>9. RunOf(rec) = SlotRange(s, c) /\ SlotRange(s, c) \subseteq Slots /\ s \in SlotRange(s, c)
    BY <1>8, RunFacts
  <1>10. \A i \in 0 .. c - 1 : s + i \in SlotRange(s, c)
    BY <1>8, SizeFacts DEF SlotRange, InWindow, Slots
  <1> QED  BY <1>5, <1>8, <1>9, <1>10

(* A slot has one address, and bytes of different slots differ.             *)
LEMMA SameSlot ==
  ASSUME NEW s \in Slots, NEW t \in Slots,
         NEW o \in 0 .. PMM_PAGE_SIZE - 1, NEW p \in 0 .. PMM_PAGE_SIZE - 1,
         SlotAddress(s) + o = SlotAddress(t) + p
  PROVE  s = t /\ o = p
  <1>1. Vpn(SlotAddress(s) + o) = PageOf(s) /\ Vpn(SlotAddress(t) + p) = PageOf(t)
    BY SlotFacts, Zenon
  <1>2. Offset(SlotAddress(s) + o) = o /\ Offset(SlotAddress(t) + p) = p
    BY SlotFacts, Zenon
  <1>3. s \in Nat /\ t \in Nat  BY SizeFacts DEF Slots
  <1> QED  BY <1>1, <1>2, <1>3, WindowPagesAre

(* The address of a mapping tells its slot.                                 *)
LEMMA WindowAddress ==
  ASSUME SlotsInv, NEW m \in Mapped, NEW r \in Records, NEW s \in Slots, WindowMap(m, r, s)
  PROVE  /\ Offset(m.pa) \in 0 .. PMM_PAGE_SIZE - 1 /\ Offset(m.va) = Offset(m.pa)
         /\ m.va = SlotAddress(s) + Offset(m.pa) /\ m.va - Offset(m.va) = SlotAddress(s)
         /\ m.va >= ACPI_MAP_WINDOW_BASE /\ m.va \in 0 .. WORD - 1 /\ m.va # WORD - 1
         /\ s \in RunOf(mappings[r]) /\ mappings[r] # NoRecord
         /\ InWindow(s, PageCount(m.pa, m.len))
         /\ \A i \in 0 .. PageCount(m.pa, m.len) - 1 : s + i \in RunOf(mappings[r]) /\ s + i \in Slots
         /\ \A n : PageCount(m.va, n) = PageCount(m.pa, n)
  <1>1. m.pa \in Nat /\ 0 \in Nat  BY DEF Mapped
  <1>2. Offset(m.pa) \in 0 .. PMM_PAGE_SIZE - 1  BY <1>1, PlainFacts, Zenon
  <1> DEFINE o == Offset(m.pa)
  <1>3. m.va = SlotAddress(s) + o /\ mappings[r] = RecordFor(s, PageCount(m.pa, m.len))
    BY DEF WindowMap
  <1>4. /\ SlotAddress(s) \in Nat /\ SlotAddress(s) + o \in 0 .. WORD - 1
        /\ SlotAddress(s) + o # WORD - 1 /\ Offset(SlotAddress(s) + o) = o
        /\ SlotAddress(s) >= ACPI_MAP_WINDOW_BASE
    BY <1>2, SlotFacts
  <1>5. RecordOK(mappings[r])  BY DEF SlotsInv
  <1>6. /\ InWindow(s, PageCount(m.pa, m.len)) /\ mappings[r] # NoRecord
        /\ s \in RunOf(mappings[r])
        /\ \A i \in 0 .. PageCount(m.pa, m.len) - 1 : s + i \in RunOf(mappings[r]) /\ s + i \in Slots
    BY <1>3, <1>5, RunSlots
  <1>7. Offset(m.va) = o  BY <1>3, <1>4
  <1>8. \A n : PageCount(m.va, n) = PageCount(m.pa, n)  BY <1>7 DEF PageCount
  <1>9. o \in Nat /\ ACPI_MAP_WINDOW_BASE \in Nat  BY <1>2, SizeFacts
  <1>10. SlotAddress(s) + o - o = SlotAddress(s) /\ SlotAddress(s) + o >= ACPI_MAP_WINDOW_BASE
    <2> HIDE DEF o
    <2> QED  BY <1>4, <1>9
  <1> QED  BY <1>2, <1>3, <1>4, <1>6, <1>7, <1>8, <1>10

(* A mapping stays what it is while its record and the pages of its run do. *)
LEMMA WindowSame ==
  ASSUME SlotsInv, NEW m \in Mapped, NEW r \in Records, NEW s \in Slots,
         mappings'[r] = mappings[r],
         \A t \in RunOf(mappings[r]) : Seen(mem', PageOf(t)) = Seen(mem, PageOf(t)),
         (apc' = "unmap" /\ r = call'.record) <=> (apc = "unmap" /\ r = call.record)
  PROVE  WindowMap(m, r, s)' <=> WindowMap(m, r, s)
  <1> DEFINE c == PageCount(m.pa, m.len)
  <1>1. CASE mappings[r] # RecordFor(s, c)
    BY <1>1 DEF WindowMap
  <1>2. CASE mappings[r] = RecordFor(s, c)
    <2>1. RecordOK(mappings[r])  BY DEF SlotsInv
    <2>2. \A i \in 0 .. c - 1 : s + i \in RunOf(mappings[r])
      <3> HIDE DEF c
      <3> QED  BY <1>2, <2>1, RunSlots
    <2>3. \A i \in 0 .. c - 1 : Installed(s + i, m.pa, i)' <=> Installed(s + i, m.pa, i)
      BY <2>2 DEF Installed
    <2> QED  BY <2>3 DEF WindowMap
  <1> QED  BY <1>1, <1>2

(* What uACPI holds may shrink.                                             *)
LEMMA LiveSame ==
  ASSUME LiveInv, live' \subseteq live, apc' = "boot" => live' = {},
         \A m \in live' : \A r \in Records, s \in Slots :
           WindowMap(m, r, s)' <=> WindowMap(m, r, s)
  PROVE  LiveInv'
  <1>1. live' \subseteq Mapped  BY DEF LiveInv
  <1>2. \A m \in live' : <<m.pa, m.len, m.back>> \in Requests /\ m.len # 0
    BY DEF LiveInv
  <1>3. \A m \in live' : IdentityMap(m) \/ \E r \in Records, s \in Slots : WindowMap(m, r, s)'
    BY DEF LiveInv
  <1>4. \A m, n \in live' : \A r \in Records, s, t \in Slots :
          WindowMap(m, r, s)' /\ WindowMap(n, r, t)' => m = n
    <2> SUFFICES ASSUME NEW m \in live', NEW n \in live', NEW r \in Records,
                        NEW s \in Slots, NEW t \in Slots,
                        WindowMap(m, r, s)', WindowMap(n, r, t)'
                 PROVE  m = n
      OBVIOUS
    <2>1. WindowMap(m, r, s) /\ WindowMap(n, r, t)  OBVIOUS
    <2> QED  BY <2>1 DEF LiveInv
  <1> QED  BY <1>1, <1>2, <1>3, <1>4 DEF LiveInv, IdentityMap

(* The slots of the call under way are marked, and no mapping that is held  *)
(* has one of them.                                                         *)
LEMMA CallSlots ==
  ASSUME CallInv, SlotsInv, Mapping \/ apc = "unmap"
  PROVE  /\ call.start \in Nat /\ call.count \in Nat /\ index \in Nat /\ call.record \in Records
         /\ InWindow(call.start, call.count)
         /\ \A i \in 0 .. call.count - 1 :
              /\ call.start + i \in SlotRange(call.start, call.count)
              /\ call.start + i \in Slots /\ call.start + i \in map_slots
         /\ \A r \in Records : \A t \in RunOf(mappings[r]) :
              t \in Slots /\ (t \in SlotRange(call.start, call.count) => apc = "unmap" /\ r = call.record)
  <1>1. /\ call.start \in Nat /\ call.count \in Nat /\ index \in Nat /\ call.record \in Records
        /\ InWindow(call.start, call.count)
    BY DEF CallInv, CallType
  <1>2. SlotRange(call.start, call.count) \subseteq Slots  BY <1>1, RunFacts
  <1>3. \A i \in 0 .. call.count - 1 : call.start + i \in SlotRange(call.start, call.count)
    BY <1>1 DEF SlotRange
  <1>4. \A t \in SlotRange(call.start, call.count) : t \in map_slots
    <2>1. CASE Mapping  BY <2>1 DEF SlotsInv, CallRun, Mapping
    <2>2. CASE apc = "unmap"
      <3>1. mappings[call.record] = RecordFor(call.start, call.count)  BY <2>2 DEF CallInv
      <3>2. RunOf(mappings[call.record]) = SlotRange(call.start, call.count)
        BY <1>1, <3>1, RunFacts
      <3> QED  BY <1>1, <3>2 DEF SlotsInv
    <2> QED  BY <2>1, <2>2
  <1>5. \A r \in Records : RunOf(mappings[r]) \subseteq Slots
    BY RecordFacts DEF SlotsInv
  <1>6. ASSUME NEW r \in Records, NEW t \in RunOf(mappings[r]),
               t \in SlotRange(call.start, call.count)
        PROVE  apc = "unmap" /\ r = call.record
    <2>1. CASE Mapping  BY <1>6, <2>1 DEF SlotsInv, CallRun, Mapping
    <2>2. CASE apc = "unmap"
      <3>1. mappings[call.record] = RecordFor(call.start, call.count)  BY <2>2 DEF CallInv
      <3>2. RunOf(mappings[call.record]) = SlotRange(call.start, call.count)
        BY <1>1, <3>1, RunFacts
      <3> QED  BY <1>1, <1>6, <2>2, <3>2 DEF SlotsInv
    <2> QED  BY <2>1, <2>2
  <1> QED  BY <1>1, <1>2, <1>3, <1>4, <1>5, <1>6

(* A call that is under way disturbs no mapping that is held.               *)
LEMMA LiveApart ==
  ASSUME CallInv, SlotsInv, LiveInv, Mapping \/ apc = "unmap", UNCHANGED <<mappings, call, live>>,
         apc' = "unmap" <=> apc = "unmap", apc' # "boot",
         \A t \in Slots : t \notin SlotRange(call.start, call.count) =>
           Seen(mem', PageOf(t)) = Seen(mem, PageOf(t))
  PROVE  /\ LiveInv'
         /\ \A m \in live, r \in Records, s \in Slots : WindowMap(m, r, s)' <=> WindowMap(m, r, s)
  <1>1. ASSUME NEW m \in live, NEW r \in Records, NEW s \in Slots
        PROVE  WindowMap(m, r, s)' <=> WindowMap(m, r, s)
    <2>1. CASE apc = "unmap" /\ r = call.record
      <3>1. apc' = "unmap" /\ r = call'.record  BY <2>1
      <3> QED  BY <2>1, <3>1 DEF WindowMap
    <2>2. CASE ~(apc = "unmap" /\ r = call.record)
      <3>1. \A t \in RunOf(mappings[r]) : Seen(mem', PageOf(t)) = Seen(mem, PageOf(t))
        BY <2>2, CallSlots
      <3>2. m \in Mapped  BY DEF LiveInv
      <3>3. mappings'[r] = mappings[r]  OBVIOUS
      <3>4. (apc' = "unmap" /\ r = call'.record) <=> (apc = "unmap" /\ r = call.record)
        OBVIOUS
      <3> QED  BY <3>1, <3>2, <3>3, <3>4, WindowSame
    <2> QED  BY <2>1, <2>2
  <1>2. LiveInv'  BY <1>1, LiveSame
  <1> QED  BY <1>1, <1>2

(* A step of the VMM changes one page of the run, the one it is about.      *)
LEMMA ContentsWalk ==
  ASSUME BaseInv, ContentsInv, LiveInv, vpc # "done", paging_enabled' = paging_enabled,
         UNCHANGED <<map_slots, mappings, apc, call, index, live>>,
         \A s \in Slots : s # Target => Seen(mem', PageOf(s)) = Seen(mem, PageOf(s)),
         apc = "check" /\ vpc' \in {"walk", "zero", "link"} => Seen(mem', PageOf(Target)) = NoPage,
         apc = "check" /\ vpc' = "flush" => Seen(mem', PageOf(Target)) = cpa' \div PMM_PAGE_SIZE,
         apc = "check" /\ vpc' = "done" =>
           \/ /\ PhysicalPage(index) < PHYS_LIMIT
              /\ Seen(mem', PageOf(Target)) = PhysicalPage(index) \div PMM_PAGE_SIZE
           \/ /\ Seen(mem', PageOf(Target)) = NoPage
              /\ ~Has1(mem', PageOf(Target)) \/ PhysicalPage(index) >= PHYS_LIMIT,
         apc # "check" /\ vpc' # "walk" => Seen(mem', PageOf(Target)) = NoPage
  PROVE  /\ ContentsInv' /\ LiveInv'
         /\ \A m \in live, r \in Records, s \in Slots : WindowMap(m, r, s)' <=> WindowMap(m, r, s)
  <1>1. /\ apc \in {"check", "rollback", "unmap"} /\ Target \in Slots /\ paging_enabled
        /\ Target \in SlotRange(call.start, call.count)
    BY TargetFacts DEF BaseInv
  <1>2. Mapping \/ apc = "unmap"  BY <1>1 DEF Mapping
  <1>3. /\ call.start \in Nat /\ call.count \in Nat /\ index \in Nat
        /\ \A i \in 0 .. call.count - 1 :
             call.start + i \in Slots /\ call.start + i \in map_slots
    BY <1>2, CallSlots DEF BaseInv
  <1>4. /\ apc # "unmap" => index < call.count /\ Target = call.start + index
        /\ apc = "unmap" => index > 0 /\ index <= call.count
                          /\ Target = call.start + (index - 1)
    BY <1>1 DEF BaseInv, CallInv, Mapping, Target
  <1>5. Target \in map_slots
    <2>1. apc # "unmap" => index \in 0 .. call.count - 1  BY <1>3, <1>4
    <2>2. apc = "unmap" => index - 1 \in 0 .. call.count - 1  BY <1>3, <1>4
    <2> QED  BY <1>3, <1>4, <2>1, <2>2
  <1>6. FreeClear'  BY <1>1, <1>5 DEF ContentsInv, FreeClear, Clear
  <1>7. DoneInstalled'
    <2> SUFFICES ASSUME apc = "check", NEW i \in 0 .. index - 1
                 PROVE  Installed(call.start + i, call.pa, i)'
      BY <1>1 DEF DoneInstalled
    <2>1. Installed(call.start + i, call.pa, i)  BY DEF ContentsInv, DoneInstalled
    <2>2. i \in 0 .. call.count - 1 /\ call.start + i # Target  BY <1>3, <1>4
    <2>3. call.start + i \in Slots  BY <1>3, <2>2
    <2> QED  BY <2>1, <2>2, <2>3 DEF Installed
  <1>8. RestClear'
    <2> SUFFICES ASSUME Mapping, NEW i \in index + 1 .. call.count - 1
                 PROVE  Clear(call.start + i)'
      BY DEF RestClear, Mapping
    <2>1. Clear(call.start + i)  BY DEF ContentsInv, RestClear
    <2>2. i \in 0 .. call.count - 1 /\ call.start + i # Target  BY <1>3, <1>4 DEF Mapping
    <2>3. call.start + i \in Slots  BY <1>3, <2>2
    <2> QED  BY <2>1, <2>2, <2>3 DEF Clear
  <1>9. CurrentPage'
    <2>1. apc # "unmap" => call.start + index = Target  BY <1>4
    <2>2. PhysicalPage(index)' = PhysicalPage(index)  BY DEF PhysicalPage
    <2> QED  BY <1>1, <2>1, <2>2 DEF CurrentPage, Clear
  <1>10. UnmapClear'
    <2> SUFFICES ASSUME apc = "unmap"
                 PROVE  /\ \A i \in 0 .. index - 2 : Clear(call.start + i)'
                        /\ vpc' \in {"done", "flush"} => Clear(call.start + (index - 1))'
      BY DEF UnmapClear
    <2>1. ASSUME NEW i \in 0 .. index - 2  PROVE Clear(call.start + i)'
      <3>1. Clear(call.start + i)  BY DEF ContentsInv, UnmapClear
      <3>2. i \in 0 .. call.count - 1 /\ call.start + i # Target  BY <1>3, <1>4
      <3>3. call.start + i \in Slots  BY <1>3, <3>2
      <3> QED  BY <3>1, <3>2, <3>3 DEF Clear
    <2>2. ASSUME vpc' \in {"done", "flush"}  PROVE Clear(call.start + (index - 1))'
      BY <1>4, <2>2 DEF Clear
    <2> QED  BY <2>1, <2>2
  <1>11. /\ LiveInv'
         /\ \A m \in live, r \in Records, s \in Slots : WindowMap(m, r, s)' <=> WindowMap(m, r, s)
    <2>1. apc' # "boot" /\ (apc' = "unmap" <=> apc = "unmap")  BY <1>1
    <2>2. \A t \in Slots : t \notin SlotRange(call.start, call.count) =>
            Seen(mem', PageOf(t)) = Seen(mem, PageOf(t))
      BY <1>1
    <2> QED  BY <1>2, <2>1, <2>2, LiveApart DEF BaseInv
  <1> QED  BY <1>6, <1>7, <1>8, <1>9, <1>10, <1>11 DEF ContentsInv

LEMMA ContentsVmm ==
  ASSUME BaseInv, ContentsInv, LiveInv, VmmStep, UNCHANGED acpiVars
  PROVE  /\ ContentsInv' /\ LiveInv'
         /\ \A m \in live, r \in Records, s \in Slots : WindowMap(m, r, s)' <=> WindowMap(m, r, s)
  <1> DEFINE old == Seen(mem, PageOf(Target))
             new == Seen(mem', PageOf(Target))
             Same == \A s \in Slots : s # Target => Seen(mem', PageOf(s)) = Seen(mem, PageOf(s))
             Good == /\ Same
                     /\ apc = "check" /\ vpc' \in {"walk", "zero", "link"} => new = NoPage
                     /\ apc = "check" /\ vpc' = "flush" => new = cpa' \div PMM_PAGE_SIZE
                     /\ apc = "check" /\ vpc' = "done" =>
                          \/ /\ PhysicalPage(index) < PHYS_LIMIT
                             /\ new = PhysicalPage(index) \div PMM_PAGE_SIZE
                          \/ /\ new = NoPage
                             /\ ~Has1(mem', PageOf(Target)) \/ PhysicalPage(index) >= PHYS_LIMIT
                     /\ apc # "check" /\ vpc' # "walk" => new = NoPage
  <1>1. /\ UNCHANGED <<map_slots, mappings, apc, call, index, live>>
        /\ paging_enabled' = paging_enabled /\ vpc # "done"
    BY VmmStepFrame
  <1>2. apc \in {"check", "rollback", "unmap"} /\ Target \in Slots
    BY <1>1, TargetFacts DEF BaseInv
  <1>3. /\ apc # "unmap" => Target = call.start + index
        /\ apc = "unmap" => index > 0 /\ Target = call.start + (index - 1)
    BY <1>1, <1>2 DEF BaseInv, CallInv, Target
  <1>4. /\ apc = "check" /\ vpc \in {"walk", "zero", "link"} => old = NoPage
        /\ apc = "check" /\ vpc = "flush" => old = cpa \div PMM_PAGE_SIZE
        /\ apc # "check" /\ vpc # "walk" /\ vpc \notin {"zero", "link"} => old = NoPage
    <2>1. apc = "unmap" /\ vpc = "flush" => Clear(Target)
      BY <1>3 DEF ContentsInv, UnmapClear
    <2>2. apc = "rollback" /\ vpc # "walk" => Clear(Target)
      BY <1>3 DEF ContentsInv, CurrentPage
    <2>3. vpc \in {"done", "walk", "zero", "link", "flush"}  BY DEF BaseInv, WalkInv
    <2> QED  BY <1>1, <1>2, <1>3, <2>1, <2>2, <2>3 DEF ContentsInv, CurrentPage, Clear
  <1>5. vpc \in {"zero", "link"} => apc = "check"
    BY DEF BaseInv, WalkInv
  <1>6. vpc = "flush" /\ apc = "check" => cpa = PhysicalPage(index) /\ cpa < PHYS_LIMIT
    BY DEF BaseInv, WalkInv
  <1>7. CASE \E f \in Low : AllocateTable(f)
    <2>1. mem' = mem /\ vpc = "walk" /\ vpc' = "zero"  BY <1>7, BaseAllocate
    <2>2. apc = "check"  BY <1>7, <2>1 DEF BaseInv, WalkInv, AllocateTable
    <2>3. Good  BY <1>4, <2>1, <2>2
    <2> QED  BY <1>1, <2>3, ContentsWalk
  <1>8. CASE UNCHANGED <<bitmap, free_pages>> /\ Descend
    <2>1. /\ mem' = mem /\ vpc = "walk"
          /\ vpc' = "walk" \/ (vpc' = "done" /\ apc # "check" /\ old = NoPage)
      BY <1>8, BaseDescend
    <2>2. Good  BY <1>4, <2>1
    <2> QED  BY <1>1, <2>2, ContentsWalk
  <1>9. CASE UNCHANGED <<bitmap, free_pages>> /\ AllocateTableFails
    <2>1. /\ mem' = mem /\ vpc' = "done" /\ apc = "check"
          /\ ~Has1(mem, PageOf(Target)) /\ old = NoPage
      BY <1>9, BaseAllocateFails
    <2>2. Good  BY <2>1
    <2> QED  BY <1>1, <2>2, ContentsWalk
  <1>10. CASE UNCHANGED <<bitmap, free_pages>> /\ (ZeroPage \/ LinkTable)
    <2>1. /\ vpc \in {"zero", "link"} /\ vpc' \in {"link", "walk"}
          /\ \A s \in Slots : Seen(mem', PageOf(s)) = Seen(mem, PageOf(s))
      BY <1>10, BaseZero, BaseLink
    <2>2. Good  BY <1>2, <1>4, <1>5, <2>1
    <2> QED  BY <1>1, <2>2, ContentsWalk
  <1>11. CASE UNCHANGED <<bitmap, free_pages>> /\ WriteEntry
    <2>1. /\ vpc = "walk" /\ vpc' = "flush" /\ cpa' = cpa /\ Same
          /\ apc = "check" => new = cpa \div PMM_PAGE_SIZE
          /\ apc # "check" => new = NoPage
      BY <1>11, BaseWrite
    <2>2. Good  BY <2>1
    <2> QED  BY <1>1, <2>2, ContentsWalk
  <1>12. CASE UNCHANGED <<bitmap, free_pages>> /\ Flush
    <2>1. mem' = mem /\ vpc = "flush" /\ vpc' = "done"  BY <1>12, BaseFlush
    <2>2. Good  BY <1>4, <1>6, <2>1
    <2> QED  BY <1>1, <2>2, ContentsWalk
  <1> QED  BY <1>7, <1>8, <1>9, <1>10, <1>11, <1>12 DEF VmmStep

(* The loops enter map_page and unmap_page.                                 *)
LEMMA ContentsInstall ==
  ASSUME BaseInv, ContentsInv, LiveInv, InstallPage
  PROVE  /\ ContentsInv' /\ LiveInv'
         /\ \A m \in live, r \in Records, s \in Slots : WindowMap(m, r, s)' <=> WindowMap(m, r, s)
  <1>1. /\ UNCHANGED <<mem, map_slots, mappings, call, index, live>>
        /\ apc = "install" /\ apc' = "check" /\ index < call.count
        /\ \/ vpc' = "walk"
           \/ vpc' = "done" /\ PhysicalPage(index) >= PHYS_LIMIT
    BY BaseInstall
  <1>2. paging_enabled' = paging_enabled  BY <1>1, BaseInstall DEF BaseInv, FramesInv
  <1>3. PhysicalPage(index)' = PhysicalPage(index)  BY <1>1 DEF PhysicalPage
  <1>4. Clear(call.start + index)  BY <1>1 DEF ContentsInv, CurrentPage
  <1>5. FreeClear' /\ DoneInstalled' /\ RestClear' /\ UnmapClear'
    BY <1>1, <1>2 DEF ContentsInv, FreeClear, DoneInstalled, RestClear, UnmapClear, Clear,
                      Installed, Mapping
  <1>6. CurrentPage'  BY <1>1, <1>3, <1>4 DEF CurrentPage, Clear
  <1>7. Mapping  BY <1>1 DEF Mapping
  <1> QED  BY <1>1, <1>5, <1>6, <1>7, LiveApart DEF ContentsInv, BaseInv

LEMMA ContentsUnmapCall ==
  ASSUME BaseInv, ContentsInv, LiveInv, RollbackPage \/ UnmapPage
  PROVE  /\ ContentsInv' /\ LiveInv'
         /\ \A m \in live, r \in Records, s \in Slots : WindowMap(m, r, s)' <=> WindowMap(m, r, s)
  <1>1. /\ UNCHANGED <<mem, map_slots, mappings, call, live, apc>>
        /\ vpc = "done" /\ vpc' = "walk"
        /\ \/ apc = "rollback" /\ index > 0 /\ index' = index - 1
           \/ apc = "unmap" /\ index < call.count /\ index' = index + 1
    BY BaseUnmapCall
  <1>2. paging_enabled' = paging_enabled  BY <1>1, BaseUnmapCall DEF BaseInv, FramesInv
  <1>3. Mapping \/ apc = "unmap"  BY <1>1 DEF Mapping
  <1>4. call.start \in Nat /\ call.count \in Nat /\ index \in Nat
    BY <1>3, CallSlots DEF BaseInv
  <1>5. FreeClear' /\ DoneInstalled' /\ CurrentPage'
    BY <1>1, <1>2 DEF ContentsInv, FreeClear, DoneInstalled, CurrentPage, Clear
  <1>6. RestClear'
    <2> SUFFICES ASSUME apc = "rollback", NEW i \in index' + 1 .. call.count - 1
                 PROVE  Clear(call.start + i)
      BY <1>1 DEF RestClear, Mapping, Clear
    <2>1. Clear(call.start + index)  BY <1>1 DEF ContentsInv, CurrentPage
    <2>2. i = index \/ i \in index + 1 .. call.count - 1  BY <1>1, <1>4
    <2> QED  BY <2>1, <2>2 DEF ContentsInv, RestClear, Mapping
  <1>7. UnmapClear'
    <2> SUFFICES ASSUME apc = "unmap", NEW i \in 0 .. index' - 2
                 PROVE  Clear(call.start + i)
      BY <1>1 DEF UnmapClear, Clear
    <2>1. i \in Nat /\ i <= index - 1  BY <1>1, <1>4
    <2>2. CASE i = index - 1
      <3>1. index > 0  BY <1>4, <2>1, <2>2
      <3> QED  BY <1>1, <2>2, <3>1 DEF ContentsInv, UnmapClear
    <2>3. CASE i # index - 1
      <3>1. i \in 0 .. index - 2  BY <1>4, <2>1, <2>3
      <3> QED  BY <3>1 DEF ContentsInv, UnmapClear
    <2> QED  BY <2>2, <2>3
  <1>8. apc' # "boot"  BY <1>1
  <1> QED  BY <1>1, <1>3, <1>5, <1>6, <1>7, <1>8, LiveApart DEF ContentsInv, BaseInv

(* What mapping_was_installed looks at.                                     *)
LEMMA InstalledIs ==
  ASSUME BaseInv, paging_enabled, NEW s \in Slots, NEW pa
  PROVE  mapping_was_installed(SlotAddress(s), pa) <=>
           Has1(mem, PageOf(s)) /\ E1(mem, PageOf(s)).page = pa \div PMM_PAGE_SIZE
  <1> DEFINE v == PageOf(s)
             pdpt == entry_table(mem[PML4][IndexOf(v, 4)])
             pd == IF pdpt = NULL THEN NULL ELSE entry_table(mem[pdpt][IndexOf(v, 3)])
             pt == IF pd = NULL THEN NULL ELSE entry_table(mem[pd][IndexOf(v, 2)])
  <1>1. 0 \in 0 .. PMM_PAGE_SIZE - 1  BY SizeFacts
  <1>2. Vpn(SlotAddress(s)) = v /\ canonical_address(SlotAddress(s))  BY <1>1, SlotFacts
  <1>3. PICK lv : TreeOK(lv, mem, Taken)  BY DEF BaseInv, TreeInv
  <1>4. High(v)  BY WindowHigh
  <1>5. /\ Has1(mem, v) => pt = E2(mem, v).page /\ pt # NULL
        /\ ~Has1(mem, v) => pt = NULL
    BY <1>3, <1>4, PageTableOf
  <1>6. get_page_table(SlotAddress(s)) = pt
    BY <1>2 DEF get_page_table
  <1>7. mapping_was_installed(SlotAddress(s), pa) <=>
          pt # NULL /\ mem[pt][IndexOf(v, 1)].page = pa \div PMM_PAGE_SIZE
    BY <1>2, <1>6 DEF mapping_was_installed
  <1> HIDE DEF pt
  <1> QED  BY <1>5, <1>7 DEF E1

(* Pages that are installed one after the other do not wrap: the physical   *)
(* addresses end a page before the top of the range.                        *)
LEMMA NoWrap ==
  ASSUME CallInv, DoneInstalled, apc = "check", PhysicalPage(index) < PHYS_LIMIT
  PROVE  PhysicalPage(index) = Plain(call.pa, index)
  <1>1. call.pa \in Nat /\ index \in Nat  BY DEF CallInv, CallType
  <1>2. PhysicalPage(index) = Plain(call.pa, index) % WORD  BY DEF PhysicalPage, Plain
  <1>3. /\ Plain(call.pa, index) \in Nat
        /\ Plain(call.pa, index) < WORD => Plain(call.pa, index) % WORD = Plain(call.pa, index)
    BY <1>1, PlainFacts, Zenon
  <1>4. Plain(call.pa, index) < WORD
    <2>1. CASE index = 0
      <3>1. <<call.pa, call.len, call.back>> \in Requests  BY DEF CallInv, Mapping
      <3>2. call.pa < WORD  BY <3>1, RequestFacts
      <3>3. Offset(call.pa) \in 0 .. PMM_PAGE_SIZE - 1  BY <1>1, PlainFacts, Zenon
      <3>4. Plain(call.pa, 0) = call.pa - Offset(call.pa)
        <4>1. 0 * PMM_PAGE_SIZE = 0  BY SizeFacts
        <4> QED  BY <1>1, <3>3, <4>1, SizeFacts DEF Plain
      <3> QED  BY <1>1, <2>1, <3>2, <3>3, <3>4, SizeFacts
    <2>2. CASE index # 0
      <3>1. index - 1 \in 0 .. index - 1 /\ index - 1 \in Nat  BY <1>1, <2>2
      <3>2. Plain(call.pa, index - 1) < PHYS_LIMIT
        BY <3>1 DEF DoneInstalled, Installed
      <3>3. index * PMM_PAGE_SIZE = (index - 1) * PMM_PAGE_SIZE + PMM_PAGE_SIZE
        BY <1>1, SizeFacts
      <3>4. /\ Offset(call.pa) \in 0 .. PMM_PAGE_SIZE - 1
            /\ Plain(call.pa, index - 1) \in Nat
        BY <1>1, <3>1, PlainFacts, Zenon
      <3>5. (index - 1) * PMM_PAGE_SIZE \in Nat /\ Offset(call.pa) \in Nat
        BY <3>1, <3>4, SizeFacts
      <3>6. Plain(call.pa, index) = Plain(call.pa, index - 1) + PMM_PAGE_SIZE
        BY <1>1, <3>3, <3>5, SizeFacts DEF Plain
      <3> QED  BY <3>2, <3>4, <3>6, SizeFacts, VmmAssumption
    <2> QED  BY <2>1, <2>2
  <1> QED  BY <1>2, <1>3, <1>4

(* CheckPage takes the page for installed exactly if it is, and then it is  *)
(* the right one.                                                           *)
LEMMA ContentsCheck ==
  ASSUME BaseInv, ContentsInv, LiveInv, CheckPage
  PROVE  /\ ContentsInv' /\ LiveInv'
         /\ \A m \in live, r \in Records, s \in Slots : WindowMap(m, r, s)' <=> WindowMap(m, r, s)
  <1> DEFINE s0 == call.start + index
             phys == PhysicalPage(index)
             page == PhysicalPage(index) \div PMM_PAGE_SIZE
             v == PageOf(s0)
             ok == mapping_was_installed(VirtualPage(index), PhysicalPage(index))
  <1>1. /\ apc = "check" /\ vpc = "done"
        /\ ok => index' = index + 1 /\ apc' = "install"
        /\ ~ok => index' = index /\ apc' = "rollback"
        /\ UNCHANGED <<mem, vpc, paging_enabled, map_slots, mappings, call, live>>
    BY DEF CheckPage, vmmVars
  <1>2. Mapping /\ paging_enabled  BY <1>1 DEF Mapping, BaseInv, FramesInv
  <1>3. call.start \in Nat /\ call.count \in Nat /\ index \in Nat /\ index < call.count
    BY <1>1, <1>2, CallSlots DEF BaseInv, CallInv
  <1>4. s0 \in Slots
    <2>1. index \in 0 .. call.count - 1  BY <1>3
    <2> QED  BY <1>2, <2>1, CallSlots DEF BaseInv
  <1>5. ok <=> Has1(mem, v) /\ E1(mem, v).page = page
    <2>1. VirtualPage(index) = SlotAddress(s0)  BY DEF VirtualPage
    <2> HIDE DEF s0
    <2> QED  BY <1>2, <1>4, <2>1, InstalledIs
  <1>6. phys \in Nat /\ phys % PMM_PAGE_SIZE = 0 /\ page \in Nat
    <2>1. call.pa \in Nat /\ index \in Nat  BY DEF BaseInv, CallInv, CallType
    <2>2. PhysicalPage(index) = Plain(call.pa, index) % WORD  BY DEF PhysicalPage, Plain
    <2>3. /\ Plain(call.pa, index) % WORD \in Nat
          /\ (Plain(call.pa, index) % WORD) % PMM_PAGE_SIZE = 0
      BY <2>1, PlainFacts, Zenon
    <2>4. phys \in Nat /\ phys % PMM_PAGE_SIZE = 0  BY <2>2, <2>3, Zenon
    <2> HIDE DEF phys
    <2>5. phys \div PMM_PAGE_SIZE \in Nat  BY <2>4, SizeFacts, DivideBy
    <2> QED  BY <2>4, <2>5 DEF phys
  <1>7. \/ phys < PHYS_LIMIT /\ Seen(mem, v) = page
        \/ Clear(s0) /\ (~Has1(mem, v) \/ phys >= PHYS_LIMIT)
    BY <1>1 DEF ContentsInv, CurrentPage
  <1>8. phys >= PHYS_LIMIT => page # 0
    <2> HIDE DEF phys
    <2>1. phys >= PHYS_LIMIT => phys \div PMM_PAGE_SIZE # 0
      <3>1. phys = (phys \div PMM_PAGE_SIZE) * PMM_PAGE_SIZE + 0
        BY <1>6, SizeFacts, DivideBy
      <3>2. phys \div PMM_PAGE_SIZE = 0 => phys = 0  BY <1>6, <3>1, SizeFacts
      <3> QED  BY <1>6, <3>2, VmmAssumption
    <2> QED  BY <2>1 DEF phys
  <1>9. Has1(mem, v) /\ ~E1(mem, v).present => E1(mem, v).page = 0
    <2>1. PICK lv : TreeOK(lv, mem, Taken)  BY <1>2 DEF BaseInv, TreeInv
    <2>2. High(v)  BY <1>4, WindowHigh
    <2>3. Has1(mem, v) => E2(mem, v).page \in Low /\ lv[E2(mem, v).page] = 1
      BY <2>1, <2>2, WalkFacts
    <2>4. IndexOf(v, 1) \in Index  BY <2>2 DEF High
    <2>5. \A f \in Low, i \in Index : lv[f] = 1 /\ ~mem[f][i].present => mem[f][i].page = 0
      BY <2>1 DEF TreeOK, EntriesOK
    <2> HIDE DEF v
    <2> QED  BY <2>3, <2>4, <2>5 DEF E1
  <1>10. /\ ok => phys < PHYS_LIMIT /\ Seen(mem, v) = page
         /\ ~ok => Clear(s0)
    <2>1. NoPage \notin Nat  BY DEF NoPage
    <2>2. Clear(s0) => ~Has1(mem, v) \/ ~E1(mem, v).present \/ E1(mem, v).page = NoPage
      BY DEF Clear, Seen
    <2>3. ~ok => Seen(mem, v) # page  BY <1>5, <1>6, <2>1 DEF Seen
    <2>4. ok /\ Clear(s0) => ~E1(mem, v).present  BY <1>5, <1>6, <2>1, <2>2
    <2> QED  BY <1>5, <1>7, <1>8, <1>9, <2>3, <2>4
  <1>11. ok => Installed(s0, call.pa, index)
    <2>1. ok => phys = Plain(call.pa, index)
      BY <1>1, <1>10, NoWrap DEF BaseInv, ContentsInv
    <2> QED  BY <1>10, <2>1 DEF Installed
  <1>12. FreeClear'  BY <1>1 DEF ContentsInv, FreeClear, Clear
  <1>13. DoneInstalled'
    <2> SUFFICES ASSUME ok, NEW i \in 0 .. index' - 1
                 PROVE  Installed(call.start + i, call.pa, i)
      BY <1>1 DEF DoneInstalled, Installed
    <2>1. i = index \/ i \in 0 .. index - 1  BY <1>1, <1>3
    <2> QED  BY <1>1, <1>11, <2>1 DEF ContentsInv, DoneInstalled
  <1>14. RestClear'
    <2> SUFFICES ASSUME NEW i \in index' + 1 .. call.count - 1  PROVE Clear(call.start + i)
      BY <1>1 DEF RestClear, Clear
    <2>1. i \in index + 1 .. call.count - 1  BY <1>1, <1>3
    <2> QED  BY <1>2, <2>1 DEF ContentsInv, RestClear
  <1>15. CurrentPage'
    <2>1. CASE ok
      <3>1. index + 1 < call.count => Clear(call.start + (index + 1))
        <4>1. index + 1 < call.count => index + 1 \in index + 1 .. call.count - 1  BY <1>3
        <4> QED  BY <1>2, <4>1 DEF ContentsInv, RestClear
      <3> QED  BY <1>1, <2>1, <3>1 DEF CurrentPage, Clear
    <2>2. CASE ~ok  BY <1>1, <1>10, <2>2 DEF CurrentPage, Clear
    <2> QED  BY <2>1, <2>2
  <1>16. UnmapClear'  BY <1>1 DEF UnmapClear
  <1>17. apc' # "boot" /\ (apc' = "unmap" <=> apc = "unmap")  BY <1>1
  <1> QED
    BY <1>1, <1>2, <1>12, <1>13, <1>14, <1>15, <1>16, <1>17, LiveApart DEF ContentsInv, BaseInv

(* The steps that touch neither tables nor records, outside of an unmap.    *)
LEMMA LiveCalls ==
  ASSUME SlotsInv, LiveInv, UNCHANGED <<mem, mappings>>, live' \subseteq live,
         apc # "unmap", apc' # "unmap", apc' # "boot"
  PROVE  /\ LiveInv'
         /\ \A m \in live', r \in Records, s \in Slots : WindowMap(m, r, s)' <=> WindowMap(m, r, s)
  <1>1. ASSUME NEW m \in live', NEW r \in Records, NEW s \in Slots
        PROVE  WindowMap(m, r, s)' <=> WindowMap(m, r, s)
    <2>1. m \in Mapped  BY DEF LiveInv
    <2>2. mappings'[r] = mappings[r]
          /\ \A t \in RunOf(mappings[r]) : Seen(mem', PageOf(t)) = Seen(mem, PageOf(t))
      OBVIOUS
    <2> QED  BY <2>1, <2>2, WindowSame
  <1> QED  BY <1>1, LiveSame

(* uACPI gets one mapping more.                                             *)
LEMMA LiveGrows ==
  ASSUME LiveInv, apc' # "boot", NEW n \in Mapped, live' = live \cup {n},
         <<n.pa, n.len, n.back>> \in Requests, n.len # 0,
         IdentityMap(n) \/ \E r \in Records, s \in Slots : WindowMap(n, r, s)',
         \A m \in live, r \in Records, s \in Slots : WindowMap(m, r, s)' <=> WindowMap(m, r, s),
         \A m \in live, r \in Records, s, t \in Slots :
           ~(WindowMap(m, r, s)' /\ WindowMap(n, r, t)')
  PROVE  LiveInv'
  <1>1. live' \subseteq Mapped  BY DEF LiveInv
  <1>2. \A m \in live' : <<m.pa, m.len, m.back>> \in Requests /\ m.len # 0
    BY DEF LiveInv
  <1>3. \A m \in live' : IdentityMap(m) \/ \E r \in Records, s \in Slots : WindowMap(m, r, s)'
    BY DEF LiveInv
  <1>4. ASSUME NEW m \in live', NEW o \in live', NEW r \in Records,
               NEW s \in Slots, NEW t \in Slots, WindowMap(m, r, s)', WindowMap(o, r, t)'
        PROVE  m = o
    <2>1. CASE m \in live /\ o \in live
      <3>1. WindowMap(m, r, s) /\ WindowMap(o, r, t)  BY <1>4, <2>1
      <3> QED  BY <2>1, <3>1 DEF LiveInv
    <2>2. CASE m \in live /\ o = n  BY <1>4, <2>2
    <2>3. CASE m = n /\ o \in live  BY <1>4, <2>3
    <2> QED  BY <2>1, <2>2, <2>3
  <1> QED  BY <1>1, <1>2, <1>3, <1>4 DEF LiveInv, IdentityMap

(* A mapping inside the identity map is not one of the window.              *)
LEMMA NotBoth ==
  ASSUME SlotsInv, NEW m \in Mapped, m.len # 0, IdentityMap(m), NEW r \in Records, NEW s \in Slots
  PROVE  ~WindowMap(m, r, s)
  <1>1. m.va \in Nat /\ m.pa \in Nat /\ m.len \in Nat  BY DEF Mapped
  <1>2. m.va < ACPI_IDENTITY_MAP_LIMIT  BY <1>1, IdentityBelow DEF IdentityMap
  <1>3. WindowMap(m, r, s) => m.va >= ACPI_MAP_WINDOW_BASE  BY WindowAddress
  <1> QED  BY <1>1, <1>2, <1>3, IdentityBelow, SizeFacts

(* The record and the slots are reserved.                                   *)
LEMMA ContentsBegin ==
  ASSUME BaseInv, ContentsInv, LiveInv, NEW q \in Requests, NEW r \in Records, NEW s \in Slots,
         MapBegin(q[1], q[2], q[3], r, s)
  PROVE  /\ ContentsInv' /\ LiveInv' /\ live' = live /\ mappings' = mappings
         /\ apc # "unmap" /\ apc' # "unmap"
         /\ \A m \in live, p \in Records, t \in Slots : WindowMap(m, p, t)' <=> WindowMap(m, p, t)
  <1> DEFINE c == PageCount(q[1], q[2])
  <1>1. /\ apc = "idle" /\ FirstFit(s, c)
        /\ map_slots' = map_slots \cup SlotRange(s, c)
        /\ call'.start = s /\ call'.count = c
        /\ index' = 0 /\ apc' = "install"
        /\ UNCHANGED <<mem, vpc, paging_enabled, mappings, live>>
    BY DEF MapBegin, reserve_slots, vmmVars
  <1>2. paging_enabled  BY <1>1 DEF BaseInv, FramesInv
  <1>3. InWindow(s, c)
    <2>1. InWindow(call'.start, call'.count)
      BY <1>1, MapBeginSlots DEF BaseInv, CallInv, Mapping
    <2> QED  BY <1>1, <2>1
  <1>4. \A i \in 0 .. c - 1 : s + i \notin map_slots  BY <1>1 DEF FirstFit, Fits
  <1>5. \A i \in 0 .. c - 1 : s + i \in Slots
    BY <1>3, SizeFacts DEF InWindow, Slots
  <1>6. \A i \in 0 .. c - 1 : Clear(s + i)  BY <1>2, <1>4, <1>5 DEF ContentsInv, FreeClear
  <1>7. c \in Nat /\ c > 0  BY <1>3, SizeFacts DEF InWindow
  <1> HIDE DEF c
  <1>8. FreeClear' /\ DoneInstalled' /\ UnmapClear'
    BY <1>1 DEF ContentsInv, FreeClear, DoneInstalled, UnmapClear, Clear
  <1>9. RestClear'
    <2> SUFFICES ASSUME NEW i \in 0 + 1 .. c - 1  PROVE Clear(s + i)
      BY <1>1 DEF RestClear, Clear
    <2>1. i \in 0 .. c - 1  BY <1>7
    <2> QED  BY <1>6, <2>1
  <1>10. CurrentPage'
    <2>1. Clear(s + 0)
      <3>1. 0 \in 0 .. c - 1  BY <1>7
      <3> QED  BY <1>6, <3>1
    <2> QED  BY <1>1, <2>1 DEF CurrentPage, Clear
  <1>11. apc # "unmap" /\ apc' # "unmap" /\ apc' # "boot" /\ live' \subseteq live  BY <1>1
  <1> QED  BY <1>1, <1>8, <1>9, <1>10, <1>11, LiveCalls DEF ContentsInv, BaseInv

(* The roll-back has cleared every page when it releases the slots.         *)
LEMMA ContentsRollbackDone ==
  ASSUME BaseInv, ContentsInv, LiveInv, RollbackDone
  PROVE  /\ ContentsInv' /\ LiveInv' /\ live' = live /\ mappings' = mappings
         /\ apc # "unmap" /\ apc' # "unmap"
         /\ \A m \in live, p \in Records, t \in Slots : WindowMap(m, p, t)' <=> WindowMap(m, p, t)
  <1>1. /\ apc = "rollback" /\ index = 0 /\ vpc = "done" /\ apc' = "idle"
        /\ release_slots(call.start, call.count)
        /\ UNCHANGED <<mem, vpc, paging_enabled, mappings, live>>
    BY DEF RollbackDone, vmmVars
  <1>2. Mapping  BY <1>1 DEF Mapping
  <1>3. call.start \in Nat /\ call.count \in Nat  BY <1>2, CallSlots DEF BaseInv
  <1>4. \A t : t \notin map_slots' => t \notin map_slots \/ t \in SlotRange(call.start, call.count)
    BY <1>1 DEF release_slots
  <1>5. ASSUME NEW t \in SlotRange(call.start, call.count)  PROVE Clear(t)
    <2>1. t \in Nat /\ t >= call.start /\ t - call.start <= call.count - 1
      BY <1>3 DEF SlotRange
    <2>2. CASE t = call.start
      <3>1. call.start + index = t  BY <1>1, <1>3, <2>2
      <3> QED  BY <1>1, <3>1 DEF ContentsInv, CurrentPage
    <2>3. CASE t # call.start
      <3>1. t - call.start \in index + 1 .. call.count - 1 /\ call.start + (t - call.start) = t
        BY <1>1, <1>3, <2>1, <2>3
      <3>2. Clear(call.start + (t - call.start))
        BY <1>2, <3>1 DEF ContentsInv, RestClear
      <3> QED  BY <3>1, <3>2
    <2> QED  BY <2>2, <2>3
  <1>6. FreeClear'  BY <1>1, <1>4, <1>5 DEF ContentsInv, FreeClear, Clear
  <1>7. DoneInstalled' /\ RestClear' /\ CurrentPage' /\ UnmapClear'
    BY <1>1 DEF DoneInstalled, RestClear, CurrentPage, UnmapClear, Mapping
  <1>8. apc # "unmap" /\ apc' # "unmap" /\ apc' # "boot" /\ live' \subseteq live  BY <1>1
  <1> QED  BY <1>1, <1>6, <1>7, <1>8, LiveCalls DEF ContentsInv, BaseInv

(* So has the unmap, and its record is cleared.                             *)
LEMMA ContentsUnmapDone ==
  ASSUME BaseInv, ContentsInv, LiveInv, UnmapDone
  PROVE  /\ ContentsInv' /\ LiveInv' /\ live' = live
         /\ apc = "unmap" /\ apc' # "unmap" /\ mappings'[call.record] = NoRecord
         /\ \A p \in Records : p # call.record => mappings'[p] = mappings[p]
         /\ \A m \in live, p \in Records, t \in Slots : WindowMap(m, p, t)' <=> WindowMap(m, p, t)
  <1> DEFINE r == call.record
  <1>1. /\ apc = "unmap" /\ index = call.count /\ vpc = "done" /\ apc' = "idle"
        /\ release_slots(call.start, call.count)
        /\ mappings' = [mappings EXCEPT ![r] = NoRecord]
        /\ UNCHANGED <<mem, vpc, paging_enabled, live>>
    BY DEF UnmapDone, vmmVars
  <1>2. call.start \in Nat /\ call.count \in Nat /\ r \in Records /\ index \in Nat
    BY <1>1, CallSlots DEF BaseInv
  <1>3. \A t : t \notin map_slots' => t \notin map_slots \/ t \in SlotRange(call.start, call.count)
    BY <1>1 DEF release_slots
  <1>4. ASSUME NEW t \in SlotRange(call.start, call.count)  PROVE Clear(t)
    <2> DEFINE i == t - call.start
    <2>1. i \in Nat /\ call.start + i = t /\ i <= index - 1
      BY <1>1, <1>2 DEF SlotRange
    <2>2. CASE i = index - 1
      <3>1. index > 0  BY <1>2, <2>1
      <3>2. Clear(call.start + (index - 1))  BY <1>1, <3>1 DEF ContentsInv, UnmapClear
      <3> QED  BY <2>1, <2>2, <3>2
    <2>3. CASE i # index - 1
      <3>1. i \in 0 .. index - 2  BY <1>2, <2>1, <2>3
      <3>2. Clear(call.start + i)  BY <1>1, <3>1 DEF ContentsInv, UnmapClear
      <3> QED  BY <2>1, <3>2
    <2> QED  BY <2>2, <2>3
  <1>5. FreeClear'  BY <1>1, <1>3, <1>4 DEF ContentsInv, FreeClear, Clear
  <1>6. DoneInstalled' /\ RestClear' /\ CurrentPage' /\ UnmapClear'
    BY <1>1 DEF DoneInstalled, RestClear, CurrentPage, UnmapClear, Mapping
  <1>7. /\ DOMAIN mappings = Records /\ mappings'[r] = NoRecord
        /\ \A p \in Records : p # r => mappings'[p] = mappings[p]
    BY <1>1, <1>2 DEF BaseInv, SlotsInv
  <1>8. \A c, s : s \in Slots => NoRecord # RecordFor(s, c)
    <2>1. RecordOK(NoRecord)  BY DEF RecordOK
    <2> QED  BY <2>1, RunSlots
  <1>9. ASSUME NEW m \in live, NEW p \in Records, NEW t \in Slots
        PROVE  WindowMap(m, p, t)' <=> WindowMap(m, p, t)
    <2>1. CASE p = r
      <3>1. ~WindowMap(m, p, t)  BY <1>1, <2>1 DEF WindowMap
      <3>2. ~WindowMap(m, p, t)'  BY <1>7, <1>8, <2>1 DEF WindowMap
      <3> QED  BY <3>1, <3>2
    <2>2. CASE p # r
      <3>1. m \in Mapped /\ mappings'[p] = mappings[p]  BY <1>7, <2>2 DEF LiveInv
      <3>2. \A u \in RunOf(mappings[p]) : Seen(mem', PageOf(u)) = Seen(mem, PageOf(u))
        BY <1>1
      <3>3. ~(apc' = "unmap" /\ p = call'.record) /\ ~(apc = "unmap" /\ p = call.record)
        BY <1>1, <2>2
      <3> QED  BY <3>1, <3>2, <3>3, WindowSame DEF BaseInv
    <2> QED  BY <2>1, <2>2
  <1>10. live' \subseteq live /\ apc' # "boot" /\ apc' # "unmap"  BY <1>1
  <1>11. LiveInv'  BY <1>9, <1>10, LiveSame
  <1> QED  BY <1>1, <1>5, <1>6, <1>7, <1>9, <1>11 DEF ContentsInv

(* The mapping that is given back has the record the unmap has found, and   *)
(* no other mapping has it.                                                 *)
LEMMA ContentsUnmapBegin ==
  ASSUME BaseInv, ContentsInv, LiveInv, NEW m \in live, NEW r \in Records, UnmapBegin(m, r)
  PROVE  /\ ContentsInv' /\ LiveInv' /\ live' = live \ {m} /\ mappings' = mappings
         /\ apc # "unmap" /\ apc' = "unmap" /\ call'.record = r
         /\ \A p \in Records, t \in Slots : WindowMap(m, p, t) => p = r
         /\ \A n \in live', p \in Records, t \in Slots : WindowMap(n, p, t)' <=> WindowMap(n, p, t)
  <1>1. /\ apc = "idle" /\ ~UnmapOutside(m.va, m.back) /\ live' = live \ {m}
        /\ index' = 0 /\ apc' = "unmap" /\ call'.record = r
        /\ UNCHANGED <<mem, vpc, paging_enabled, map_slots, mappings>>
    BY DEF UnmapBegin, vmmVars, NoCall
  <1>2. PICK s \in Slots : /\ m.va - Offset(m.va) = SlotAddress(s)
                           /\ mappings[r] = RecordFor(s, PageCount(m.va, m.back))
    BY UnmapBeginSlots DEF BaseInv
  <1>3. m \in Mapped /\ m.len # 0  BY DEF LiveInv
  <1>4. ASSUME NEW p \in Records, NEW t \in Slots, WindowMap(m, p, t)  PROVE p = r
    <2>1. m.va - Offset(m.va) = SlotAddress(t) /\ t \in RunOf(mappings[p])
      BY <1>3, <1>4, WindowAddress DEF BaseInv
    <2>2. s = t
      <3>1. 0 \in 0 .. PMM_PAGE_SIZE - 1  BY SizeFacts
      <3>2. SlotAddress(s) + 0 = SlotAddress(t) + 0  BY <1>2, <2>1
      <3> QED  BY <3>1, <3>2, SameSlot
    <2>3. RecordOK(mappings[r])  BY DEF BaseInv, SlotsInv
    <2>4. s \in RunOf(mappings[r])  BY <1>2, <2>3, RunSlots
    <2> QED  BY <2>1, <2>2, <2>4 DEF BaseInv, SlotsInv
  <1>5. ~IdentityMap(m)
    <2>1. ~(m.va - Offset(m.va) < ACPI_MAP_WINDOW_BASE)  BY <1>1 DEF UnmapOutside
    <2>2. m.va \in Nat /\ m.pa \in Nat /\ m.len \in Nat  BY <1>3 DEF Mapped
    <2>3. Offset(m.va) \in 0 .. PMM_PAGE_SIZE - 1
      <3>1. 0 \in Nat  OBVIOUS
      <3> QED  BY <2>2, <3>1, PlainFacts, Zenon
    <2>4. m.va >= ACPI_MAP_WINDOW_BASE  BY <2>1, <2>2, <2>3, SizeFacts
    <2>5. ACPI_MAP_WINDOW_BASE \in Nat  BY SizeFacts
    <2> QED  BY <1>3, <2>2, <2>4, <2>5, IdentityBelow DEF IdentityMap
  <1>6. PICK t \in Slots : WindowMap(m, r, t)  BY <1>4, <1>5 DEF LiveInv
  <1>7. ASSUME NEW n \in live', NEW p \in Records, NEW u \in Slots
        PROVE  WindowMap(n, p, u)' <=> WindowMap(n, p, u)
    <2>1. n \in live /\ n # m /\ n \in Mapped  BY <1>1 DEF LiveInv
    <2>2. CASE p = r
      <3>1. ~WindowMap(n, p, u)  BY <1>6, <2>1, <2>2 DEF LiveInv
      <3>2. ~WindowMap(n, p, u)'  BY <1>1, <2>2 DEF WindowMap
      <3> QED  BY <3>1, <3>2
    <2>3. CASE p # r
      <3>1. mappings'[p] = mappings[p]
            /\ \A x \in RunOf(mappings[p]) : Seen(mem', PageOf(x)) = Seen(mem, PageOf(x))
        BY <1>1
      <3>2. ~(apc' = "unmap" /\ p = call'.record) /\ ~(apc = "unmap" /\ p = call.record)
        BY <1>1, <2>3
      <3> QED  BY <2>1, <3>1, <3>2, WindowSame DEF BaseInv
    <2> QED  BY <2>2, <2>3
  <1>8. live' \subseteq live /\ apc' # "boot"  BY <1>1
  <1>9. LiveInv'  BY <1>7, <1>8, LiveSame
  <1>10. FreeClear' /\ DoneInstalled' /\ RestClear' /\ CurrentPage'
    BY <1>1 DEF ContentsInv, FreeClear, DoneInstalled, RestClear, CurrentPage, Mapping, Clear
  <1>11. UnmapClear'
    <2>1. \A i : i \notin 0 .. 0 - 2  OBVIOUS
    <2> QED  BY <1>1, <2>1 DEF UnmapClear
  <1> QED  BY <1>1, <1>4, <1>7, <1>9, <1>10, <1>11 DEF ContentsInv

(* The mapping that uacpi_kernel_map returns is complete, and its record is *)
(* no other's.                                                              *)
LEMMA ContentsReturn ==
  ASSUME BaseInv, ContentsInv, LiveInv, MapReturn
  PROVE  /\ ContentsInv' /\ LiveInv' /\ live \subseteq live'
         /\ apc # "unmap" /\ apc' # "unmap"
         /\ \A p \in Records : p # call.record => mappings'[p] = mappings[p]
         /\ \E n \in live', p \in Records, s \in Slots : p = call.record /\ WindowMap(n, p, s)'
         /\ \A m \in live, p \in Records, t \in Slots : WindowMap(m, p, t)' <=> WindowMap(m, p, t)
  <1>0. PICK r, s, n : /\ r = call.record /\ s = call.start
                       /\ n = [va |-> SlotAddress(call.start) + Offset(call.pa),
                               pa |-> call.pa, len |-> call.len, back |-> call.back]
    OBVIOUS
  <1> DEFINE c == PageCount(n.pa, n.len)
  <1>1. /\ apc = "install" /\ index = call.count /\ apc' = "idle"
        /\ mappings' = [mappings EXCEPT ![r] = RecordFor(s, call.count)]
        /\ live' = live \cup {n}
        /\ UNCHANGED <<mem, vpc, paging_enabled, map_slots>>
    BY <1>0 DEF MapReturn, vmmVars, RecordFor
  <1>2. Mapping  BY <1>1 DEF Mapping
  <1>3. /\ r \in Records /\ mappings[r] = NoRecord /\ call.count = c /\ InWindow(s, c)
        /\ <<call.pa, call.len, call.back>> \in Requests /\ call.len # 0
    BY <1>0, <1>2 DEF BaseInv, CallInv, WindowRequest
  <1>4. call.pa \in Nat /\ call.len \in Nat /\ call.back \in Nat
    BY DEF BaseInv, CallInv, CallType
  <1>5. s \in Slots /\ c \in Nat  BY <1>3, SizeFacts DEF InWindow
  <1>6. Offset(call.pa) \in 0 .. PMM_PAGE_SIZE - 1
    <2>1. 0 \in Nat  OBVIOUS
    <2> QED  BY <1>4, <2>1, PlainFacts, Zenon
  <1>7. n \in Mapped
    <2>1. SlotAddress(s) \in Nat  BY <1>5, <1>6, SlotFacts
    <2>2. SlotAddress(s) + Offset(call.pa) \in Nat  BY <1>6, <2>1, SizeFacts
    <2> QED  BY <1>0, <1>4, <2>2 DEF Mapped
  <1>8. /\ n.va = SlotAddress(s) + Offset(call.pa) /\ n.pa = call.pa /\ n.len = call.len
        /\ n.back = call.back
    BY <1>0
  <1>9. /\ DOMAIN mappings = Records /\ mappings'[r] = RecordFor(s, c)
        /\ \A p \in Records : p # r => mappings'[p] = mappings[p]
    BY <1>1, <1>3 DEF BaseInv, SlotsInv
  <1>10. CallRun = SlotRange(s, c) /\ s \in CallRun
    BY <1>0, <1>1, <1>3, RunFacts DEF CallRun
  <1>11. WindowMap(n, r, s)'
    <2>1. \A i \in 0 .. c - 1 : Installed(s + i, n.pa, i)
      BY <1>0, <1>1, <1>3 DEF ContentsInv, DoneInstalled
    <2>2. ~(apc' = "unmap" /\ r = call'.record)  BY <1>1
    <2>3. \A i \in 0 .. c - 1 : Installed(s + i, n.pa, i)'  BY <1>1, <2>1 DEF Installed
    <2>4. n.va = SlotAddress(s) + Offset(n.pa)  BY <1>8
    <2> QED  BY <1>9, <2>2, <2>3, <2>4 DEF WindowMap
  <1>12. SlotsInv'  BY MapReturnSlots DEF BaseInv
  <1>13. ASSUME NEW m \in live, NEW t \in Slots
         PROVE  ~WindowMap(m, r, t)' /\ ~WindowMap(m, r, t)
    <2>1. m \in Mapped /\ m.len # 0  BY DEF LiveInv
    <2>2. ~WindowMap(m, r, t)
      <3>1. WindowMap(m, r, t) => mappings[r] # NoRecord
        BY <1>3, <2>1, WindowAddress DEF BaseInv
      <3> QED  BY <1>3, <3>1
    <2>3. ASSUME WindowMap(m, r, t)'  PROVE FALSE
      <3>1. mappings'[r] = RecordFor(t, PageCount(m.pa, m.len)) /\ m.va = SlotAddress(t) + Offset(m.pa)
        BY <2>3 DEF WindowMap
      <3>2. RecordOK(mappings'[r])  BY <1>3, <1>12 DEF SlotsInv
      <3>3. Offset(m.pa) \in 0 .. PMM_PAGE_SIZE - 1
        <4>1. m.pa \in Nat /\ 0 \in Nat  BY <2>1 DEF Mapped
        <4> QED  BY <4>1, PlainFacts, Zenon
      <3>4. SlotAddress(s) = SlotAddress(t)  BY <1>9, <3>1 DEF RecordFor
      <3>5. s = t
        <4>1. 0 \in 0 .. PMM_PAGE_SIZE - 1  BY SizeFacts
        <4>2. SlotAddress(s) + 0 = SlotAddress(t) + 0  BY <3>4
        <4> QED  BY <1>5, <4>1, <4>2, SameSlot
      <3>6. CASE IdentityMap(m)
        <4>1. m.va \in Nat /\ m.pa \in Nat /\ m.len \in Nat  BY <2>1 DEF Mapped
        <4>2. m.va < ACPI_IDENTITY_MAP_LIMIT  BY <2>1, <3>6, <4>1, IdentityBelow DEF IdentityMap
        <4>3. SlotAddress(t) >= ACPI_MAP_WINDOW_BASE /\ SlotAddress(t) \in Nat
          BY <3>3, SlotFacts
        <4> QED  BY <3>1, <3>3, <4>1, <4>2, <4>3, IdentityBelow, SizeFacts
      <3>7. CASE \E p \in Records, u \in Slots : WindowMap(m, p, u)
        <4>1. PICK p \in Records, u \in Slots : WindowMap(m, p, u)  BY <3>7
        <4>2. m.va = SlotAddress(u) + Offset(m.pa) /\ u \in RunOf(mappings[p])
          BY <2>1, <4>1, WindowAddress DEF BaseInv
        <4>3. u = t  BY <3>1, <3>3, <4>2, SameSlot
        <4> QED  BY <1>10, <3>5, <4>2, <4>3 DEF BaseInv, SlotsInv
      <3> QED  BY <3>6, <3>7 DEF LiveInv
    <2> QED  BY <2>2, <2>3
  <1>14. ASSUME NEW m \in live, NEW p \in Records, NEW t \in Slots
         PROVE  WindowMap(m, p, t)' <=> WindowMap(m, p, t)
    <2>1. CASE p = r  BY <1>13, <2>1
    <2>2. CASE p # r
      <3>1. m \in Mapped /\ mappings'[p] = mappings[p]  BY <1>9, <2>2 DEF LiveInv
      <3>2. \A u \in RunOf(mappings[p]) : Seen(mem', PageOf(u)) = Seen(mem, PageOf(u))
        BY <1>1
      <3>3. ~(apc' = "unmap" /\ p = call'.record) /\ ~(apc = "unmap" /\ p = call.record)
        BY <1>1
      <3> QED  BY <3>1, <3>2, <3>3, WindowSame DEF BaseInv
    <2> QED  BY <2>1, <2>2
  <1>15. ASSUME NEW p \in Records, NEW t \in Slots, WindowMap(n, p, t)'  PROVE p = r
    <2>1. mappings'[p] = RecordFor(t, PageCount(n.pa, n.len)) /\ n.va = SlotAddress(t) + Offset(n.pa)
      BY <1>15 DEF WindowMap
    <2>2. t = s
      <3> QED  BY <1>5, <1>6, <1>8, <2>1, SameSlot
    <2>3. RecordOK(mappings'[p])  BY <1>12 DEF SlotsInv
    <2>4. s \in RunOf(mappings'[p])  BY <2>1, <2>2, <2>3, RunSlots
    <2> QED  BY <1>9, <1>10, <2>4 DEF BaseInv, SlotsInv
  <1>16. \A m \in live, p \in Records, t, u \in Slots :
           ~(WindowMap(m, p, t)' /\ WindowMap(n, p, u)')
    BY <1>13, <1>15
  <1>17. LiveInv'
    <2>1. apc' # "boot" /\ n.len # 0 /\ <<n.pa, n.len, n.back>> \in Requests
      BY <1>1, <1>3, <1>8
    <2>2. \E p \in Records, t \in Slots : WindowMap(n, p, t)'  BY <1>3, <1>5, <1>11
    <2> QED  BY <1>1, <1>7, <1>14, <1>16, <2>1, <2>2, LiveGrows
  <1>18. FreeClear' /\ DoneInstalled' /\ RestClear' /\ CurrentPage' /\ UnmapClear'
    BY <1>1 DEF ContentsInv, FreeClear, DoneInstalled, RestClear, CurrentPage, UnmapClear,
                Mapping, Clear
  <1>19. \E o \in live', p \in Records, t \in Slots : p = call.record /\ WindowMap(o, p, t)'
    BY <1>0, <1>1, <1>3, <1>5, <1>11
  <1> QED  BY <1>0, <1>1, <1>9, <1>14, <1>17, <1>18, <1>19 DEF ContentsInv

(* paging_init finds nothing mapped and nothing held.                       *)
LEMMA ContentsVmmInit ==
  ASSUME BaseInv, ContentsInv, LiveInv, VmmInit
  PROVE  ContentsInv' /\ LiveInv' /\ live' = {} /\ mappings' = mappings /\ apc # "unmap" /\ apc' # "unmap"
  <1>1. /\ apc = "boot" /\ apc' = "idle" /\ UNCHANGED <<live, mappings>>
    BY DEF VmmInit
  <1>2. live = {}  BY <1>1 DEF LiveInv
  <1>3. Next  BY DEF Next, KernelStep
  <1>4. CallInv' /\ SlotsInv'  BY <1>3, SlotsStep DEF BaseInv
  <1>5. \A s \in Slots : Seen(mem', PageOf(s)) = NoPage  BY <1>4, BaseVmmInit
  <1>6. ContentsInv'
    BY <1>1, <1>5 DEF ContentsInv, FreeClear, DoneInstalled, RestClear, CurrentPage, UnmapClear,
                      Mapping, Clear
  <1>7. LiveInv'  BY <1>1, <1>2 DEF LiveInv
  <1> QED  BY <1>1, <1>2, <1>6, <1>7

(* The contents do not depend on what uACPI holds or the TLB.               *)
LEMMA ContentsSame ==
  ASSUME ContentsInv, UNCHANGED <<mem, paging_enabled, map_slots, apc, call, index, vpc, cpa>>
  PROVE  ContentsInv'
  <1>1. PhysicalPage(index)' = PhysicalPage(index)  BY DEF PhysicalPage
  <1>2. FreeClear' /\ DoneInstalled' /\ RestClear' /\ UnmapClear'
    BY DEF ContentsInv, FreeClear, DoneInstalled, RestClear, UnmapClear, Mapping, Clear, Installed
  <1>3. CurrentPage'  BY <1>1 DEF ContentsInv, CurrentPage, Clear
  <1> QED  BY <1>2, <1>3 DEF ContentsInv

(* A range of the identity map is handed out.                               *)
LEMMA LiveIdentity ==
  ASSUME BaseInv, LiveInv, NEW q \in Requests, MapIdentity(q[1], q[2], q[3])
  PROVE  /\ LiveInv' /\ live \subseteq live'
         /\ \A m \in live, r \in Records, s \in Slots : WindowMap(m, r, s)' <=> WindowMap(m, r, s)
  <1>0. PICK n : n = [va |-> q[1], pa |-> q[1], len |-> q[2], back |-> q[3]]
    OBVIOUS
  <1>1. /\ apc = "idle" /\ q[2] # 0 /\ InIdentity(q[1], q[2]) /\ live' = live \cup {n}
        /\ UNCHANGED <<mem, mappings, apc, call>>
    BY <1>0 DEF MapIdentity, vmmVars
  <1>2. q[1] \in Nat /\ q[2] \in Nat /\ q[3] \in Nat /\ <<q[1], q[2], q[3]>> \in Requests
    BY RequestFacts
  <1>3. n \in Mapped /\ n.len # 0 /\ <<n.pa, n.len, n.back>> \in Requests
    BY <1>0, <1>1, <1>2 DEF Mapped
  <1>4. IdentityMap(n)
    <2>1. n.va = q[1] /\ n.pa = q[1] /\ n.len = q[2]  BY <1>0
    <2>2. q[1] + q[2] <= ACPI_IDENTITY_MAP_LIMIT  BY <1>1, <1>2, IdentityBelow DEF InIdentity
    <2> QED  BY <2>1, <2>2 DEF IdentityMap
  <1>5. ASSUME NEW m \in Mapped, NEW r \in Records, NEW s \in Slots
        PROVE  WindowMap(m, r, s)' <=> WindowMap(m, r, s)
    BY <1>1 DEF WindowMap, Installed
  <1>6. live \subseteq Mapped  BY DEF LiveInv
  <1>7. \A r \in Records, s \in Slots : ~WindowMap(n, r, s)'
    BY <1>3, <1>4, <1>5, NotBoth DEF BaseInv
  <1>8. apc' # "boot"  BY <1>1
  <1>9. \A m \in live, r \in Records, s \in Slots : WindowMap(m, r, s)' <=> WindowMap(m, r, s)
    BY <1>5, <1>6
  <1>10. LiveInv'
    BY <1>1, <1>3, <1>4, <1>7, <1>8, <1>9, LiveGrows
  <1> QED  BY <1>1, <1>9, <1>10

FullInv == BaseInv /\ ContentsInv /\ LiveInv

LEMMA FullInit == Init => FullInv
  <1> SUFFICES ASSUME Init  PROVE FullInv
    OBVIOUS
  <1>1. BaseInv  BY BaseInit
  <1>2. ContentsInv
    BY DEF Init, ContentsInv, FreeClear, DoneInstalled, RestClear, CurrentPage, UnmapClear, Mapping
  <1>3. LiveInv  BY DEF Init, LiveInv
  <1> QED  BY <1>1, <1>2, <1>3 DEF FullInv

(* The calls that only give mappings back, and those that change nothing.   *)
LEMMA LiveQuiet ==
  ASSUME SlotsInv, LiveInv, UNCHANGED <<mem, mappings, apc, call>>, live' \subseteq live
  PROVE  /\ LiveInv'
         /\ \A m \in live', r \in Records, s \in Slots : WindowMap(m, r, s)' <=> WindowMap(m, r, s)
  <1>1. \A m \in live', r \in Records, s \in Slots : WindowMap(m, r, s)' <=> WindowMap(m, r, s)
    BY DEF WindowMap, Installed
  <1>2. apc' = "boot" => live' = {}  BY DEF LiveInv
  <1> QED  BY <1>1, <1>2, LiveSame

LEMMA FullStep == FullInv /\ [Next]_vars => FullInv'
  <1> SUFFICES ASSUME BaseInv, ContentsInv, LiveInv, [Next]_vars  PROVE ContentsInv' /\ LiveInv'
    BY BaseStep DEF FullInv
  <1>1. CASE VmmInit  BY <1>1, ContentsVmmInit
  <1>2. CASE InstallPage  BY <1>2, ContentsInstall
  <1>3. CASE RollbackPage \/ UnmapPage  BY <1>3, ContentsUnmapCall
  <1>4. CASE CheckPage  BY <1>4, ContentsCheck
  <1>5. CASE MapReturn  BY <1>5, ContentsReturn
  <1>6. CASE RollbackDone  BY <1>6, ContentsRollbackDone
  <1>7. CASE UnmapDone  BY <1>7, ContentsUnmapDone
  <1>8. ASSUME NEW q \in Requests, NEW r \in Records, NEW s \in Slots,
               MapBegin(q[1], q[2], q[3], r, s)
        PROVE  ContentsInv' /\ LiveInv'
    BY <1>8, ContentsBegin
  <1>9. ASSUME NEW m \in live, NEW r \in Records, UnmapBegin(m, r)  PROVE ContentsInv' /\ LiveInv'
    BY <1>9, ContentsUnmapBegin
  <1>10. ASSUME NEW q \in Requests, MapIdentity(q[1], q[2], q[3])  PROVE ContentsInv' /\ LiveInv'
    <2>1. UNCHANGED <<mem, paging_enabled, map_slots, apc, call, index, vpc, cpa>>
      BY <1>10, BaseIdle
    <2> QED  BY <1>10, <2>1, ContentsSame, LiveIdentity
  <1>11. CASE \/ UNCHANGED vars
              \/ \E q \in Requests : MapRefused(q[1], q[2])
              \/ \E q \in Requests, s \in Slots : UnmapUnknown(SlotAddress(s) + Offset(q[1]), q[3])
              \/ \E m \in live : UnmapIdentity(m)
    <2>1. UNCHANGED <<mem, paging_enabled, map_slots, mappings, apc, call, index, vpc, cpa>>
      BY <1>11, BaseIdle
    <2>2. live' \subseteq live
      BY <1>11 DEF MapRefused, UnmapUnknown, UnmapIdentity, vars, acpiVars
    <2> QED  BY <2>1, <2>2, ContentsSame, LiveQuiet DEF BaseInv
  <1>12. ASSUME NEW v \in WindowPages, TlbFill(v), UNCHANGED <<pmmVars, acpiVars>>
         PROVE  ContentsInv' /\ LiveInv'
    <2>1. UNCHANGED <<mem, paging_enabled, map_slots, mappings, apc, call, index, vpc, cpa, live>>
      BY <1>12 DEF TlbFill, acpiVars
    <2> QED  BY <2>1, ContentsSame, LiveQuiet DEF BaseInv
  <1>13. CASE VmmStep /\ UNCHANGED acpiVars  BY <1>13, ContentsVmm
  <1> QED
    BY <1>1, <1>2, <1>3, <1>4, <1>5, <1>6, <1>7, <1>8, <1>9, <1>10, <1>11, <1>12, <1>13, NextCases

LEMMA FullAlways == Spec => []FullInv
  BY FullInit, FullStep, PTL DEF Spec

-----------------------------------------------------------------------------
(* What uACPI reads through its mappings.                                   *)

(* Byte b of a request lies in one of its pages.                            *)
LEMMA ByteInPage ==
  ASSUME NEW pa \in Nat, NEW len \in Nat, NEW b \in 0 .. len - 1, NEW s \in Slots,
         InWindow(s, PageCount(pa, len))
  PROVE  \E i \in 0 .. PageCount(pa, len) - 1, o \in 0 .. PMM_PAGE_SIZE - 1 :
           /\ s + i \in Slots /\ SlotAddress(s) + Offset(pa) + b = SlotAddress(s + i) + o
           /\ (pa \div PMM_PAGE_SIZE + i) * PMM_PAGE_SIZE + o = pa + b
  <1> DEFINE P == PMM_PAGE_SIZE
             off == Offset(pa)
             n == len + off + P - 1
             c == n \div P
             z == off + b
             i == z \div P
             o == z % P
             a == pa \div P
  <1>1. P \in Nat \ {0}  BY SizeFacts
  <1>2. a \in Nat /\ off \in 0 .. P - 1 /\ pa = a * P + off
    <2>1. 0 \in Nat  OBVIOUS
    <2> QED  BY <2>1, PlainFacts, Zenon
  <1>3. PageCount(pa, len) = c  BY DEF PageCount
  <1> HIDE DEF P, off, a
  <1>4. n \in Nat /\ z \in Nat /\ b \in Nat /\ off \in Nat  BY <1>1, <1>2
  <1>5. z <= n - P  BY <1>1, <1>2
  <1> HIDE DEF n, z
  <1>6. c \in Nat /\ c * P <= n /\ n < c * P + P  BY <1>1, <1>4, DivideBy, Zenon
  <1>7. i \in Nat /\ i * P <= z /\ o \in 0 .. P - 1 /\ z = i * P + o
    BY <1>1, <1>4, DivideBy, Zenon
  <1> HIDE DEF c, i, o
  <1>8. i < c
    <2> SUFFICES ASSUME i >= c  PROVE FALSE
      BY <1>6, <1>7
    <2>1. i * P >= c * P  BY <1>1, <1>6, <1>7
    <2> QED  BY <1>1, <1>4, <1>5, <1>6, <1>7, <2>1
  <1>9. s + i \in Slots /\ s \in Nat  BY <1>3, <1>6, <1>7, <1>8, SizeFacts DEF InWindow, Slots
  <1>10. SlotAddress(s) + off + b = SlotAddress(s + i) + o
    <2>1. ACPI_MAP_WINDOW_BASE \in Nat  BY SizeFacts
    <2>2. (s + i) * P = s * P + i * P /\ s * P \in Nat /\ i * P \in Nat
      BY <1>1, <1>7, <1>9
    <2>3. off + b = i * P + o  BY <1>7 DEF z
    <2> QED  BY <1>1, <1>4, <1>7, <2>1, <2>2, <2>3 DEF SlotAddress, P
  <1>11. (a + i) * P + o = pa + b
    <2>1. (a + i) * P = a * P + i * P /\ a * P \in Nat /\ i * P \in Nat
      BY <1>1, <1>2, <1>7
    <2>2. off + b = i * P + o  BY <1>7 DEF z
    <2> QED  BY <1>1, <1>2, <1>4, <1>7, <2>1, <2>2
  <1>12. i \in 0 .. c - 1  BY <1>6, <1>7, <1>8
  <1> QED  BY <1>3, <1>7, <1>9, <1>10, <1>11, <1>12 DEF off, a, P

(* The same of a request inside the identity map.                           *)
LEMMA IdentityByte ==
  ASSUME NEW x \in Nat, x < ACPI_IDENTITY_MAP_LIMIT
  PROVE  /\ Vpn(x) \in 0 .. IDENTITY_PAGES - 1 /\ Vpn(x) * PMM_PAGE_SIZE + Offset(x) = x
         /\ Vpn(x) \notin WindowPages /\ Vpn(x) # NoPage
  <1> DEFINE P == PMM_PAGE_SIZE
             q == x \div P
  <1>1. P \in Nat \ {0} /\ VA_SPAN \in Nat \ {0} /\ VA_SPAN = 2 * (HalfPages * P)
    BY SizeFacts
  <1>2. HalfPages \in Nat \ {0} /\ HalfPages >= IDENTITY_PAGES /\ IDENTITY_PAGES \in Nat
    BY HalfFacts, ReachFacts DEF IDENTITY_PAGES
  <1>3. x < IDENTITY_PAGES * P  BY DEF ACPI_IDENTITY_MAP_LIMIT
  <1>4. x < VA_SPAN
    <2>1. IDENTITY_PAGES * P <= HalfPages * P /\ HalfPages * P \in Nat /\ IDENTITY_PAGES * P \in Nat
      BY <1>1, <1>2
    <2> QED  BY <1>1, <1>3, <2>1
  <1>5. x % VA_SPAN = x
    <2>1. x \in 0 .. VA_SPAN - 1 /\ 0 * VA_SPAN + x = x  BY <1>1, <1>4
    <2>2. (0 * VA_SPAN + x) % VA_SPAN = x  BY <1>1, <2>1, QuotientIs, Zenon
    <2> QED  BY <2>1, <2>2
  <1>6. Vpn(x) = q /\ Offset(x) = x % P  BY <1>5 DEF Vpn, Offset
  <1> HIDE DEF P
  <1>7. q \in Nat /\ q * P <= x /\ x = q * P + (x % P)  BY <1>1, DivideBy, Zenon
  <1> HIDE DEF q
  <1>8. q < IDENTITY_PAGES
    <2> SUFFICES ASSUME q >= IDENTITY_PAGES  PROVE FALSE
      BY <1>2, <1>7
    <2>1. q * P >= IDENTITY_PAGES * P  BY <1>1, <1>2, <1>7
    <2>2. IDENTITY_PAGES * P \in Nat /\ q * P \in Nat  BY <1>1, <1>2, <1>7
    <2> QED  BY <1>3, <1>7, <2>1, <2>2
  <1>9. q \notin WindowPages
    <2>1. \A s \in Slots : PageOf(s) >= HalfPages
      BY <1>2, SizeFacts DEF PageOf, Slots
    <2> QED  BY <1>2, <1>7, <1>8, <2>1, WindowPagesAre
  <1>10. q # NoPage /\ q \in 0 .. IDENTITY_PAGES - 1  BY <1>2, <1>7, <1>8 DEF NoPage
  <1> QED  BY <1>6, <1>7, <1>9, <1>10 DEF P

(* A page of a mapping that is held: the CPU finds what uACPI asked for, in *)
(* the tables and in the TLB.                                               *)
LEMMA HeldPage ==
  ASSUME BaseInv, LiveInv, paging_enabled, NEW m \in live, NEW r \in Records, NEW s \in Slots,
         WindowMap(m, r, s), NEW i \in 0 .. PageCount(m.pa, m.len) - 1
  PROVE  /\ s + i \in Slots /\ HwWalk(PageOf(s + i)) = m.pa \div PMM_PAGE_SIZE + i
         /\ m.pa \div PMM_PAGE_SIZE + i \in Nat
         /\ tlb[PageOf(s + i)] \in {NoPage, HwWalk(PageOf(s + i))}
  <1> DEFINE t == s + i
  <1>1. m \in Mapped  BY DEF LiveInv
  <1>2. m.pa \in Nat  BY <1>1 DEF Mapped
  <1>3. s + i \in Slots /\ s + i \in RunOf(mappings[r])
    BY <1>1, WindowAddress DEF BaseInv
  <1>4. InWindow(s, PageCount(m.pa, m.len))  BY <1>1, WindowAddress DEF BaseInv
  <1>5. i \in Nat
    <2>1. PageCount(m.pa, m.len) \in Nat  BY <1>4, SizeFacts DEF InWindow
    <2> QED  BY <2>1
  <1>6. /\ Plain(m.pa, i) \div PMM_PAGE_SIZE = m.pa \div PMM_PAGE_SIZE + i
        /\ m.pa \div PMM_PAGE_SIZE \in Nat
    BY <1>2, <1>5, PlainFacts, Zenon
  <1>7. Installed(s + i, m.pa, i)  BY DEF WindowMap
  <1>8. Seen(mem, PageOf(s + i)) = m.pa \div PMM_PAGE_SIZE + i  BY <1>6, <1>7 DEF Installed
  <1>9. PICK lv : TreeOK(lv, mem, Taken)  BY DEF BaseInv, TreeInv
  <1>10. High(PageOf(s + i))  BY <1>3, WindowHigh, Zenon
  <1>11. HwOf(mem, PageOf(s + i)) = Seen(mem, PageOf(s + i))  BY <1>9, <1>10, SeenByCpu
  <1>12. HwWalk(PageOf(s + i)) = HwOf(mem, PageOf(s + i))  BY HwOfFacts, Zenon
  <1>13. PageOf(s + i) \in WindowPages  BY <1>3, WindowPagesAre, Zenon
  <1>14. ~(vpc = "flush" /\ PageOf(s + i) = PageOf(Target))
    <2> SUFFICES ASSUME vpc = "flush", PageOf(s + i) = PageOf(Target)  PROVE FALSE
      OBVIOUS
    <2>1. vpc # "done"  OBVIOUS
    <2>2. /\ apc \in {"check", "rollback", "unmap"} /\ Target \in Slots
          /\ Target \in SlotRange(call.start, call.count)
      BY <2>1, TargetFacts DEF BaseInv
    <2>3. Slots \subseteq Nat  BY SizeFacts DEF Slots
    <2>4. s + i = Target  BY <1>3, <2>2, <2>3, WindowPagesAre
    <2>5. Mapping \/ apc = "unmap"  BY <2>2 DEF Mapping
    <2>6. apc = "unmap" /\ r = call.record
      BY <1>3, <2>2, <2>4, <2>5, CallSlots DEF BaseInv
    <2> QED  BY <2>6 DEF WindowMap
  <1>15. tlb[PageOf(s + i)] \in {NoPage, HwOf(mem, PageOf(s + i))}
    BY <1>13, <1>14 DEF BaseInv, TlbInv
  <1>16. m.pa \div PMM_PAGE_SIZE + i \in Nat  BY <1>5, <1>6
  <1> QED  BY <1>3, <1>8, <1>11, <1>12, <1>15, <1>16

LEMMA LiveTranslate == FullInv => LiveMappingsTranslate
  <1> SUFFICES ASSUME BaseInv, ContentsInv, LiveInv, NEW m \in live, NEW b \in 0 .. m.len - 1
               PROVE  /\ HwWalk(Vpn(m.va + b)) # NoPage /\ SeenAt(m.va + b) = m.pa + b
                      /\ Vpn(m.va + b) \in WindowPages =>
                           tlb[Vpn(m.va + b)] \in {NoPage, HwWalk(Vpn(m.va + b))}
    BY DEF LiveMappingsTranslate, FullInv
  <1>1. /\ m \in Mapped /\ m.len # 0
        /\ IdentityMap(m) \/ \E r \in Records, s \in Slots : WindowMap(m, r, s)
    BY DEF LiveInv
  <1>2. m.va \in Nat /\ m.pa \in Nat /\ m.len \in Nat /\ b \in Nat /\ b < m.len
    BY <1>1 DEF Mapped
  <1>3. paging_enabled  BY DEF LiveInv, BaseInv, FramesInv
  <1>4. CASE IdentityMap(m)
    <2>1. /\ m.va + b \in Nat /\ m.va + b < ACPI_IDENTITY_MAP_LIMIT /\ m.va + b = m.pa + b
      BY <1>2, <1>4, IdentityBelow DEF IdentityMap
    <2> DEFINE x == m.va + b
    <2> HIDE DEF x
    <2>2. x \in Nat /\ x < ACPI_IDENTITY_MAP_LIMIT  BY <2>1 DEF x
    <2>3. /\ Vpn(x) \in 0 .. IDENTITY_PAGES - 1 /\ Vpn(x) * PMM_PAGE_SIZE + Offset(x) = x
          /\ Vpn(x) \notin WindowPages /\ Vpn(x) # NoPage
      BY <2>2, IdentityByte, Zenon
    <2>4. IdentityOK(mem)  BY <1>3 DEF BaseInv, TreeInv, TreeOK
    <2>5. HwWalk(Vpn(x)) = Vpn(x)
      <3>1. HwOf(mem, Vpn(x)) = Vpn(x)  BY <2>3, <2>4, IdentityWalk
      <3> QED  BY <3>1, HwOfFacts
    <2> QED  BY <2>1, <2>3, <2>5 DEF SeenAt, x
  <1>5. CASE \E r \in Records, s \in Slots : WindowMap(m, r, s)
    <2>1. PICK r \in Records, s \in Slots : WindowMap(m, r, s)  BY <1>5
    <2>2. m.va = SlotAddress(s) + Offset(m.pa) /\ InWindow(s, PageCount(m.pa, m.len))
      BY <1>1, <2>1, WindowAddress DEF BaseInv
    <2>3. PICK i \in 0 .. PageCount(m.pa, m.len) - 1, o \in 0 .. PMM_PAGE_SIZE - 1 :
            /\ s + i \in Slots /\ SlotAddress(s) + Offset(m.pa) + b = SlotAddress(s + i) + o
            /\ (m.pa \div PMM_PAGE_SIZE + i) * PMM_PAGE_SIZE + o = m.pa + b
      BY <1>2, <2>2, ByteInPage
    <2>4. m.va + b = SlotAddress(s + i) + o  BY <2>2, <2>3
    <2>5. Vpn(m.va + b) = PageOf(s + i) /\ Offset(m.va + b) = o
      BY <2>3, <2>4, SlotFacts
    <2>6. /\ HwWalk(PageOf(s + i)) = m.pa \div PMM_PAGE_SIZE + i
          /\ m.pa \div PMM_PAGE_SIZE + i \in Nat
          /\ tlb[PageOf(s + i)] \in {NoPage, HwWalk(PageOf(s + i))}
      BY <1>3, <2>1, <2>3, HeldPage
    <2>7. HwWalk(PageOf(s + i)) # NoPage  BY <2>6 DEF NoPage
    <2>8. SeenAt(m.va + b) = m.pa + b  BY <2>3, <2>5, <2>6 DEF SeenAt
    <2> QED  BY <2>5, <2>6, <2>7, <2>8
  <1> QED  BY <1>1, <1>4, <1>5

(* LiveMappingsTranslate: from the return of uacpi_kernel_map to the call   *)
(* of uacpi_kernel_unmap the CPU finds every byte of a mapping at the       *)
(* address uACPI was given, whichever other map or unmap calls run, fail    *)
(* and roll back meanwhile.                                                 *)
THEOREM LiveMappingsCorrect == Spec => []LiveMappingsTranslate
  BY FullAlways, LiveTranslate, PTL

-----------------------------------------------------------------------------
(* Nothing else translates, except what the client gave back with another   *)
(* number of pages than it had mapped.                                      *)

(* Given back with as many pages, a mapping of the window is not turned     *)
(* away by uacpi_kernel_unmap, which finds its record.                      *)
LEMMA UnmapFinds ==
  ASSUME SlotsInv, LiveInv, NEW m \in live, NEW r \in Records, NEW s \in Slots,
         WindowMap(m, r, s), ~Stranded(mappings[r])
  PROVE  ~UnmapOutside(m.va, m.back) /\ Matches(r, m.va - Offset(m.va), PageCount(m.va, m.back))
  <1> DEFINE P == PMM_PAGE_SIZE
             H == HalfPages
             off == Offset(m.va)
             c == PageCount(m.pa, m.len)
             back == m.back
             n == back + off + P - 1
             base == m.va - Offset(m.va)
  <1>1. m \in Mapped /\ m.len # 0 /\ <<m.pa, m.len, m.back>> \in Requests  BY DEF LiveInv
  <1>2. m.va \in Nat /\ m.pa \in Nat /\ m.len \in Nat /\ back \in Nat  BY <1>1 DEF Mapped
  <1>3. /\ off \in 0 .. P - 1 /\ base = SlotAddress(s) /\ InWindow(s, c)
        /\ m.va >= ACPI_MAP_WINDOW_BASE /\ m.va # WORD - 1
        /\ PageCount(m.va, back) = PageCount(m.pa, back)
    BY <1>1, WindowAddress
  <1>4. back # 0 /\ PageCount(m.pa, back) = c
    <2> DEFINE q == <<m.pa, m.len, m.back>>
    <2>1. q[1] = m.pa /\ q[2] = m.len /\ q[3] = m.back  OBVIOUS
    <2>2. q \in Requests  BY <1>1
    <2> HIDE DEF q
    <2>3. mappings[r].page_count = PageCount(q[1], q[2])
      BY <2>1 DEF WindowMap, RecordFor
    <2>4. q[2] # 0  BY <1>1, <2>1
    <2>5. q[3] # 0 /\ PageCount(q[1], q[3]) = mappings[r].page_count
      BY <2>2, <2>3, <2>4 DEF Stranded
    <2> QED  BY <2>1, <2>3, <2>5
  <1>5. PageCount(m.va, back) = c /\ c = n \div P  BY <1>3, <1>4 DEF PageCount
  <1>6. Matches(r, base, PageCount(m.va, back))
    <2>1. mappings[r] = RecordFor(s, c)  BY DEF WindowMap
    <2> QED  BY <1>3, <1>5, <2>1 DEF Matches, RecordFor
  <1>7. /\ P \in Nat \ {0} /\ H \in Nat \ {0} /\ VA_SPAN \in Nat /\ VA_SPAN = 2 * (H * P)
        /\ ACPI_MAP_WINDOW_PAGES \in Nat \ {0} /\ ACPI_MAP_WINDOW_PAGES < H
        /\ ACPI_MAP_WINDOW_BASE \in Nat
    BY SizeFacts, HalfFacts
  <1>8. s \in Nat /\ c \in 1 .. ACPI_MAP_WINDOW_PAGES /\ s + c <= ACPI_MAP_WINDOW_PAGES
    BY <1>3, <1>7 DEF InWindow, Slots
  <1>9. m.va # 0  BY <1>2, <1>3, <1>7, IdentityBelow
  <1>10. SlotAddress(s) >= ACPI_MAP_WINDOW_BASE
         /\ SlotAddress(s) <= SlotAddress(ACPI_MAP_WINDOW_PAGES - c)
    <2> DEFINE u == ACPI_MAP_WINDOW_PAGES - c
    <2>1. u \in Nat /\ s <= u  BY <1>7, <1>8
    <2> HIDE DEF u, P
    <2>2. s * P <= u * P /\ s * P \in Nat /\ u * P \in Nat  BY <1>7, <1>8, <2>1
    <2>3. SlotAddress(s) >= ACPI_MAP_WINDOW_BASE /\ SlotAddress(s) <= SlotAddress(u)
      BY <1>7, <2>2 DEF SlotAddress, P
    <2> QED  BY <2>3 DEF u
  <1> HIDE DEF P, H, off, c, back
  <1>11. n \in Nat  BY <1>2, <1>3, <1>7
  <1>12. back + off <= c * P
    <2>1. n < c * P + P
      <3>1. n < (n \div P) * P + P
        <4> HIDE DEF n
        <4> QED  BY <1>7, <1>11, DivideBy, Zenon
      <3> QED  BY <1>5, <3>1
    <2>2. c \in Nat  BY <1>7, <1>8
    <2>3. c * P \in Nat  BY <1>7, <2>2
    <2> QED  BY <1>2, <1>3, <1>7, <2>1, <2>3
  <1>13. c * P + P <= H * P
    <2>1. c + 1 <= H /\ c \in Nat  BY <1>7, <1>8
    <2>2. (c + 1) * P <= H * P  BY <1>7, <2>1
    <2>3. (c + 1) * P = c * P + P  BY <1>7, <2>1
    <2> QED  BY <2>2, <2>3
  <1>14. H * P <= WORD /\ H * P \in Nat /\ WORD \in Nat
    <2> DEFINE w == WORD \div VA_SPAN
    <2>1. w \in Nat \ {0} /\ WORD = w * VA_SPAN /\ WORD \in Nat  BY SizeFacts
    <2> HIDE DEF w
    <2>2. w * VA_SPAN >= VA_SPAN  BY <1>7, <2>1
    <2>3. H * P \in Nat  BY <1>7
    <2> QED  BY <1>7, <2>1, <2>2, <2>3
  <1>15. ~LengthOverflows(m.va, back)
    <2>1. c * P \in Nat
      <3>1. c \in Nat  BY <1>7, <1>8
      <3> QED  BY <1>7, <3>1
    <2>2. back + off + P <= WORD  BY <1>2, <1>3, <1>7, <1>12, <1>13, <1>14, <2>1
    <2>3. back <= WORD - 1 - off /\ back + off <= WORD - 1 - (P - 1)
      BY <1>2, <1>3, <1>7, <1>14, <2>2
    <2>4. ~(back > WORD - 1 - off) /\ ~(back + off > WORD - 1 - (P - 1))
      BY <1>2, <1>3, <1>7, <1>14, <2>3
    <2> QED  BY <2>4 DEF LengthOverflows, off, P
  <1>16. ~(SlotAddress(s) < ACPI_MAP_WINDOW_BASE)
         /\ ~(SlotAddress(s) > SlotAddress(ACPI_MAP_WINDOW_PAGES - c))
    <2>1. SlotAddress(s) \in Nat /\ SlotAddress(ACPI_MAP_WINDOW_PAGES - c) \in Nat
      <3>1. ACPI_MAP_WINDOW_PAGES - c \in Nat  BY <1>7, <1>8
      <3>2. s * P \in Nat /\ (ACPI_MAP_WINDOW_PAGES - c) * P \in Nat  BY <1>7, <1>8, <3>1
      <3> QED  BY <1>7, <3>2 DEF SlotAddress, P
    <2> QED  BY <1>7, <1>10, <2>1
  <1>17. ~UnmapOutside(m.va, back)
    <2>1. m.va \notin {0, WORD - 1} /\ back # 0  BY <1>3, <1>4, <1>9
    <2>2. PageCount(m.va, back) \in 1 .. ACPI_MAP_WINDOW_PAGES  BY <1>5, <1>8
    <2> QED  BY <1>3, <1>5, <1>15, <1>16, <2>1, <2>2 DEF UnmapOutside, off
  <1> QED  BY <1>6, <1>17 DEF back

(* A step that leaves the records alone, and takes no mapping of the window *)
(* away.                                                                    *)
LEMMA HeldSame ==
  ASSUME HeldInv, mappings' = mappings,
         \A r \in Records : apc = "unmap" /\ r = call.record => apc' = "unmap" /\ r = call'.record,
         \A m \in live, r \in Records, s \in Slots :
           WindowMap(m, r, s) =>
             \/ m \in live' /\ WindowMap(m, r, s)'
             \/ apc' = "unmap" /\ r = call'.record
             \/ Stranded(mappings[r])
  PROVE  HeldInv'
  <1> SUFFICES ASSUME NEW r \in Records
               PROVE  \/ mappings'[r] = NoRecord
                      \/ apc' = "unmap" /\ r = call'.record
                      \/ \E m \in live', s \in Slots : WindowMap(m, r, s)'
                      \/ Stranded(mappings'[r])
    BY DEF HeldInv, Stranded
  <1>1. CASE mappings[r] = NoRecord  BY <1>1
  <1>2. CASE apc = "unmap" /\ r = call.record  BY <1>2
  <1>3. CASE \E m \in live, s \in Slots : WindowMap(m, r, s)  BY <1>3
  <1>4. CASE Stranded(mappings[r])  BY <1>4
  <1> QED  BY <1>1, <1>2, <1>3, <1>4 DEF HeldInv

LEMMA HeldInit == Init => HeldInv
  BY DEF Init, HeldInv

LEMMA HeldStep ==
  ASSUME FullInv, HeldInv, [Next]_vars
  PROVE  HeldInv'
  <1>0. BaseInv /\ ContentsInv /\ LiveInv /\ SlotsInv  BY DEF FullInv, BaseInv
  <1>1. CASE VmmInit
    <2>1. live = {} /\ mappings' = mappings /\ apc # "unmap"
      BY <1>0, <1>1 DEF VmmInit, LiveInv
    <2> QED  BY <2>1, HeldSame
  <1>2. CASE InstallPage
    <2>1. UNCHANGED <<mappings, live>> /\ apc = "install"  BY <1>2 DEF InstallPage
    <2>2. \A m \in live, r \in Records, s \in Slots : WindowMap(m, r, s)' <=> WindowMap(m, r, s)
      BY <1>0, <1>2, ContentsInstall
    <2> QED  BY <2>1, <2>2, HeldSame
  <1>3. CASE RollbackPage \/ UnmapPage
    <2>1. UNCHANGED <<mappings, live, apc, call>>  BY <1>3 DEF RollbackPage, UnmapPage
    <2>2. \A m \in live, r \in Records, s \in Slots : WindowMap(m, r, s)' <=> WindowMap(m, r, s)
      BY <1>0, <1>3, ContentsUnmapCall
    <2> QED  BY <2>1, <2>2, HeldSame
  <1>4. CASE CheckPage
    <2>1. UNCHANGED <<mappings, live>> /\ apc = "check"  BY <1>4 DEF CheckPage
    <2>2. \A m \in live, r \in Records, s \in Slots : WindowMap(m, r, s)' <=> WindowMap(m, r, s)
      BY <1>0, <1>4, ContentsCheck
    <2> QED  BY <2>1, <2>2, HeldSame
  <1>5. CASE MapReturn
    <2>1. /\ live \subseteq live' /\ apc # "unmap"
          /\ \A p \in Records : p # call.record => mappings'[p] = mappings[p]
          /\ \E n \in live', p \in Records, s \in Slots : p = call.record /\ WindowMap(n, p, s)'
          /\ \A m \in live, p \in Records, t \in Slots : WindowMap(m, p, t)' <=> WindowMap(m, p, t)
      BY <1>0, <1>5, ContentsReturn
    <2> SUFFICES ASSUME NEW p \in Records
                 PROVE  \/ mappings'[p] = NoRecord
                        \/ \E m \in live', s \in Slots : WindowMap(m, p, s)'
                        \/ Stranded(mappings'[p])
      BY DEF HeldInv, Stranded
    <2>2. CASE p = call.record  BY <2>1, <2>2
    <2>3. CASE p # call.record /\ mappings[p] = NoRecord  BY <2>1, <2>3
    <2>4. CASE \E m \in live, s \in Slots : WindowMap(m, p, s)  BY <2>1, <2>4
    <2>5. CASE p # call.record /\ Stranded(mappings[p])  BY <2>1, <2>5
    <2> QED  BY <2>1, <2>2, <2>3, <2>4, <2>5 DEF HeldInv
  <1>6. CASE RollbackDone
    <2>1. /\ live' = live /\ mappings' = mappings /\ apc # "unmap"
          /\ \A m \in live, p \in Records, t \in Slots : WindowMap(m, p, t)' <=> WindowMap(m, p, t)
      BY <1>0, <1>6, ContentsRollbackDone
    <2> QED  BY <2>1, HeldSame
  <1>7. CASE UnmapDone
    <2>1. /\ live' = live /\ mappings'[call.record] = NoRecord
          /\ \A p \in Records : p # call.record => mappings'[p] = mappings[p]
          /\ \A m \in live, p \in Records, t \in Slots : WindowMap(m, p, t)' <=> WindowMap(m, p, t)
      BY <1>0, <1>7, ContentsUnmapDone
    <2> SUFFICES ASSUME NEW p \in Records
                 PROVE  \/ mappings'[p] = NoRecord
                        \/ \E m \in live', s \in Slots : WindowMap(m, p, s)'
                        \/ Stranded(mappings'[p])
      BY DEF HeldInv, Stranded
    <2>2. CASE p = call.record  BY <2>1, <2>2
    <2>3. CASE p # call.record /\ mappings[p] = NoRecord  BY <2>1, <2>3
    <2>4. CASE \E m \in live, s \in Slots : WindowMap(m, p, s)  BY <2>1, <2>4
    <2>5. CASE p # call.record /\ Stranded(mappings[p])  BY <2>1, <2>5
    <2> QED  BY <2>2, <2>3, <2>4, <2>5 DEF HeldInv
  <1>8. ASSUME NEW q \in Requests, NEW r \in Records, NEW s \in Slots,
               MapBegin(q[1], q[2], q[3], r, s)
        PROVE  HeldInv'
    <2>1. /\ live' = live /\ mappings' = mappings /\ apc # "unmap"
          /\ \A m \in live, p \in Records, t \in Slots : WindowMap(m, p, t)' <=> WindowMap(m, p, t)
      BY <1>0, <1>8, ContentsBegin
    <2> QED  BY <2>1, HeldSame
  <1>9. ASSUME NEW m \in live, NEW r \in Records, UnmapBegin(m, r)  PROVE HeldInv'
    <2>1. /\ live' = live \ {m} /\ mappings' = mappings
          /\ apc # "unmap" /\ apc' = "unmap" /\ call'.record = r
          /\ \A p \in Records, t \in Slots : WindowMap(m, p, t) => p = r
          /\ \A n \in live', p \in Records, t \in Slots : WindowMap(n, p, t)' <=> WindowMap(n, p, t)
      BY <1>0, <1>9, ContentsUnmapBegin
    <2>2. ASSUME NEW n \in live, NEW p \in Records, NEW t \in Slots, WindowMap(n, p, t)
          PROVE  (n \in live' /\ WindowMap(n, p, t)') \/ (apc' = "unmap" /\ p = call'.record)
      <3>1. CASE n = m  BY <2>1, <2>2, <3>1
      <3>2. CASE n # m  BY <2>1, <2>2, <3>2
      <3> QED  BY <3>1, <3>2
    <2> QED  BY <2>1, <2>2, HeldSame
  <1>10. ASSUME NEW q \in Requests, MapIdentity(q[1], q[2], q[3])  PROVE HeldInv'
    <2>1. UNCHANGED <<mappings, apc, call>>  BY <1>0, <1>10, BaseIdle
    <2>2. /\ live \subseteq live'
          /\ \A m \in live, p \in Records, t \in Slots : WindowMap(m, p, t)' <=> WindowMap(m, p, t)
      BY <1>0, <1>10, LiveIdentity
    <2> QED  BY <2>1, <2>2, HeldSame
  <1>11. CASE UNCHANGED vars \/ \E q \in Requests : MapRefused(q[1], q[2])
    <2>1. UNCHANGED <<mem, mappings, apc, call, live>>
      BY <1>11 DEF MapRefused, vars, acpiVars, vmmVars
    <2>2. \A m \in live', p \in Records, t \in Slots : WindowMap(m, p, t)' <=> WindowMap(m, p, t)
      BY <1>0, <2>1, LiveQuiet
    <2> QED  BY <2>1, <2>2, HeldSame
  <1>12. ASSUME NEW q \in Requests, NEW u \in Slots,
                UnmapUnknown(SlotAddress(u) + Offset(q[1]), q[3])
         PROVE  HeldInv'
    <2>0. PICK va, len : va = SlotAddress(u) + Offset(q[1]) /\ len = q[3]  OBVIOUS
    <2>1. /\ \A r \in Records : ~Matches(r, va - Offset(va), PageCount(va, len))
          /\ live' = {m \in live : m.va # va \/ m.back # len}
          /\ UNCHANGED <<mem, mappings, apc, call>>
      BY <1>12, <2>0 DEF UnmapUnknown, vmmVars
    <2>2. \A m \in live', p \in Records, t \in Slots : WindowMap(m, p, t)' <=> WindowMap(m, p, t)
      BY <1>0, <2>1, LiveQuiet
    <2>3. ASSUME NEW m \in live, NEW p \in Records, NEW t \in Slots, WindowMap(m, p, t)
          PROVE  m \in live' \/ Stranded(mappings[p])
      <3> SUFFICES ASSUME ~Stranded(mappings[p])  PROVE m \in live'  OBVIOUS
      <3>1. Matches(p, m.va - Offset(m.va), PageCount(m.va, m.back))
        BY <1>0, <2>3, UnmapFinds
      <3>2. ~(m.va = va /\ m.back = len)  BY <2>1, <3>1
      <3> QED  BY <2>1, <3>2
    <2> QED  BY <2>1, <2>2, <2>3, HeldSame
  <1>13. ASSUME NEW m \in live, UnmapIdentity(m)  PROVE HeldInv'
    <2>1. /\ UnmapOutside(m.va, m.back) /\ live' = live \ {m}
          /\ UNCHANGED <<mem, mappings, apc, call>>
      BY <1>13 DEF UnmapIdentity, vmmVars
    <2>2. \A n \in live', p \in Records, t \in Slots : WindowMap(n, p, t)' <=> WindowMap(n, p, t)
      BY <1>0, <2>1, LiveQuiet
    <2>3. \A p \in Records, t \in Slots : WindowMap(m, p, t) => Stranded(mappings[p])
      BY <1>0, <2>1, UnmapFinds
    <2>4. \A n \in live, p \in Records, t \in Slots :
            WindowMap(n, p, t) => n \in live' \/ Stranded(mappings[p])
      BY <2>1, <2>3
    <2> QED  BY <2>1, <2>2, <2>4, HeldSame
  <1>14. ASSUME NEW v \in WindowPages, TlbFill(v), UNCHANGED <<pmmVars, acpiVars>>
         PROVE  HeldInv'
    <2>1. UNCHANGED <<mem, mappings, apc, call, live>>  BY <1>14 DEF TlbFill, acpiVars
    <2>2. \A n \in live', p \in Records, t \in Slots : WindowMap(n, p, t)' <=> WindowMap(n, p, t)
      BY <1>0, <2>1, LiveQuiet
    <2> QED  BY <2>1, <2>2, HeldSame
  <1>15. CASE VmmStep /\ UNCHANGED acpiVars
    <2>1. UNCHANGED <<mappings, apc, call, live>>  BY <1>15 DEF acpiVars
    <2>2. \A n \in live, p \in Records, t \in Slots : WindowMap(n, p, t)' <=> WindowMap(n, p, t)
      BY <1>0, <1>15, ContentsVmm
    <2> QED  BY <2>1, <2>2, HeldSame
  <1> QED
    BY <1>1, <1>2, <1>3, <1>4, <1>5, <1>6, <1>7, <1>8, <1>9, <1>10, <1>11, <1>12, <1>13, <1>14,
       <1>15, NextCases

(* A page of a request holds one of its bytes.                              *)
LEMMA PageHasByte ==
  ASSUME NEW pa \in Nat, NEW len \in Nat, len # 0, NEW s \in Slots,
         InWindow(s, PageCount(pa, len)), NEW i \in 0 .. PageCount(pa, len) - 1
  PROVE  \E b \in 0 .. len - 1 : Vpn(SlotAddress(s) + Offset(pa) + b) = PageOf(s + i)
  <1> DEFINE P == PMM_PAGE_SIZE
             off == Offset(pa)
             n == len + off + P - 1
             c == n \div P
             A == SlotAddress(s)
  <1>1. P \in Nat \ {0} /\ ACPI_MAP_WINDOW_BASE \in Nat  BY SizeFacts
  <1>2. off \in 0 .. P - 1
    <2>1. 0 \in Nat  OBVIOUS
    <2> QED  BY <2>1, PlainFacts, Zenon
  <1>3. PageCount(pa, len) = c  BY DEF PageCount
  <1>4. s + i \in Slots /\ s \in Nat /\ i \in Nat /\ i <= c - 1 /\ c \in Nat
    BY <1>3, SizeFacts DEF InWindow, Slots
  <1>5. 0 \in 0 .. P - 1 /\ A \in Nat
    <2>1. 0 \in 0 .. P - 1  BY <1>1
    <2> QED  BY <2>1, SlotFacts
  <1>6. CASE i = 0
    <2>1. A + off + 0 = A + off /\ s + i = s /\ 0 \in 0 .. len - 1
      BY <1>1, <1>2, <1>4, <1>5, <1>6
    <2>2. Vpn(A + off) = PageOf(s)  BY <1>2, SlotFacts
    <2>3. Vpn(A + off + 0) = PageOf(s + i)  BY <2>1, <2>2
    <2> QED  BY <2>1, <2>3
  <1>7. CASE i # 0
    <2>1. Vpn(SlotAddress(s + i)) = PageOf(s + i)  BY <1>4, <1>5, SlotFacts
    <2> HIDE DEF P, off, A
    <2>2. n \in Nat  BY <1>1, <1>2
    <2>3. c * P <= n
      <3> HIDE DEF n
      <3> QED  BY <1>1, <2>2, DivideBy, Zenon
    <2> HIDE DEF c
    <2>4. i * P <= (c - 1) * P /\ (c - 1) * P = c * P - P /\ i * P >= P
      BY <1>1, <1>4, <1>7
    <2>5. i * P \in Nat /\ c * P \in Nat /\ s * P \in Nat /\ (s + i) * P = s * P + i * P
      BY <1>1, <1>4
    <2> DEFINE b == i * P - off
    <2>6. b \in 0 .. len - 1  BY <1>1, <1>2, <2>2, <2>3, <2>4, <2>5
    <2>7. A + off + b = A + i * P  BY <1>1, <1>2, <1>5, <2>5
    <2>8. A + i * P = SlotAddress(s + i)  BY <1>1, <2>5 DEF A, P, SlotAddress
    <2>9. Vpn(A + off + b) = PageOf(s + i)  BY <2>1, <2>7, <2>8
    <2> HIDE DEF b
    <2> QED  BY <2>6, <2>9 DEF A, off
  <1> QED  BY <1>6, <1>7

LEMMA HeldImplies == FullInv /\ HeldInv => OnlyHeldTranslates
  <1> SUFFICES ASSUME BaseInv, ContentsInv, LiveInv, HeldInv, apc = "idle",
                      NEW s \in Slots, NEW v, v = Vpn(SlotAddress(s)),
                      HwWalk(v) # NoPage \/ tlb[v] # NoPage
               PROVE  \/ \E m \in live : \E b \in 0 .. m.len - 1 : v = Vpn(m.va + b)
                      \/ \E r \in Records : Stranded(mappings[r]) /\ s \in RunOf(mappings[r])
    BY DEF OnlyHeldTranslates, FullInv
  <1>0. v = PageOf(s) /\ v \in WindowPages
    <2>1. Vpn(SlotAddress(s)) = PageOf(s)
      <3>1. 0 \in 0 .. PMM_PAGE_SIZE - 1  BY SizeFacts
      <3> QED  BY <3>1, SlotFacts
    <2> QED  BY <2>1, WindowPagesAre
  <1>1. paging_enabled /\ vpc = "done"  BY DEF BaseInv, FramesInv, CallInv
  <1>2. HwOf(mem, v) # NoPage
    <2>1. tlb[v] \in {NoPage, HwOf(mem, v)}  BY <1>0, <1>1 DEF BaseInv, TlbInv
    <2>2. HwWalk(v) = HwOf(mem, v)  BY HwOfFacts, Zenon
    <2> QED  BY <2>1, <2>2
  <1>3. v = PageOf(s)  BY <1>0
  <1>4. s \in map_slots
    <2>1. PICK lv : TreeOK(lv, mem, Taken)  BY <1>1 DEF BaseInv, TreeInv
    <2>2. Seen(mem, v) = HwOf(mem, v)  BY <1>3, <2>1, WindowHigh, SeenByCpu
    <2> QED  BY <1>1, <1>2, <1>3, <2>2 DEF ContentsInv, FreeClear, Clear
  <1>5. PICK r \in Records : s \in RunOf(mappings[r])
    <2>1. CallRun = {}  BY DEF CallRun
    <2> QED  BY <1>4, <2>1 DEF BaseInv, SlotsInv
  <1>6. mappings[r] # NoRecord  BY <1>5, RunFacts
  <1> SUFFICES ASSUME ~Stranded(mappings[r])
               PROVE  \E m \in live : \E b \in 0 .. m.len - 1 : v = Vpn(m.va + b)
    BY <1>5
  <1>7. PICK m \in live, t \in Slots : WindowMap(m, r, t)  BY <1>6 DEF HeldInv
  <1>8. m \in Mapped /\ m.len # 0  BY DEF LiveInv
  <1>9. m.pa \in Nat /\ m.len \in Nat  BY <1>8 DEF Mapped
  <1> DEFINE c == PageCount(m.pa, m.len)
  <1>10. m.va = SlotAddress(t) + Offset(m.pa) /\ InWindow(t, c)
    BY <1>7, <1>8, WindowAddress DEF BaseInv
  <1>11. RunOf(mappings[r]) = SlotRange(t, c)
    <2>1. mappings[r] = RecordFor(t, c)  BY <1>7 DEF WindowMap
    <2> QED  BY <1>10, <2>1, RunFacts
  <1>12. PICK i \in 0 .. c - 1 : s = t + i
    <2> HIDE DEF c
    <2>1. t \in Nat /\ c \in Nat  BY <1>10, SizeFacts DEF InWindow, Slots
    <2>2. s \in t .. t + c - 1  BY <1>5, <1>11 DEF SlotRange
    <2>3. s - t \in 0 .. c - 1 /\ s = t + (s - t)  BY <2>1, <2>2
    <2> QED  BY <2>3
  <1>13. PICK b \in 0 .. m.len - 1 : Vpn(SlotAddress(t) + Offset(m.pa) + b) = PageOf(t + i)
    BY <1>8, <1>9, <1>10, <1>12, PageHasByte
  <1> QED  BY <1>3, <1>7, <1>10, <1>12, <1>13

(* OnlyHeldTranslates: between calls no page of the window translates, in   *)
(* the tables or in the TLB, unless uACPI holds a mapping with a byte in it *)
(* or has records of a length it gives back wrongly.  A map call that       *)
(* failed half way and an unmap leave nothing behind.                       *)
THEOREM OnlyHeldCorrect == Spec => []OnlyHeldTranslates
  <1>1. Init => FullInv /\ HeldInv  BY FullInit, HeldInit
  <1>2. (FullInv /\ HeldInv) /\ [Next]_vars => (FullInv /\ HeldInv)'  BY FullStep, HeldStep
  <1> QED  BY <1>1, <1>2, HeldImplies, PTL DEF Spec

=============================================================================
