----------------------------- MODULE HeapProofs -----------------------------
(***************************************************************************)
(* The heap keeps its blocks, its headers and the data of its callers, for  *)
(* every size of the pool and of a header, every alignment, every number of *)
(* callers and every sequence of calls.                                     *)
(***************************************************************************)
EXTENDS Heap, WellFoundedInduction, TLAPS

-----------------------------------------------------------------------------
(* The inductive invariant, over a heap: a record of list and bytes.        *)

Block == [size : Nat, free : BOOLEAN, next : Nat \cup {NULL}]

End(l, b) == b + HEADER + l[b].size

Payload(l, b) == Range(b + HEADER, l[b].size)

Used(l) == {b \in DOMAIN l : ~l[b].free}

(* Each block ends inside the pool, where the next one of the list begins.  *)
BlockOK(l, b) ==
  /\ l[b] \in Block /\ Aligned(b) /\ Aligned(l[b].size) /\ End(l, b) <= POOL_SIZE
  /\ l[b].next = NULL => End(l, b) = POOL_SIZE
  /\ l[b].next # NULL => l[b].next = End(l, b) /\ End(l, b) \in DOMAIN l

(* The blocks are disjoint, so that none hides behind another.              *)
ListOK(l) ==
  /\ 0 \in DOMAIN l /\ DOMAIN l \subseteq Nat
  /\ \A b \in DOMAIN l : BlockOK(l, b)
  /\ \A b, c \in DOMAIN l : b < c => End(l, b) <= c

HeadersOK(l, f) == \A b \in DOMAIN l : \A i \in Range(b, HEADER) : f[i] = Head

HeapOK(h) ==
  /\ h = [list |-> h.list, bytes |-> h.bytes]
  /\ ListOK(h.list) /\ DOMAIN h.bytes = Bytes /\ HeadersOK(h.list, h.bytes)

(* The used blocks are those of the callers L, one each.                    *)
LiveOK(l, L) ==
  /\ \A a \in DOMAIN L :
       /\ L[a] = [ptr |-> L[a].ptr, len |-> L[a].len, tag |-> L[a].tag]
       /\ L[a].ptr \in Nat /\ L[a].len \in Nat
       /\ L[a].ptr - HEADER \in Used(l) /\ L[a].len <= l[L[a].ptr - HEADER].size
  /\ \A b \in Used(l) : \E a \in DOMAIN L : L[a].ptr - HEADER = b
  /\ \A a, c \in DOMAIN L : a # c => L[a].ptr # L[c].ptr

DataOK(f, L) ==
  \A a \in DOMAIN L : \A i \in Range(L[a].ptr, L[a].len) : f[i] = L[a].tag

(* No two neighbours are both free.                                         *)
Coalesced(l) ==
  \A b \in DOMAIN l : ~(l[b].free /\ l[b].next # NULL /\ l[l[b].next].free)

HeapInv ==
  /\ initialized \in BOOLEAN /\ DOMAIN bytes = Bytes
  /\ initialized => HeapOK([list |-> list, bytes |-> bytes])
  /\ ~initialized => DOMAIN list = {} /\ DOMAIN live = {}
  /\ LiveOK(list, live) /\ DataOK(bytes, live)
  /\ ret.op = "free" => Coalesced(list)

(* From one heap to the next: the used blocks outside S stay, with their    *)
(* contents.                                                                *)
KeepsBut(h, g, S) ==
  /\ Used(g.list) \ S = Used(h.list) \ S
  /\ \A b \in Used(h.list) \ S :
       /\ g.list[b].size = h.list[b].size
       /\ \A i \in Payload(h.list, b) : g.bytes[i] = h.bytes[i]

-----------------------------------------------------------------------------
(* Induction and arithmetic.                                                *)

LEMMA LeastNat ==
  ASSUME NEW T, T \subseteq Nat, T # {}
  PROVE  \E x \in T : \A y \in T : x <= y
  <1>1. \E x \in T : \A y \in T : ~(<<y, x>> \in OpToRel(<, Nat))
    BY NatLessThanWellFounded, WFMin
  <1>2. ASSUME NEW x \in Nat, NEW y \in Nat, x < y  PROVE <<x, y>> \in OpToRel(<, Nat)
    <2>1. <<x, y>> \in Nat \X Nat  OBVIOUS
    <2>2. <<x, y>>[1] < <<x, y>>[2]  BY <1>2
    <2> QED  BY <2>1, <2>2, Zenon DEF OpToRel
  <1>3. \E x \in T : \A y \in T : ~(y < x)  BY <1>1, <1>2, Zenon
  <1> QED  BY <1>3

LEMMA UpTo ==
  ASSUME NEW S, 0 \in S, \A n \in Nat : n \in S => n + 1 \in S
  PROVE  \A n \in Nat : n \in S
  <1> SUFFICES ASSUME Nat \ S # {}  PROVE FALSE
    OBVIOUS
  <1>1. PICK x \in Nat \ S : \A y \in Nat \ S : x <= y  BY LeastNat
  <1>2. x - 1 \in Nat  BY <1>1
  <1> QED  BY <1>1, <1>2

LEMMA SizeFacts ==
  /\ ALLOCATION_ALIGNMENT \in Nat \ {0} /\ HEADER \in Nat \ {0} /\ POOL_SIZE \in Nat \ {0}
  /\ POOL_SIZE >= HEADER /\ SIZE_MAX \in Nat
  /\ Aligned(HEADER) /\ Aligned(POOL_SIZE) /\ Aligned(0) /\ NULL \notin Nat
  BY HeapAssumption DEF NULL, Aligned

LEMMA AlignedIs ==
  ASSUME NEW x \in Nat
  PROVE  Aligned(x) <=> \E k \in Nat : x = k * ALLOCATION_ALIGNMENT
  <1> DEFINE A == ALLOCATION_ALIGNMENT
  <1>1. A \in Nat \ {0}  BY SizeFacts
  <1> HIDE DEF A
  <1>2. x \div A \in Nat /\ x = (x \div A) * A + (x % A) /\ x % A \in 0 .. A - 1  BY <1>1
  <1>3. ASSUME x % A = 0  PROVE \E k \in Nat : x = k * A
    <2>1. (x \div A) * A + 0 = (x \div A) * A
      <3> DEFINE q == x \div A
      <3>1. q \in Nat  BY <1>2
      <3> HIDE DEF q
      <3>2. q * A + 0 = q * A  BY <1>1, <3>1
      <3> QED  BY <3>2 DEF q
    <2> QED  BY <1>2, <1>3, <2>1
  <1>4. ASSUME NEW k \in Nat, x = k * A  PROVE x % A = 0
    <2> DEFINE q == x \div A
               r == x % A
    <2>1. q \in Nat /\ x = q * A + r /\ r \in 0 .. A - 1  BY <1>2
    <2> HIDE DEF q, r
    <2>2. ASSUME q + 1 <= k  PROVE FALSE
      <3>1. (q + 1) * A <= k * A  BY <1>1, <2>1, <2>2
      <3>2. (q + 1) * A = q * A + A /\ q * A \in Nat  BY <1>1, <2>1
      <3> QED  BY <1>1, <1>4, <2>1, <3>1, <3>2
    <2>3. ASSUME k + 1 <= q  PROVE FALSE
      <3>1. (k + 1) * A <= q * A  BY <1>1, <2>1, <2>3
      <3>2. (k + 1) * A = k * A + A /\ k * A \in Nat /\ q * A \in Nat  BY <1>1, <2>1
      <3> QED  BY <1>1, <1>4, <2>1, <3>1, <3>2
    <2>4. q = k  BY <2>1, <2>2, <2>3
    <2>5. k * A \in Nat  BY <1>1
    <2>6. r = 0  BY <1>4, <2>1, <2>4, <2>5
    <2> QED  BY <2>6 DEF r
  <1> QED  BY <1>3, <1>4 DEF Aligned, A

LEMMA AlignedSum ==
  ASSUME NEW x \in Nat, NEW y \in Nat, Aligned(x), Aligned(y)
  PROVE  Aligned(x + y) /\ (y <= x => Aligned(x - y))
  <1> DEFINE A == ALLOCATION_ALIGNMENT
  <1>1. A \in Nat \ {0}  BY SizeFacts
  <1>2. PICK k \in Nat : x = k * A  BY AlignedIs
  <1>3. PICK j \in Nat : y = j * A  BY AlignedIs
  <1>4. Aligned(x + y)
    <2>1. k + j \in Nat /\ x + y \in Nat  OBVIOUS
    <2> HIDE DEF A
    <2>2. x + y = (k + j) * A  BY <1>1, <1>2, <1>3
    <2> QED  BY <2>1, <2>2, AlignedIs DEF A
  <1>5. ASSUME y <= x  PROVE Aligned(x - y)
    <2> HIDE DEF A
    <2>1. ASSUME k < j  PROVE FALSE
      <3>1. (k + 1) * A <= j * A /\ (k + 1) * A = k * A + A /\ k * A \in Nat  BY <1>1, <2>1
      <3> QED  BY <1>1, <1>2, <1>3, <1>5, <3>1
    <2>2. k - j \in Nat /\ x - y \in Nat  BY <1>5, <2>1
    <2>3. x - y = (k - j) * A  BY <1>1, <1>2, <1>3
    <2> QED  BY <2>2, <2>3, AlignedIs DEF A
  <1> QED  BY <1>4, <1>5

(* align_size rounds up, or returns 0.                                      *)
LEMMA AlignSize ==
  ASSUME NEW size \in Nat
  PROVE  /\ align_size(size) \in Nat /\ Aligned(align_size(size))
         /\ align_size(size) # 0 => size <= align_size(size)
  <1> DEFINE A == ALLOCATION_ALIGNMENT
             n == size + (A - 1)
  <1>1. A \in Nat \ {0} /\ SIZE_MAX \in Nat  BY SizeFacts
  <1>2. CASE size > SIZE_MAX - (A - 1)
    <2>1. align_size(size) = 0  BY <1>2 DEF align_size
    <2> QED  BY <2>1, SizeFacts
  <1>3. CASE ~(size > SIZE_MAX - (A - 1))
    <2>1. align_size(size) = (n \div A) * A  BY <1>3 DEF align_size
    <2> HIDE DEF A
    <2>2. n \in Nat  BY <1>1
    <2>3. size = n - A + 1  BY <1>1
    <2> HIDE DEF n
    <2> DEFINE q == n \div A
    <2>4. q \in Nat /\ n < q * A + A  BY <1>1, <2>2
    <2> HIDE DEF q
    <2>5. q * A \in Nat  BY <1>1, <2>4
    <2>6. Aligned(q * A)  BY <2>4, <2>5, AlignedIs DEF A
    <2>7. size <= q * A  BY <1>1, <2>2, <2>3, <2>4, <2>5
    <2> QED  BY <2>1, <2>5, <2>6, <2>7 DEF q
  <1> QED  BY <1>2, <1>3

-----------------------------------------------------------------------------
(* The recursive functions are what their equations say.                    *)

LEMMA SweepEquation ==
  ASSUME NEW h
  PROVE  /\ Sweep(h)[0] = [heap |-> h, current |-> 0]
         /\ \A n \in 1 .. POOL_SIZE : Sweep(h)[n] = SweepStep(Sweep(h)[n - 1])
  <1> DEFINE First == [heap |-> h, current |-> 0]
             Eq(f, k) == f = [n \in 0 .. k |-> IF n = 0 THEN First ELSE SweepStep(f[n - 1])]
             S == {k \in Nat : \E f : Eq(f, k)}
  <1>0. POOL_SIZE \in Nat \ {0}  BY SizeFacts
  <1>1. 0 \in S
    <2> DEFINE g == [n \in 0 .. 0 |-> First]
    <2>1. Eq(g, 0)  OBVIOUS
    <2> QED  BY <2>1
  <1>2. ASSUME NEW k \in Nat, k \in S  PROVE k + 1 \in S
    <2>1. PICK g : Eq(g, k)  BY <1>2
    <2> DEFINE f == [n \in 0 .. k + 1 |-> IF n = k + 1 THEN SweepStep(g[k]) ELSE g[n]]
    <2>2. Eq(f, k + 1)
      <3> HIDE DEF First
      <3>1. \A n \in 0 .. k + 1 : n # 0 => n - 1 \in 0 .. k /\ f[n - 1] = g[n - 1]  OBVIOUS
      <3>2. \A n \in 0 .. k : g[n] = IF n = 0 THEN First ELSE SweepStep(g[n - 1])
        BY <2>1
      <3>3. \A n \in 0 .. k + 1 : f[n] = IF n = 0 THEN First ELSE SweepStep(f[n - 1])
        BY <3>1, <3>2
      <3> QED  BY <3>3
    <2> HIDE DEF f, Eq
    <2> QED  BY <2>2
  <1>3. POOL_SIZE \in S
    <2> HIDE DEF S
    <2> QED  BY <1>0, <1>1, <1>2, UpTo
  <1>4. \E f : Eq(f, POOL_SIZE)  BY <1>3
  <1>5. Sweep(h) = CHOOSE f : Eq(f, POOL_SIZE)  BY DEF Sweep
  <1>6. Eq(Sweep(h), POOL_SIZE)
    <2> HIDE DEF Eq
    <2> QED  BY <1>4, <1>5
  <1>7. \A n \in 0 .. POOL_SIZE :
          Sweep(h)[n] = IF n = 0 THEN First ELSE SweepStep(Sweep(h)[n - 1])
    BY <1>6
  <1> HIDE DEF First
  <1>8. 0 \in 0 .. POOL_SIZE /\ \A n \in 1 .. POOL_SIZE : n \in 0 .. POOL_SIZE /\ n # 0
    BY <1>0
  <1> QED  BY <1>7, <1>8 DEF First

LEMMA ChainEquation ==
  ASSUME NEW h
  PROVE  /\ DOMAIN Chain(h) = 0 .. POOL_SIZE /\ Chain(h)[0] = 0
         /\ \A n \in 1 .. POOL_SIZE :
              Chain(h)[n] = IF Chain(h)[n - 1] = NULL THEN NULL
                            ELSE h.list[Chain(h)[n - 1]].next
  <1> DEFINE Link(p) == IF p = NULL THEN NULL ELSE h.list[p].next
             Eq(f, k) == f = [n \in 0 .. k |-> IF n = 0 THEN 0 ELSE Link(f[n - 1])]
             S == {k \in Nat : \E f : Eq(f, k)}
  <1>0. POOL_SIZE \in Nat \ {0}  BY SizeFacts
  <1>1. 0 \in S
    <2> DEFINE g == [n \in 0 .. 0 |-> 0]
    <2>1. Eq(g, 0)  OBVIOUS
    <2> QED  BY <2>1
  <1>2. ASSUME NEW k \in Nat, k \in S  PROVE k + 1 \in S
    <2>1. PICK g : Eq(g, k)  BY <1>2
    <2> DEFINE f == [n \in 0 .. k + 1 |-> IF n = k + 1 THEN Link(g[k]) ELSE g[n]]
    <2>2. Eq(f, k + 1)
      <3> HIDE DEF Link
      <3>1. \A n \in 0 .. k + 1 : n # 0 => n - 1 \in 0 .. k /\ f[n - 1] = g[n - 1]  OBVIOUS
      <3>2. \A n \in 0 .. k : g[n] = IF n = 0 THEN 0 ELSE Link(g[n - 1])
        BY <2>1
      <3>3. \A n \in 0 .. k + 1 : f[n] = IF n = 0 THEN 0 ELSE Link(f[n - 1])
        BY <3>1, <3>2
      <3> QED  BY <3>3
    <2> HIDE DEF f, Eq
    <2> QED  BY <2>2
  <1>3. POOL_SIZE \in S
    <2> HIDE DEF S
    <2> QED  BY <1>0, <1>1, <1>2, UpTo
  <1>4. \E f : Eq(f, POOL_SIZE)  BY <1>3
  <1>5. Chain(h) = CHOOSE f : f = [n \in 0 .. POOL_SIZE |->
                                    IF n = 0 THEN 0
                                    ELSE IF f[n - 1] = NULL THEN NULL
                                    ELSE h.list[f[n - 1]].next]
    BY DEF Chain
  <1>6. Eq(Chain(h), POOL_SIZE)
    <2>1. Chain(h) = CHOOSE f : Eq(f, POOL_SIZE)  BY <1>5
    <2> HIDE DEF Eq
    <2> QED  BY <1>4, <2>1
  <1>7. /\ DOMAIN Chain(h) = 0 .. POOL_SIZE
        /\ \A n \in 0 .. POOL_SIZE :
             Chain(h)[n] = IF n = 0 THEN 0 ELSE Link(Chain(h)[n - 1])
    <2> HIDE DEF Link
    <2> QED  BY <1>6
  <1>8. 0 \in 0 .. POOL_SIZE /\ \A n \in 1 .. POOL_SIZE : n \in 0 .. POOL_SIZE /\ n # 0
    BY <1>0
  <1> QED  BY <1>7, <1>8

-----------------------------------------------------------------------------
(* Lists of blocks.                                                         *)

LEMMA BlockFacts ==
  ASSUME NEW l, ListOK(l), NEW b \in DOMAIN l
  PROVE  /\ b \in Nat /\ l[b].size \in Nat /\ l[b].free \in BOOLEAN
         /\ l[b].next \in Nat \cup {NULL}
         /\ l[b] = [size |-> l[b].size, free |-> l[b].free, next |-> l[b].next]
         /\ End(l, b) = b + HEADER + l[b].size /\ End(l, b) \in Nat /\ b < End(l, b)
         /\ End(l, b) <= POOL_SIZE /\ Aligned(b) /\ Aligned(l[b].size)
         /\ Range(b, HEADER) \subseteq Bytes /\ Payload(l, b) \subseteq Bytes
  <1>1. /\ b \in Nat /\ l[b] \in Block /\ End(l, b) <= POOL_SIZE
        /\ Aligned(b) /\ Aligned(l[b].size)
    BY DEF ListOK, BlockOK
  <1>2. /\ l[b].size \in Nat /\ l[b].free \in BOOLEAN /\ l[b].next \in Nat \cup {NULL}
        /\ l[b] = [size |-> l[b].size, free |-> l[b].free, next |-> l[b].next]
    BY <1>1 DEF Block
  <1>3. End(l, b) = b + HEADER + l[b].size  BY DEF End
  <1>4. End(l, b) \in Nat /\ b < End(l, b)  BY <1>1, <1>2, <1>3, SizeFacts
  <1>5. Range(b, HEADER) \subseteq Bytes /\ Payload(l, b) \subseteq Bytes
    BY <1>1, <1>2, <1>3, SizeFacts DEF Range, Payload, Bytes
  <1> QED  BY <1>1, <1>2, <1>3, <1>4, <1>5

(* A byte belongs to one block.                                             *)
LEMMA BlocksApart ==
  ASSUME NEW l, ListOK(l), NEW b \in DOMAIN l, NEW c \in DOMAIN l, NEW i \in Nat,
         b <= i, i < End(l, b), c <= i, i < End(l, c)
  PROVE  b = c
  <1>1. b \in Nat /\ c \in Nat /\ End(l, b) \in Nat /\ End(l, c) \in Nat  BY BlockFacts
  <1>2. b < c => End(l, b) <= c  BY DEF ListOK
  <1>3. c < b => End(l, c) <= b  BY DEF ListOK
  <1> QED  BY <1>1, <1>2, <1>3

(* The lists that absorbing a block and splitting one leave.                *)
Merged(l, b, n) ==
  Drop([l EXCEPT ![b].size = @ + HEADER + l[n].size, ![b].next = l[n].next], n)

Cut(l, b, size, rest) ==
  Put(Put(l, rest, [size |-> l[b].size - size - HEADER, free |-> TRUE, next |-> l[b].next]),
      b, [l[b] EXCEPT !.size = size, !.next = rest])

(* A block takes over the one after it.                                     *)
LEMMA AbsorbList ==
  ASSUME NEW l, ListOK(l), NEW b \in DOMAIN l, NEW n, n = l[b].next, n # NULL, NEW m,
         m = Merged(l, b, n)
  PROVE  /\ ListOK(m) /\ DOMAIN m = DOMAIN l \ {n} /\ b \in DOMAIN m /\ n \in DOMAIN l
         /\ m[b].free = l[b].free /\ m[b].size = l[b].size + HEADER + l[n].size
         /\ m[b].next = l[n].next /\ End(m, b) = End(l, n) /\ End(l, b) < End(m, b)
         /\ \A c \in DOMAIN m : c # b => m[c] = l[c]
  <1>1. n = End(l, b) /\ n \in DOMAIN l  BY DEF ListOK, BlockOK
  <1>2. /\ b \in Nat /\ l[b].size \in Nat /\ l[b].free \in BOOLEAN /\ n \in Nat
        /\ l[b] = [size |-> l[b].size, free |-> l[b].free, next |-> l[b].next]
        /\ n = b + HEADER + l[b].size /\ b < n
    BY <1>1, BlockFacts
  <1>3. /\ l[n].size \in Nat /\ l[n].free \in BOOLEAN /\ l[n].next \in Nat \cup {NULL}
        /\ End(l, n) = n + HEADER + l[n].size /\ End(l, n) \in Nat /\ End(l, n) <= POOL_SIZE
        /\ Aligned(l[n].size) /\ Aligned(l[b].size) /\ n < End(l, n)
    BY <1>1, BlockFacts
  <1> DEFINE x == [l EXCEPT ![b].size = @ + HEADER + l[n].size, ![b].next = l[n].next]
             new == [size |-> l[b].size + HEADER + l[n].size, free |-> l[b].free,
                     next |-> l[n].next]
  <1>4. DOMAIN x = DOMAIN l /\ \A c \in DOMAIN l : c # b => x[c] = l[c]  OBVIOUS
  <1>5. x[b] = new
    <2>1. x[b] = [l[b] EXCEPT !.size = l[b].size + HEADER + l[n].size, !.next = l[n].next]
      OBVIOUS
    <2> QED  BY <1>2, <2>1
  <1> HIDE DEF x, new
  <1>6. /\ DOMAIN m = DOMAIN l \ {n} /\ \A c \in DOMAIN m : m[c] = x[c]
    BY DEF Drop, Merged, x
  <1>7. b \in DOMAIN m /\ m[b] = new /\ \A c \in DOMAIN m : c # b => m[c] = l[c]
    <2>1. b # n  BY <1>2
    <2> QED  BY <1>4, <1>5, <1>6, <2>1
  <1> USE DEF new
  <1>8. End(m, b) = End(l, n)
    BY <1>2, <1>3, <1>7, SizeFacts DEF End
  <1>9. \A c \in DOMAIN m : c # b => End(m, c) = End(l, c)  BY <1>7 DEF End
  <1>10. BlockOK(m, b)
    <2>1. m[b] \in Block
      <3>1. l[b].size + HEADER + l[n].size \in Nat  BY <1>2, <1>3, SizeFacts
      <3> QED  BY <1>2, <1>3, <1>7, <3>1 DEF Block
    <2>2. Aligned(m[b].size)
      <3>1. l[b].size + HEADER \in Nat /\ HEADER \in Nat  BY <1>2, SizeFacts
      <3>2. Aligned(l[b].size + HEADER)  BY <1>2, <1>3, <3>1, AlignedSum, SizeFacts
      <3>3. Aligned(l[b].size + HEADER + l[n].size)  BY <1>3, <3>1, <3>2, AlignedSum
      <3> QED  BY <1>7, <3>3
    <2>3. Aligned(b)  BY BlockFacts
    <2>4. l[n].next = NULL => End(l, n) = POOL_SIZE  BY <1>1 DEF ListOK, BlockOK
    <2>5. ASSUME l[n].next # NULL  PROVE l[n].next = End(l, n) /\ End(l, n) \in DOMAIN m
      <3>1. l[n].next = End(l, n) /\ End(l, n) \in DOMAIN l  BY <1>1, <2>5 DEF ListOK, BlockOK
      <3> QED  BY <1>3, <1>6, <3>1
    <2>6. m[b].next = l[n].next  BY <1>7
    <2> QED  BY <1>3, <1>8, <2>1, <2>2, <2>3, <2>4, <2>5, <2>6 DEF BlockOK
  <1>11. ASSUME NEW c \in DOMAIN m, c # b  PROVE BlockOK(m, c)
    <2>1. c \in DOMAIN l /\ c # n /\ m[c] = l[c] /\ End(m, c) = End(l, c)
      BY <1>6, <1>7, <1>9, <1>11
    <2>2. BlockOK(l, c)  BY <2>1 DEF ListOK
    <2>3. l[c].next # NULL => End(l, c) # n
      <3> SUFFICES ASSUME End(l, c) = n  PROVE FALSE
        OBVIOUS
      <3>1. c \in Nat /\ End(l, c) \in Nat /\ c < End(l, c)
        BY <2>1, BlockFacts
      <3>2. n - 1 \in Nat /\ b <= n - 1 /\ n - 1 < End(l, b) /\ c <= n - 1 /\ n - 1 < End(l, c)
        BY <1>1, <1>2, <3>1
      <3> QED  BY <1>11, <2>1, <3>2, BlocksApart
    <2> QED  BY <1>6, <2>1, <2>2, <2>3 DEF BlockOK
  <1>12. ASSUME NEW c \in DOMAIN m, NEW d \in DOMAIN m, c < d  PROVE End(m, c) <= d
    <2>1. c \in DOMAIN l /\ d \in DOMAIN l /\ d # n /\ c # n  BY <1>6
    <2>2. CASE c # b
      <3>1. End(l, c) <= d  BY <1>12, <2>1 DEF ListOK
      <3> QED  BY <1>9, <2>2, <3>1
    <2>3. CASE c = b
      <3>1. End(l, b) <= d /\ d \in Nat  BY <1>12, <2>1, <2>3 DEF ListOK
      <3>2. n < d  BY <1>1, <1>2, <2>1, <3>1
      <3>3. End(l, n) <= d  BY <1>1, <2>1, <3>2 DEF ListOK
      <3> QED  BY <1>8, <2>3, <3>3
    <2> QED  BY <2>2, <2>3
  <1>13. 0 \in DOMAIN m /\ DOMAIN m \subseteq Nat
    <2>1. n # 0  BY <1>2
    <2> QED  BY <1>6, <2>1 DEF ListOK
  <1>14. ListOK(m)  BY <1>10, <1>11, <1>12, <1>13 DEF ListOK
  <1>15. End(l, b) < End(m, b)  BY <1>1, <1>3, <1>8
  <1>16. m[b].free = l[b].free /\ m[b].size = l[b].size + HEADER + l[n].size /\ m[b].next = l[n].next
    BY <1>7
  <1> HIDE DEF new
  <1> QED  BY <1>1, <1>6, <1>7, <1>8, <1>14, <1>15, <1>16


LEMMA HeaderUpdate ==
  ASSUME NEW e, e = [size |-> e.size, free |-> e.free, next |-> e.next], NEW size, NEW rest
  PROVE  [e EXCEPT !.size = size, !.next = rest] = [size |-> size, free |-> e.free, next |-> rest]
  <1>1. PICK g : g = [e EXCEPT !.size = size, !.next = rest]  OBVIOUS
  <1>2. g = [size |-> size, free |-> e.free, next |-> rest]  BY <1>1
  <1> QED  BY <1>1, <1>2

(* A block gives up the part behind size bytes.                             *)
LEMMA SplitList ==
  ASSUME NEW l, ListOK(l), NEW b \in DOMAIN l, NEW size \in Nat, Aligned(size),
         l[b].size >= size + HEADER + ALLOCATION_ALIGNMENT,
         NEW rest, rest = b + HEADER + size, NEW m,
         m = Cut(l, b, size, rest)
  PROVE  /\ ListOK(m) /\ DOMAIN m = DOMAIN l \cup {rest} /\ rest \notin DOMAIN l
         /\ m[b].size = size /\ m[b].free = l[b].free /\ m[rest].free
         /\ \A c \in DOMAIN l : c # b => m[c] = l[c]
         /\ End(m, rest) = End(l, b) /\ rest \in Nat /\ b + HEADER <= rest
         /\ rest + HEADER <= End(l, b)
  <1> DEFINE R == [size |-> l[b].size - size - HEADER, free |-> TRUE, next |-> l[b].next]
             N == [size |-> size, free |-> l[b].free, next |-> rest]
             A == ALLOCATION_ALIGNMENT
             rem == l[b].size - size - HEADER
  <1>0. HEADER \in Nat \ {0} /\ A \in Nat \ {0} /\ POOL_SIZE \in Nat  BY SizeFacts
  <1>1. /\ b \in Nat /\ l[b].size \in Nat /\ l[b].free \in BOOLEAN
        /\ l[b].next \in Nat \cup {NULL}
        /\ l[b] = [size |-> l[b].size, free |-> l[b].free, next |-> l[b].next]
        /\ End(l, b) = b + HEADER + l[b].size /\ End(l, b) \in Nat
        /\ End(l, b) <= POOL_SIZE /\ Aligned(b) /\ Aligned(l[b].size)
    BY BlockFacts
  <1>2. /\ rest \in Nat /\ b < rest /\ b + HEADER <= rest /\ rest + HEADER <= End(l, b)
        /\ rest < End(l, b) /\ rem \in Nat
    BY <1>0, <1>1
  <1>3. rest \notin DOMAIN l
    <2> SUFFICES ASSUME rest \in DOMAIN l  PROVE FALSE
      OBVIOUS
    <2>1. rest < End(l, rest) /\ rest <= rest /\ b <= rest  BY <1>1, <1>2, BlockFacts
    <2>2. b = rest  BY <1>2, <2>1, BlocksApart
    <2> QED  BY <1>1, <1>2, <2>2
  <1>4. [l[b] EXCEPT !.size = size, !.next = rest] = N
    <2>1. PICK e : e = l[b]  OBVIOUS
    <2>2. e = [size |-> e.size, free |-> e.free, next |-> e.next]  BY <1>1, <2>1
    <2>3. [e EXCEPT !.size = size, !.next = rest] = [size |-> size, free |-> e.free, next |-> rest]
      BY <2>2, HeaderUpdate
    <2> QED  BY <2>1, <2>3
  <1> HIDE DEF R, N
  <1>5. m = Put(Put(l, rest, R), b, N)  BY <1>4 DEF R, Cut
  <1>6. /\ DOMAIN m = DOMAIN l \cup {rest} /\ m[b] = N
        /\ \A c \in DOMAIN m : c # b /\ c # rest => m[c] = l[c]
    BY <1>5 DEF Put
  <1>7. m[rest] = R
    <2>1. rest # b  BY <1>1, <1>2
    <2> QED  BY <1>5, <2>1 DEF Put
  <1>8. \A c \in DOMAIN l : c # b => m[c] = l[c]  BY <1>3, <1>6
  <1>9. /\ m[b].size = size /\ m[b].free = l[b].free /\ m[b].next = rest
        /\ m[rest].size = rem /\ m[rest].free = TRUE /\ m[rest].next = l[b].next
    BY <1>6, <1>7 DEF R, N
  <1>10. End(m, b) = rest /\ End(m, rest) = End(l, b)
    BY <1>0, <1>1, <1>2, <1>9 DEF End
  <1>11. \A c \in DOMAIN l : c # b => End(m, c) = End(l, c)  BY <1>8 DEF End
  <1>12. BlockOK(m, b)
    <2>1. m[b] \in Block  BY <1>1, <1>2, <1>6 DEF Block, N
    <2>2. rest # NULL  BY <1>2, SizeFacts
    <2>3. rest <= POOL_SIZE  BY <1>0, <1>1, <1>2
    <2> QED  BY <1>1, <1>6, <1>9, <1>10, <2>1, <2>2, <2>3 DEF BlockOK
  <1>13. BlockOK(m, rest)
    <2>1. m[rest] \in Block
      <3> DEFINE nx == l[b].next
      <3>1. nx \in Nat \cup {NULL}  BY <1>1
      <3> HIDE DEF nx, rem
      <3>2. [size |-> rem, free |-> TRUE, next |-> nx] \in Block  BY <1>2, <3>1 DEF Block
      <3> QED  BY <1>7, <3>2 DEF R, nx, rem
    <2>2. Aligned(rest)
      <3>1. HEADER \in Nat /\ b + HEADER \in Nat  BY <1>0, <1>1
      <3>2. Aligned(b + HEADER)  BY <1>1, <3>1, SizeFacts, AlignedSum
      <3> QED  BY <3>1, <3>2, AlignedSum
    <2>3. Aligned(rem)
      <3>1. HEADER \in Nat /\ size + HEADER \in Nat /\ size + HEADER <= l[b].size
            /\ rem = l[b].size - (size + HEADER)
        BY <1>0, <1>1
      <3>2. Aligned(size + HEADER)  BY <3>1, SizeFacts, AlignedSum
      <3>3. Aligned(l[b].size - (size + HEADER))  BY <1>1, <3>1, <3>2, AlignedSum
      <3> QED  BY <3>1, <3>3
    <2>4. BlockOK(l, b)  BY DEF ListOK
    <2> QED  BY <1>1, <1>6, <1>9, <1>10, <2>1, <2>2, <2>3, <2>4 DEF BlockOK
  <1>14. ASSUME NEW c \in DOMAIN m, c # b, c # rest  PROVE BlockOK(m, c)
    <2>1. c \in DOMAIN l /\ m[c] = l[c] /\ End(m, c) = End(l, c)
      BY <1>6, <1>11, <1>14
    <2>2. BlockOK(l, c)  BY <2>1 DEF ListOK
    <2> QED  BY <1>6, <2>1, <2>2 DEF BlockOK
  <1>15. DOMAIN m \subseteq Nat /\ 0 \in DOMAIN m  BY <1>2, <1>6 DEF ListOK
  <1>16. ASSUME NEW c \in DOMAIN m, NEW d \in DOMAIN m, c < d  PROVE End(m, c) <= d
    <2>1. c \in Nat /\ d \in Nat  BY <1>15
    <2>2. CASE c \in DOMAIN l /\ d \in DOMAIN l
      <3>1. End(l, c) <= d  BY <1>16, <2>2 DEF ListOK
      <3>2. CASE c # b  BY <1>11, <2>2, <3>1, <3>2
      <3>3. CASE c = b  BY <1>1, <1>2, <1>10, <2>1, <3>1, <3>3
      <3> QED  BY <3>2, <3>3
    <2>3. CASE c = rest
      <3>1. d \in DOMAIN l  BY <1>6, <1>16, <2>1, <2>3
      <3>2. b < d  BY <1>1, <1>2, <1>16, <2>1, <2>3
      <3>3. End(l, b) <= d  BY <3>1, <3>2 DEF ListOK
      <3> QED  BY <1>10, <2>3, <3>3
    <2>4. CASE c \in DOMAIN l /\ d = rest
      <3>1. CASE c = b  BY <1>2, <1>10, <2>4, <3>1
      <3>2. CASE c # b
        <4>1. End(l, c) \in Nat  BY <2>4, BlockFacts
        <4>2. ASSUME rest < End(l, c)  PROVE FALSE
          <5>1. c <= rest /\ b <= rest  BY <1>1, <1>2, <1>16, <2>1, <2>4
          <5> QED  BY <1>2, <2>4, <3>2, <4>2, <5>1, BlocksApart
        <4>3. End(l, c) <= rest  BY <1>2, <4>1, <4>2
        <4>4. End(m, c) = End(l, c)  BY <1>11, <2>4, <3>2
        <4> QED  BY <2>4, <4>3, <4>4
      <3> QED  BY <3>1, <3>2
    <2> QED  BY <1>6, <2>2, <2>3, <2>4
  <1>17. ListOK(m)  BY <1>12, <1>13, <1>14, <1>15, <1>16 DEF ListOK
  <1> QED  BY <1>2, <1>3, <1>6, <1>8, <1>9, <1>10, <1>17

(* A block changes its mark.                                                *)
LEMMA MarkList ==
  ASSUME NEW l, ListOK(l), NEW b \in DOMAIN l, NEW v \in BOOLEAN, NEW m,
         m = [l EXCEPT ![b].free = v]
  PROVE  /\ ListOK(m) /\ DOMAIN m = DOMAIN l /\ m[b].free = v /\ m[b].size = l[b].size
         /\ \A c \in DOMAIN l : c # b => m[c] = l[c]
  <1>1. l[b] = [size |-> l[b].size, free |-> l[b].free, next |-> l[b].next] /\ l[b] \in Block
    BY BlockFacts DEF ListOK, BlockOK
  <1>2. m[b] = [l[b] EXCEPT !.free = v] /\ DOMAIN m = DOMAIN l
        /\ \A c \in DOMAIN l : c # b => m[c] = l[c]
    OBVIOUS
  <1>3. m[b] = [size |-> l[b].size, free |-> v, next |-> l[b].next]  BY <1>1, <1>2
  <1>4. m[b].size = l[b].size /\ m[b].free = v /\ m[b].next = l[b].next  BY <1>3
  <1>5. m[b] \in Block  BY <1>1, <1>3 DEF Block
  <1>6. \A c \in DOMAIN l : End(m, c) = End(l, c)
    <2>1. \A c \in DOMAIN l : m[c].size = l[c].size  BY <1>2, <1>4
    <2> QED  BY <2>1 DEF End
  <1>7. ASSUME NEW c \in DOMAIN l  PROVE BlockOK(m, c)
    <2>1. BlockOK(l, c)  BY DEF ListOK
    <2>2. m[c] \in Block /\ m[c].size = l[c].size /\ m[c].next = l[c].next
      BY <1>2, <1>4, <1>5, <2>1 DEF BlockOK
    <2> QED  BY <1>2, <1>6, <2>1, <2>2 DEF BlockOK
  <1>8. ListOK(m)  BY <1>2, <1>6, <1>7 DEF ListOK
  <1> QED  BY <1>2, <1>4, <1>8


-----------------------------------------------------------------------------
(* Heaps.                                                                   *)

LEMMA KeepsTrans ==
  ASSUME NEW h, NEW g, NEW k, NEW S, KeepsBut(h, g, S), KeepsBut(g, k, S)
  PROVE  KeepsBut(h, k, S)
  <1>1. Used(k.list) \ S = Used(h.list) \ S  BY DEF KeepsBut
  <1>2. ASSUME NEW b \in Used(h.list) \ S
        PROVE  /\ k.list[b].size = h.list[b].size
               /\ \A i \in Payload(h.list, b) : k.bytes[i] = h.bytes[i]
    <2>1. b \in Used(g.list) \ S  BY DEF KeepsBut
    <2>2. /\ g.list[b].size = h.list[b].size
          /\ \A i \in Payload(h.list, b) : g.bytes[i] = h.bytes[i]
      BY DEF KeepsBut
    <2>3. /\ k.list[b].size = g.list[b].size
          /\ \A i \in Payload(g.list, b) : k.bytes[i] = g.bytes[i]
      BY <2>1 DEF KeepsBut
    <2>4. Payload(g.list, b) = Payload(h.list, b)  BY <2>2 DEF Payload
    <2> QED  BY <2>2, <2>3, <2>4
  <1> QED  BY <1>1, <1>2 DEF KeepsBut

LEMMA KeepsMore ==
  ASSUME NEW h, NEW g, NEW S, NEW T, KeepsBut(h, g, S), S \subseteq T
  PROVE  KeepsBut(h, g, T)
  <1>1. Used(g.list) \ T = Used(h.list) \ T  BY DEF KeepsBut
  <1>2. Used(h.list) \ T \subseteq Used(h.list) \ S  OBVIOUS
  <1> QED  BY <1>1, <1>2 DEF KeepsBut

LEMMA KeepsSame ==
  ASSUME NEW h, NEW S
  PROVE  KeepsBut(h, h, S)
  BY DEF KeepsBut

(* g is h where b has taken over the free block after it.                   *)
Absorbed(h, b, g) ==
  /\ HeapOK(g) /\ g.bytes = h.bytes /\ KeepsBut(h, g, {b})
  /\ b \in DOMAIN g.list /\ g.list[b].free = h.list[b].free
  /\ g.list[b].size = h.list[b].size + HEADER + h.list[h.list[b].next].size
  /\ End(h.list, b) < End(g.list, b)
  /\ DOMAIN g.list \subseteq DOMAIN h.list
  /\ \A c \in DOMAIN g.list : c # b => g.list[c] = h.list[c]

LEMMA AbsorbHeap ==
  ASSUME NEW h, HeapOK(h), NEW b \in DOMAIN h.list, NextIsFree(h, b)
  PROVE  Absorbed(h, b, Absorb(h, b))
  <1>a. PICK g : g = Absorb(h, b)  OBVIOUS
  <1>1. PICK l, n : l = h.list /\ n = l[b].next  OBVIOUS
  <1>2. PICK m : m = Merged(l, b, n)  OBVIOUS
  <1>0. l[n].free  BY <1>1 DEF NextIsFree
  <1>3. ListOK(l) /\ n # NULL /\ n = l[b].next /\ b \in DOMAIN l /\ m = Merged(l, b, n)
    BY <1>1, <1>2 DEF HeapOK, NextIsFree
  <1>4. /\ ListOK(m) /\ DOMAIN m = DOMAIN l \ {n} /\ b \in DOMAIN m /\ n \in DOMAIN l
        /\ m[b].free = l[b].free /\ m[b].size = l[b].size + HEADER + l[n].size
        /\ m[b].next = l[n].next /\ End(m, b) = End(l, n) /\ End(l, b) < End(m, b)
        /\ \A c \in DOMAIN m : c # b => m[c] = l[c]
    BY <1>3, AbsorbList
  <1>5. g = [h EXCEPT !.list = m]  BY <1>a, <1>1, <1>2 DEF Absorb, Merged
  <1>6. h = [list |-> h.list, bytes |-> h.bytes]  BY DEF HeapOK
  <1>7. g = [list |-> m, bytes |-> h.bytes]  BY <1>5, <1>6
  <1>8. g.list = m /\ g.bytes = h.bytes  BY <1>7
  <1>9. HeapOK(g)
    <2>1. DOMAIN h.bytes = Bytes /\ HeadersOK(l, h.bytes)  BY <1>1 DEF HeapOK
    <2>2. HeadersOK(m, h.bytes)  BY <1>4, <2>1 DEF HeadersOK
    <2> QED  BY <1>4, <1>7, <1>8, <2>1, <2>2 DEF HeapOK
  <1>10. KeepsBut(h, g, {b})
    <2>1. Used(m) \ {b} = Used(l) \ {b}  BY <1>0, <1>4 DEF Used
    <2>2. \A c \in Used(l) \ {b} : m[c] = l[c]  BY <1>0, <1>4 DEF Used
    <2> QED  BY <1>1, <1>8, <2>1, <2>2 DEF KeepsBut
  <1>11. Absorbed(h, b, g)  BY <1>1, <1>4, <1>8, <1>9, <1>10 DEF Absorbed
  <1> QED  BY <1>a, <1>11

(* g is h where b has the mark v.                                           *)
Marked(h, b, v, g) ==
  /\ HeapOK(g) /\ g.bytes = h.bytes /\ KeepsBut(h, g, {b})
  /\ DOMAIN g.list = DOMAIN h.list
  /\ g.list[b].free = v /\ g.list[b].size = h.list[b].size

LEMMA MarkHeap ==
  ASSUME NEW h, HeapOK(h), NEW b \in DOMAIN h.list, NEW v \in BOOLEAN
  PROVE  Marked(h, b, v, [h EXCEPT !.list[b].free = v])
  <1>0. PICK g : g = [h EXCEPT !.list[b].free = v]  OBVIOUS
  <1>1. PICK l, m : l = h.list /\ m = [l EXCEPT ![b].free = v]  OBVIOUS
  <1>2. ListOK(l) /\ b \in DOMAIN l  BY <1>1 DEF HeapOK
  <1>3. /\ ListOK(m) /\ DOMAIN m = DOMAIN l /\ m[b].free = v /\ m[b].size = l[b].size
        /\ \A c \in DOMAIN l : c # b => m[c] = l[c]
    BY <1>1, <1>2, MarkList
  <1>4. h = [list |-> h.list, bytes |-> h.bytes]  BY DEF HeapOK
  <1>5. g = [h EXCEPT !.list = m]  BY <1>0, <1>1
  <1>6. g = [list |-> m, bytes |-> h.bytes]  BY <1>4, <1>5
  <1>7. g.list = m /\ g.bytes = h.bytes  BY <1>6
  <1>8. HeapOK(g)
    <2>1. DOMAIN h.bytes = Bytes /\ HeadersOK(l, h.bytes)  BY <1>1 DEF HeapOK
    <2>2. HeadersOK(m, h.bytes)  BY <1>3, <2>1 DEF HeadersOK
    <2> QED  BY <1>3, <1>6, <1>7, <2>1, <2>2 DEF HeapOK
  <1>9. KeepsBut(h, g, {b})
    <2>1. Used(m) \ {b} = Used(l) \ {b}  BY <1>3 DEF Used
    <2>2. \A c \in Used(l) \ {b} : m[c] = l[c]  BY <1>3 DEF Used
    <2> QED  BY <1>1, <1>7, <2>1, <2>2 DEF KeepsBut
  <1>10. Marked(h, b, v, g)  BY <1>1, <1>3, <1>7, <1>8, <1>9 DEF Marked
  <1> QED  BY <1>0, <1>10

(* g is h where b may have given up what it has beyond size.                *)
Shortened(h, b, size, g) ==
  /\ HeapOK(g) /\ KeepsBut(h, g, {b}) /\ DOMAIN h.list \subseteq DOMAIN g.list
  /\ g.list[b].free = h.list[b].free /\ size <= g.list[b].size
  /\ g.list[b].size <= h.list[b].size
  /\ \A i \in Range(b + HEADER, size) : g.bytes[i] = h.bytes[i]

LEMMA SplitHeap ==
  ASSUME NEW h, HeapOK(h), NEW b \in DOMAIN h.list, NEW size \in Nat, Aligned(size),
         size <= h.list[b].size
  PROVE  Shortened(h, b, size, split_block(h, b, size))
  <1>a. PICK g : g = split_block(h, b, size)  OBVIOUS
  <1> SUFFICES Shortened(h, b, size, g)
    BY <1>a
  <1>0. PICK l, f, rest : l = h.list /\ f = h.bytes /\ rest = b + HEADER + size  OBVIOUS
  <1>1. ListOK(l) /\ b \in DOMAIN l /\ DOMAIN f = Bytes /\ HeadersOK(l, f)
    BY <1>0 DEF HeapOK
  <1>2. /\ b \in Nat /\ l[b].size \in Nat /\ End(l, b) = b + HEADER + l[b].size
        /\ End(l, b) \in Nat /\ End(l, b) <= POOL_SIZE
    BY <1>1, BlockFacts
  <1>3. HEADER \in Nat \ {0} /\ ALLOCATION_ALIGNMENT \in Nat \ {0}  BY SizeFacts
  <1>4. CASE l[b].size < size + HEADER + ALLOCATION_ALIGNMENT
    <2>1. g = h  BY <1>a, <1>0, <1>4 DEF split_block
    <2>2. h.list[b].size \in Nat  BY <1>0, <1>2
    <2> QED  BY <2>1, <2>2, KeepsSame DEF Shortened
  <1>5. CASE ~(l[b].size < size + HEADER + ALLOCATION_ALIGNMENT)
    <2>0. PICK m, F :
            /\ m = Cut(l, b, size, rest)
            /\ F = Fill(Fill(f, Range(rest, HEADER), Head), Range(b, HEADER), Head)
      OBVIOUS
    <2>1. g = [list |-> m, bytes |-> F]  BY <1>a, <1>0, <1>5, <2>0 DEF split_block, Write, Cut
    <2>2. g.list = m /\ g.bytes = F  BY <2>1
    <2>3. /\ l[b].size >= size + HEADER + ALLOCATION_ALIGNMENT
          /\ rest = b + HEADER + size /\ m = Cut(l, b, size, rest)
      BY <1>0, <1>2, <1>3, <1>5, <2>0
    <2>4. /\ ListOK(m) /\ DOMAIN m = DOMAIN l \cup {rest} /\ rest \notin DOMAIN l
          /\ m[b].size = size /\ m[b].free = l[b].free /\ m[rest].free
          /\ \A c \in DOMAIN l : c # b => m[c] = l[c]
          /\ End(m, rest) = End(l, b) /\ rest \in Nat /\ b + HEADER <= rest
          /\ rest + HEADER <= End(l, b)
      BY <1>1, <2>3, SplitList
    <2>5. /\ DOMAIN F = Bytes
          /\ \A i \in Bytes : F[i] = IF i \in Range(b, HEADER) \cup Range(rest, HEADER)
                                     THEN Head ELSE f[i]
      BY <1>1, <2>0 DEF Fill
    <2>6. HeapOK(g)
      <3>1. ASSUME NEW c \in DOMAIN m, NEW i \in Range(c, HEADER)  PROVE F[i] = Head
        <4>1. i \in Bytes  BY <2>4, BlockFacts
        <4>2. CASE c = rest  BY <2>5, <4>1, <4>2
        <4>3. CASE c # rest
          <5>1. f[i] = Head  BY <1>1, <2>4, <4>3 DEF HeadersOK
          <5> QED  BY <2>5, <4>1, <5>1
        <4> QED  BY <4>2, <4>3
      <3> QED  BY <2>1, <2>2, <2>4, <2>5, <3>1 DEF HeapOK, HeadersOK
    <2>7. ASSUME NEW c \in Used(l) \ {b}, NEW i \in Payload(l, c)  PROVE F[i] = f[i]
      <3>1. /\ c \in DOMAIN l /\ c # b /\ i \in Bytes /\ c \in Nat /\ l[c].size \in Nat
            /\ End(l, c) = c + HEADER + l[c].size
        BY <1>1, BlockFacts DEF Used
      <3>2. i \in Nat /\ c <= i /\ i < End(l, c)
        BY <1>3, <3>1 DEF Payload, Range
      <3>3. ASSUME i \in Range(b, HEADER) \cup Range(rest, HEADER)  PROVE FALSE
        <4>1. b <= i /\ i < End(l, b)  BY <1>2, <1>3, <2>4, <3>2, <3>3 DEF Range
        <4> QED  BY <1>1, <3>1, <3>2, <4>1, BlocksApart
      <3> QED  BY <2>5, <3>1, <3>3
    <2>8. KeepsBut(h, g, {b})
      <3>1. Used(m) \ {b} = Used(l) \ {b}  BY <2>4 DEF Used
      <3>2. \A c \in Used(l) \ {b} : m[c] = l[c]  BY <2>4 DEF Used
      <3> QED  BY <1>0, <2>2, <2>7, <3>1, <3>2 DEF KeepsBut
    <2>9. ASSUME NEW i \in Range(b + HEADER, size)  PROVE F[i] = f[i]
      <3>1. i \in Nat /\ b + HEADER <= i /\ i < rest  BY <1>0, <1>2, <1>3 DEF Range
      <3>2. i \notin Range(b, HEADER) \cup Range(rest, HEADER)
        BY <1>2, <1>3, <2>4, <3>1 DEF Range
      <3>3. i \in Bytes  BY <1>2, <1>3, <2>4, <3>1, SizeFacts DEF Bytes
      <3> QED  BY <2>5, <3>2, <3>3
    <2>10. size <= size /\ size <= l[b].size  BY <1>2, <1>3, <2>3
    <2> QED  BY <1>0, <2>2, <2>4, <2>6, <2>8, <2>9, <2>10 DEF Shortened
  <1> QED  BY <1>4, <1>5

(* A free block that stays free is no used block.                           *)
LEMMA KeepsFree ==
  ASSUME NEW h, NEW g, NEW b, KeepsBut(h, g, {b}), b \notin Used(h.list), b \notin Used(g.list)
  PROVE  KeepsBut(h, g, {})
  BY DEF KeepsBut

-----------------------------------------------------------------------------
(* The sweep of coalesce_all after n steps: the blocks below current have   *)
(* no free neighbours left, and current has reached past n.                 *)

FreePair(l, b) == l[b].free /\ l[b].next # NULL /\ l[l[b].next].free

SweepOK(h, s, n) ==
  /\ s = [heap |-> s.heap, current |-> s.current]
  /\ HeapOK(s.heap) /\ s.heap.bytes = h.bytes /\ KeepsBut(h, s.heap, {})
  /\ \/ s.current = NULL
     \/ s.current \in DOMAIN s.heap.list /\ n < End(s.heap.list, s.current)
  /\ \A b \in DOMAIN s.heap.list :
       s.current = NULL \/ b < s.current => ~FreePair(s.heap.list, b)

LEMMA SweepStepOK ==
  ASSUME NEW h, NEW s, NEW n \in Nat, SweepOK(h, s, n)
  PROVE  SweepOK(h, SweepStep(s), n + 1)
  <1>0. PICK k, c, l : k = s.heap /\ c = s.current /\ l = k.list  OBVIOUS
  <1>1. /\ s = [heap |-> k, current |-> c] /\ HeapOK(k) /\ k.bytes = h.bytes
        /\ KeepsBut(h, k, {}) /\ ListOK(l)
        /\ c = NULL \/ (c \in DOMAIN l /\ n < End(l, c))
        /\ \A b \in DOMAIN l : c = NULL \/ b < c => ~FreePair(l, b)
    BY <1>0 DEF SweepOK, HeapOK
  <1>2. CASE c = NULL
    <2>1. SweepStep(s) = s  BY <1>0, <1>2 DEF SweepStep
    <2> QED  BY <1>0, <1>2, <2>1 DEF SweepOK
  <1>3. CASE c # NULL /\ FreePair(l, c)
    <2>1. c \in DOMAIN l /\ n < End(l, c) /\ c \in Nat /\ End(l, c) \in Nat
      BY <1>1, <1>3, BlockFacts
    <2>2. HeapOK(k) /\ c \in DOMAIN k.list /\ NextIsFree(k, c) /\ k.list[c].free
      BY <1>0, <1>1, <1>3, <2>1 DEF NextIsFree, FreePair
    <2>3. PICK g : g = Absorb(k, c)  OBVIOUS
    <2>4. /\ HeapOK(g) /\ g.bytes = k.bytes /\ KeepsBut(k, g, {c})
          /\ c \in DOMAIN g.list /\ g.list[c].free = k.list[c].free
          /\ End(k.list, c) < End(g.list, c)
          /\ DOMAIN g.list \subseteq DOMAIN k.list
          /\ \A d \in DOMAIN g.list : d # c => g.list[d] = k.list[d]
      <3>1. Absorbed(k, c, g)  BY <2>2, <2>3, AbsorbHeap
      <3> QED  BY <3>1 DEF Absorbed
    <2>5. SweepStep(s) = [heap |-> g, current |-> c]
      <3>1. SweepStep(s) = [s EXCEPT !.heap = g]
        BY <1>0, <1>3, <2>2, <2>3 DEF SweepStep
      <3> QED  BY <1>1, <3>1
    <2>6. KeepsBut(h, g, {})
      <3>1. c \notin Used(k.list) /\ c \notin Used(g.list)  BY <2>2, <2>4 DEF Used
      <3>2. KeepsBut(k, g, {})  BY <2>4, <3>1, KeepsFree
      <3> QED  BY <1>1, <3>2, KeepsTrans
    <2>7. PICK m : m = g.list  OBVIOUS
    <2>8. ListOK(m)  BY <2>4, <2>7 DEF HeapOK
    <2>9. n + 1 < End(m, c)
      <3>1. End(m, c) \in Nat  BY <2>4, <2>7, <2>8, BlockFacts
      <3>2. End(l, c) < End(m, c)  BY <1>0, <2>4, <2>7
      <3> QED  BY <2>1, <3>1, <3>2
    <2>10. ASSUME NEW b \in DOMAIN m, b < c, FreePair(m, b)  PROVE FALSE
      <3>1. b \in Nat /\ b # c  BY <2>1, <2>8, <2>10, BlockFacts
      <3>2. m[b] = l[b] /\ b \in DOMAIN l  BY <1>0, <2>4, <2>7, <3>1
      <3>3. m[b].next # NULL /\ m[m[b].next].free  BY <2>10 DEF FreePair
      <3>4. m[b].next \in DOMAIN m  BY <2>8, <3>3 DEF ListOK, BlockOK
      <3>5. l[l[b].next].free
        <4>1. CASE m[b].next = c  BY <1>3, <3>2, <4>1 DEF FreePair
        <4>2. CASE m[b].next # c  BY <1>0, <2>4, <2>7, <3>2, <3>3, <3>4, <4>2
        <4> QED  BY <4>1, <4>2
      <3>6. FreePair(l, b)  BY <2>10, <3>2, <3>3, <3>5 DEF FreePair
      <3> QED  BY <1>1, <2>10, <3>2, <3>6
    <2>11. PICK t : t = SweepStep(s)  OBVIOUS
    <2>12. t = [heap |-> g, current |-> c] /\ t.heap = g /\ t.current = c
      BY <2>5, <2>11
    <2>13. SweepOK(h, t, n + 1)
      BY <1>1, <1>3, <2>4, <2>6, <2>7, <2>9, <2>10, <2>12 DEF SweepOK
    <2> QED  BY <2>11, <2>13
  <1>4. CASE c # NULL /\ ~FreePair(l, c)
    <2>1. c \in DOMAIN l /\ n < End(l, c) /\ c \in Nat /\ End(l, c) \in Nat
      BY <1>1, <1>4, BlockFacts
    <2>2. PICK d : d = l[c].next  OBVIOUS
    <2>3. SweepStep(s) = [heap |-> k, current |-> d]
      <3>1. ~(k.list[c].free /\ NextIsFree(k, c))  BY <1>0, <1>4 DEF NextIsFree, FreePair
      <3>2. SweepStep(s) = [s EXCEPT !.current = d]
        BY <1>0, <1>4, <2>2, <3>1 DEF SweepStep
      <3> QED  BY <1>1, <3>2
    <2>4. BlockOK(l, c)  BY <1>1, <2>1 DEF ListOK
    <2>5. d = NULL \/ (d \in DOMAIN l /\ n + 1 < End(l, d))
      <3>1. CASE d # NULL
        <4>1. d = End(l, c) /\ d \in DOMAIN l  BY <2>2, <2>4, <3>1 DEF BlockOK
        <4>2. d < End(l, d) /\ End(l, d) \in Nat  BY <1>1, <4>1, BlockFacts
        <4> QED  BY <2>1, <4>1, <4>2
      <3> QED  BY <3>1
    <2>6. ASSUME NEW b \in DOMAIN l, d = NULL \/ b < d, FreePair(l, b)  PROVE FALSE
      <3>1. b \in Nat /\ b < End(l, b) /\ End(l, b) \in Nat /\ End(l, b) <= POOL_SIZE
        BY <1>1, BlockFacts
      <3>2. ~(b < c)  BY <1>1, <2>6
      <3>3. b # c  BY <1>4, <2>6
      <3>4. End(l, c) <= b  BY <1>1, <2>1, <3>1, <3>2, <3>3 DEF ListOK
      <3>5. CASE d = NULL
        <4>1. End(l, c) = POOL_SIZE  BY <2>2, <2>4, <3>5 DEF BlockOK
        <4> QED  BY <2>1, <3>1, <3>4, <4>1
      <3>6. CASE d # NULL
        <4>1. d = End(l, c)  BY <2>2, <2>4, <3>6 DEF BlockOK
        <4> QED  BY <2>1, <2>6, <3>1, <3>4, <3>6, <4>1
      <3> QED  BY <3>5, <3>6
    <2>7. PICK t : t = SweepStep(s)  OBVIOUS
    <2>8. t = [heap |-> k, current |-> d] /\ t.heap = k /\ t.current = d
      BY <2>3, <2>7
    <2>9. SweepOK(h, t, n + 1)
      BY <1>0, <1>1, <2>5, <2>6, <2>8 DEF SweepOK
    <2> QED  BY <2>7, <2>9
  <1> QED  BY <1>2, <1>3, <1>4

(* coalesce_all leaves no two free neighbours and every used block alone.   *)
LEMMA CoalesceOK ==
  ASSUME NEW h, HeapOK(h), NEW g, g = coalesce_all(h)
  PROVE  HeapOK(g) /\ g.bytes = h.bytes /\ KeepsBut(h, g, {}) /\ Coalesced(g.list)
  <1>0. POOL_SIZE \in Nat \ {0}  BY SizeFacts
  <1> DEFINE S == {n \in Nat : n <= POOL_SIZE => SweepOK(h, Sweep(h)[n], n)}
  <1>1. 0 \in S
    <2>1. PICK s : s = Sweep(h)[0]  OBVIOUS
    <2>2. s = [heap |-> h, current |-> 0]  BY <2>1, SweepEquation
    <2>3. s.heap = h /\ s.current = 0  BY <2>2
    <2>4. ListOK(h.list) /\ 0 \in DOMAIN h.list  BY DEF HeapOK, ListOK
    <2>5. 0 < End(h.list, 0) /\ \A b \in DOMAIN h.list : ~(b < 0)  BY <2>4, BlockFacts
    <2>6. SweepOK(h, s, 0)
      <3>1. 0 # NULL  BY SizeFacts
      <3> QED  BY <2>2, <2>3, <2>4, <2>5, <3>1, KeepsSame DEF SweepOK
    <2> QED  BY <2>1, <2>6
  <1>2. ASSUME NEW n \in Nat, n \in S  PROVE n + 1 \in S
    <2> SUFFICES ASSUME n + 1 <= POOL_SIZE  PROVE SweepOK(h, Sweep(h)[n + 1], n + 1)
      OBVIOUS
    <2>1. n <= POOL_SIZE /\ n + 1 \in 1 .. POOL_SIZE /\ (n + 1) - 1 = n  BY <1>0
    <2>2. SweepOK(h, Sweep(h)[n], n)  BY <1>2, <2>1
    <2>3. Sweep(h)[n + 1] = SweepStep(Sweep(h)[n])  BY <2>1, SweepEquation
    <2> QED  BY <2>2, <2>3, SweepStepOK
  <1>3. POOL_SIZE \in S
    <2> HIDE DEF S
    <2> QED  BY <1>0, <1>1, <1>2, UpTo
  <1>4. PICK s : s = Sweep(h)[POOL_SIZE]  OBVIOUS
  <1>5. SweepOK(h, s, POOL_SIZE)  BY <1>0, <1>3, <1>4
  <1>6. g = s.heap  BY <1>4 DEF coalesce_all
  <1>7. HeapOK(g) /\ g.bytes = h.bytes /\ KeepsBut(h, g, {}) /\ ListOK(g.list)
    BY <1>5, <1>6 DEF SweepOK, HeapOK
  <1>8. s.current = NULL
    <2> SUFFICES ASSUME s.current # NULL  PROVE FALSE
      OBVIOUS
    <2>1. s.current \in DOMAIN g.list /\ POOL_SIZE < End(g.list, s.current)
      BY <1>5, <1>6 DEF SweepOK
    <2>2. End(g.list, s.current) <= POOL_SIZE /\ End(g.list, s.current) \in Nat
      BY <1>7, <2>1, BlockFacts
    <2> QED  BY <1>0, <2>1, <2>2
  <1>9. Coalesced(g.list)
    BY <1>5, <1>6, <1>8 DEF SweepOK, FreePair, Coalesced
  <1> QED  BY <1>7, <1>9

-----------------------------------------------------------------------------
(* malloc, free and realloc as functions of the heap.                       *)

(* The links of the chain lead from block to block.                         *)
LEMMA ChainBlocks ==
  ASSUME NEW h, HeapOK(h)
  PROVE  \A n \in 0 .. POOL_SIZE : Chain(h)[n] \in DOMAIN h.list \cup {NULL}
  <1>0. POOL_SIZE \in Nat  BY SizeFacts
  <1>1. PICK c, l : c = Chain(h) /\ l = h.list  OBVIOUS
  <1>2. ListOK(l)  BY <1>1 DEF HeapOK
  <1>3. /\ c[0] = 0
        /\ \A n \in 1 .. POOL_SIZE : c[n] = IF c[n - 1] = NULL THEN NULL ELSE l[c[n - 1]].next
    <2>1. /\ Chain(h)[0] = 0
          /\ \A n \in 1 .. POOL_SIZE :
               Chain(h)[n] = IF Chain(h)[n - 1] = NULL THEN NULL
                             ELSE h.list[Chain(h)[n - 1]].next
      BY ChainEquation
    <2> QED  BY <1>1, <2>1
  <1> DEFINE S == {n \in Nat : n <= POOL_SIZE => c[n] \in DOMAIN l \cup {NULL}}
  <1>4. 0 \in S  BY <1>2, <1>3 DEF ListOK
  <1>5. ASSUME NEW n \in Nat, n \in S  PROVE n + 1 \in S
    <2> SUFFICES ASSUME n + 1 <= POOL_SIZE  PROVE c[n + 1] \in DOMAIN l \cup {NULL}
      OBVIOUS
    <2>1. n <= POOL_SIZE /\ n + 1 \in 1 .. POOL_SIZE /\ (n + 1) - 1 = n  BY <1>0
    <2>2. c[n] \in DOMAIN l \cup {NULL}  BY <1>5, <2>1
    <2>3. c[n + 1] = IF c[n] = NULL THEN NULL ELSE l[c[n]].next  BY <1>3, <2>1
    <2>4. \A b \in DOMAIN l : l[b].next \in DOMAIN l \cup {NULL}
      BY <1>2 DEF ListOK, BlockOK
    <2> QED  BY <2>2, <2>3, <2>4
  <1>6. \A n \in Nat : n \in S
    <2> HIDE DEF S
    <2> QED  BY <1>4, <1>5, UpTo
  <1> QED  BY <1>0, <1>1, <1>6

(* malloc fails and leaves the heap, or turns a free block that is large    *)
(* enough into a used one.                                                  *)
Allocated(h, size, r) ==
  \/ r.ptr = NULL /\ r.heap = h
  \/ \E b \in DOMAIN h.list :
       /\ r.ptr = b + HEADER /\ h.list[b].free
       /\ HeapOK(r.heap) /\ KeepsBut(h, r.heap, {b})
       /\ b \in Used(r.heap.list) /\ size <= r.heap.list[b].size

LEMMA AllocateOK ==
  ASSUME NEW h, HeapOK(h), NEW size \in Nat, Aligned(size)
  PROVE  Allocated(h, size, Allocate(h, size))
  <1> DEFINE chain == Chain(h)
             hits  == {n \in DOMAIN chain : chain[n] # NULL /\ Suits(h, chain[n], size)}
  <1>0. PICK r : r = Allocate(h, size)  OBVIOUS
  <1> SUFFICES Allocated(h, size, r)
    BY <1>0
  <1>1. CASE size = 0 \/ hits = {}
    <2>1. r = [ptr |-> NULL, heap |-> h]  BY <1>0, <1>1 DEF Allocate
    <2>2. r.ptr = NULL /\ r.heap = h  BY <2>1
    <2> QED  BY <2>2 DEF Allocated
  <1>2. CASE ~(size = 0 \/ hits = {})
    <2>1. hits \subseteq Nat /\ hits \subseteq 0 .. POOL_SIZE
      BY ChainEquation, SizeFacts
    <2>2. PICK x \in hits : \A m \in hits : x <= m  BY <1>2, <2>1, LeastNat
    <2>3. PICK n : n = CHOOSE y \in hits : \A m \in hits : y <= m  OBVIOUS
    <2>4. n \in hits
      <3> HIDE DEF hits
      <3> QED  BY <2>2, <2>3
    <2>5. PICK b : b = chain[n]  OBVIOUS
    <2>6. b \in DOMAIN h.list
      <3>1. n \in 0 .. POOL_SIZE /\ b # NULL  BY <2>1, <2>4, <2>5
      <3> QED  BY <2>5, <3>1, ChainBlocks
    <2>7. h.list[b].free /\ size <= h.list[b].size
      <3>1. Suits(h, b, size)  BY <2>4, <2>5
      <3>2. h.list[b].size \in Nat  BY <2>6, BlockFacts DEF HeapOK
      <3> QED  BY <3>1, <3>2 DEF Suits
    <2>8. PICK s : s = split_block(h, b, size)  OBVIOUS
    <2>9. Shortened(h, b, size, s)  BY <2>6, <2>7, <2>8, SplitHeap
    <2>10. HeapOK(s) /\ KeepsBut(h, s, {b}) /\ b \in DOMAIN s.list /\ size <= s.list[b].size
      BY <2>6, <2>9 DEF Shortened
    <2>11. PICK g : g = [s EXCEPT !.list[b].free = FALSE]  OBVIOUS
    <2>12. Marked(s, b, FALSE, g)
      <3>1. FALSE \in BOOLEAN  OBVIOUS
      <3> QED  BY <2>10, <2>11, <3>1, MarkHeap
    <2>13. r = [ptr |-> b + HEADER, heap |-> g]
      <3>1. b = chain[CHOOSE y \in hits : \A m \in hits : y <= m]  BY <2>3, <2>5
      <3>2. r = [ptr |-> chain[CHOOSE y \in hits : \A m \in hits : y <= m] + HEADER,
                 heap |-> [split_block(h, chain[CHOOSE y \in hits : \A m \in hits : y <= m], size)
                             EXCEPT !.list[chain[CHOOSE y \in hits : \A m \in hits : y <= m]].free = FALSE]]
        BY <1>0, <1>2 DEF Allocate
      <3> HIDE DEF hits, chain
      <3> QED  BY <2>8, <2>11, <3>1, <3>2
    <2>14. r.ptr = b + HEADER /\ r.heap = g  BY <2>13
    <2>15. HeapOK(g) /\ b \in Used(g.list) /\ size <= g.list[b].size /\ KeepsBut(s, g, {b})
      BY <2>10, <2>12 DEF Marked, Used
    <2>16. KeepsBut(h, g, {b})  BY <2>10, <2>15, KeepsTrans
    <2> HIDE DEF hits, chain
    <2> QED  BY <2>6, <2>7, <2>14, <2>15, <2>16 DEF Allocated
  <1> QED  BY <1>1, <1>2

(* free unmarks a used block and coalesces.                                 *)
LEMMA ReleaseOK ==
  ASSUME NEW h, HeapOK(h), NEW ptr, ptr - HEADER \in Used(h.list), NEW g, g = Release(h, ptr)
  PROVE  /\ HeapOK(g) /\ KeepsBut(h, g, {ptr - HEADER}) /\ ptr - HEADER \notin Used(g.list)
         /\ Coalesced(g.list)
  <1>1. PICK b : b = ptr - HEADER  OBVIOUS
  <1>2. b \in DOMAIN h.list /\ ~h.list[b].free  BY <1>1 DEF Used
  <1>3. PICK k : k = [h EXCEPT !.list[b].free = TRUE]  OBVIOUS
  <1>4. g = coalesce_all(k)  BY <1>1, <1>2, <1>3 DEF Release
  <1>5. Marked(h, b, TRUE, k)
    <2>1. TRUE \in BOOLEAN  OBVIOUS
    <2> QED  BY <1>2, <1>3, <2>1, MarkHeap
  <1>6. HeapOK(k) /\ KeepsBut(h, k, {b}) /\ b \notin Used(k.list)  BY <1>5 DEF Marked, Used
  <1>7. HeapOK(g) /\ KeepsBut(k, g, {}) /\ Coalesced(g.list)  BY <1>4, <1>6, CoalesceOK
  <1>8. KeepsBut(h, g, {b})
    <2>1. KeepsBut(k, g, {b})  BY <1>7, KeepsMore
    <2> QED  BY <1>6, <2>1, KeepsTrans
  <1>9. b \notin Used(g.list)  BY <1>6, <1>7 DEF KeepsBut
  <1> QED  BY <1>1, <1>7, <1>8, <1>9

(* A payload is written.                                                    *)
OnlyPayload(h, b, f) ==
  DOMAIN f = Bytes /\ \A i \in Bytes : i \notin Payload(h.list, b) => f[i] = h.bytes[i]

Written(h, b, f, g) ==
  HeapOK(g) /\ KeepsBut(h, g, {b}) /\ g.list = h.list /\ g.bytes = f

LEMMA PayloadWrite ==
  ASSUME NEW h, HeapOK(h), NEW b \in DOMAIN h.list, NEW f, OnlyPayload(h, b, f)
  PROVE  Written(h, b, f, [h EXCEPT !.bytes = f])
  <1>a. PICK g : g = [h EXCEPT !.bytes = f]  OBVIOUS
  <1>b. DOMAIN f = Bytes /\ \A i \in Bytes : i \notin Payload(h.list, b) => f[i] = h.bytes[i]
    BY DEF OnlyPayload
  <1>1. PICK l : l = h.list  OBVIOUS
  <1>2. h = [list |-> l, bytes |-> h.bytes] /\ ListOK(l) /\ HeadersOK(l, h.bytes)
    BY <1>1 DEF HeapOK
  <1>3. g = [list |-> l, bytes |-> f]  BY <1>a, <1>2
  <1>4. g.list = l /\ g.bytes = f  BY <1>3
  <1>5. HEADER \in Nat \ {0}  BY SizeFacts
  <1>6. /\ b \in Nat /\ b \in DOMAIN l /\ l[b].size \in Nat
        /\ End(l, b) = b + HEADER + l[b].size
    BY <1>1, <1>2, BlockFacts
  <1>7. ASSUME NEW i \in Payload(l, b)  PROVE i \in Nat /\ b + HEADER <= i /\ i < End(l, b)
    BY <1>5, <1>6 DEF Payload, Range
  <1>8. ASSUME NEW c \in DOMAIN l, NEW i \in Range(c, HEADER)  PROVE f[i] = Head
    <2>1. /\ c \in Nat /\ l[c].size \in Nat /\ End(l, c) = c + HEADER + l[c].size /\ i \in Bytes
      BY <1>2, BlockFacts
    <2>2. i \in Nat /\ c <= i /\ i < c + HEADER /\ i < End(l, c)  BY <1>5, <2>1 DEF Range
    <2>3. i \notin Payload(l, b)
      <3> SUFFICES ASSUME i \in Payload(l, b)  PROVE FALSE
        OBVIOUS
      <3>1. b + HEADER <= i /\ i < End(l, b) /\ b <= i  BY <1>5, <1>6, <1>7, <2>2
      <3>2. b = c  BY <1>2, <1>6, <2>2, <3>1, BlocksApart
      <3> QED  BY <1>5, <1>6, <2>2, <3>1, <3>2
    <2>4. h.bytes[i] = Head  BY <1>2 DEF HeadersOK
    <2> QED  BY <1>b, <1>1, <2>1, <2>3, <2>4
  <1>9. HeapOK(g)  BY <1>b, <1>2, <1>3, <1>4, <1>8 DEF HeapOK, HeadersOK
  <1>10. ASSUME NEW c \in Used(l) \ {b}, NEW i \in Payload(l, c)  PROVE f[i] = h.bytes[i]
    <2>1. /\ c \in DOMAIN l /\ c # b /\ c \in Nat /\ l[c].size \in Nat
          /\ End(l, c) = c + HEADER + l[c].size /\ i \in Bytes
      BY <1>2, BlockFacts DEF Used
    <2>2. i \in Nat /\ c <= i /\ i < End(l, c)  BY <1>5, <2>1 DEF Payload, Range
    <2>3. i \notin Payload(l, b)
      <3> SUFFICES ASSUME i \in Payload(l, b)  PROVE FALSE
        OBVIOUS
      <3>1. i < End(l, b) /\ b <= i  BY <1>5, <1>6, <1>7, <2>2
      <3> QED  BY <1>2, <1>6, <2>1, <2>2, <3>1, BlocksApart
    <2> QED  BY <1>b, <1>1, <2>1, <2>3
  <1>11. KeepsBut(h, g, {b})  BY <1>1, <1>4, <1>10 DEF KeepsBut
  <1>12. Written(h, b, f, g)  BY <1>1, <1>4, <1>9, <1>11 DEF Written
  <1> QED  BY <1>a, <1>12

(* realloc fails, or leaves the caller a used block c that is large enough  *)
(* and starts with what the old one held; if it has moved, the old block is *)
(* free.                                                                    *)
Resized(h, ptr, size, r) ==
  \/ r.ptr = NULL
  \/ \E c \in Nat :
       /\ r.ptr = c + HEADER /\ HeapOK(r.heap) /\ KeepsBut(h, r.heap, {ptr - HEADER, c})
       /\ c \in Used(r.heap.list) /\ size <= r.heap.list[c].size
       /\ c # ptr - HEADER => c \notin Used(h.list) /\ ptr - HEADER \notin Used(r.heap.list)
       /\ \A i \in Nat : i < size /\ i < h.list[ptr - HEADER].size =>
            r.heap.bytes[r.ptr + i] = h.bytes[ptr + i]

LEMMA ResizeOK ==
  ASSUME NEW h, HeapOK(h), NEW ptr \in Nat, ptr - HEADER \in Used(h.list),
         NEW size \in Nat, Aligned(size)
  PROVE  Resized(h, ptr, size, Resize(h, ptr, size))
  <1>a. PICK r : r = Resize(h, ptr, size)  OBVIOUS
  <1> SUFFICES Resized(h, ptr, size, r)
    BY <1>a
  <1>1. PICK b, old : b = ptr - HEADER /\ old = h.list[b].size  OBVIOUS
  <1>2. /\ b \in DOMAIN h.list /\ ~h.list[b].free /\ b \in Used(h.list) /\ ListOK(h.list)
    BY <1>1 DEF Used, HeapOK
  <1>3. b \in Nat /\ old \in Nat /\ HEADER \in Nat \ {0}  BY <1>1, <1>2, BlockFacts, SizeFacts
  <1>4. ptr = b + HEADER  BY <1>1, <1>3
  <1>5. CASE size = 0
    <2>1. r = [ptr |-> NULL, heap |-> h]  BY <1>a, <1>5 DEF Resize
    <2> QED  BY <2>1 DEF Resized
  <1>6. CASE size # 0 /\ size <= old
    <2>1. PICK g : g = split_block(h, b, size)  OBVIOUS
    <2>2. Shortened(h, b, size, g)  BY <1>1, <1>2, <1>6, <2>1, SplitHeap
    <2>3. r = [ptr |-> ptr, heap |-> g]  BY <1>a, <1>1, <1>2, <1>6, <2>1 DEF Resize
    <2>4. r.ptr = ptr /\ r.heap = g  BY <2>3
    <2>5. /\ HeapOK(g) /\ KeepsBut(h, g, {b}) /\ b \in Used(g.list) /\ size <= g.list[b].size
          /\ \A i \in Range(ptr, size) : g.bytes[i] = h.bytes[i]
      BY <1>2, <1>4, <2>2 DEF Shortened, Used
    <2>6. KeepsBut(h, g, {b, b})  BY <2>5, KeepsMore
    <2>7. \A i \in Nat : i < size => ptr + i \in Range(ptr, size)  BY DEF Range
    <2> QED  BY <1>1, <1>3, <1>4, <2>4, <2>5, <2>6, <2>7 DEF Resized
  <1>7. CASE /\ size # 0 /\ ~(size <= old) /\ NextIsFree(h, b)
             /\ old + HEADER + h.list[h.list[b].next].size >= size
    <2>1. PICK k : k = Absorb(h, b)  OBVIOUS
    <2>2. Absorbed(h, b, k)  BY <1>2, <1>7, <2>1, AbsorbHeap
    <2>3. /\ HeapOK(k) /\ k.bytes = h.bytes /\ KeepsBut(h, k, {b}) /\ b \in DOMAIN k.list
          /\ ~k.list[b].free /\ k.list[b].size = old + HEADER + h.list[h.list[b].next].size
      BY <1>1, <1>2, <2>2 DEF Absorbed
    <2>4. size <= k.list[b].size
      <3>1. k.list[b].size \in Nat  BY <2>3, BlockFacts DEF HeapOK
      <3> QED  BY <1>7, <2>3, <3>1
    <2>5. PICK g : g = split_block(k, b, size)  OBVIOUS
    <2>6. Shortened(k, b, size, g)  BY <2>3, <2>4, <2>5, SplitHeap
    <2>7. r = [ptr |-> ptr, heap |-> g]
      BY <1>a, <1>1, <1>2, <1>7, <2>1, <2>5 DEF Resize
    <2>8. r.ptr = ptr /\ r.heap = g  BY <2>7
    <2>9. /\ HeapOK(g) /\ KeepsBut(k, g, {b}) /\ b \in Used(g.list) /\ size <= g.list[b].size
          /\ \A i \in Range(ptr, size) : g.bytes[i] = h.bytes[i]
      BY <1>4, <2>3, <2>6 DEF Shortened, Used
    <2>10. KeepsBut(h, g, {b, b})
      <3>1. KeepsBut(h, g, {b})  BY <2>3, <2>9, KeepsTrans
      <3> QED  BY <3>1, KeepsMore
    <2>11. \A i \in Nat : i < size => ptr + i \in Range(ptr, size)  BY DEF Range
    <2> QED  BY <1>1, <1>3, <1>4, <2>8, <2>9, <2>10, <2>11 DEF Resized
  <1>8. CASE /\ size # 0 /\ ~(size <= old)
             /\ ~(NextIsFree(h, b) /\ old + HEADER + h.list[h.list[b].next].size >= size)
    <2>1. PICK move, k, F, g :
            /\ move = Allocate(h, size) /\ F = Copy(move.heap.bytes, ptr, move.ptr, old)
            /\ k = [move.heap EXCEPT !.bytes = F] /\ g = Release(k, ptr)
      OBVIOUS
    <2>2. r = IF move.ptr = NULL THEN move ELSE [ptr |-> move.ptr, heap |-> g]
      BY <1>a, <1>1, <1>2, <1>8, <2>1 DEF Resize
    <2>3. CASE move.ptr = NULL  BY <2>2, <2>3 DEF Resized
    <2>4. CASE move.ptr # NULL
      <3>1. r.ptr = move.ptr /\ r.heap = g  BY <2>2, <2>4
      <3>2. Allocated(h, size, move)  BY <2>1, AllocateOK
      <3>3. PICK c \in DOMAIN h.list :
              /\ move.ptr = c + HEADER /\ h.list[c].free
              /\ HeapOK(move.heap) /\ KeepsBut(h, move.heap, {c})
              /\ c \in Used(move.heap.list) /\ size <= move.heap.list[c].size
        BY <2>4, <3>2 DEF Allocated
      <3>4. PICK a, l, f : a = move.heap /\ l = a.list /\ f = a.bytes  OBVIOUS
      <3>5. /\ HeapOK(a) /\ ListOK(l) /\ DOMAIN f = Bytes /\ c \in DOMAIN l /\ c \in Used(l)
            /\ size <= l[c].size /\ KeepsBut(h, a, {c})
        BY <3>3, <3>4 DEF HeapOK, Used
      <3>6. c \in Nat /\ l[c].size \in Nat /\ Payload(l, c) \subseteq Bytes
        BY <3>5, BlockFacts
      <3>7. b # c /\ c \notin Used(h.list)  BY <1>2, <3>3 DEF Used
      <3>8. /\ b \in Used(l) /\ l[b].size = old
            /\ \A i \in Payload(h.list, b) : f[i] = h.bytes[i]
        BY <1>1, <1>2, <3>4, <3>5, <3>7 DEF KeepsBut
      <3>9. F = Copy(f, ptr, c + HEADER, old) /\ k = [a EXCEPT !.bytes = F]
        BY <2>1, <3>3, <3>4
      <3>10. /\ DOMAIN F = Bytes
             /\ \A i \in Bytes : F[i] = IF i \in Range(c + HEADER, old)
                                        THEN f[i - (c + HEADER) + ptr] ELSE f[i]
        BY <3>5, <3>9 DEF Copy
      <3>11. Range(c + HEADER, old) \subseteq Payload(l, c)
        BY <1>3, <1>8, <3>5, <3>6 DEF Range, Payload
      <3>12. HeapOK(k) /\ KeepsBut(a, k, {c}) /\ k.list = l /\ k.bytes = F
        <4>1. OnlyPayload(a, c, F)  BY <3>4, <3>10, <3>11 DEF OnlyPayload
        <4>2. c \in DOMAIN a.list  BY <3>4, <3>5
        <4>3. Written(a, c, F, k)  BY <3>5, <3>9, <4>1, <4>2, PayloadWrite
        <4> QED  BY <3>4, <4>3 DEF Written
      <3>13. /\ HeapOK(g) /\ KeepsBut(k, g, {b}) /\ b \notin Used(g.list)
        <4>1. ptr - HEADER \in Used(k.list)  BY <1>1, <3>8, <3>12
        <4>2. /\ HeapOK(g) /\ KeepsBut(k, g, {ptr - HEADER}) /\ ptr - HEADER \notin Used(g.list)
          BY <2>1, <3>12, <4>1, ReleaseOK
        <4> QED  BY <1>1, <4>2
      <3>14. KeepsBut(h, g, {b, c})
        <4>1. KeepsBut(h, a, {b, c})  BY <3>5, KeepsMore
        <4>2. KeepsBut(a, k, {b, c})  BY <3>12, KeepsMore
        <4>3. KeepsBut(k, g, {b, c})  BY <3>13, KeepsMore
        <4> QED  BY <4>1, <4>2, <4>3, KeepsTrans
      <3>15. /\ c \in Used(g.list) /\ g.list[c].size = l[c].size
             /\ \A i \in Payload(l, c) : g.bytes[i] = F[i]
        BY <3>5, <3>7, <3>12, <3>13 DEF KeepsBut
      <3>16. ASSUME NEW i \in Nat, i < size, i < old
             PROVE  g.bytes[(c + HEADER) + i] = h.bytes[ptr + i]
        <4>1. (c + HEADER) + i \in Range(c + HEADER, old)  BY <1>3, <3>6, <3>16 DEF Range
        <4>2. (c + HEADER) + i \in Bytes /\ (c + HEADER) + i \in Payload(l, c)
          BY <3>6, <3>11, <4>1
        <4>3. ((c + HEADER) + i) - (c + HEADER) + ptr = ptr + i  BY <1>3, <3>6
        <4>4. F[(c + HEADER) + i] = f[ptr + i]  BY <3>10, <4>1, <4>2, <4>3
        <4>5. ptr + i \in Payload(h.list, b)  BY <1>1, <1>3, <1>4, <3>16 DEF Payload, Range
        <4> QED  BY <3>8, <3>15, <4>2, <4>4, <4>5
      <3>17. size <= g.list[c].size  BY <3>5, <3>15
      <3> QED
        BY <1>1, <3>1, <3>3, <3>6, <3>7, <3>13, <3>14, <3>15, <3>16, <3>17 DEF Resized
    <2> QED  BY <2>3, <2>4
  <1> QED  BY <1>5, <1>6, <1>7, <1>8

-----------------------------------------------------------------------------
(* The callers.                                                             *)

(* The block of a, if it has one.                                           *)
BlockOf(L, a) == IF a \in DOMAIN L THEN {L[a].ptr - HEADER} ELSE {}

(* A call of a changes only a's blocks: the other callers keep theirs.      *)
OnlyCaller(h, g, L, M, a, S) ==
  /\ KeepsBut(h, g, S)
  /\ DOMAIN M \ {a} = DOMAIN L \ {a} /\ \A c \in DOMAIN M : c # a => M[c] = L[c]
  /\ S \cap Used(h.list) = BlockOf(L, a) /\ S \cap Used(g.list) = BlockOf(M, a)
  /\ a \in DOMAIN M =>
       /\ M[a] = [ptr |-> M[a].ptr, len |-> M[a].len, tag |-> M[a].tag]
       /\ M[a].ptr \in Nat /\ M[a].len \in Nat
       /\ M[a].len <= g.list[M[a].ptr - HEADER].size
       /\ \A i \in Range(M[a].ptr, M[a].len) : g.bytes[i] = M[a].tag

LEMMA OthersKeep ==
  ASSUME NEW h, NEW g, NEW L, NEW M, NEW a, NEW S,
         HeapOK(h), LiveOK(h.list, L), DataOK(h.bytes, L), OnlyCaller(h, g, L, M, a, S)
  PROVE  LiveOK(g.list, M) /\ DataOK(g.bytes, M)
  <1> USE DEF OnlyCaller
  <1>a. ListOK(h.list)  BY DEF HeapOK
  <1>0. HEADER \in Nat  BY SizeFacts
  <1>1. ASSUME NEW c \in DOMAIN M, c # a
        PROVE  /\ c \in DOMAIN L /\ M[c] = L[c] /\ L[c].ptr \in Nat /\ L[c].len \in Nat
               /\ L[c] = [ptr |-> L[c].ptr, len |-> L[c].len, tag |-> L[c].tag]
               /\ L[c].ptr - HEADER \in Used(h.list) \ S
               /\ L[c].ptr - HEADER \in Used(g.list) \ S
               /\ L[c].len <= h.list[L[c].ptr - HEADER].size
    <2>1. c \in DOMAIN L /\ M[c] = L[c]  BY <1>1
    <2>2. /\ L[c].ptr \in Nat /\ L[c].len \in Nat /\ L[c].ptr - HEADER \in Used(h.list)
          /\ L[c] = [ptr |-> L[c].ptr, len |-> L[c].len, tag |-> L[c].tag]
          /\ L[c].len <= h.list[L[c].ptr - HEADER].size
      BY <2>1 DEF LiveOK
    <2>3. L[c].ptr - HEADER \notin S
      <3> SUFFICES ASSUME L[c].ptr - HEADER \in S  PROVE FALSE
        OBVIOUS
      <3>1. a \in DOMAIN L /\ L[c].ptr - HEADER = L[a].ptr - HEADER  BY <2>2 DEF BlockOf
      <3>2. L[a].ptr \in Nat /\ L[a].ptr # L[c].ptr  BY <1>1, <2>1, <3>1 DEF LiveOK
      <3> QED  BY <1>0, <2>2, <3>1, <3>2
    <2>4. Used(g.list) \ S = Used(h.list) \ S  BY DEF KeepsBut
    <2> QED  BY <2>1, <2>2, <2>3, <2>4
  <1>2. ASSUME a \in DOMAIN M
        PROVE  M[a].ptr - HEADER \in S /\ M[a].ptr - HEADER \in Used(g.list)
    BY <1>2 DEF BlockOf
  <1>3. ASSUME NEW c \in DOMAIN M
        PROVE  /\ M[c] = [ptr |-> M[c].ptr, len |-> M[c].len, tag |-> M[c].tag]
               /\ M[c].ptr \in Nat /\ M[c].len \in Nat
               /\ M[c].ptr - HEADER \in Used(g.list)
               /\ M[c].len <= g.list[M[c].ptr - HEADER].size
    <2>1. CASE c = a  BY <1>2, <2>1
    <2>2. CASE c # a
      <3>1. g.list[L[c].ptr - HEADER].size = h.list[L[c].ptr - HEADER].size
        BY <1>1, <2>2 DEF KeepsBut
      <3> QED  BY <1>1, <2>2, <3>1
    <2> QED  BY <2>1, <2>2
  <1>4. ASSUME NEW b \in Used(g.list)  PROVE \E c \in DOMAIN M : M[c].ptr - HEADER = b
    <2>1. CASE b \in S  BY <2>1 DEF BlockOf
    <2>2. CASE b \notin S
      <3>1. b \in Used(h.list)  BY <2>2 DEF KeepsBut
      <3>2. PICK c \in DOMAIN L : L[c].ptr - HEADER = b  BY <3>1 DEF LiveOK
      <3>3. c # a  BY <2>2, <3>2 DEF BlockOf
      <3>4. c \in DOMAIN M /\ M[c] = L[c]  BY <3>2, <3>3
      <3> QED  BY <3>2, <3>4
    <2> QED  BY <2>1, <2>2
  <1>5. ASSUME NEW c \in DOMAIN M, NEW d \in DOMAIN M, c # d  PROVE M[c].ptr # M[d].ptr
    <2>1. CASE c = a
      <3>1. M[d].ptr - HEADER \notin S  BY <1>1, <1>5, <2>1
      <3> QED  BY <1>2, <2>1, <3>1
    <2>2. CASE d = a
      <3>1. M[c].ptr - HEADER \notin S  BY <1>1, <1>5, <2>2
      <3> QED  BY <1>2, <2>2, <3>1
    <2>3. CASE c # a /\ d # a
      <3>1. c \in DOMAIN L /\ d \in DOMAIN L /\ M[c] = L[c] /\ M[d] = L[d]  BY <1>1, <2>3
      <3>2. L[c].ptr # L[d].ptr  BY <1>5, <3>1 DEF LiveOK
      <3> QED  BY <3>1, <3>2
    <2> QED  BY <2>1, <2>2, <2>3
  <1>6. ASSUME NEW c \in DOMAIN M, NEW i \in Range(M[c].ptr, M[c].len)
        PROVE  g.bytes[i] = M[c].tag
    <2>1. CASE c = a  BY <2>1
    <2>2. CASE c # a
      <3>1. PICK b, p, n : b = L[c].ptr - HEADER /\ p = L[c].ptr /\ n = L[c].len  OBVIOUS
      <3>2. /\ c \in DOMAIN L /\ M[c] = L[c] /\ p \in Nat /\ n \in Nat
            /\ b \in Used(h.list) \ S /\ n <= h.list[b].size
        BY <1>1, <2>2, <3>1
      <3>3. h.list[b].size \in Nat /\ p = b + HEADER
        <4>1. b \in DOMAIN h.list  BY <3>2 DEF Used
        <4>2. h.list[b].size \in Nat /\ b \in Nat  BY <1>a, <4>1, BlockFacts
        <4> QED  BY <1>0, <3>1, <3>2, <4>2
      <3>4. i \in Range(p, n)  BY <3>1, <3>2
      <3>5. i \in Payload(h.list, b)  BY <1>0, <3>2, <3>3, <3>4 DEF Range, Payload
      <3>6. g.bytes[i] = h.bytes[i]  BY <3>2, <3>5 DEF KeepsBut
      <3>7. h.bytes[i] = L[c].tag  BY <3>1, <3>2, <3>4 DEF DataOK
      <3> QED  BY <3>2, <3>6, <3>7
    <2> QED  BY <2>1, <2>2
  <1>7. LiveOK(g.list, M)  BY <1>3, <1>4, <1>5 DEF LiveOK
  <1> QED  BY <1>6, <1>7 DEF DataOK

(* The bytes that nobody reads again may be forgotten.                      *)
LEMMA ForgetOK ==
  ASSUME NEW h, HeapOK(h), NEW L, LiveOK(h.list, L), DataOK(h.bytes, L), NEW f,
         f = Fill(h.bytes, Bytes \ (Headers(h.list) \cup Data(L)), Junk)
  PROVE  HeapOK([list |-> h.list, bytes |-> f]) /\ DOMAIN f = Bytes /\ DataOK(f, L)
  <1>1. PICK l, x : l = h.list /\ x = h.bytes  OBVIOUS
  <1>2. ListOK(l) /\ DOMAIN x = Bytes /\ HeadersOK(l, x)  BY <1>1 DEF HeapOK
  <1>3. DOMAIN f = Bytes /\ \A i \in Bytes : i \in Headers(l) \cup Data(L) => f[i] = x[i]
    BY <1>1, <1>2 DEF Fill
  <1>4. HeadersOK(l, f)
    <2>1. ASSUME NEW b \in DOMAIN l, NEW i \in Range(b, HEADER)  PROVE f[i] = Head
      <3>1. i \in Bytes  BY <1>2, BlockFacts
      <3>2. i \in Headers(l)  BY DEF Headers
      <3>3. x[i] = Head  BY <1>2 DEF HeadersOK
      <3> QED  BY <1>3, <3>1, <3>2, <3>3
    <2> QED  BY <2>1 DEF HeadersOK
  <1>5. DataOK(f, L)
    <2>1. ASSUME NEW a \in DOMAIN L, NEW i \in Range(L[a].ptr, L[a].len)  PROVE f[i] = L[a].tag
      <3>1. PICK b, p, n : b = L[a].ptr - HEADER /\ p = L[a].ptr /\ n = L[a].len  OBVIOUS
      <3>2. p \in Nat /\ n \in Nat /\ b \in DOMAIN l /\ n <= l[b].size
        BY <1>1, <3>1 DEF LiveOK, Used
      <3>3. /\ l[b].size \in Nat /\ b \in Nat /\ HEADER \in Nat /\ Payload(l, b) \subseteq Bytes
        BY <1>2, <3>2, BlockFacts, SizeFacts
      <3>4. p = b + HEADER  BY <3>1, <3>2, <3>3
      <3>5. i \in Payload(l, b)  BY <3>1, <3>2, <3>3, <3>4 DEF Range, Payload
      <3>6. i \in Data(L)  BY DEF Data
      <3>7. x[i] = L[a].tag  BY <1>1 DEF DataOK
      <3> QED  BY <1>3, <3>3, <3>5, <3>6, <3>7
    <2> QED  BY <2>1 DEF DataOK
  <1>6. PICK g : g = [list |-> l, bytes |-> f]  OBVIOUS
  <1>7. g.list = l /\ g.bytes = f  BY <1>6
  <1>8. HeapOK(g)  BY <1>2, <1>3, <1>4, <1>6, <1>7 DEF HeapOK
  <1> QED  BY <1>1, <1>3, <1>5, <1>6, <1>8

-----------------------------------------------------------------------------
(* The steps.                                                               *)

(* The first call makes the whole pool one free block.                      *)
LEMMA InitHeap ==
  ASSUME HeapInv, NEW h, h = allocator_init
  PROVE  HeapOK(h) /\ LiveOK(h.list, live) /\ DataOK(h.bytes, live)
  <1>1. CASE initialized
    <2>1. h = [list |-> list, bytes |-> bytes]  BY <1>1 DEF allocator_init
    <2>2. h.list = list /\ h.bytes = bytes  BY <2>1
    <2> QED  BY <1>1, <2>1, <2>2 DEF HeapInv
  <1>2. CASE ~initialized
    <2>1. PICK e, l, f :
            /\ e = [size |-> POOL_SIZE - HEADER, free |-> TRUE, next |-> NULL]
            /\ l = Put(list, 0, e) /\ f = Fill(bytes, Range(0, HEADER), Head)
      OBVIOUS
    <2>2. h = [list |-> l, bytes |-> f]
      <3>1. h = Write([list |-> list, bytes |-> bytes], 0, e)
        BY <1>2, <2>1 DEF allocator_init
      <3> QED  BY <2>1, <3>1 DEF Write
    <2>3. h.list = l /\ h.bytes = f  BY <2>2
    <2>4. DOMAIN list = {} /\ DOMAIN live = {} /\ DOMAIN bytes = Bytes  BY <1>2 DEF HeapInv
    <2>5. DOMAIN l = {0} /\ l[0] = e  BY <2>1, <2>4 DEF Put
    <2>6. l[0].size = POOL_SIZE - HEADER /\ l[0].free = TRUE /\ l[0].next = NULL
      BY <2>1, <2>5
    <2>7. HEADER \in Nat \ {0} /\ POOL_SIZE \in Nat /\ POOL_SIZE >= HEADER  BY SizeFacts
    <2>8. End(l, 0) = POOL_SIZE  BY <2>6, <2>7 DEF End
    <2>9. BlockOK(l, 0)
      <3>1. PICK n : n = POOL_SIZE - HEADER  OBVIOUS
      <3>2. n \in Nat  BY <2>7, <3>1
      <3>3. Aligned(n)  BY <2>7, <3>1, SizeFacts, AlignedSum
      <3>4. e \in Block  BY <2>1, <3>1, <3>2 DEF Block
      <3>5. POOL_SIZE <= POOL_SIZE /\ Aligned(0)  BY <2>7, SizeFacts
      <3> QED  BY <2>5, <2>6, <2>8, <3>1, <3>3, <3>4, <3>5 DEF BlockOK
    <2>10. ListOK(l)
      <3>1. \A b, c \in {0} : ~(b < c)  OBVIOUS
      <3> QED  BY <2>5, <2>9, <3>1 DEF ListOK
    <2>11. DOMAIN f = Bytes /\ \A i \in Bytes : i \in Range(0, HEADER) => f[i] = Head
      BY <2>1, <2>4 DEF Fill
    <2>12. Range(0, HEADER) \subseteq Bytes  BY <2>7 DEF Range, Bytes
    <2>13. HeadersOK(l, f)  BY <2>5, <2>11, <2>12 DEF HeadersOK
    <2>14. Used(l) = {}  BY <2>5, <2>6 DEF Used
    <2> QED  BY <2>2, <2>3, <2>4, <2>10, <2>11, <2>13, <2>14 DEF HeapOK, LiveOK, DataOK
  <1> QED  BY <1>1, <1>2 DEF HeapInv

(* A call that leaves a sound heap leaves the invariant.                    *)
LEMMA BecomeOK ==
  ASSUME NEW h, NEW L, HeapOK(h), LiveOK(h.list, L), DataOK(h.bytes, L), Become(h, L),
         initialized' = TRUE, ret'.op = "free" => Coalesced(h.list)
  PROVE  HeapInv'
  <1>1. PICK f : f = Fill(h.bytes, Bytes \ (Headers(h.list) \cup Data(L)), Junk)  OBVIOUS
  <1>2. list' = h.list /\ bytes' = f /\ live' = L  BY <1>1 DEF Become
  <1>3. HeapOK([list |-> h.list, bytes |-> f]) /\ DOMAIN f = Bytes /\ DataOK(f, L)
    BY <1>1, ForgetOK
  <1> QED  BY <1>2, <1>3 DEF HeapInv

(* malloc and calloc: a gets a block of at least len bytes and fills it     *)
(* with tag.                                                                *)
LEMMA GrantOK ==
  ASSUME NEW h, NEW L, HeapOK(h), LiveOK(h.list, L), DataOK(h.bytes, L), NEW a, a \notin DOMAIN L,
         NEW s \in Nat, Aligned(s), NEW len \in Nat, len <= s, NEW tag,
         NEW r, r = Allocate(h, s), r.ptr # NULL, NEW g, NEW M,
         g = [r.heap EXCEPT !.bytes = Fill(r.heap.bytes, Range(r.ptr, len), tag)],
         M = Put(L, a, [ptr |-> r.ptr, len |-> len, tag |-> tag])
  PROVE  HeapOK(g) /\ LiveOK(g.list, M) /\ DataOK(g.bytes, M)
  <1>1. Allocated(h, s, r)  BY AllocateOK
  <1>2. PICK b \in DOMAIN h.list :
          /\ r.ptr = b + HEADER /\ h.list[b].free /\ HeapOK(r.heap)
          /\ KeepsBut(h, r.heap, {b}) /\ b \in Used(r.heap.list) /\ s <= r.heap.list[b].size
    BY <1>1 DEF Allocated
  <1>3. PICK k, l, p, f : k = r.heap /\ l = k.list /\ p = r.ptr
                          /\ f = Fill(k.bytes, Range(p, len), tag)
    OBVIOUS
  <1>4. /\ HeapOK(k) /\ ListOK(l) /\ DOMAIN k.bytes = Bytes /\ b \in DOMAIN l /\ b \in Used(l)
        /\ s <= l[b].size /\ p = b + HEADER /\ KeepsBut(h, k, {b})
    BY <1>2, <1>3 DEF HeapOK, Used
  <1>5. HEADER \in Nat /\ b \in Nat /\ l[b].size \in Nat /\ Payload(l, b) \subseteq Bytes
    BY <1>4, BlockFacts, SizeFacts
  <1>6. Range(p, len) \subseteq Payload(l, b)  BY <1>4, <1>5 DEF Range, Payload
  <1>7. DOMAIN f = Bytes /\ \A i \in Bytes : f[i] = IF i \in Range(p, len) THEN tag ELSE k.bytes[i]
    BY <1>3, <1>4 DEF Fill
  <1>8. HeapOK(g) /\ KeepsBut(k, g, {b}) /\ g.list = l /\ g.bytes = f
    <2>1. HeapOK(k) /\ b \in DOMAIN k.list /\ g = [k EXCEPT !.bytes = f]
      BY <1>3, <1>4
    <2>2. OnlyPayload(k, b, f)  BY <1>3, <1>6, <1>7 DEF OnlyPayload
    <2>3. Written(k, b, f, g)  BY <2>1, <2>2, PayloadWrite
    <2> QED  BY <1>3, <2>3 DEF Written
  <1>9. KeepsBut(h, g, {b})  BY <1>4, <1>8, KeepsTrans
  <1>10. PICK e : e = [ptr |-> p, len |-> len, tag |-> tag]  OBVIOUS
  <1>11. DOMAIN M = DOMAIN L \cup {a} /\ M[a] = e /\ \A c \in DOMAIN M : c # a => M[c] = L[c]
    BY <1>3, <1>10 DEF Put
  <1>12. /\ M[a] = [ptr |-> M[a].ptr, len |-> M[a].len, tag |-> M[a].tag]
         /\ M[a].ptr = p /\ M[a].len = len /\ M[a].tag = tag
    BY <1>10, <1>11
  <1>13. p - HEADER = b /\ p \in Nat /\ len <= l[b].size  BY <1>4, <1>5
  <1>14. {b} \cap Used(h.list) = BlockOf(L, a) /\ {b} \cap Used(g.list) = BlockOf(M, a)
    BY <1>2, <1>4, <1>8, <1>11, <1>12, <1>13 DEF BlockOf, Used
  <1>15. \A i \in Range(p, len) : g.bytes[i] = tag  BY <1>5, <1>6, <1>7, <1>8
  <1>16. DOMAIN M \ {a} = DOMAIN L \ {a}  BY <1>11
  <1>17. OnlyCaller(h, g, L, M, a, {b})
    BY <1>8, <1>9, <1>11, <1>12, <1>13, <1>14, <1>15, <1>16 DEF OnlyCaller
  <1>18. LiveOK(g.list, M) /\ DataOK(g.bytes, M)  BY <1>17, OthersKeep
  <1> QED  BY <1>8, <1>18

LEMMA MallocStep ==
  ASSUME HeapInv, NEW a, NEW size \in Nat, Malloc(a, size)
  PROVE  HeapInv'
  <1>1. PICK h, L : h = allocator_init /\ L = live  OBVIOUS
  <1>2. HeapOK(h) /\ LiveOK(h.list, L) /\ DataOK(h.bytes, L)  BY <1>1, InitHeap
  <1>3. PICK s : s = align_size(size)  OBVIOUS
  <1>4. s \in Nat /\ Aligned(s) /\ (s # 0 => size <= s)  BY <1>3, AlignSize
  <1>5. PICK r : r = Allocate(h, s)  OBVIOUS
  <1>6. CASE size = 0 \/ s = 0
    <2>1. ret' = [op |-> "malloc", failed |-> size] /\ UNCHANGED <<list, bytes, initialized, live>>
      BY <1>3, <1>6 DEF Malloc, Returns
    <2>2. ret'.op # "free"  BY <2>1
    <2> QED  BY <2>1, <2>2 DEF HeapInv
  <1>7. CASE ~(size = 0 \/ s = 0) /\ r.ptr = NULL
    <2>1. /\ initialized' = TRUE /\ ret' = [op |-> "malloc", failed |-> size] /\ Become(h, L)
      BY <1>1, <1>3, <1>5, <1>7 DEF Malloc, Returns
    <2>2. ret'.op # "free"  BY <2>1
    <2> QED  BY <1>2, <2>1, <2>2, BecomeOK
  <1>8. CASE ~(size = 0 \/ s = 0) /\ r.ptr # NULL
    <2>1. PICK g, M :
            /\ g = [r.heap EXCEPT !.bytes = Fill(r.heap.bytes, Range(r.ptr, size), a)]
            /\ M = Put(L, a, [ptr |-> r.ptr, len |-> size, tag |-> a])
      OBVIOUS
    <2>2. initialized' = TRUE /\ ret' = [op |-> "malloc", failed |-> 0] /\ Become(g, M)
      BY <1>1, <1>3, <1>5, <1>8, <2>1 DEF Malloc, Returns
    <2>3. ret'.op # "free"  BY <2>2
    <2>4. a \notin DOMAIN L  BY <1>1 DEF Malloc
    <2>5. HeapOK(g) /\ LiveOK(g.list, M) /\ DataOK(g.bytes, M)
      BY <1>2, <1>4, <1>5, <1>8, <2>1, <2>4, GrantOK
    <2> QED  BY <2>2, <2>3, <2>5, BecomeOK
  <1> QED  BY <1>6, <1>7, <1>8

(* What calloc's check is for: a product it lets through does not wrap.     *)
LEMMA ProductFits ==
  ASSUME NEW num \in Nat, NEW size \in Nat \ {0}, ~Overflows(num, size)
  PROVE  (num * size) % (SIZE_MAX + 1) = num * size
  <1>1. PICK q : q = SIZE_MAX \div size  OBVIOUS
  <1>2. SIZE_MAX \in Nat  BY HeapAssumption
  <1>3. q \in Nat /\ q * size <= SIZE_MAX  BY <1>1, <1>2, SMTT(30)
  <1>4. num <= q  BY <1>1, <1>3 DEF Overflows
  <1>5. PICK d \in Nat : q = num + d  BY <1>3, <1>4
  <1>6. q * size = num * size + d * size  BY <1>5, SMTT(30)
  <1>7. num * size \in Nat /\ d * size \in Nat  BY <1>5, SMTT(30)
  <1>8. PICK n \in Nat : n = num * size  BY <1>7
  <1>9. n <= SIZE_MAX
    <2>1. PICK m \in Nat : m = d * size  BY <1>7
    <2>2. PICK t : t = q * size  OBVIOUS
    <2>3. t = n + m /\ t <= SIZE_MAX  BY <1>3, <1>6, <1>8, <2>1, <2>2
    <2> QED  BY <1>2, <1>8, <2>1, <2>3
  <1>10. n % (SIZE_MAX + 1) = n  BY <1>2, <1>8, <1>9
  <1> QED  BY <1>8, <1>10

LEMMA CallocStep ==
  ASSUME HeapInv, NEW a, NEW num \in Nat, NEW size \in Nat, Calloc(a, num, size)
  PROVE  HeapInv'
  <1>1. PICK h, L : h = allocator_init /\ L = live  OBVIOUS
  <1>2. HeapOK(h) /\ LiveOK(h.list, L) /\ DataOK(h.bytes, L)  BY <1>1, InitHeap
  <1>3. PICK total, s : /\ total = (num * size) % (SIZE_MAX + 1)
                        /\ s = align_size(total)
    OBVIOUS
  <1>4. total \in Nat
    <2>1. PICK n : n = num * size  OBVIOUS
    <2>2. n \in Nat  BY <2>1, SMTT(30)
    <2>3. SIZE_MAX \in Nat  BY HeapAssumption
    <2> QED  BY <1>3, <2>1, <2>2, <2>3
  <1>5. s \in Nat /\ Aligned(s) /\ (s # 0 => total <= s)  BY <1>3, <1>4, AlignSize
  <1>6. PICK r : r = Allocate(h, s)  OBVIOUS
  <1> DEFINE refused == num = 0 \/ size = 0 \/ Overflows(num, size) \/ s = 0
  <1>7. CASE refused
    <2>1. ret' = [op |-> "calloc", failed |-> 0] /\ UNCHANGED <<list, bytes, initialized, live>>
      BY <1>3, <1>7 DEF Calloc, Returns
    <2>2. ret'.op # "free"  BY <2>1
    <2> QED  BY <2>1, <2>2 DEF HeapInv
  <1>8. CASE ~refused /\ r.ptr = NULL
    <2>1. /\ initialized' = TRUE /\ ret' = [op |-> "calloc", failed |-> total] /\ Become(h, L)
      BY <1>1, <1>3, <1>6, <1>8 DEF Calloc, Returns
    <2>2. ret'.op # "free"  BY <2>1
    <2> QED  BY <1>2, <2>1, <2>2, BecomeOK
  <1>9. CASE ~refused /\ r.ptr # NULL
    <2>1. PICK g, M :
            /\ g = [r.heap EXCEPT !.bytes = Fill(r.heap.bytes, Range(r.ptr, total), Zero)]
            /\ M = Put(L, a, [ptr |-> r.ptr, len |-> total, tag |-> Zero])
      OBVIOUS
    <2>2. num * size = total
      <3>1. size \in Nat \ {0} /\ ~Overflows(num, size)  BY <1>9
      <3> QED  BY <1>3, <3>1, ProductFits
    <2>3. initialized' = TRUE /\ ret' = [op |-> "calloc", failed |-> 0] /\ Become(g, M)
      BY <1>1, <1>3, <1>6, <1>9, <2>1, <2>2 DEF Calloc, Returns, Zeroed
    <2>4. ret'.op # "free"  BY <2>3
    <2>5. a \notin DOMAIN L  BY <1>1 DEF Calloc
    <2>6. s # 0 /\ r.ptr # NULL  BY <1>9
    <2>7. HeapOK(g) /\ LiveOK(g.list, M) /\ DataOK(g.bytes, M)
      BY <1>2, <1>4, <1>5, <1>6, <2>1, <2>5, <2>6, GrantOK
    <2> QED  BY <2>3, <2>4, <2>7, BecomeOK
  <1> QED  BY <1>7, <1>8, <1>9

(* The heap that free and realloc find.                                     *)
LEMMA LiveHeap ==
  ASSUME HeapInv, NEW a \in DOMAIN live, NEW h, h = [list |-> list, bytes |-> bytes],
         NEW L, L = live
  PROVE  /\ initialized = TRUE /\ HeapOK(h) /\ LiveOK(h.list, L) /\ DataOK(h.bytes, L)
         /\ h.list = list /\ h.bytes = bytes
         /\ L[a] = [ptr |-> L[a].ptr, len |-> L[a].len, tag |-> L[a].tag]
         /\ L[a].ptr \in Nat /\ L[a].len \in Nat
         /\ L[a].ptr - HEADER \in Used(h.list) /\ L[a].len <= h.list[L[a].ptr - HEADER].size
  <1>1. h.list = list /\ h.bytes = bytes  OBVIOUS
  <1>2. initialized = TRUE /\ HeapOK(h)  BY DEF HeapInv
  <1>3. LiveOK(h.list, L) /\ DataOK(h.bytes, L)  BY <1>1 DEF HeapInv
  <1> QED  BY <1>1, <1>2, <1>3 DEF LiveOK

LEMMA FreeStep ==
  ASSUME HeapInv, NEW a, Free(a)
  PROVE  HeapInv'
  <1>1. PICK h, L : h = [list |-> list, bytes |-> bytes] /\ L = live  OBVIOUS
  <1>2. a \in DOMAIN live /\ a \in DOMAIN L  BY <1>1 DEF Free
  <1>3. /\ initialized = TRUE /\ HeapOK(h) /\ LiveOK(h.list, L) /\ DataOK(h.bytes, L)
        /\ L[a].ptr - HEADER \in Used(h.list)
    BY <1>1, <1>2, LiveHeap
  <1>4. PICK p, g, M : p = L[a].ptr /\ g = Release(h, p) /\ M = Drop(L, a)  OBVIOUS
  <1>5. Become(g, M) /\ initialized' = TRUE  BY <1>1, <1>3, <1>4 DEF Free
  <1>6. PICK b : b = p - HEADER  OBVIOUS
  <1>7. HeapOK(g) /\ KeepsBut(h, g, {b}) /\ b \notin Used(g.list) /\ Coalesced(g.list)
    <2>1. p - HEADER \in Used(h.list)  BY <1>3, <1>4
    <2>2. /\ HeapOK(g) /\ KeepsBut(h, g, {p - HEADER}) /\ p - HEADER \notin Used(g.list)
          /\ Coalesced(g.list)
      BY <1>3, <1>4, <2>1, ReleaseOK
    <2> QED  BY <1>6, <2>2
  <1>8. DOMAIN M = DOMAIN L \ {a} /\ \A c \in DOMAIN M : M[c] = L[c]  BY <1>4 DEF Drop
  <1>9. OnlyCaller(h, g, L, M, a, {b})
    <2>1. {b} \cap Used(h.list) = BlockOf(L, a)  BY <1>2, <1>3, <1>4, <1>6 DEF BlockOf
    <2>2. {b} \cap Used(g.list) = BlockOf(M, a)  BY <1>7, <1>8 DEF BlockOf
    <2>3. DOMAIN M \ {a} = DOMAIN L \ {a} /\ a \notin DOMAIN M  BY <1>8
    <2> QED  BY <1>7, <1>8, <2>1, <2>2, <2>3 DEF OnlyCaller
  <1>10. LiveOK(g.list, M) /\ DataOK(g.bytes, M)  BY <1>3, <1>9, OthersKeep
  <1> QED  BY <1>5, <1>7, <1>10, BecomeOK

LEMMA ReallocStep ==
  ASSUME HeapInv, NEW a, NEW size \in Nat, Realloc(a, size)
  PROVE  HeapInv'
  <1>1. PICK h, L : h = [list |-> list, bytes |-> bytes] /\ L = live  OBVIOUS
  <1>2. a \in DOMAIN live /\ a \in DOMAIN L  BY <1>1 DEF Realloc
  <1>3. /\ initialized = TRUE /\ HeapOK(h) /\ LiveOK(h.list, L) /\ DataOK(h.bytes, L)
        /\ L[a] = [ptr |-> L[a].ptr, len |-> L[a].len, tag |-> L[a].tag]
        /\ L[a].ptr \in Nat /\ L[a].len \in Nat
        /\ L[a].ptr - HEADER \in Used(h.list) /\ L[a].len <= h.list[L[a].ptr - HEADER].size
    BY <1>1, <1>2, LiveHeap
  <1>4. PICK s, p, n, t : s = align_size(size) /\ p = L[a].ptr /\ n = L[a].len /\ t = L[a].tag
    OBVIOUS
  <1>5. s \in Nat /\ Aligned(s) /\ (s # 0 => size <= s)  BY <1>4, AlignSize
  <1>6. PICK r : r = Resize(h, p, s)  OBVIOUS
  <1>7. p \in Nat /\ n \in Nat /\ p - HEADER \in Used(h.list) /\ n <= h.list[p - HEADER].size
    BY <1>3, <1>4
  <1>8. Resized(h, p, s, r)  BY <1>3, <1>5, <1>6, <1>7, ResizeOK
  <1>9. CASE r.ptr = NULL
    <2>1. ret' = [op |-> "realloc", failed |-> size] /\ UNCHANGED <<list, bytes, initialized, live>>
      BY <1>1, <1>4, <1>6, <1>9 DEF Realloc, Returns
    <2>2. ret'.op # "free"  BY <2>1
    <2> QED  BY <2>1, <2>2 DEF HeapInv
  <1>10. CASE r.ptr # NULL
    <2>1. PICK fresh, f, g, M :
            /\ fresh = (IF size > n THEN Range(r.ptr + n, size - n) ELSE {})
            /\ f = Fill(r.heap.bytes, fresh, t) /\ g = [r.heap EXCEPT !.bytes = f]
            /\ M = [L EXCEPT ![a].ptr = r.ptr, ![a].len = size]
      OBVIOUS
    <2>2. initialized' = TRUE /\ ret' = [op |-> "realloc", failed |-> 0] /\ Become(g, M)
      BY <1>1, <1>3, <1>4, <1>6, <1>10, <2>1 DEF Realloc, Returns
    <2>3. ret'.op # "free"  BY <2>2
    <2>4. PICK b : b = p - HEADER  OBVIOUS
    <2>5. PICK c \in Nat :
            /\ r.ptr = c + HEADER /\ HeapOK(r.heap) /\ KeepsBut(h, r.heap, {b, c})
            /\ c \in Used(r.heap.list) /\ s <= r.heap.list[c].size
            /\ c # b => c \notin Used(h.list) /\ b \notin Used(r.heap.list)
            /\ \A i \in Nat : i < s /\ i < h.list[b].size =>
                 r.heap.bytes[r.ptr + i] = h.bytes[p + i]
      BY <1>8, <1>10, <2>4 DEF Resized
    <2>6. PICK k, l, q : k = r.heap /\ l = k.list /\ q = r.ptr  OBVIOUS
    <2>7. /\ HeapOK(k) /\ ListOK(l) /\ DOMAIN k.bytes = Bytes /\ c \in DOMAIN l /\ c \in Used(l)
          /\ s <= l[c].size /\ q = c + HEADER /\ KeepsBut(h, k, {b, c})
      BY <2>5, <2>6 DEF HeapOK, Used
    <2>8. HEADER \in Nat /\ l[c].size \in Nat /\ Payload(l, c) \subseteq Bytes /\ h.list[b].size \in Nat
      <3>1. b \in DOMAIN h.list /\ ListOK(h.list)  BY <1>3, <1>7, <2>4 DEF Used, HeapOK
      <3> QED  BY <2>7, <3>1, BlockFacts, SizeFacts
    <2>9. s # 0
      <3> SUFFICES ASSUME s = 0  PROVE FALSE
        OBVIOUS
      <3>1. r = [ptr |-> NULL, heap |-> h]  BY <1>6 DEF Resize
      <3> QED  BY <1>10, <3>1
    <2>10. size <= s /\ size <= l[c].size  BY <1>5, <2>7, <2>8, <2>9
    <2>11. /\ fresh \subseteq Range(q, size)
           /\ \A i \in Range(q, size) : i \in fresh \/ i < q + n
      BY <1>7, <2>1, <2>6, <2>7, <2>8 DEF Range
    <2>12. Range(q, size) \subseteq Payload(l, c)  BY <2>7, <2>8, <2>10 DEF Range, Payload
    <2>13. DOMAIN f = Bytes /\ \A i \in Bytes : f[i] = IF i \in fresh THEN t ELSE k.bytes[i]
      BY <2>1, <2>6, <2>7 DEF Fill
    <2>14. HeapOK(g) /\ KeepsBut(k, g, {c}) /\ g.list = l /\ g.bytes = f
      <3>1. HeapOK(k) /\ c \in DOMAIN k.list /\ g = [k EXCEPT !.bytes = f]
        BY <2>1, <2>6, <2>7
      <3>2. OnlyPayload(k, c, f)  BY <2>6, <2>11, <2>12, <2>13 DEF OnlyPayload
      <3>3. Written(k, c, f, g)  BY <3>1, <3>2, PayloadWrite
      <3> QED  BY <2>6, <3>3 DEF Written
    <2>15. KeepsBut(h, g, {b, c})
      <3>1. KeepsBut(k, g, {b, c})  BY <2>14, KeepsMore
      <3> QED  BY <2>7, <3>1, KeepsTrans
    <2>16. ASSUME NEW i \in Range(q, size)  PROVE f[i] = t
      <3>1. i \in Bytes  BY <2>8, <2>12
      <3>2. CASE i \in fresh  BY <2>13, <3>1, <3>2
      <3>3. CASE i \notin fresh
        <4>1. PICK j : j = i - q  OBVIOUS
        <4>2. i \in Nat /\ q \in Nat /\ q <= i /\ i < q + size /\ i < q + n
          BY <2>7, <2>8, <2>11, <3>3 DEF Range
        <4>3. j \in Nat /\ i = q + j /\ j < size /\ j < n  BY <1>7, <4>1, <4>2
        <4>4. j < s /\ j < h.list[b].size  BY <1>5, <1>7, <2>4, <2>8, <2>10, <4>3
        <4>5. k.bytes[q + j] = h.bytes[p + j]  BY <2>5, <2>6, <4>3, <4>4
        <4>6. p + j \in Range(p, n)  BY <1>7, <4>3 DEF Range
        <4>7. h.bytes[p + j] = t  BY <1>2, <1>3, <1>4, <4>6 DEF DataOK
        <4> QED  BY <2>13, <3>1, <3>3, <4>3, <4>5, <4>7
      <3> QED  BY <3>2, <3>3
    <2>17. /\ DOMAIN M = DOMAIN L /\ M[a] = [ptr |-> q, len |-> size, tag |-> t]
           /\ \A d \in DOMAIN M : d # a => M[d] = L[d]
      <3>1. DOMAIN M = DOMAIN L /\ \A d \in DOMAIN M : d # a => M[d] = L[d]  BY <2>1
      <3>2. PICK e : e = L[a]  OBVIOUS
      <3>3. e = [ptr |-> p, len |-> n, tag |-> t]  BY <1>3, <1>4, <3>2
      <3>4. M[a] = [[e EXCEPT !.ptr = q] EXCEPT !.len = size]  BY <1>2, <2>1, <2>6, <3>2
      <3> QED  BY <3>1, <3>3, <3>4
    <2>18. /\ M[a] = [ptr |-> M[a].ptr, len |-> M[a].len, tag |-> M[a].tag]
           /\ M[a].ptr = q /\ M[a].len = size /\ M[a].tag = t
      BY <2>17
    <2>19. q - HEADER = c /\ q \in Nat  BY <2>7, <2>8
    <2>20. OnlyCaller(h, g, L, M, a, {b, c})
      <3>1. {b, c} \cap Used(h.list) = BlockOf(L, a)
        BY <1>2, <1>4, <1>7, <2>4, <2>5 DEF BlockOf
      <3>2. {b, c} \cap Used(g.list) = BlockOf(M, a)
        BY <1>2, <2>5, <2>6, <2>7, <2>14, <2>17, <2>18, <2>19 DEF BlockOf
      <3>3. DOMAIN M \ {a} = DOMAIN L \ {a}  BY <2>17
      <3>4. M[a].len <= g.list[M[a].ptr - HEADER].size  BY <2>10, <2>14, <2>18, <2>19
      <3>5. \A i \in Range(M[a].ptr, M[a].len) : g.bytes[i] = M[a].tag
        BY <2>14, <2>16, <2>18
      <3>6. M[a].ptr \in Nat /\ M[a].len \in Nat  BY <2>18, <2>19
      <3>7. \A d \in DOMAIN M : d # a => M[d] = L[d]  BY <2>17
      <3>8. M[a] = [ptr |-> M[a].ptr, len |-> M[a].len, tag |-> M[a].tag]  BY <2>18
      <3> QED  BY <2>15, <3>1, <3>2, <3>3, <3>4, <3>5, <3>6, <3>7, <3>8 DEF OnlyCaller
    <2>21. LiveOK(g.list, M) /\ DataOK(g.bytes, M)  BY <1>3, <2>20, OthersKeep
    <2> QED  BY <2>2, <2>3, <2>14, <2>21, BecomeOK
  <1> QED  BY <1>9, <1>10

-----------------------------------------------------------------------------
(* The theorems.                                                            *)

LEMMA InitInv ==
  Init => HeapInv
  <1> SUFFICES ASSUME Init  PROVE HeapInv
    OBVIOUS
  <1>1. DOMAIN list = {} /\ DOMAIN live = {} /\ DOMAIN bytes = Bytes /\ initialized = FALSE
    BY DEF Init
  <1>2. ret.op # "free"  BY DEF Init
  <1> QED  BY <1>1, <1>2 DEF HeapInv, LiveOK, DataOK, Used

LEMMA NextInv ==
  HeapInv /\ [Next]_vars => HeapInv'
  <1> SUFFICES ASSUME HeapInv, [Next]_vars  PROVE HeapInv'
    OBVIOUS
  <1>1. Sizes \subseteq Nat /\ \A c \in Counts : c[1] \in Nat /\ c[2] \in Nat
    BY HeapAssumption
  <1>2. CASE UNCHANGED vars  BY <1>2 DEF HeapInv, vars
  <1>3. ASSUME NEW a \in Owners, NEW size \in Sizes, Malloc(a, size)  PROVE HeapInv'
    BY <1>1, <1>3, MallocStep
  <1>4. ASSUME NEW a \in Owners, NEW size \in Sizes, Realloc(a, size)  PROVE HeapInv'
    BY <1>1, <1>4, ReallocStep
  <1>5. ASSUME NEW a \in Owners, NEW c \in Counts, Calloc(a, c[1], c[2])  PROVE HeapInv'
    BY <1>1, <1>5, CallocStep
  <1>6. ASSUME NEW a \in Owners, Free(a)  PROVE HeapInv'
    BY <1>6, FreeStep
  <1> QED  BY <1>2, <1>3, <1>4, <1>5, <1>6 DEF Next

LEMMA HeapAlways ==
  Spec => []HeapInv
  BY InitInv, NextInv, PTL DEF Spec

(* From the first call on, the blocks of stdlib.c tile the pool: whatever   *)
(* split_block, coalesce_all and realloc have done, each block ends where   *)
(* the next of the list begins, all sizes are aligned, and no caller, copy  *)
(* or zeroing has touched a header.                                         *)
THEOREM HeapTiled == Spec => []BlocksTilePool
  <1>1. HeapInv => BlocksTilePool
    <2> SUFFICES ASSUME HeapInv, initialized
                 PROVE  /\ 0 \in DOMAIN list
                        /\ \A b \in DOMAIN list :
                             LET end == b + HEADER + list[b].size
                             IN /\ Aligned(b) /\ Aligned(list[b].size)
                                /\ IF list[b].next = NULL THEN end = POOL_SIZE
                                   ELSE list[b].next = end /\ end \in DOMAIN list
                                /\ \A i \in Range(b, HEADER) : bytes[i] = Head
      BY DEF BlocksTilePool
    <2>1. PICK h : h = [list |-> list, bytes |-> bytes]  OBVIOUS
    <2>2. HeapOK(h) /\ h.list = list /\ h.bytes = bytes  BY <2>1 DEF HeapInv
    <2>3. ListOK(list) /\ HeadersOK(list, bytes)  BY <2>2 DEF HeapOK
    <2>4. \A b \in DOMAIN list : BlockOK(list, b)  BY <2>3 DEF ListOK
    <2> QED  BY <2>3, <2>4 DEF ListOK, BlockOK, HeadersOK, End
  <1> QED  BY <1>1, HeapAlways, PTL

(* What a caller wrote, or calloc zeroed, stays, through every later call   *)
(* of any caller, until that caller frees or rewrites it: also through a    *)
(* realloc that shrinks, grows in place, moves or fails.                    *)
THEOREM PayloadsIntact == Spec => []PayloadIntact
  <1>1. HeapInv => PayloadIntact  BY DEF HeapInv, DataOK, PayloadIntact
  <1> QED  BY <1>1, HeapAlways, PTL

(* The used blocks are exactly the callers' allocations, one each and large *)
(* enough: stdlib.c neither leaks a block nor hands one out twice.          *)
THEOREM UsedAreLive == Spec => []UsedBlocksAreLive
  <1>1. HeapInv => UsedBlocksAreLive
    <2> SUFFICES ASSUME HeapInv  PROVE UsedBlocksAreLive
      OBVIOUS
    <2>1. LiveOK(list, live)  BY DEF HeapInv
    <2>2. {b \in DOMAIN list : ~list[b].free} = {live[a].ptr - HEADER : a \in DOMAIN live}
      BY <2>1 DEF LiveOK, Used
    <2> QED  BY <2>1, <2>2 DEF LiveOK, UsedBlocksAreLive
  <1> QED  BY <1>1, HeapAlways, PTL

(* After a free no two neighbouring blocks are free: the one sweep of       *)
(* coalesce_all is enough, whatever the heap it starts from.                *)
THEOREM FreesCoalesce == Spec => []FreeCoalesces
  <1>1. HeapInv => FreeCoalesces
    <2> SUFFICES ASSUME HeapInv, ret.op = "free", NEW b \in DOMAIN list,
                        list[b].free, NextIsFree([list |-> list], b)
                 PROVE  FALSE
      BY DEF FreeCoalesces
    <2>1. list[b].next # NULL /\ list[list[b].next].free  BY DEF NextIsFree
    <2> QED  BY <2>1 DEF HeapInv, Coalesced
  <1> QED  BY <1>1, HeapAlways, PTL

=============================================================================
