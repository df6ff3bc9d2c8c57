-------------------------------- MODULE Heap --------------------------------
(***************************************************************************)
(* The kernel heap of kernel/lib/std/stdlib.c: malloc, free, realloc and    *)
(* calloc on a static pool, with a list of block headers inside the pool.   *)
(* Only the main thread calls them, so a call is one step.                  *)
(*                                                                          *)
(* A pointer is a byte offset into the pool.  The headers on the list are a *)
(* function from their offsets; what a byte holds is only its kind, or the  *)
(* allocation whose owner wrote it.                                         *)
(***************************************************************************)
EXTENDS Integers, FiniteSets

CONSTANTS
  POOL_SIZE,             \* bytes in the pool (1 MiB)
  HEADER,                \* sizeof(Block) (24)
  ALLOCATION_ALIGNMENT,  \* 8
  SIZE_MAX,              \* the largest size_t
  Owners,                \* names of allocations
  Sizes,                 \* sizes asked of malloc and realloc
  Counts                 \* pairs <<num, size>> asked of calloc

Aligned(n) == n % ALLOCATION_ALIGNMENT = 0

ASSUME HeapAssumption ==
  /\ ALLOCATION_ALIGNMENT \in Nat \ {0}
  /\ HEADER \in Nat \ {0} /\ Aligned(HEADER)
  /\ POOL_SIZE \in Nat /\ Aligned(POOL_SIZE)
  /\ POOL_SIZE >= HEADER + ALLOCATION_ALIGNMENT /\ SIZE_MAX \in Nat
  /\ POOL_SIZE + HEADER + ALLOCATION_ALIGNMENT <= SIZE_MAX
  /\ Aligned(SIZE_MAX + 1)
  /\ Owners \cap {0, -1, -2} = {}
  /\ Sizes \subseteq 0 .. SIZE_MAX
  /\ Counts \subseteq (0 .. SIZE_MAX) \X (0 .. SIZE_MAX)

VARIABLES
  list,            \* the headers, by offset
  bytes,           \* what each byte of the pool holds
  initialized,     \* allocator_initialized
  live,            \* the allocations of the callers, by owner
  ret              \* the last call, and the size it failed to provide

vars == <<list, bytes, initialized, live, ret>>

Bytes == 0 .. POOL_SIZE - 1

NULL == -1         \* also the end of the list

(* Contents of a byte besides an owner's data.                              *)
Zero == 0
Junk == -1
Head == -2

Returns(op, failed) == ret' = [op |-> op, failed |-> failed]

Init ==
  /\ list = [b \in {} |-> 0]
  /\ bytes = [i \in Bytes |-> Zero]
  /\ initialized = FALSE
  /\ live = [a \in {} |-> 0]
  /\ ret = [op |-> "none", failed |-> 0]

-----------------------------------------------------------------------------
(* The list.  A heap h is a record of the two functions list and bytes.     *)

Range(from, length) == from .. from + length - 1

Fill(f, S, v) == [i \in DOMAIN f |-> IF i \in S THEN v ELSE f[i]]

Put(f, x, v) == [y \in DOMAIN f \cup {x} |-> IF y = x THEN v ELSE f[y]]

Drop(f, x) == [y \in DOMAIN f \ {x} |-> f[y]]

align_size(size) ==
  LET padding == ALLOCATION_ALIGNMENT - 1
  IN IF size > SIZE_MAX - padding THEN 0
     ELSE ((size + padding) \div ALLOCATION_ALIGNMENT) * ALLOCATION_ALIGNMENT

(* The block after n links of the chain that starts at free_list.           *)
Chain(h) ==
  LET link[n \in 0 .. POOL_SIZE] ==
        IF n = 0 THEN 0
        ELSE IF link[n - 1] = NULL THEN NULL
        ELSE h.list[link[n - 1]].next
  IN link

(* A header is written at offset b.                                         *)
Write(h, b, header) ==
  [list |-> Put(h.list, b, header), bytes |-> Fill(h.bytes, Range(b, HEADER), Head)]

allocator_init ==
  IF initialized THEN [list |-> list, bytes |-> bytes]
  ELSE Write([list |-> list, bytes |-> bytes], 0,
             [size |-> POOL_SIZE - HEADER, free |-> TRUE, next |-> NULL])

split_block(h, b, size) ==
  LET block == h.list[b]
      rest  == b + HEADER + size
  IN IF block.size < size + HEADER + ALLOCATION_ALIGNMENT THEN h
     ELSE Write(Write(h, rest, [size |-> block.size - size - HEADER,
                                free |-> TRUE, next |-> block.next]),
                b, [block EXCEPT !.size = size, !.next = rest])

(* A bug in coalesce_all: the header of the absorbed block is not counted.  *)
MutAbsorb(h, b) ==
  LET n == h.list[b].next
  IN [h EXCEPT !.list =
       Drop([h.list EXCEPT ![b].size = @ + h.list[n].size,
                           ![b].next = h.list[n].next], n)]

(* b takes over the block after it, whose header leaves the list.           *)
Absorb(h, b) ==
  LET n == h.list[b].next
  IN [h EXCEPT !.list =
       Drop([h.list EXCEPT ![b].size = @ + HEADER + h.list[n].size,
                           ![b].next = h.list[n].next], n)]

NextIsFree(h, b) == h.list[b].next # NULL /\ h.list[h.list[b].next].free

(* A bug in coalesce_all: each free block absorbs at most one neighbour,    *)
(* and the sweep stops at the first.                                        *)
MutCoalesce(h) ==
  LET C == {b \in DOMAIN h.list : h.list[b].free /\ NextIsFree(h, b)}
  IN IF C = {} THEN h ELSE Absorb(h, CHOOSE b \in C : \A c \in C : b <= c)

(* One step of the sweep of coalesce_all: current absorbs its neighbour or  *)
(* moves on.                                                                *)
SweepStep(s) ==
  IF s.current = NULL THEN s
  ELSE IF s.heap.list[s.current].free /\ NextIsFree(s.heap, s.current)
  THEN [s EXCEPT !.heap = Absorb(s.heap, s.current)]
  ELSE [s EXCEPT !.current = s.heap.list[s.current].next]

(* The sweep after n steps.  POOL_SIZE steps are enough: each one moves the *)
(* end of the current block up.                                             *)
Sweep(h) ==
  LET sweep[n \in 0 .. POOL_SIZE] ==
        IF n = 0 THEN [heap |-> h, current |-> 0] ELSE SweepStep(sweep[n - 1])
  IN sweep

coalesce_all(h) == Sweep(h)[POOL_SIZE].heap

-----------------------------------------------------------------------------
(* The calls as functions of the heap.                                      *)

Suits(h, b, size) == h.list[b].free /\ h.list[b].size >= size

(* malloc: the first block of the chain that suits, split and marked.  The  *)
(* argument is the aligned size.                                            *)
Allocate(h, size) ==
  LET chain == Chain(h)
      hits  == {n \in DOMAIN chain :
                  chain[n] # NULL /\ Suits(h, chain[n], size)}
      b     == chain[CHOOSE n \in hits : \A m \in hits : n <= m]
      split == split_block(h, b, size)
  IN IF size = 0 \/ hits = {} THEN [ptr |-> NULL, heap |-> h]
     ELSE [ptr  |-> b + HEADER,
           heap |-> [split EXCEPT !.list[b].free = FALSE]]

(* free: the header is just before the payload.                             *)
Release(h, ptr) ==
  IF h.list[ptr - HEADER].free THEN h
  ELSE coalesce_all([h EXCEPT !.list[ptr - HEADER].free = TRUE])

(* A bug in the copy of realloc: one byte short.                            *)
MutCopy(f, from, to, length) ==
  [i \in DOMAIN f |-> IF i \in Range(to, length - 1) THEN f[i - to + from] ELSE f[i]]

Copy(f, from, to, length) ==
  [i \in DOMAIN f |-> IF i \in Range(to, length) THEN f[i - to + from] ELSE f[i]]

(* realloc of a pointer to a larger or smaller aligned size: shrink in      *)
(* place, grow over a free neighbour, or move.                              *)
Resize(h, ptr, size) ==
  LET b    == ptr - HEADER
      old  == h.list[b].size
      next == h.list[b].next
      move == Allocate(h, size)
      copied == [move.heap EXCEPT !.bytes = Copy(@, ptr, move.ptr, old)]
  IN IF size = 0 \/ h.list[b].free THEN [ptr |-> NULL, heap |-> h]
     ELSE IF size <= old THEN [ptr |-> ptr, heap |-> split_block(h, b, size)]
     ELSE IF NextIsFree(h, b) /\ old + HEADER + h.list[next].size >= size
     THEN [ptr |-> ptr, heap |-> split_block(Absorb(h, b), b, size)]
     ELSE IF move.ptr = NULL THEN move
     ELSE [ptr |-> move.ptr, heap |-> Release(copied, ptr)]

-----------------------------------------------------------------------------
(* The calls as steps.                                                      *)

(* The bytes of the pool that somebody will read again: the headers on the  *)
(* list and the data of the callers.  The others are forgotten.             *)
Headers(l) == UNION {Range(b, HEADER) : b \in DOMAIN l}

Data(L) == UNION {Range(L[a].ptr, L[a].len) : a \in DOMAIN L}

Become(h, L) ==
  /\ list' = h.list
  /\ bytes' = Fill(h.bytes, Bytes \ (Headers(h.list) \cup Data(L)), Junk)
  /\ live' = L

(* The owner of a new allocation writes all of it; the owner of a grown one *)
(* writes the new part and relies on the old.                               *)
Malloc(a, size) ==
  /\ a \notin DOMAIN live
  /\ LET s == align_size(size)
         r == Allocate(allocator_init, s)
         h == [r.heap EXCEPT !.bytes = Fill(@, Range(r.ptr, size), a)]
     IN IF size = 0 \/ s = 0
        THEN Returns("malloc", size) /\ UNCHANGED <<list, bytes, initialized, live>>
        ELSE /\ initialized' = TRUE
             /\ IF r.ptr = NULL
                THEN Returns("malloc", size) /\ Become(allocator_init, live)
                ELSE /\ Returns("malloc", 0)
                     /\ Become(h, Put(live, a, [ptr |-> r.ptr, len |-> size, tag |-> a]))

Zeroed(f, ptr, size) == Fill(f, Range(ptr, size), Zero)

(* A bug: calloc trusts the product.                                        *)
MutOverflows(num, size) == FALSE

Overflows(num, size) == num > SIZE_MAX \div size

(* The product is a size_t; the caller takes the block for num * size bytes *)
(* and relies on the zeros.                                                 *)
Calloc(a, num, size) ==
  /\ a \notin DOMAIN live
  /\ LET total == (num * size) % (SIZE_MAX + 1)
         s == align_size(total)
         r == Allocate(allocator_init, s)
         h == [r.heap EXCEPT !.bytes = Zeroed(@, r.ptr, total)]
     IN IF num = 0 \/ size = 0 \/ Overflows(num, size) \/ s = 0
        THEN Returns("calloc", 0) /\ UNCHANGED <<list, bytes, initialized, live>>
        ELSE /\ initialized' = TRUE
             /\ IF r.ptr = NULL
                THEN Returns("calloc", total) /\ Become(allocator_init, live)
                ELSE /\ Returns("calloc", 0)
                     /\ Become(h, Put(live, a, [ptr |-> r.ptr, len |-> num * size, tag |-> Zero]))

(* free, also as realloc(ptr, 0).                                           *)
Free(a) ==
  /\ a \in DOMAIN live
  /\ Become(Release([list |-> list, bytes |-> bytes], live[a].ptr), Drop(live, a))
  /\ Returns("free", 0)
  /\ UNCHANGED initialized

Realloc(a, size) ==
  /\ a \in DOMAIN live /\ size # 0
  /\ LET m == live[a]
         r == Resize([list |-> list, bytes |-> bytes], m.ptr, align_size(size))
         fresh == IF size > m.len THEN Range(r.ptr + m.len, size - m.len) ELSE {}
     IN IF r.ptr = NULL
        THEN Returns("realloc", size) /\ UNCHANGED <<list, bytes, live>>
        ELSE /\ Returns("realloc", 0)
             /\ Become([r.heap EXCEPT !.bytes = Fill(@, fresh, m.tag)],
                       [live EXCEPT ![a].ptr = r.ptr, ![a].len = size])
  /\ UNCHANGED initialized

Next ==
  \E a \in Owners :
    \/ \E size \in Sizes : Malloc(a, size) \/ Realloc(a, size)
    \/ \E c \in Counts : Calloc(a, c[1], c[2])
    \/ Free(a)

Spec == Init /\ [][Next]_vars

-----------------------------------------------------------------------------
(* Properties.                                                              *)

(* The state stays within its types.                                        *)
TypeOK ==
  /\ DOMAIN list \subseteq Bytes
  /\ \A b \in DOMAIN list :
       list[b] \in [size : Bytes, free : BOOLEAN, next : Bytes \cup {NULL}]
  /\ bytes \in [Bytes -> Owners \cup {Zero, Junk, Head}]
  /\ initialized \in BOOLEAN
  /\ DOMAIN live \subseteq Owners
  /\ \A a \in DOMAIN live : live[a].ptr \in Bytes /\ live[a].len \in 1 .. POOL_SIZE
  /\ ret.op \in {"none", "malloc", "calloc", "free", "realloc"}

(* The blocks tile the pool: each one ends where the next of the list       *)
(* begins, the last one at the end of the pool, every header and payload is *)
(* aligned, and no payload has overwritten a header.                        *)
BlocksTilePool ==
  initialized =>
    /\ 0 \in DOMAIN list
    /\ \A b \in DOMAIN list :
         LET end == b + HEADER + list[b].size
         IN /\ Aligned(b) /\ Aligned(list[b].size)
            /\ IF list[b].next = NULL THEN end = POOL_SIZE
               ELSE list[b].next = end /\ end \in DOMAIN list
            /\ \A i \in Range(b, HEADER) : bytes[i] = Head

(* What the owner of an allocation wrote is there, all of it, whatever      *)
(* others do, and whether a realloc shrank, grew in place, moved or failed; *)
(* a calloc left only zeros.                                                *)
PayloadIntact ==
  \A a \in DOMAIN live :
    \A i \in Range(live[a].ptr, live[a].len) : bytes[i] = live[a].tag

(* The blocks marked used are exactly the allocations, each large enough:   *)
(* no block is leaked by a failing or moving realloc or handed out twice.   *)
UsedBlocksAreLive ==
  /\ {b \in DOMAIN list : ~list[b].free} = {live[a].ptr - HEADER : a \in DOMAIN live}
  /\ \A a, c \in DOMAIN live : a # c => live[a].ptr # live[c].ptr
  /\ \A a \in DOMAIN live : live[a].len <= list[live[a].ptr - HEADER].size

(* After a free no two neighbours are both free.                            *)
FreeCoalesces ==
  ret.op = "free" =>
    \A b \in DOMAIN list : ~(list[b].free /\ NextIsFree([list |-> list], b))

(* The bytes of a run of adjacent free blocks from b to c, as one block     *)
(* would offer them.                                                        *)
FreeRun(b, c) ==
  /\ b <= c
  /\ \A d \in DOMAIN list : b <= d /\ d <= c => list[d].free

(* The comment on coalesce_all says that it completely resolves starvation  *)
(* caused by fragmentation: malloc would fail only when no run of adjacent  *)
(* free blocks could hold the request.                                      *)
NoStarvation ==
  ret.op = "malloc" /\ align_size(ret.failed) # 0 =>
    \A b, c \in DOMAIN list :
      FreeRun(b, c) => c + list[c].size - b < align_size(ret.failed)

=============================================================================
