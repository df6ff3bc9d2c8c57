--------------------------- MODULE FrameAllocator ---------------------------
(***************************************************************************)
(* What the physical memory manager promises its callers, without bitmap,   *)
(* counter or boot sequence: once it is open, a caller that asks for a      *)
(* frame below a limit gets one that nobody holds, or is refused when there *)
(* is none; a frame that is given back can be granted again.  Frame 0 is    *)
(* never granted, because its address means failure.                        *)
(***************************************************************************)
EXTENDS Integers

CONSTANT Limits    \* the limits callers may ask for, exclusive

VARIABLES
  ram,             \* the frames the allocator is there to hand out
  open,            \* the allocator accepts calls
  free,            \* the frames it can grant
  held,            \* the frames callers hold
  answer           \* the limit asked for last and the frame granted, or 0

vars == <<ram, open, free, held, answer>>

NoAnswer == [limit |-> 0, frame |-> 0]

Init ==
  /\ open = FALSE
  /\ free = {} /\ held = {} /\ answer = NoAnswer

Open ==
  /\ ~open
  /\ open' = TRUE /\ free' = ram
  /\ UNCHANGED <<ram, held, answer>>

Grant(limit, f) ==
  /\ open /\ f \in free /\ f \in 1 .. limit - 1
  /\ free' = free \ {f} /\ held' = held \cup {f}
  /\ answer' = [limit |-> limit, frame |-> f]
  /\ UNCHANGED <<ram, open>>

Refuse(limit) ==
  /\ open /\ free \cap 1 .. limit - 1 = {}
  /\ answer' = [limit |-> limit, frame |-> 0]
  /\ UNCHANGED <<ram, open, free, held>>

Return(f) ==
  /\ open /\ f \in held
  /\ held' = held \ {f} /\ free' = free \cup {f}
  /\ answer' = NoAnswer
  /\ UNCHANGED <<ram, open>>

(* A call that gives back nothing the caller holds has no effect.           *)
Ignore ==
  /\ open
  /\ answer' = NoAnswer
  /\ UNCHANGED <<ram, open, free, held>>

Next ==
  \/ Open \/ Ignore
  \/ \E limit \in Limits : Refuse(limit) \/ \E f \in free : Grant(limit, f)
  \/ \E f \in held : Return(f)

Spec == Init /\ [][Next]_vars

=============================================================================
