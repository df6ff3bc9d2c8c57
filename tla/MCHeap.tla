------------------------------- MODULE MCHeap -------------------------------
(* A pool of 28 bytes with 4-byte headers and 2-byte alignment: three       *)
(* owners and up to four blocks.  The sizes are odd and even, too large,    *)
(* and such that aligning them overflows.                                   *)
EXTENDS Heap, TLC

MCSizes == {0, 1, 4, 5, 10, 63}

MCCounts == {<<1, 3>>, <<0, 2>>, <<9, 8>>}

OwnersSymmetry == Permutations(Owners)
=============================================================================
