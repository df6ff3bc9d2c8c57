----------------------------- MODULE MCMemBoot ------------------------------
(* A machine with 5 pages of 2 bytes and a 4-bit address space, the kernel  *)
(* image in bytes [4, 7).                                                   *)
EXTENDS MemBoot

Entries ==
  {e \in [type : {AVAILABLE, RESERVED}, base : {0, 1, 5, 12},
          length : {0, 1, 3, 6, 14}] : e.base + e.length + 2 <= 16}

MCMaps == {<<a>> : a \in Entries} \cup {<<a, b>> : a \in Entries, b \in Entries}

MCAddresses == 0 .. 13
=============================================================================
