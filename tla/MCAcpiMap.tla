----------------------------- MODULE MCAcpiMap ------------------------------
(* Pages of 2 bytes, tables of 4 entries: an identity map of 16 pages, a    *)
(* 512-byte translated range and 11-bit addresses.  The window of 5 slots   *)
(* needs a table at level 3, one at level 2 and two at level 1, and boot    *)
(* leaves between none and all four of those frames free.                   *)
EXTENDS AcpiMap

(* One byte at the end of the identity map; two bytes across its end; a    *)
(* register of one page, given back one access at a time; four pages from a *)
(* misaligned address; three pages whose last lies beyond the physical      *)
(* address width; three pages given back as two; too long; empty;           *)
(* overflowing.                                                             *)
MCRequests == {<<31, 1, 1>>, <<31, 2, 2>>, <<40, 2, 1>>, <<43, 7, 7>>,
               <<97, 4, 4>>, <<41, 4, 3>>, <<60, 12, 12>>, <<40, 0, 0>>, <<2047, 2047, 2047>>}

MCFreeLow == {{}, {5}, {4, 6}, {4, 5, 6}, {4, 5, 6, 7}}
=============================================================================
