------------------------------ MODULE MCKbdIrq ------------------------------
(* Timer and keyboard, a ring of three slots (two scancodes) and four       *)
(* bytes, so that the ring wraps, fills and overflows.                      *)
EXTENDS KbdIrq
=============================================================================
