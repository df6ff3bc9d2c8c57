------------------------------ MODULE KbdRing -------------------------------
(***************************************************************************)
(* The ring buffer of kernel/drivers/keyboard/kb.c between the keyboard     *)
(* interrupt handler, which pushes, and the main thread, which pops.  There *)
(* is no lock: the handler runs with interrupts off and in one piece as the *)
(* thread sees it, and a pop is three steps that the handler may interrupt. *)
(* The variables are not volatile; the Makefile compiles without            *)
(* optimisation, so every access is a load or store in program order.       *)
(***************************************************************************)
EXTENDS Integers, Sequences

CONSTANT KBD_BUF_SIZE    \* 256

ASSUME RingAssumption == KBD_BUF_SIZE \in Nat /\ KBD_BUF_SIZE > 1

VARIABLES kbd_buffer, kbd_head, kbd_tail

ringVars == <<kbd_buffer, kbd_head, kbd_tail>>

RingIndex == 0 .. KBD_BUF_SIZE - 1

(* The buffer and its indices are in .bss.                                  *)
RingInit ==
  /\ kbd_buffer = [i \in RingIndex |-> 0]
  /\ kbd_head = 0 /\ kbd_tail = 0

Advance(i) == (i + 1) % KBD_BUF_SIZE

RingEmpty == kbd_head = kbd_tail

(* A bug in kbd_push: the full test is missing.                             *)
MutPushOverwrites(scancode) ==
  /\ kbd_buffer' = [kbd_buffer EXCEPT ![kbd_head] = scancode]
  /\ kbd_head' = Advance(kbd_head)
  /\ UNCHANGED kbd_tail

kbd_push(scancode) ==
  /\ IF Advance(kbd_head) # kbd_tail
     THEN /\ kbd_buffer' = [kbd_buffer EXCEPT ![kbd_head] = scancode]
          /\ kbd_head' = Advance(kbd_head)
     ELSE UNCHANGED <<kbd_buffer, kbd_head>>
  /\ UNCHANGED kbd_tail

(* The last step of kbd_pop; before it come the test RingEmpty and the read *)
(* of kbd_buffer[kbd_tail].                                                 *)
PopAdvance ==
  /\ kbd_tail' = Advance(kbd_tail)
  /\ UNCHANGED <<kbd_buffer, kbd_head>>

(* The scancodes waiting, oldest first.                                     *)
Waiting ==
  [i \in 1 .. (kbd_head - kbd_tail + KBD_BUF_SIZE) % KBD_BUF_SIZE |->
     kbd_buffer[(kbd_tail + i - 1) % KBD_BUF_SIZE]]

=============================================================================
