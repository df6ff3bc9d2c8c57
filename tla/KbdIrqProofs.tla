---------------------------- MODULE KbdIrqProofs ----------------------------
(***************************************************************************)
(* Proofs about KbdIrq, for a ring of any size, any number of bytes and any *)
(* set of interrupt lines: the interrupt path serves what it accepts, and   *)
(* the ring is a FIFO although a pop is interrupted between any two steps.  *)
(***************************************************************************)
EXTENDS KbdIrq, SequenceTheorems, TLAPS

-----------------------------------------------------------------------------
(* Arithmetic of the ring.                                                  *)

(* The remainder of a number below twice the divisor.                       *)
LEMMA ModOnce ==
  ASSUME NEW n \in Nat, n > 0, NEW x \in 0 .. 2 * n - 1
  PROVE  x % n = IF x < n THEN x ELSE x - n
  <1>1. CASE x < n  BY <1>1
  <1>2. CASE x >= n
    <2>1. x - n \in 0 .. n - 1  BY <1>2
    <2>2. (x - n) % n = x - n  BY <2>1
    <2>3. x % n = (x - n) % n  BY <1>2, <2>1
    <2> QED  BY <1>2, <2>2, <2>3
  <1> QED  BY <1>1, <1>2

(* How many scancodes a ring with these indices holds, where the i-th of    *)
(* them is, and what they are.                                              *)
Gap(h, t) == (h - t + KBD_BUF_SIZE) % KBD_BUF_SIZE

Place(t, i) == (t + i - 1) % KBD_BUF_SIZE

Contents(b, h, t) == [i \in 1 .. Gap(h, t) |-> b[Place(t, i)]]

(* The modular arithmetic of the ring, by cases.                            *)
LEMMA AdvanceCases ==
  ASSUME NEW i \in RingIndex
  PROVE  /\ Advance(i) = IF i = KBD_BUF_SIZE - 1 THEN 0 ELSE i + 1
         /\ Advance(i) \in RingIndex
  <1>1. i + 1 \in 0 .. 2 * KBD_BUF_SIZE - 1  BY RingAssumption DEF RingIndex
  <1> QED  BY <1>1, ModOnce, RingAssumption DEF Advance, RingIndex

LEMMA GapCases ==
  ASSUME NEW h \in RingIndex, NEW t \in RingIndex
  PROVE  /\ Gap(h, t) = IF h >= t THEN h - t ELSE h - t + KBD_BUF_SIZE
         /\ Gap(h, t) \in 0 .. KBD_BUF_SIZE - 1
  <1>1. h - t + KBD_BUF_SIZE \in 0 .. 2 * KBD_BUF_SIZE - 1
    BY RingAssumption DEF RingIndex
  <1> QED  BY <1>1, ModOnce, RingAssumption DEF Gap, RingIndex

LEMMA PlaceCases ==
  ASSUME NEW t \in RingIndex, NEW i \in 1 .. KBD_BUF_SIZE
  PROVE  /\ Place(t, i) = IF t + i - 1 < KBD_BUF_SIZE THEN t + i - 1
                          ELSE t + i - 1 - KBD_BUF_SIZE
         /\ Place(t, i) \in RingIndex
  <1> DEFINE x == t + i - 1
  <1>1. x \in 0 .. 2 * KBD_BUF_SIZE - 1  BY RingAssumption DEF RingIndex
  <1>2. Place(t, i) = x % KBD_BUF_SIZE  BY DEF Place
  <1> HIDE DEF x
  <1>3. Place(t, i) = IF x < KBD_BUF_SIZE THEN x ELSE x - KBD_BUF_SIZE
    BY <1>1, <1>2, ModOnce, RingAssumption
  <1> QED  BY <1>3, RingAssumption DEF x, RingIndex

(* A ring is full when one more scancode would make it look empty.          *)
LEMMA FullRing ==
  ASSUME NEW h \in RingIndex, NEW t \in RingIndex
  PROVE  Gap(h, t) < KBD_BUF_SIZE - 1 <=> Advance(h) # t
  <1>1. Advance(h) = IF h = KBD_BUF_SIZE - 1 THEN 0 ELSE h + 1  BY AdvanceCases
  <1>2. Gap(h, t) = IF h >= t THEN h - t ELSE h - t + KBD_BUF_SIZE  BY GapCases
  <1> QED  BY <1>1, <1>2, RingAssumption DEF RingIndex

(* What waits is a sequence of scancodes.                                   *)
LEMMA ContentsSeq ==
  ASSUME NEW b \in [RingIndex -> 0 .. MaxKeys], NEW h \in RingIndex, NEW t \in RingIndex
  PROVE  /\ Contents(b, h, t) \in Seq(0 .. MaxKeys)
         /\ Len(Contents(b, h, t)) = Gap(h, t)
  <1>1. Gap(h, t) \in 0 .. KBD_BUF_SIZE - 1  BY GapCases
  <1>2. ASSUME NEW i \in 1 .. Gap(h, t)
        PROVE  b[Place(t, i)] \in 0 .. MaxKeys
    <2>1. i \in 1 .. KBD_BUF_SIZE  BY <1>1, RingAssumption
    <2> QED  BY <2>1, PlaceCases
  <1>3. Contents(b, h, t) \in [1 .. Gap(h, t) -> 0 .. MaxKeys]  BY <1>2 DEF Contents
  <1>4. Contents(b, h, t) \in Seq(0 .. MaxKeys)
    <2>1. Gap(h, t) \in Nat  BY <1>1, RingAssumption
    <2> QED  BY <1>3, <2>1, SeqDef, Zenon
  <1>5. DOMAIN Contents(b, h, t) = 1 .. Gap(h, t)  BY <1>3
  <1> QED  BY <1>1, <1>4, <1>5, LenProperties

(* A scancode stored at the head of a ring that is not full comes last.     *)
LEMMA PushContents ==
  ASSUME NEW b \in [RingIndex -> 0 .. MaxKeys], NEW h \in RingIndex, NEW t \in RingIndex,
         NEW c \in 0 .. MaxKeys, Advance(h) # t
  PROVE  Contents([b EXCEPT ![h] = c], Advance(h), t) = Append(Contents(b, h, t), c)
  <1> USE RingAssumption
  <1> DEFINE n == Gap(h, t)
             d == [b EXCEPT ![h] = c]
  <1>1. Advance(h) = (IF h = KBD_BUF_SIZE - 1 THEN 0 ELSE h + 1) /\ Advance(h) \in RingIndex
    BY AdvanceCases
  <1>2. n = (IF h >= t THEN h - t ELSE h - t + KBD_BUF_SIZE) /\ n \in 0 .. KBD_BUF_SIZE - 2
    BY GapCases, FullRing
  <1>3. Gap(Advance(h), t) = n + 1
    <2>1. Gap(Advance(h), t) = IF Advance(h) >= t THEN Advance(h) - t
                               ELSE Advance(h) - t + KBD_BUF_SIZE
      BY <1>1, GapCases
    <2> HIDE DEF n
    <2> QED  BY <1>1, <1>2, <2>1 DEF RingIndex
  <1> HIDE DEF n
  <1>4. ASSUME NEW i \in 1 .. n + 1
        PROVE  d[Place(t, i)] = IF i = n + 1 THEN c ELSE b[Place(t, i)]
    <2>1. i \in 1 .. KBD_BUF_SIZE  BY <1>2
    <2>2. /\ Place(t, i) = IF t + i - 1 < KBD_BUF_SIZE THEN t + i - 1
                           ELSE t + i - 1 - KBD_BUF_SIZE
          /\ Place(t, i) \in RingIndex
      BY <2>1, PlaceCases
    <2>3. Place(t, i) = h <=> i = n + 1
      BY <1>2, <2>1, <2>2 DEF RingIndex
    <2> QED  BY <2>2, <2>3
  <1>5. Contents(b, h, t) = [i \in 1 .. n |-> b[Place(t, i)]]
    BY DEF Contents, n
  <1>6. Contents(d, Advance(h), t) = [i \in 1 .. n + 1 |-> d[Place(t, i)]]
    BY <1>3 DEF Contents
  <1>7. Contents(b, h, t) \in Seq(0 .. MaxKeys) /\ Len(Contents(b, h, t)) = n
    BY ContentsSeq DEF n
  <1> DEFINE s == Contents(b, h, t)
             u == Contents(d, Advance(h), t)
  <1>8. d \in [RingIndex -> 0 .. MaxKeys]  OBVIOUS
  <1>9. u \in Seq(0 .. MaxKeys) /\ Len(u) = n + 1
    BY <1>1, <1>3, <1>8, ContentsSeq
  <1>10. /\ Append(s, c) \in Seq(0 .. MaxKeys) /\ Len(Append(s, c)) = n + 1
         /\ \A i \in 1 .. n : Append(s, c)[i] = s[i]
         /\ Append(s, c)[n + 1] = c
    BY <1>7, AppendProperties
  <1>11. ASSUME NEW i \in 1 .. n + 1
         PROVE  u[i] = Append(s, c)[i]
    <2>1. u[i] = IF i = n + 1 THEN c ELSE b[Place(t, i)]  BY <1>4, <1>6
    <2>2. CASE i = n + 1  BY <1>10, <2>1, <2>2
    <2>3. CASE i # n + 1
      <3>1. i \in 1 .. n  BY <1>2, <2>3
      <3>2. s[i] = b[Place(t, i)]  BY <1>5, <3>1
      <3> QED  BY <1>10, <2>1, <2>3, <3>1, <3>2
    <2> QED  BY <2>2, <2>3
  <1> HIDE DEF s, u
  <1>12. u = Append(s, c)  BY <1>9, <1>10, <1>11, SeqEqual
  <1> QED  BY <1>12 DEF d, s, u

(* Moving the tail of a ring that is not empty takes the first one away.    *)
LEMMA PopContents ==
  ASSUME NEW b \in [RingIndex -> 0 .. MaxKeys], NEW h \in RingIndex, NEW t \in RingIndex,
         h # t
  PROVE  /\ Contents(b, h, t) # <<>> /\ Head(Contents(b, h, t)) = b[t]
         /\ Contents(b, h, Advance(t)) = Tail(Contents(b, h, t))
  <1> USE RingAssumption
  <1> DEFINE n == Gap(h, t)
  <1>1. Advance(t) = (IF t = KBD_BUF_SIZE - 1 THEN 0 ELSE t + 1) /\ Advance(t) \in RingIndex
    BY AdvanceCases
  <1>2. n = (IF h >= t THEN h - t ELSE h - t + KBD_BUF_SIZE) /\ n \in 1 .. KBD_BUF_SIZE - 1
    <2>1. Gap(h, t) = IF h >= t THEN h - t ELSE h - t + KBD_BUF_SIZE  BY GapCases
    <2>2. Gap(h, t) \in 0 .. KBD_BUF_SIZE - 1  BY GapCases
    <2> QED  BY <2>1, <2>2 DEF RingIndex
  <1>3. Gap(h, Advance(t)) = n - 1
    <2>1. Gap(h, Advance(t)) = IF h >= Advance(t) THEN h - Advance(t)
                               ELSE h - Advance(t) + KBD_BUF_SIZE
      BY <1>1, GapCases
    <2> HIDE DEF n
    <2> QED  BY <1>1, <1>2, <2>1 DEF RingIndex
  <1> HIDE DEF n
  <1>4. ASSUME NEW i \in 1 .. n - 1
        PROVE  Place(Advance(t), i) = Place(t, i + 1)
    <2>1. i \in 1 .. KBD_BUF_SIZE /\ i + 1 \in 1 .. KBD_BUF_SIZE  BY <1>2
    <2>2. Place(Advance(t), i) =
            IF Advance(t) + i - 1 < KBD_BUF_SIZE THEN Advance(t) + i - 1
            ELSE Advance(t) + i - 1 - KBD_BUF_SIZE
      BY <1>1, <2>1, PlaceCases
    <2>3. Place(t, i + 1) =
            IF t + (i + 1) - 1 < KBD_BUF_SIZE THEN t + (i + 1) - 1
            ELSE t + (i + 1) - 1 - KBD_BUF_SIZE
      BY <2>1, PlaceCases
    <2> QED  BY <1>1, <1>2, <2>1, <2>2, <2>3 DEF RingIndex
  <1>5. Contents(b, h, t) = [i \in 1 .. n |-> b[Place(t, i)]]
    BY DEF Contents, n
  <1>6. Contents(b, h, Advance(t)) = [i \in 1 .. n - 1 |-> b[Place(Advance(t), i)]]
    BY <1>3 DEF Contents
  <1>7. Contents(b, h, t) \in Seq(0 .. MaxKeys) /\ Len(Contents(b, h, t)) = n
    BY ContentsSeq DEF n
  <1>8. Place(t, 1) = t
    <2>1. 1 \in 1 .. KBD_BUF_SIZE  OBVIOUS
    <2> QED  BY <2>1, PlaceCases DEF RingIndex
  <1>9. Contents(b, h, t) # <<>> /\ Head(Contents(b, h, t)) = b[t]
    BY <1>2, <1>5, <1>7, <1>8
  <1> DEFINE s == Contents(b, h, t)
             u == Contents(b, h, Advance(t))
  <1>10. u \in Seq(0 .. MaxKeys) /\ Len(u) = n - 1
    BY <1>1, <1>3, ContentsSeq
  <1>11. /\ Tail(s) \in Seq(0 .. MaxKeys) /\ Len(Tail(s)) = n - 1
         /\ \A i \in 1 .. n - 1 : Tail(s)[i] = s[i + 1]
    BY <1>7, <1>9, HeadTailProperties
  <1>12. ASSUME NEW i \in 1 .. n - 1
         PROVE  u[i] = Tail(s)[i]
    <2>1. i + 1 \in 1 .. n  BY <1>2
    <2>2. s[i + 1] = b[Place(t, i + 1)]  BY <1>5, <2>1
    <2> QED  BY <1>4, <1>6, <1>11, <2>2
  <1> HIDE DEF s, u
  <1>13. u = Tail(s)  BY <1>10, <1>11, <1>12, SeqEqual
  <1> QED  BY <1>9, <1>13 DEF s, u

(* What waits is what the ring holds.                                       *)
LEMMA WaitingIsContents == Waiting = Contents(kbd_buffer, kbd_head, kbd_tail)
  BY DEF Waiting, Contents, Gap, Place

(* The indices are indices of the ring.                                     *)
RingOK ==
  /\ kbd_buffer \in [RingIndex -> 0 .. MaxKeys]
  /\ kbd_head \in RingIndex /\ kbd_tail \in RingIndex

-----------------------------------------------------------------------------
(* Types.                                                                   *)

(* What was offered to the ring and what is still in the controller have    *)
(* been typed.                                                              *)
BytesCounted == offered <= typed /\ (obuf # <<>> => offered < typed)

(* A push keeps the ring's types.                                           *)
LEMMA PushTypes ==
  ASSUME RingOK, NEW c \in 0 .. MaxKeys, kbd_push(c)
  PROVE  RingOK'
  BY AdvanceCases DEF RingOK, kbd_push

(* A pop keeps the ring's types and returns one of them.                    *)
LEMMA PopTypes ==
  ASSUME RingOK
  PROVE  /\ kbd_buffer[kbd_tail] \in 0 .. MaxKeys
         /\ PopAdvance => RingOK'
  BY AdvanceCases DEF RingOK, PopAdvance

(* A line's vector is a vector.                                             *)
LEMMA VectorType ==
  ASSUME TypeOK, NEW n \in Irqs
  PROVE  VectorOf(n) \in -1 .. 255
  <1>1. offsets[1] \in {8, 32} /\ offsets[2] \in {112, 40}  BY DEF TypeOK
  <1> QED  BY <1>1, IrqAssumption DEF VectorOf

LEMMA TypeInit == Init => TypeOK /\ BytesCounted
  BY RingAssumption, IrqAssumption
  DEF Init, RingInit, TypeOK, BytesCounted, RingIndex, NoVector

LEMMA TypeStep ==
  ASSUME TypeOK, BytesCounted, [Next]_vars
  PROVE  TypeOK' /\ BytesCounted'
  <1> USE IrqAssumption
      DEF TypeOK, BytesCounted, ringVars, picVars, cpuVars, deviceVars,
          threadVars, ghostVars, threadOnly, TIMER, KEYBOARD
  <1>0. RingOK  BY DEF RingOK
  <1>1. CASE InitIdt  BY <1>1 DEF InitIdt
  <1>2. CASE PicRemap  BY <1>2 DEF PicRemap
  <1>3. CASE Sti  BY <1>3 DEF Sti
  <1>4. CASE IsrKeyboard
    <2>1. obuf[1] \in -MaxKeys .. MaxKeys /\ offered + 1 <= typed
      BY <1>4 DEF IsrKeyboard
    <2>2. RingOK'
      <3>1. CASE obuf[1] >= 0
        <4>1. obuf[1] \in 0 .. MaxKeys  BY <2>1, <3>1
        <4> QED  BY <1>0, <1>4, <3>1, <4>1, PushTypes DEF IsrKeyboard
      <3>2. CASE ~(obuf[1] >= 0)
        BY <1>0, <1>4, <3>2 DEF IsrKeyboard, RingOK
      <3> QED  BY <3>1, <3>2
    <2>3. offered' \in {offered, offered + 1}  BY <1>4 DEF IsrKeyboard
    <2>4. obuf' = <<>> /\ typed' = typed  BY <1>4 DEF IsrKeyboard
    <2>5. offered' \in 0 .. MaxKeys /\ offered' <= typed  BY <2>1, <2>3
    <2>6. BytesCounted'  BY <2>4, <2>5
    <2> QED  BY <1>4, <2>2, <2>4, <2>5, <2>6 DEF IsrKeyboard, RingOK
  <1>5. CASE IsrTimer  BY <1>5 DEF IsrTimer
  <1>6. CASE IsrEoi
    <2>1. inService' \subseteq inService  BY <1>6 DEF IsrEoi
    <2>2. /\ stage' = "iret"
          /\ UNCHANGED <<ringVars, irr, offsets, intFlag, vector, machine,
                         deviceVars, threadVars, ghostVars, gates, installed>>
      BY <1>6 DEF IsrEoi
    <2> QED  BY <2>1, <2>2
  <1>7. CASE Iretq  BY <1>7 DEF Iretq, NoVector
  <1>8. ASSUME NEW f \in Readers, Call(f)
        PROVE  TypeOK' /\ BytesCounted'
    BY <1>8 DEF Call
  <1>9. CASE WaitTest  BY <1>9 DEF WaitTest
  <1>10. CASE PopTest  BY <1>10 DEF PopTest, AfterPop
  <1>11. CASE PopRead  BY <1>0, <1>11, PopTypes DEF PopRead
  <1>12. CASE PopReturn
    <2>1. RingOK'  BY <1>0, <1>12, PopTypes DEF PopReturn
    <2> QED  BY <1>12, <2>1 DEF PopReturn, AfterPop, RingOK
  <1>13. CASE Halt  BY <1>13 DEF Halt
  <1>14. ASSUME NEW code \in -MaxKeys .. MaxKeys, Press(code)
         PROVE  TypeOK' /\ BytesCounted'
    <2>1. Len(<<code>>) = 1 /\ <<code>>[1] = code /\ <<code>> # <<>>  OBVIOUS
    <2>2. obuf' = <<code>> /\ obuf = <<>> /\ typed' = typed + 1 /\ typed' \in 0 .. MaxKeys
      BY <1>14 DEF Press
    <2> QED  BY <1>14, <2>1, <2>2 DEF Press
  <1>15. ASSUME NEW n \in Irqs, Raise(n)
         PROVE  TypeOK' /\ BytesCounted'
    BY <1>15 DEF Raise
  <1>16. ASSUME NEW n \in Irqs, Deliver(n)
         PROVE  TypeOK' /\ BytesCounted'
    <2>1. VectorOf(n) \in -1 .. 255  BY VectorType
    <2>2. stage' \in {stage, "enter"} /\ machine' \in {machine, "reset"}
      BY <1>16 DEF Deliver
    <2>3. rpc' \in {"wait", "pop", rpc}  BY <1>16 DEF Deliver
    <2> QED  BY <1>16, <2>1, <2>2, <2>3 DEF Deliver
  <1>17. CASE InstallHandler(SCI)  BY <1>17 DEF InstallHandler
  <1>18. CASE UNCHANGED vars  BY <1>18 DEF vars
  <1> QED
    BY <1>1, <1>2, <1>3, <1>4, <1>5, <1>6, <1>7, <1>8, <1>9, <1>10, <1>11,
       <1>12, <1>13, <1>14, <1>15, <1>16, <1>17, <1>18
    DEF Next, BootStep, IsrStep, ReaderStep

(* The ring's indices, the PIC's registers, the interrupt being handled and *)
(* the reader's locals stay within their types.                             *)
THEOREM TypeCorrect == Spec => [](TypeOK /\ BytesCounted)
  BY TypeInit, TypeStep, PTL DEF Spec

-----------------------------------------------------------------------------
(* The interrupt path.                                                      *)

Booting == rpc \in {"init_idt", "pic_remap", "sti"}

(* Interrupts stay off until the gates and the vectors are in place, and    *)
(* are on again whenever no handler runs; a handler runs for the timer or   *)
(* the keyboard only, and what resets the machine is neither.               *)
CpuInv ==
  /\ gates = IF rpc = "init_idt" THEN {} ELSE {14, 32, 33}
  /\ offsets = IF rpc \in {"init_idt", "pic_remap"} THEN <<8, 112>> ELSE <<32, 40>>
  /\ Booting => ~intFlag /\ stage = "none" /\ machine = "on"
  /\ stage # "none" => machine = "on" /\ ~intFlag /\ vector \in {32, 33}
  /\ machine = "on" /\ ~Booting /\ stage = "none" => intFlag
  /\ machine = "reset" => ~intFlag /\ stage = "none" /\ vector \notin {32, 33}

(* The request of a byte, or its handler, is unique and there is a byte for *)
(* it: isr_handler never reads an empty output buffer.                      *)
HandlerFindsByte ==
  /\ KEYBOARD \in irr => obuf # <<>>
  /\ stage = "enter" /\ vector = 33 => obuf # <<>> /\ KEYBOARD \notin irr

IrqInv ==
  CpuInv /\ HandlerFindsByte /\ ByteHasRequest /\ (NeverResets => ServiceMatchesHandler)

(* Where a line arrives once pic_remap has run, and which lines have gates. *)
LEMMA VectorGates ==
  ASSUME CpuInv, ~Booting, NEW n \in Irqs
  PROVE  /\ VectorOf(n) = 32 + n
         /\ VectorOf(n) \in gates <=> n \in {TIMER, KEYBOARD}
         /\ VectorOf(n) - offsets[1] = n
  <1>1. offsets = <<32, 40>> /\ gates = {14, 32, 33}  BY DEF CpuInv, Booting
  <1>2. offsets[1] = 32 /\ offsets[2] = 40  BY <1>1
  <1>3. VectorOf(n) = 32 + n  BY <1>2, IrqAssumption DEF VectorOf
  <1> QED  BY <1>1, <1>2, <1>3, IrqAssumption DEF TIMER, KEYBOARD

LEMMA IrqInit == Init => IrqInv
  BY DEF Init, IrqInv, CpuInv, Booting, HandlerFindsByte, ByteHasRequest,
         NeverResets, ServiceMatchesHandler

(* The CPU accepts a request.                                               *)
LEMMA DeliverKeepsIrqInv ==
  ASSUME TypeOK, IrqInv, NEW n \in Irqs, Deliver(n)
  PROVE  IrqInv'
  <1>1. ~Booting /\ stage = "none" /\ machine = "on" /\ inService = {}
    BY DEF Deliver, IrqInv, CpuInv, ServiceMatchesHandler, NeverResets
  <1>2. /\ VectorOf(n) = 32 + n
        /\ VectorOf(n) \in gates <=> n \in {TIMER, KEYBOARD}
        /\ VectorOf(n) - offsets[1] = n
    BY <1>1, VectorGates DEF IrqInv
  <1>3. /\ irr' = irr \ {n} /\ inService' = {n} /\ vector' = VectorOf(n) /\ intFlag' = FALSE
        /\ UNCHANGED <<offsets, gates, obuf, lostEdge>>
        /\ rpc' \in {"wait", "pop", rpc} /\ (~Booting')
    BY <1>1 DEF Deliver, deviceVars, ghostVars, Booting
  <1>4. n \in irr  BY DEF Deliver
  <1>5. gates = {14, 32, 33} /\ offsets = <<32, 40>>
    BY <1>1 DEF IrqInv, CpuInv, Booting
  <1>7. CASE n \in {TIMER, KEYBOARD}
    <2>1. stage' = "enter" /\ machine' = "on" /\ vector' \in {32, 33}
      BY <1>1, <1>2, <1>3, <1>7 DEF Deliver, TIMER, KEYBOARD
    <2>2. CpuInv'  BY <1>3, <1>5, <2>1 DEF CpuInv, Booting
    <2>3. n = KEYBOARD <=> vector' = 33  BY <1>2, <1>3, <1>7 DEF TIMER, KEYBOARD
    <2>4. HandlerFindsByte' /\ ByteHasRequest'
      BY <1>1, <1>3, <1>4, <2>1, <2>3 DEF IrqInv, HandlerFindsByte, ByteHasRequest
    <2>5. ServiceMatchesHandler'
      BY <1>2, <1>3, <2>1 DEF ServiceMatchesHandler
    <2> QED  BY <2>2, <2>4, <2>5 DEF IrqInv
  <1>8. CASE n \notin {TIMER, KEYBOARD}
    <2>1. stage' = "none" /\ machine' = "reset" /\ vector' \notin {32, 33}
      BY <1>1, <1>2, <1>3, <1>8, IrqAssumption DEF Deliver, TIMER, KEYBOARD
    <2>2. CpuInv'  BY <1>3, <1>5, <2>1 DEF CpuInv, Booting
    <2>3. HandlerFindsByte' /\ ByteHasRequest'
      BY <1>1, <1>3, <2>1 DEF IrqInv, HandlerFindsByte, ByteHasRequest
    <2> QED  BY <2>1, <2>2, <2>3 DEF IrqInv, NeverResets
  <1> QED  BY <1>7, <1>8

(* The handler acknowledges what it serves.                                 *)
LEMMA EoiKeepsIrqInv ==
  ASSUME TypeOK, IrqInv, IsrEoi
  PROVE  IrqInv'
  <1>1. /\ stage = "eoi" /\ stage' = "iret"
        /\ UNCHANGED <<irr, offsets, intFlag, vector, machine, obuf, rpc, gates, lostEdge>>
    BY DEF IsrEoi, deviceVars, threadVars, ghostVars
  <1>2. inService = {vector - offsets[1]}
    BY <1>1 DEF IrqInv, CpuInv, NeverResets, ServiceMatchesHandler
  <1>3. vector - offsets[1] \in 0 .. 15
    BY <1>1, <1>2, IrqAssumption DEF TypeOK
  <1>4. inService' = {}
    <2> DEFINE k == vector - offsets[1]
    <2> HIDE DEF k
    <2>1. inService = {k} /\ k \in 0 .. 15  BY <1>2, <1>3 DEF k
    <2>2. ~(Rank(k) < Rank(k))  BY <2>1 DEF Rank
    <2>3. inService' = {m \in inService : \E j \in inService : Rank(j) < Rank(m)}
      BY DEF IsrEoi
    <2> QED  BY <2>1, <2>2, <2>3
  <1> QED
    BY <1>1, <1>4
    DEF IrqInv, CpuInv, Booting, HandlerFindsByte, ByteHasRequest, NeverResets,
        ServiceMatchesHandler

LEMMA IrqStep ==
  ASSUME TypeOK, IrqInv, [Next]_vars
  PROVE  IrqInv'
  <1> USE DEF ringVars, picVars, cpuVars, deviceVars, threadVars, ghostVars,
              threadOnly, IrqInv, CpuInv, Booting, HandlerFindsByte,
              ByteHasRequest, NeverResets, ServiceMatchesHandler
  <1>1. CASE InitIdt  BY <1>1 DEF InitIdt
  <1>2. CASE PicRemap  BY <1>2 DEF PicRemap
  <1>3. CASE Sti  BY <1>3 DEF Sti
  <1>4. CASE IsrKeyboard
    <2>1. /\ stage = "enter" /\ stage' = "eoi" /\ obuf' = <<>> /\ vector = 33
          /\ UNCHANGED <<irr, inService, offsets, intFlag, vector, machine, rpc, gates,
                         lostEdge>>
      BY <1>4 DEF IsrKeyboard
    <2> QED  BY <2>1
  <1>5. CASE IsrTimer  BY <1>5 DEF IsrTimer
  <1>6. CASE IsrEoi  BY <1>6, EoiKeepsIrqInv
  <1>7. CASE Iretq  BY <1>7 DEF Iretq, NoVector
  <1>8. ASSUME NEW f \in Readers, Call(f)
        PROVE  IrqInv'
    BY <1>8 DEF Call
  <1>9. CASE WaitTest  BY <1>9 DEF WaitTest
  <1>10. CASE PopTest  BY <1>10 DEF PopTest, AfterPop
  <1>11. CASE PopRead  BY <1>11 DEF PopRead
  <1>12. CASE PopReturn  BY <1>12 DEF PopReturn, AfterPop
  <1>13. CASE Halt  BY <1>13 DEF Halt
  <1>14. ASSUME NEW code \in -MaxKeys .. MaxKeys, Press(code)
         PROVE  IrqInv'
    <2>1. /\ obuf = <<>> /\ obuf' # <<>> /\ irr' = irr \cup {KEYBOARD}
          /\ UNCHANGED <<inService, offsets, intFlag, vector, stage, machine, rpc, gates,
                         lostEdge>>
      BY <1>14 DEF Press
    <2> QED  BY <2>1
  <1>15. ASSUME NEW n \in Irqs, Raise(n)
         PROVE  IrqInv'
    BY <1>15 DEF Raise
  <1>16. ASSUME NEW n \in Irqs, Deliver(n)
         PROVE  IrqInv'
    BY <1>16, DeliverKeepsIrqInv
  <1>17. CASE InstallHandler(SCI)  BY <1>17 DEF InstallHandler
  <1>18. CASE UNCHANGED vars  BY <1>18 DEF vars
  <1> QED
    BY <1>1, <1>2, <1>3, <1>4, <1>5, <1>6, <1>7, <1>8, <1>9, <1>10, <1>11,
       <1>12, <1>13, <1>14, <1>15, <1>16, <1>17, <1>18
    DEF Next, BootStep, IsrStep, ReaderStep

LEMMA IrqCorrect == Spec => []IrqInv
  BY IrqInit, IrqStep, TypeCorrect, PTL DEF Spec

(* Whatever lines are raised and whenever: a byte in the controller has a   *)
(* request pending or its handler about to read it, unless its edge was     *)
(* lost to pic_remap.                                                       *)
THEOREM BytesRequested == Spec => []ByteHasRequest
  <1>1. IrqInv => ByteHasRequest  BY DEF IrqInv
  <1> QED  BY <1>1, IrqCorrect, PTL

(* isr_handler acknowledges exactly the line it was entered for, as long as *)
(* the machine runs.                                                        *)
THEOREM ServiceCorrect == Spec => [](NeverResets => ServiceMatchesHandler)
  <1>1. IrqInv => (NeverResets => ServiceMatchesHandler)  BY DEF IrqInv
  <1> QED  BY <1>1, IrqCorrect, PTL

(* With the timer and the keyboard as the only devices that raise a line,   *)
(* no interrupt meets a missing gate, from the first instruction of _main.  *)
THEOREM NeverResetsCorrect ==
  ASSUME Irqs = {TIMER, KEYBOARD}
  PROVE  Spec => []NeverResets
  <1>1. Init => NeverResets  BY DEF Init, NeverResets
  <1>2. ASSUME TypeOK, IrqInv, NeverResets, [Next]_vars
        PROVE  NeverResets'
    <2> USE DEF NeverResets, cpuVars, threadOnly
    <2>1. ASSUME NEW n \in Irqs, Deliver(n)
          PROVE  machine' = "on"
      <3>1. ~Booting  BY <1>2, <2>1 DEF Deliver, IrqInv, CpuInv
      <3>2. VectorOf(n) \in gates  BY <1>2, <3>1, VectorGates DEF IrqInv
      <3> QED  BY <1>2, <2>1, <3>2 DEF Deliver
    <2>2. CASE UNCHANGED machine  BY <1>2, <2>2
    <2>3. BootStep => UNCHANGED machine
      BY DEF BootStep, InitIdt, PicRemap, Sti
    <2>4. IsrStep => UNCHANGED machine
      BY DEF IsrStep, IsrKeyboard, IsrTimer, IsrEoi, Iretq
    <2>5. ReaderStep => UNCHANGED machine
      BY DEF ReaderStep, Call, WaitTest, PopTest, PopRead, PopReturn, Halt
    <2> QED
      BY <1>2, <2>1, <2>2, <2>3, <2>4, <2>5
      DEF Next, Press, Raise, InstallHandler, vars
  <1> QED  BY <1>1, <1>2, IrqCorrect, TypeCorrect, PTL DEF Spec

-----------------------------------------------------------------------------
(* The ring implements the FIFO.                                            *)

(* A pop in progress has found the ring nonempty, and has read the oldest   *)
(* scancode; no interrupt since has changed either.                         *)
PopInv ==
  /\ rpc \in {"read", "advance"} => kbd_head # kbd_tail
  /\ rpc = "advance" => sc = kbd_buffer[kbd_tail]

(* A push appends to what waits, or finds the ring full and changes         *)
(* nothing; either way it leaves the oldest scancode in its place.          *)
LEMMA PushAppends ==
  ASSUME RingOK, NEW c \in 0 .. MaxKeys, kbd_push(c)
  PROVE  /\ Waiting' = IF Len(Waiting) < KBD_BUF_SIZE - 1
                       THEN Append(Waiting, c) ELSE Waiting
         /\ kbd_head # kbd_tail =>
              /\ kbd_head' # kbd_tail'
              /\ kbd_buffer'[kbd_tail'] = kbd_buffer[kbd_tail]
  <1>1. kbd_head # kbd_tail =>
          /\ kbd_head' # kbd_tail'
          /\ kbd_buffer'[kbd_tail'] = kbd_buffer[kbd_tail]
    BY DEF kbd_push, RingOK
  <1>2. Len(Waiting) < KBD_BUF_SIZE - 1 <=> Advance(kbd_head) # kbd_tail
    BY WaitingIsContents, ContentsSeq, FullRing DEF RingOK
  <1>3. CASE Advance(kbd_head) = kbd_tail
    <2>1. UNCHANGED ringVars  BY <1>3 DEF kbd_push, ringVars
    <2>2. Waiting' = Waiting  BY <2>1 DEF Waiting, ringVars
    <2> QED  BY <1>1, <1>2, <1>3, <2>2
  <1>4. CASE Advance(kbd_head) # kbd_tail
    <2>1. /\ kbd_buffer' = [kbd_buffer EXCEPT ![kbd_head] = c]
          /\ kbd_head' = Advance(kbd_head) /\ kbd_tail' = kbd_tail
      BY <1>4 DEF kbd_push
    <2>2. Waiting' = Contents(kbd_buffer', kbd_head', kbd_tail')
      BY DEF Waiting, Contents, Gap, Place
    <2>3. Waiting' = Append(Waiting, c)
      BY <1>4, <2>1, <2>2, PushContents, WaitingIsContents DEF RingOK
    <2> QED  BY <1>1, <1>2, <1>4, <2>3
  <1> QED  BY <1>3, <1>4

(* The last step of a pop takes the oldest scancode.                        *)
LEMMA PopTakesHead ==
  ASSUME RingOK, kbd_head # kbd_tail, PopAdvance
  PROVE  /\ Waiting # <<>> /\ Head(Waiting) = kbd_buffer[kbd_tail]
         /\ Waiting' = Tail(Waiting)
  <1>1. kbd_tail' = Advance(kbd_tail) /\ kbd_head' = kbd_head /\ kbd_buffer' = kbd_buffer
    BY DEF PopAdvance
  <1>2. Waiting' = Contents(kbd_buffer', kbd_head', kbd_tail')
    BY DEF Waiting, Contents, Gap, Place
  <1> QED  BY <1>1, <1>2, PopContents, WaitingIsContents DEF RingOK

LEMMA PopInvStep ==
  ASSUME TypeOK, PopInv, [Next]_vars
  PROVE  PopInv'
  <1> USE DEF PopInv, ringVars, picVars, cpuVars, deviceVars, threadVars,
              ghostVars, threadOnly
  <1>0. RingOK  BY DEF TypeOK, RingOK
  <1>1. CASE IsrKeyboard
    <2>1. CASE obuf[1] >= 0
      <3>1. obuf[1] \in 0 .. MaxKeys  BY <1>1, <2>1 DEF IsrKeyboard, TypeOK
      <3>2. kbd_push(obuf[1])  BY <1>1, <2>1 DEF IsrKeyboard
      <3>3. kbd_head # kbd_tail =>
              kbd_head' # kbd_tail' /\ kbd_buffer'[kbd_tail'] = kbd_buffer[kbd_tail]
        BY <1>0, <3>1, <3>2, PushAppends
      <3>4. rpc' = rpc /\ sc' = sc  BY <1>1 DEF IsrKeyboard
      <3> QED  BY <3>3, <3>4
    <2>2. CASE ~(obuf[1] >= 0)  BY <1>1, <2>2 DEF IsrKeyboard
    <2> QED  BY <2>1, <2>2
  <1>2. BootStep => PopInv'  BY DEF BootStep, InitIdt, PicRemap, Sti
  <1>3. IsrTimer \/ IsrEoi \/ Iretq => PopInv'  BY DEF IsrTimer, IsrEoi, Iretq
  <1>4. CASE PopTest  BY <1>4 DEF PopTest, RingEmpty, AfterPop
  <1>5. CASE PopRead  BY <1>5 DEF PopRead
  <1>6. CASE PopReturn  BY <1>6 DEF PopReturn, AfterPop
  <1>7. (\E f \in Readers : Call(f)) \/ WaitTest \/ Halt => PopInv'
    BY DEF Call, WaitTest, Halt
  <1>8. ASSUME NEW n \in Irqs, Deliver(n)
        PROVE  PopInv'
    <2>1. rpc' \in {"wait", "pop", rpc} /\ sc' = sc /\ UNCHANGED ringVars
      BY <1>8 DEF Deliver
    <2> QED  BY <2>1
  <1>9. (\E code \in -MaxKeys .. MaxKeys : Press(code)) \/ (\E n \in Irqs : Raise(n))
          \/ InstallHandler(SCI) \/ UNCHANGED vars => PopInv'
    BY DEF Press, Raise, InstallHandler, vars
  <1> QED
    BY <1>1, <1>2, <1>3, <1>4, <1>5, <1>6, <1>7, <1>8, <1>9
    DEF Next, IsrStep, ReaderStep

LEMMA PopInvCorrect == Spec => []PopInv
  <1>1. Init => PopInv  BY DEF Init, PopInv
  <1> QED  BY <1>1, PopInvStep, TypeCorrect, PTL DEF Spec

(* Every step offers a scancode to the FIFO, takes one, or is invisible.    *)
LEMMA FifoStep ==
  ASSUME TypeOK, PopInv, [Next]_vars
  PROVE  [Fifo!Next]_<<Waiting, taken, offered>>
  <1> DEFINE Invisible == UNCHANGED <<ringVars, taken, offered>>
  <1> USE DEF ringVars, picVars, cpuVars, deviceVars, threadVars, ghostVars, threadOnly
  <1>0. RingOK  BY DEF TypeOK, RingOK
  <1>1. CASE Invisible
    BY <1>1 DEF Waiting
  <1>2. CASE IsrKeyboard
    <2>1. CASE obuf[1] >= 0
      <3>1. obuf[1] \in 0 .. MaxKeys  BY <1>2, <2>1 DEF IsrKeyboard, TypeOK
      <3>2. kbd_push(obuf[1]) /\ offered' = offered + 1 /\ taken' = taken
        BY <1>2, <2>1 DEF IsrKeyboard
      <3>3. Fifo!Offer(obuf[1])
        BY <1>0, <3>1, <3>2, PushAppends DEF Fifo!Offer
      <3> QED  BY <3>1, <3>3 DEF Fifo!Next
    <2>2. CASE ~(obuf[1] >= 0)  BY <1>1, <1>2, <2>2 DEF IsrKeyboard
    <2> QED  BY <2>1, <2>2
  <1>3. CASE PopReturn
    <2>1. PopAdvance /\ taken' = sc /\ offered' = offered /\ rpc = "advance"
      BY <1>3 DEF PopReturn
    <2>2. kbd_head # kbd_tail /\ sc = kbd_buffer[kbd_tail]  BY <2>1 DEF PopInv
    <2>3. Fifo!Take
      BY <1>0, <2>1, <2>2, PopTakesHead DEF Fifo!Take
    <2> QED  BY <2>3 DEF Fifo!Next
  <1>4. BootStep => Invisible  BY DEF BootStep, InitIdt, PicRemap, Sti
  <1>5. IsrTimer \/ IsrEoi \/ Iretq => Invisible  BY DEF IsrTimer, IsrEoi, Iretq
  <1>6. (\E f \in Readers : Call(f)) \/ WaitTest \/ PopTest \/ PopRead \/ Halt => Invisible
    BY DEF Call, WaitTest, PopTest, PopRead, Halt
  <1>7. (\E code \in -MaxKeys .. MaxKeys : Press(code)) \/ (\E n \in Irqs : Raise(n))
          \/ (\E n \in Irqs : Deliver(n)) \/ InstallHandler(SCI) \/ UNCHANGED vars
          => Invisible
    BY DEF Press, Raise, Deliver, InstallHandler, vars
  <1> HIDE DEF Invisible
  <1> QED
    BY <1>1, <1>2, <1>3, <1>4, <1>5, <1>6, <1>7 DEF Next, IsrStep, ReaderStep

(* kbd_push in the handler and kbd_pop in the thread, without a lock, are a *)
(* FIFO of KBD_BUF_SIZE - 1 scancodes, whatever the size of the ring.       *)
THEOREM FifoCorrect == Spec => RingIsFifo
  <1>1. Init => Fifo!Init
    <2> SUFFICES ASSUME Init PROVE Waiting = <<>> /\ taken = 0 /\ offered = 0
      BY DEF Fifo!Init
    <2>1. kbd_head = 0 /\ kbd_tail = 0  BY DEF Init, RingInit
    <2>2. (kbd_head - kbd_tail + KBD_BUF_SIZE) % KBD_BUF_SIZE = 0
      BY <2>1, RingAssumption
    <2>3. Waiting = <<>>  BY <2>2 DEF Waiting
    <2> QED  BY <2>3 DEF Init
  <1>2. TypeOK /\ PopInv /\ [Next]_vars => [Fifo!Next]_<<Waiting, taken, offered>>
    BY FifoStep
  <1> QED
    BY <1>1, <1>2, TypeCorrect, PopInvCorrect, PTL DEF Spec, RingIsFifo, Fifo!Spec

=============================================================================
