----------------------------- MODULE HostProofs -----------------------------
(***************************************************************************)
(* Proofs about the services the kernel offers uACPI: the interrupt state   *)
(* around nested sections (OslSync), the waits (OslTime), the port I/O      *)
(* (PortIo) and the global lock (GlobalLock), for any depth of nesting,     *)
(* clock rate, number of ports, set of registers and number of attempts;    *)
(* and about all services together, those of PciProofs included.            *)
(***************************************************************************)
EXTENDS MCServices, PciProofs

-----------------------------------------------------------------------------
(* Sections.                                                                *)

Frame == [kind : {"irqoff", "spin", "work"}, value : BOOLEAN]

(* The outermost pair of disable and restore found the interrupts on, the   *)
(* pairs inside it found them off, and a handler only ever runs outside     *)
(* all of them, with the flag clear.                                        *)
FramesInv ==
  /\ frames \in Seq(Frame)
  /\ isr => ~IF_flag
  /\ \A i \in 1 .. Len(frames) :
       frames[i].kind = "irqoff" =>
         (frames[i].value <=> \A j \in 1 .. i - 1 : frames[j].kind # "irqoff")

(* Interrupts are on, or a handler runs, exactly outside the pairs: the     *)
(* spinlocks change nothing about it.                                       *)
FlagExact == (isr \/ IF_flag) <=> ~Inside("irqoff")

SyncInv == SyncTypeOK /\ FramesInv /\ FlagExact

(* What entering a section does to the frames.                              *)
LEMMA EnterFacts ==
  ASSUME SyncInv, NEW kind \in {"irqoff", "spin", "work"}, NEW saved \in BOOLEAN,
         Enter(kind, saved)
  PROVE  /\ frames' \in Seq(Frame) /\ Len(frames') = Len(frames) + 1
         /\ Len(frames) \in Nat /\ Len(frames') <= MAX_DEPTH
         /\ \A i \in 1 .. Len(frames) : frames'[i] = frames[i]
         /\ frames'[Len(frames) + 1] = [kind |-> kind, value |-> saved]
  <1> DEFINE f == [kind |-> kind, value |-> saved]
  <1>1. f \in Frame  BY DEF Frame
  <1>2. frames' = Append(frames, f) /\ Len(frames) < MAX_DEPTH  BY DEF Enter
  <1>3. frames \in Seq(Frame)  BY DEF SyncInv, FramesInv
  <1>4. Len(frames) \in Nat  BY <1>3, LenProperties
  <1>5. /\ frames' \in Seq(Frame) /\ Len(frames') = Len(frames) + 1
        /\ \A i \in 1 .. Len(frames) : frames'[i] = frames[i]
        /\ frames'[Len(frames) + 1] = f
    <2> HIDE DEF f
    <2> QED  BY <1>1, <1>2, <1>3, AppendProperties
  <1> QED  BY <1>2, <1>4, <1>5, SyncAssumption

(* What leaving a section does.                                             *)
LEMMA LeaveFacts ==
  ASSUME SyncInv, frames # <<>>, Leave
  PROVE  /\ frames' \in Seq(Frame) /\ Len(frames') = Len(frames) - 1
         /\ Len(frames) \in Nat \ {0} /\ Len(frames') <= MAX_DEPTH
         /\ \A i \in 1 .. Len(frames) - 1 : frames'[i] = frames[i]
         /\ frames[Len(frames)] \in Frame
         /\ \A i \in 1 .. Len(frames') :
              frames'[i].kind = "irqoff" =>
                (frames'[i].value <=> \A j \in 1 .. i - 1 : frames'[j].kind # "irqoff")
  <1>1. frames \in Seq(Frame)  BY DEF SyncInv, FramesInv
  <1>2. Len(frames) \in Nat \ {0}  BY <1>1, EmptySeq
  <1>3. \A i \in 1 .. Len(frames) : frames[i] \in Frame  BY <1>1, ElementOfSeq
  <1> DEFINE n == Len(frames) - 1
  <1>4. n \in Nat /\ \A i \in 1 .. n : frames[i] \in Frame  BY <1>2, <1>3
  <1>5. frames' = SubSeq(frames, 1, n)  BY DEF Leave
  <1> HIDE DEF n
  <1>6. /\ frames' \in Seq(Frame) /\ Len(frames') = IF 1 <= n THEN n - 1 + 1 ELSE 0
        /\ \A i \in 1 .. n - 1 + 1 : frames'[i] = frames[1 + i - 1]
    BY <1>4, <1>5, SubSeqProperties
  <1>7. /\ Len(frames') = n
        /\ \A i \in 1 .. n : frames'[i] = frames[i]
    BY <1>4, <1>6
  <1>8. ASSUME NEW i \in 1 .. Len(frames'), frames'[i].kind = "irqoff"
        PROVE  frames'[i].value <=> \A j \in 1 .. i - 1 : frames'[j].kind # "irqoff"
    <2>1. i \in 1 .. Len(frames) /\ i \in 1 .. n  BY <1>2, <1>4, <1>7 DEF n
    <2>2. frames'[i] = frames[i] /\ \A j \in 1 .. i - 1 : frames'[j] = frames[j]
      BY <1>4, <1>7, <2>1
    <2>3. frames[i].kind = "irqoff" =>
            (frames[i].value <=> \A j \in 1 .. i - 1 : frames[j].kind # "irqoff")
      BY <2>1 DEF SyncInv, FramesInv
    <2> QED  BY <1>8, <2>2, <2>3
  <1> QED
    BY <1>2, <1>3, <1>6, <1>7, <1>8, SyncAssumption DEF n, SyncInv, SyncTypeOK

(* Entering a section other than disable_interrupts changes nothing that    *)
(* FlagExact speaks of, and leaving it neither.                             *)
LEMMA OtherSections ==
  ASSUME SyncInv, NEW kind \in {"spin", "work"}, UNCHANGED <<evVars, cpuVars>>,
         Enter(kind, FALSE) \/ (Innermost(kind) /\ Leave)
  PROVE  SyncInv'
  <1>1. UNCHANGED <<signaled, waited, IF_flag, isr>>  BY DEF evVars, cpuVars
  <1>2. CASE Enter(kind, FALSE)
    <2>1. /\ frames' \in Seq(Frame) /\ Len(frames') = Len(frames) + 1
          /\ Len(frames) \in Nat /\ Len(frames') <= MAX_DEPTH
          /\ \A i \in 1 .. Len(frames) : frames'[i] = frames[i]
          /\ frames'[Len(frames) + 1] = [kind |-> kind, value |-> FALSE]
      BY <1>2, EnterFacts
    <2>2. frames'[Len(frames) + 1].kind # "irqoff"  BY <2>1
    <2>3. \A i \in 1 .. Len(frames') : i # Len(frames) + 1 => i \in 1 .. Len(frames)
      BY <2>1
    <2>4. FramesInv'
      <3>1. \A i \in 1 .. Len(frames') :
              frames'[i].kind = "irqoff" =>
                (frames'[i].value <=> \A j \in 1 .. i - 1 : frames'[j].kind # "irqoff")
        <4> SUFFICES ASSUME NEW i \in 1 .. Len(frames'), frames'[i].kind = "irqoff"
                     PROVE  frames'[i].value <=> \A j \in 1 .. i - 1 : frames'[j].kind # "irqoff"
          OBVIOUS
        <4>1. i \in 1 .. Len(frames)  BY <2>2, <2>3
        <4>2. \A j \in 1 .. i - 1 : frames'[j] = frames[j]  BY <2>1, <4>1
        <4> QED  BY <2>1, <4>1, <4>2 DEF SyncInv, FramesInv
      <3> QED  BY <1>1, <2>1, <3>1 DEF SyncInv, FramesInv
    <2>5. Inside("irqoff")' <=> Inside("irqoff")  BY <2>1, <2>2, <2>3 DEF Inside
    <2> QED  BY <1>1, <2>1, <2>4, <2>5 DEF SyncInv, SyncTypeOK, FlagExact
  <1>3. CASE Innermost(kind) /\ Leave
    <2>1. /\ frames' \in Seq(Frame) /\ Len(frames') = Len(frames) - 1
          /\ Len(frames) \in Nat \ {0} /\ Len(frames') <= MAX_DEPTH
          /\ \A i \in 1 .. Len(frames) - 1 : frames'[i] = frames[i]
      BY <1>3, LeaveFacts DEF Innermost
    <2>2. frames[Len(frames)].kind # "irqoff"  BY <1>3 DEF Innermost, Top
    <2>3. \A i \in 1 .. Len(frames) : i # Len(frames) => i \in 1 .. Len(frames')
      BY <2>1
    <2>4. FramesInv'
      BY <1>1, <1>3, LeaveFacts DEF SyncInv, FramesInv, Innermost
    <2>5. Inside("irqoff")' <=> Inside("irqoff")  BY <2>1, <2>2, <2>3 DEF Inside
    <2> QED  BY <1>1, <2>1, <2>4, <2>5 DEF SyncInv, SyncTypeOK, FlagExact
  <1> QED  BY <1>2, <1>3

(* disable_interrupts opens a pair.                                         *)
LEMMA DisableStep ==
  ASSUME SyncInv, uacpi_kernel_disable_interrupts
  PROVE  SyncInv'
  <1>1. /\ UNCHANGED <<signaled, waited, isr>> /\ ~isr /\ IF_flag' = FALSE
        /\ Enter("irqoff", IF_flag) /\ IF_flag \in BOOLEAN
    BY DEF uacpi_kernel_disable_interrupts, evVars, InThread, SyncInv, SyncTypeOK
  <1>2. /\ frames' \in Seq(Frame) /\ Len(frames') = Len(frames) + 1
        /\ Len(frames) \in Nat /\ Len(frames') <= MAX_DEPTH
        /\ \A i \in 1 .. Len(frames) : frames'[i] = frames[i]
        /\ frames'[Len(frames) + 1] = [kind |-> "irqoff", value |-> IF_flag]
    BY <1>1, EnterFacts
  <1>3. IF_flag <=> \A j \in 1 .. Len(frames) : frames[j].kind # "irqoff"
    BY <1>1 DEF SyncInv, FlagExact, Inside
  <1>4. Inside("irqoff")'
    <2>1. Len(frames) + 1 \in 1 .. Len(frames')  BY <1>2
    <2>2. frames'[Len(frames) + 1].kind = "irqoff"  BY <1>2
    <2> QED  BY <2>1, <2>2 DEF Inside
  <1>5. ASSUME NEW i \in 1 .. Len(frames'), frames'[i].kind = "irqoff"
        PROVE  frames'[i].value <=> \A j \in 1 .. i - 1 : frames'[j].kind # "irqoff"
    <2>1. CASE i = Len(frames) + 1
      <3>1. frames'[i].value <=> IF_flag  BY <1>1, <1>2, <2>1
      <3>2. \A j \in 1 .. i - 1 : frames'[j] = frames[j]  BY <1>2, <2>1
      <3>3. 1 .. i - 1 = 1 .. Len(frames)  BY <1>2, <2>1
      <3> QED  BY <1>3, <3>1, <3>2, <3>3
    <2>2. CASE i # Len(frames) + 1
      <3>1. i \in 1 .. Len(frames)  BY <1>2, <2>2
      <3>2. \A j \in 1 .. i - 1 : frames'[j] = frames[j]  BY <1>2, <3>1
      <3> QED  BY <1>2, <1>5, <3>1, <3>2 DEF SyncInv, FramesInv
    <2> QED  BY <2>1, <2>2
  <1>6. FramesInv'  BY <1>1, <1>2, <1>5 DEF FramesInv
  <1>7. FlagExact'  BY <1>1, <1>4 DEF FlagExact
  <1> QED  BY <1>1, <1>2, <1>6, <1>7 DEF SyncInv, SyncTypeOK

(* restore_interrupts closes it; only the outermost turns interrupts on.    *)
LEMMA RestoreStep ==
  ASSUME SyncInv, uacpi_kernel_restore_interrupts
  PROVE  SyncInv'
  <1> DEFINE n == Len(frames)
  <1>1. /\ UNCHANGED <<signaled, waited, isr>> /\ ~isr /\ Leave /\ frames # <<>>
        /\ frames[n].kind = "irqoff" /\ IF_flag' = (frames[n].value \/ IF_flag)
    BY DEF uacpi_kernel_restore_interrupts, evVars, InThread, Innermost, Top
  <1>2. /\ frames' \in Seq(Frame) /\ Len(frames') = n - 1
        /\ n \in Nat \ {0} /\ Len(frames') <= MAX_DEPTH
        /\ \A i \in 1 .. n - 1 : frames'[i] = frames[i]
        /\ frames[n] \in Frame
    BY <1>1, LeaveFacts
  <1> HIDE DEF n
  <1>3. n \in 1 .. n /\ n = Len(frames)  BY <1>2 DEF n
  <1>4. ~IF_flag  BY <1>1, <1>3 DEF SyncInv, FlagExact, Inside
  <1>5. frames[n].value <=> \A j \in 1 .. n - 1 : frames[j].kind # "irqoff"
    BY <1>1, <1>3 DEF SyncInv, FramesInv
  <1>6. Inside("irqoff")' <=> ~frames[n].value
    BY <1>2, <1>5 DEF Inside
  <1>7. IF_flag' \in BOOLEAN /\ (IF_flag' <=> frames[n].value)
    <2>1. frames[n].value \in BOOLEAN /\ IF_flag \in BOOLEAN
      BY <1>2 DEF Frame, SyncInv, SyncTypeOK
    <2> QED  BY <1>1, <1>4, <2>1
  <1>8. FlagExact'  BY <1>1, <1>6, <1>7 DEF FlagExact
  <1>9. FramesInv'  BY <1>1, LeaveFacts DEF FramesInv
  <1> QED  BY <1>1, <1>2, <1>7, <1>8, <1>9 DEF SyncInv, SyncTypeOK

(* The CPU takes an interrupt and returns; neither touches a section.       *)
LEMMA InterruptStep ==
  ASSUME SyncInv, Interrupt \/ Iretq
  PROVE  SyncInv'
  <1> USE DEF SyncInv, SyncTypeOK, FramesInv, FlagExact, Inside, evVars
  <1>1. CASE Interrupt  BY <1>1 DEF Interrupt
  <1>2. CASE Iretq  BY <1>2 DEF Iretq
  <1> QED  BY <1>1, <1>2

(* The calls on events leave the sections alone.                            *)
LEMMA EventStep ==
  ASSUME SyncInv, NEW e \in Events,
         \/ uacpi_kernel_create_event(e) \/ uacpi_kernel_free_event(e)
         \/ uacpi_kernel_signal_event(e) \/ uacpi_kernel_reset_event(e)
         \/ uacpi_kernel_wait_for_event(e)
  PROVE  SyncInv'
  <1>1. UNCHANGED <<IF_flag, isr, frames>>
    BY DEF uacpi_kernel_create_event, uacpi_kernel_free_event,
           uacpi_kernel_signal_event, uacpi_kernel_reset_event,
           uacpi_kernel_wait_for_event, cpuVars
  <1>2. DOMAIN signaled' \subseteq Events /\ \A f \in DOMAIN signaled' : signaled'[f] \in BOOLEAN
    <2> USE DEF SyncInv, SyncTypeOK
    <2>1. CASE uacpi_kernel_create_event(e)  BY <2>1 DEF uacpi_kernel_create_event
    <2>2. CASE uacpi_kernel_free_event(e)  BY <2>2 DEF uacpi_kernel_free_event
    <2>3. CASE uacpi_kernel_signal_event(e)  BY <2>3 DEF uacpi_kernel_signal_event
    <2>4. CASE uacpi_kernel_reset_event(e)  BY <2>4 DEF uacpi_kernel_reset_event
    <2>5. CASE uacpi_kernel_wait_for_event(e)  BY <2>5 DEF uacpi_kernel_wait_for_event
    <2> QED  BY <2>1, <2>2, <2>3, <2>4, <2>5
  <1>3. waited' \in [found : BOOLEAN, returned : BOOLEAN, valid : BOOLEAN]
    <2>1. CASE waited' = waited  BY <2>1 DEF SyncInv, SyncTypeOK
    <2>2. CASE uacpi_kernel_wait_for_event(e)
      BY <2>2 DEF uacpi_kernel_wait_for_event, SyncInv, SyncTypeOK
    <2> QED
      BY <2>1, <2>2
      DEF uacpi_kernel_create_event, uacpi_kernel_free_event,
          uacpi_kernel_signal_event, uacpi_kernel_reset_event
  <1> QED
    BY <1>1, <1>2, <1>3 DEF SyncInv, SyncTypeOK, FramesInv, FlagExact, Inside

LEMMA SyncStep ==
  ASSUME SyncInv, [SyncNext]_syncVars
  PROVE  SyncInv'
  <1>1. CASE UNCHANGED syncVars
    BY <1>1 DEF syncVars, SyncInv, SyncTypeOK, FramesInv, FlagExact, Inside
  <1>2. uacpi_kernel_wait_for_work_completion => UNCHANGED syncVars
    BY DEF uacpi_kernel_wait_for_work_completion
  <1>3. \/ uacpi_kernel_lock_spinlock \/ uacpi_kernel_unlock_spinlock
        \/ uacpi_kernel_schedule_work \/ WorkReturns
        => SyncInv'
    BY OtherSections
    DEF uacpi_kernel_lock_spinlock, uacpi_kernel_unlock_spinlock,
        uacpi_kernel_schedule_work, WorkReturns
  <1> QED
    BY <1>1, <1>2, <1>3, InterruptStep, EventStep, DisableStep, RestoreStep
    DEF SyncNext

LEMMA SyncCorrect == SyncSpec => []SyncInv
  <1>1. SyncInit => SyncInv
    <2> SUFFICES ASSUME SyncInit PROVE SyncInv  OBVIOUS
    <2>1. /\ signaled = [e \in {} |-> FALSE] /\ IF_flag = TRUE /\ isr = FALSE
          /\ frames = <<>> /\ waited = NoWait
      BY DEF SyncInit
    <2>2. frames \in Seq(Frame) /\ Len(frames) = 0  BY <2>1, EmptySeq
    <2>3. waited \in [found : BOOLEAN, returned : BOOLEAN, valid : BOOLEAN]
      BY <2>1 DEF NoWait
    <2>4. DOMAIN signaled = {} /\ Len(frames) <= MAX_DEPTH  BY <2>1, <2>2, SyncAssumption
    <2>5. SyncTypeOK  BY <2>1, <2>3, <2>4, Zenon DEF SyncTypeOK
    <2>6. FramesInv /\ FlagExact
      BY <2>1, <2>2 DEF FramesInv, FlagExact, Inside
    <2> QED  BY <2>5, <2>6 DEF SyncInv
  <1> QED  BY <1>1, SyncStep, PTL DEF SyncSpec

(* Between disable_interrupts and the matching restore_interrupts no        *)
(* handler runs and none can start, at any depth of nesting and inside      *)
(* scheduled work; outside, interrupts are on.                              *)
THEOREM MaskingCorrect == SyncSpec => []SectionsMask
  <1>1. SyncInv => SectionsMask  BY DEF SyncInv, FlagExact, SectionsMask
  <1> QED  BY <1>1, SyncCorrect, PTL
-----------------------------------------------------------------------------
(* Time.                                                                    *)

(* Division by a positive number.                                           *)
LEMMA Quotient ==
  ASSUME NEW x \in Nat, NEW n \in Nat \ {0}
  PROVE  /\ x \div n \in Nat /\ (x \div n) * n <= x /\ x < (x \div n) * n + n
         /\ x % n \in 0 .. n - 1
  OBVIOUS

(* Two readings d units of the clock apart, by the same base, are that many *)
(* ticks apart but for less than one unit.                                  *)
LEMMA UnitsApart ==
  ASSUME NEW n \in Nat \ {0}, NEW a \in Nat, NEW b \in Nat, NEW d \in Nat,
         (b \div n) - (a \div n) >= d
  PROVE  b - a + n > d * n
  <1> DEFINE p == a \div n
             q == b \div n
  <1>1. p \in Nat /\ q \in Nat /\ q * n <= b /\ a < p * n + n  BY Quotient
  <1>2. q - p >= d  OBVIOUS
  <1> HIDE DEF p, q
  <1>3. q - p - d \in Nat /\ (q - p - d) * n \in Nat  BY <1>1, <1>2
  <1>4. (q - p - d) * n = q * n - p * n - d * n  BY <1>1
  <1>5. q * n \in Nat /\ p * n \in Nat /\ d * n \in Nat  BY <1>1
  <1> QED  BY <1>1, <1>3, <1>4, <1>5

(* A wait under way started after the base was set, from the time of the    *)
(* call; the poll that ended it read the clock a full duration later.       *)
TimeInv ==
  /\ TimeTypeOK
  /\ wait # "idle" =>
       /\ start_ticks # 0 /\ start_ticks <= began
       /\ start = (began - start_ticks) \div TICKS_PER_NS
  /\ wait = "return" =>
       /\ start_ticks <= read
       /\ ((read - start_ticks) \div TICKS_PER_NS) - start >= duration

(* What time_get_ns stores.                                                 *)
LEMMA GetNsFacts ==
  ASSUME TimeTypeOK, time_get_ns
  PROVE  /\ start_ticks' \in 1 .. tsc /\ read' = tsc
         /\ start_ticks' = IF start_ticks = 0 THEN tsc ELSE start_ticks
         /\ Now = (tsc - start_ticks') \div TICKS_PER_NS
         /\ result' = Now /\ Now \in Nat
  <1>1. start_ticks' = Base /\ read' = tsc /\ result' = Now  BY DEF time_get_ns
  <1>2. Base \in 1 .. tsc /\ tsc \in Nat  BY TimeAssumption DEF Base, TimeTypeOK
  <1>3. tsc - Base \in Nat  BY <1>2
  <1>4. (tsc - Base) \div TICKS_PER_NS \in Nat  BY <1>3, Quotient, TimeAssumption
  <1> QED  BY <1>1, <1>2, <1>4 DEF Now, Base

LEMMA TimeStep ==
  ASSUME TimeInv, [TimeNext]_timeVars
  PROVE  TimeInv'
  <1> USE TimeAssumption DEF TimeInv, TimeTypeOK
  <1>1. ASSUME NEW n \in 1 .. 2 * TICKS_PER_NS, Tick(n)
        PROVE  TimeInv'
    BY <1>1 DEF Tick
  <1>2. CASE GetNs
    BY <1>2, GetNsFacts DEF GetNs
  <1>3. ASSUME NEW d \in Durations, WaitBegin(d)
        PROVE  TimeInv'
    BY <1>3, GetNsFacts DEF WaitBegin
  <1>4. CASE WaitPoll
    <2>1. time_get_ns /\ UNCHANGED <<tsc, start, duration, began>> /\ wait = "poll"
          /\ wait' = IF Expired THEN "return" ELSE "poll"
      BY <1>4 DEF WaitPoll
    <2>2. /\ start_ticks' = start_ticks /\ read' = tsc /\ result' = Now /\ Now \in Nat
          /\ Now = (tsc - start_ticks) \div TICKS_PER_NS
      BY <2>1, GetNsFacts
    <2>3. TimeTypeOK'  BY <2>1, <2>2
    <2>4. start_ticks # 0 /\ start_ticks <= began
          /\ start = (began - start_ticks) \div TICKS_PER_NS
      BY <2>1
    <2>5. wait' = "return" => start_ticks' <= read'
            /\ ((read' - start_ticks') \div TICKS_PER_NS) - start' >= duration'
      BY <2>1, <2>2 DEF Expired
    <2> QED  BY <2>1, <2>2, <2>3, <2>4, <2>5
  <1>5. CASE WaitReturn  BY <1>5 DEF WaitReturn
  <1>6. CASE UNCHANGED timeVars  BY <1>6 DEF timeVars
  <1> QED  BY <1>1, <1>2, <1>3, <1>4, <1>5, <1>6 DEF TimeNext, TimeCalls

LEMMA TimeCorrect == TimeSpec => []TimeInv
  <1>1. ASSUME TimeInit PROVE TimeInv
    BY <1>1, TimeAssumption DEF TimeInit, TimeInv, TimeTypeOK
  <1> QED  BY <1>1, TimeStep, PTL DEF TimeSpec

(* uacpi_kernel_stall and uacpi_kernel_sleep wait for their time but for    *)
(* less than one nanosecond, at any rate of the counter and however long    *)
(* interrupts hold up a poll.                                               *)
THEOREM WaitsNotShort == TimeSpec => []WaitNotShort
  <1>1. ASSUME TimeInv PROVE WaitNotShort
    <2> SUFFICES ASSUME wait = "return"
                 PROVE  read - began + TICKS_PER_NS > duration * TICKS_PER_NS
      BY DEF WaitNotShort
    <2> DEFINE a == began - start_ticks
               b == read - start_ticks
    <2>1. /\ a \in Nat /\ b \in Nat /\ b - a = read - began /\ duration \in Nat
          /\ (b \div TICKS_PER_NS) - (a \div TICKS_PER_NS) >= duration
      BY <1>1, TimeAssumption DEF TimeInv, TimeTypeOK
    <2> HIDE DEF a, b
    <2>2. b - a + TICKS_PER_NS > duration * TICKS_PER_NS
      BY <2>1, UnitsApart, TimeAssumption
    <2> QED  BY <2>1, <2>2
  <1> QED  BY <1>1, TimeCorrect, PTL

-----------------------------------------------------------------------------
(* Ports: registers and their pieces.                                       *)

(* A piece of a register is 1, 2 or 4 bytes; idx pieces come before it.     *)
LEMMA PieceOffsets ==
  ASSUME NEW w \in {1, 2, 4}, NEW idx \in Nat, NEW n \in Nat
  PROVE  /\ idx * w \in Nat /\ (idx + 1) * w = idx * w + w
         /\ idx < n => idx * w + w <= n * w
         /\ idx <= n <=> idx * w <= n * w
  <1>1. CASE w = 1  BY <1>1
  <1>2. CASE w = 2  BY <1>2
  <1>3. CASE w = 4  BY <1>3
  <1> QED  BY <1>1, <1>2, <1>3

(* The numbers of a register: its whole bytes fit in its pieces, at least   *)
(* one piece is accessed, and the pieces below the bit offset are skipped.  *)
FirstPiece(r) == r.bit_offset \div (8 * r.access)

LEMMA PieceNumbers ==
  ASSUME NEW w \in {1, 2, 4}, NEW offset \in Nat, NEW width \in Nat \ {0}
  PROVE  LET t == offset + width
             n == (t + 8 * w - 1) \div (8 * w)
             k == offset \div (8 * w)
         IN /\ n \in Nat /\ k \in Nat /\ t \div 8 \in Nat
            /\ t \div 8 <= n * w /\ k < n
            /\ t % (8 * w) = 0 => t \div 8 = n * w
            /\ \A idx \in Nat : (idx + 1) * 8 * w <= offset <=> idx < k
  <1>1. CASE w = 1  BY <1>1
  <1>2. CASE w = 2  BY <1>2
  <1>3. CASE w = 4  BY <1>3
  <1> QED  BY <1>1, <1>2, <1>3

LEMMA RegisterFacts ==
  ASSUME NEW r \in Registers
  PROVE  /\ r.access \in {1, 2, 4} /\ r.base \in 1 .. PORTS - 1
         /\ Pieces(r) \in Nat /\ FirstPiece(r) \in Nat /\ FirstPiece(r) < Pieces(r)
         /\ TotalBits(r) \div 8 \in Nat /\ TotalBits(r) \div 8 <= Pieces(r) * r.access
         /\ Pieces(r) * r.access \in Nat /\ r.base + Pieces(r) * r.access <= PORTS
         /\ Whole(r) /\ r.access # 1 => TotalBits(r) \div 8 = Pieces(r) * r.access
         /\ \A idx \in Nat :
              (idx + 1) * 8 * r.access <= r.bit_offset <=> idx < FirstPiece(r)
  <1>1. /\ r.access \in {1, 2, 4} /\ r.base \in 1 .. PORTS - 1
        /\ r.bit_offset \in Nat /\ r.bit_width \in Nat \ {0}
        /\ r.base + Pieces(r) * r.access <= PORTS
    BY PortIoAssumption
  <1> DEFINE w == r.access
             t == r.bit_offset + r.bit_width
             n == (t + 8 * w - 1) \div (8 * w)
             k == r.bit_offset \div (8 * w)
  <1>2. /\ n \in Nat /\ k \in Nat /\ t \div 8 \in Nat
        /\ t \div 8 <= n * w /\ k < n
        /\ t % (8 * w) = 0 => t \div 8 = n * w
        /\ \A idx \in Nat : (idx + 1) * 8 * w <= r.bit_offset <=> idx < k
    BY <1>1, PieceNumbers
  <1>3. TotalBits(r) = t /\ Pieces(r) = n /\ FirstPiece(r) = k
    BY DEF TotalBits, Pieces, FirstPiece
  <1> HIDE DEF t, n, k
  <1>4. n * w \in Nat  BY <1>1, <1>2, PieceOffsets
  <1> QED  BY <1>1, <1>2, <1>3, <1>4 DEF Whole

(* A handle covers the whole bytes of its register.                         *)
HandleOK(m) ==
  /\ m.reg \in Registers /\ m.base = m.reg.base
  /\ m.len = TotalBits(m.reg) \div 8 /\ m.len # 0

GasRecord == [op : {"read", "write"}, h : IoHandles, index : Nat, value : Seq(Byte),
              result : {"busy", "ok", "error"}]

(* What holds of the access g through the handle m in the middle of the     *)
(* loop: every byte of the pieces done, from the first accessed one on, is  *)
(* the byte of its port, and a read has done no piece past the range.       *)
AccessOK(g, m, p) ==
  LET done == g.index * m.reg.access
  IN /\ g.index <= Pieces(m.reg)
     /\ g.op = "read" => Len(g.value) = done
     /\ g.op = "write" => Len(g.value) = Pieces(m.reg) * m.reg.access
     /\ \A i \in 1 .. done : i > FirstPiece(m.reg) * m.reg.access =>
                               g.value[i] = p[m.base + i - 1]
     /\ g.op = "read" /\ g.index > FirstPiece(m.reg) => done <= m.len
     /\ g.result = "ok" => g.index = Pieces(m.reg)

PortInv ==
  /\ port \in [0 .. PORTS - 1 -> Byte]
  /\ DOMAIN io \subseteq IoHandles
  /\ \A h \in DOMAIN io : HandleOK(io[h])
  /\ gas # NoGas => /\ gas \in GasRecord /\ gas.h \in DOMAIN io
                    /\ AccessOK(gas, io[gas.h], port)
  /\ status \in {"OK", "INVALID_ARGUMENT", "OUT_OF_MEMORY"}

(* A read goes on by one piece: the zeros of a skipped piece, or the bytes  *)
(* of the ports when the range holds the piece.                             *)
LEMMA ReadPiece ==
  ASSUME NEW g \in GasRecord, NEW m, NEW p, NEW piece \in Seq(Byte),
         HandleOK(m), AccessOK(g, m, p), g.op = "read", g.index < Pieces(m.reg),
         g.result = "busy", Len(piece) = m.reg.access,
         g.index >= FirstPiece(m.reg) =>
           /\ g.index * m.reg.access + m.reg.access <= m.len
           /\ \A i \in 1 .. m.reg.access :
                piece[i] = p[m.base + g.index * m.reg.access + i - 1],
         NEW next, next = [g EXCEPT !.index = @ + 1, !.value = @ \o piece]
  PROVE  next \in GasRecord /\ AccessOK(next, m, p)
  <1> DEFINE w == m.reg.access
             k == FirstPiece(m.reg)
             n == Pieces(m.reg)
             done == g.index * w
  <1>1. /\ w \in {1, 2, 4} /\ k \in Nat /\ n \in Nat /\ k < n /\ k * w \in Nat
        /\ m.base \in Nat /\ m.len \in Nat
    <2>1. m.reg \in Registers /\ m.base = m.reg.base /\ m.len = TotalBits(m.reg) \div 8
      BY DEF HandleOK
    <2>2. /\ w \in {1, 2, 4} /\ k \in Nat /\ n \in Nat /\ k < n
          /\ m.reg.base \in 1 .. PORTS - 1 /\ TotalBits(m.reg) \div 8 \in Nat
      BY <2>1, RegisterFacts
    <2>3. m.base \in Nat /\ m.len \in Nat  BY <2>1, <2>2, PortIoAssumption
    <2> HIDE DEF w, k, n
    <2> QED  BY <2>2, <2>3, PieceOffsets
  <1>2. g.index \in Nat /\ g.value \in Seq(Byte)  BY DEF GasRecord
  <1>3. /\ done \in Nat /\ (g.index + 1) * w = done + w
        /\ g.index < k => done + w <= k * w
        /\ ~(g.index < k) => k * w <= done
    <2> HIDE DEF w, k
    <2>1. k <= g.index <=> k * w <= g.index * w  BY <1>1, <1>2, PieceOffsets
    <2>2. /\ g.index * w \in Nat /\ (g.index + 1) * w = g.index * w + w
          /\ g.index < k => g.index * w + w <= k * w
      BY <1>1, <1>2, PieceOffsets
    <2> QED  BY <2>1, <2>2, <1>1, <1>2 DEF done
  <1>4. /\ Len(g.value) = done
        /\ \A i \in 1 .. done : i > k * w => g.value[i] = p[m.base + i - 1]
    BY DEF AccessOK
  <1>5. /\ next.index = g.index + 1 /\ next.value = g.value \o piece
        /\ next.op = "read" /\ next.result = "busy"
    BY DEF GasRecord
  <1>6. /\ next.value \in Seq(Byte) /\ Len(next.value) = done + w
        /\ \A i \in 1 .. done + w : next.value[i] =
             (IF i <= done THEN g.value[i] ELSE piece[i - done])
    BY <1>2, <1>4, <1>5, ConcatProperties
  <1>7. next \in GasRecord
    <2> DEFINE v == g.value \o piece
    <2>1. v \in Seq(Byte)  BY <1>2, ConcatProperties
    <2>2. next = [op |-> g.op, h |-> g.h, index |-> g.index + 1, value |-> v,
                  result |-> g.result]
      BY DEF GasRecord
    <2>3. g.op \in {"read", "write"} /\ g.h \in IoHandles /\ g.index + 1 \in Nat
          /\ g.result \in {"busy", "ok", "error"}
      BY DEF GasRecord
    <2> HIDE DEF v
    <2> QED  BY <2>1, <2>2, <2>3 DEF GasRecord
  <1>8. ASSUME NEW i \in 1 .. done + w, i > k * w
        PROVE  next.value[i] = p[m.base + i - 1]
    <2>1. CASE i <= done  BY <2>1, <1>1, <1>3, <1>4, <1>6, <1>8
    <2>2. CASE ~(i <= done)
      <3>1. ~(g.index < k)
        <4> HIDE DEF done, w, k
        <4> QED  BY <2>2, <1>1, <1>2, <1>3, <1>8
      <3>2. i - done \in 1 .. w  BY <2>2, <1>1, <1>3
      <3>3. piece[i - done] = p[m.base + done + (i - done) - 1]
        <4>1. \A j \in 1 .. w : piece[j] = p[m.base + done + j - 1]
          BY <3>1, <1>1, <1>2
        <4> HIDE DEF done, w
        <4> QED  BY <4>1, <3>2
      <3>4. m.base + done + (i - done) - 1 = m.base + i - 1  BY <1>1, <1>3
      <3> QED  BY <2>2, <3>3, <3>4, <1>6
    <2> QED  BY <2>1, <2>2
  <1>9. next.index > k => done + w <= m.len  BY <1>1, <1>2, <1>5
  <1>10. next.index <= n  BY <1>1, <1>2, <1>5
  <1> HIDE DEF w, k, n, done
  <1>11. next.index * w = done + w  BY <1>3, <1>5
  <1> QED  BY <1>5, <1>6, <1>7, <1>8, <1>9, <1>10, <1>11 DEF AccessOK, w, k, n

(* A write goes on by one piece, which is skipped or is in the ports now;   *)
(* the ports of the pieces before it are as they were.                      *)
LEMMA WritePiece ==
  ASSUME NEW g \in GasRecord, NEW m, NEW p, NEW q,
         HandleOK(m), AccessOK(g, m, p), g.op = "write", g.index < Pieces(m.reg),
         g.result = "busy",
         \A i \in 1 .. g.index * m.reg.access : q[m.base + i - 1] = p[m.base + i - 1],
         g.index >= FirstPiece(m.reg) =>
           \A i \in 1 .. m.reg.access :
             q[m.base + g.index * m.reg.access + i - 1]
                = g.value[g.index * m.reg.access + i],
         NEW next, next = [g EXCEPT !.index = @ + 1]
  PROVE  next \in GasRecord /\ AccessOK(next, m, q)
  <1> DEFINE w == m.reg.access
             k == FirstPiece(m.reg)
             n == Pieces(m.reg)
             done == g.index * w
  <1>1. /\ w \in {1, 2, 4} /\ k \in Nat /\ n \in Nat /\ k < n /\ k * w \in Nat
        /\ m.base \in Nat
    <2>1. m.reg \in Registers /\ m.base = m.reg.base /\ m.len = TotalBits(m.reg) \div 8
      BY DEF HandleOK
    <2>2. /\ w \in {1, 2, 4} /\ k \in Nat /\ n \in Nat /\ k < n
          /\ m.reg.base \in 1 .. PORTS - 1 /\ TotalBits(m.reg) \div 8 \in Nat
      BY <2>1, RegisterFacts
    <2>3. m.base \in Nat /\ m.len \in Nat  BY <2>1, <2>2, PortIoAssumption
    <2> HIDE DEF w, k, n
    <2> QED  BY <2>2, <2>3, PieceOffsets
  <1>2. g.index \in Nat /\ g.value \in Seq(Byte)  BY DEF GasRecord
  <1>3. /\ done \in Nat /\ (g.index + 1) * w = done + w
        /\ g.index < k => done + w <= k * w
    <2> HIDE DEF w, k
    <2> QED  BY <1>1, <1>2, PieceOffsets DEF done
  <1>4. /\ Len(g.value) = n * w
        /\ \A i \in 1 .. done : i > k * w => g.value[i] = p[m.base + i - 1]
    BY DEF AccessOK
  <1>5. /\ next.index = g.index + 1 /\ next.value = g.value
        /\ next.op = "write" /\ next.result = "busy"
    BY DEF GasRecord
  <1>6. next \in GasRecord  BY <1>2 DEF GasRecord
  <1>7. ASSUME NEW i \in 1 .. done + w, i > k * w
        PROVE  next.value[i] = q[m.base + i - 1]
    <2>1. CASE i <= done  BY <2>1, <1>1, <1>3, <1>4, <1>5, <1>7
    <2>2. CASE ~(i <= done)
      <3>1. ~(g.index < k)
        <4> HIDE DEF done, w, k
        <4> QED  BY <2>2, <1>1, <1>2, <1>3, <1>7
      <3>2. i - done \in 1 .. w  BY <2>2, <1>1, <1>3
      <3>3. q[m.base + done + (i - done) - 1] = g.value[done + (i - done)]
        <4>1. \A j \in 1 .. w : q[m.base + done + j - 1] = g.value[done + j]
          BY <3>1, <1>1, <1>2
        <4> HIDE DEF done, w
        <4> QED  BY <4>1, <3>2
      <3>4. m.base + done + (i - done) - 1 = m.base + i - 1 /\ done + (i - done) = i
        BY <1>1, <1>3
      <3> QED  BY <3>3, <3>4, <1>5
    <2> QED  BY <2>1, <2>2
  <1>8. next.index <= n  BY <1>1, <1>2, <1>5
  <1> HIDE DEF w, k, n, done
  <1>9. next.index * w = done + w  BY <1>3, <1>5
  <1> QED  BY <1>4, <1>5, <1>6, <1>7, <1>8, <1>9 DEF AccessOK, w, k, n

(* The handles come and go only between accesses.                           *)
LEMMA PortHandleStep ==
  ASSUME PortInv, NEW h \in IoHandles, NEW r \in Registers,
         uacpi_kernel_io_map(h, r) \/ uacpi_kernel_io_unmap(h)
  PROVE  PortInv'
  <1>1. /\ gas = NoGas /\ gas' = gas /\ port' = port
        /\ status' \in {"OK", "INVALID_ARGUMENT", "OUT_OF_MEMORY"}
    BY DEF PortInv, uacpi_kernel_io_map, uacpi_kernel_io_unmap
  <1>2. DOMAIN io' \subseteq IoHandles /\ \A k \in DOMAIN io' : HandleOK(io'[k])
    <2>1. CASE uacpi_kernel_io_unmap(h)
      BY <2>1 DEF PortInv, uacpi_kernel_io_unmap
    <2>2. CASE uacpi_kernel_io_map(h, r)
      <3> DEFINE m == [reg |-> r, base |-> r.base, len |-> TotalBits(r) \div 8]
      <3>1. CASE io' = io  BY <3>1 DEF PortInv
      <3>2. CASE ~(io' = io)
        <4>1. /\ TotalBits(r) \div 8 # 0
              /\ io' = [k \in DOMAIN io \cup {h} |-> IF k # h THEN io[k] ELSE m]
          BY <2>2, <3>2 DEF uacpi_kernel_io_map
        <4>2. HandleOK(m)  BY <4>1 DEF HandleOK
        <4> HIDE DEF m
        <4> QED  BY <4>1, <4>2 DEF PortInv
      <3> QED  BY <3>1, <3>2
    <2> QED  BY <2>1, <2>2
  <1> QED  BY <1>1, <1>2 DEF PortInv

(* A step of an access in progress: what it must show of the new access.    *)
LEMMA AccessStep ==
  ASSUME PortInv, io' = io, port' \in [0 .. PORTS - 1 -> Byte],
         status' \in {"OK", "INVALID_ARGUMENT", "OUT_OF_MEMORY"},
         gas' # NoGas => /\ gas' \in GasRecord /\ gas'.h \in DOMAIN io
                         /\ AccessOK(gas', io[gas'.h], port')
  PROVE  PortInv'
  BY DEF PortInv

LEMMA PortBeginStep ==
  ASSUME PortInv, NEW h \in IoHandles, NEW v \in Seq(Byte), NEW way \in {"read", "write"},
         GasBegin(h, way, v), way = "read" => v = <<>>,
         way = "write" => Len(v) = Pieces(io[h].reg) * io[h].reg.access
  PROVE  PortInv'
  <1> DEFINE g == [op |-> way, h |-> h, index |-> 0, value |-> v, result |-> "busy"]
  <1>1. gas' = g /\ h \in DOMAIN io /\ UNCHANGED <<port, io, status>>
    BY DEF GasBegin
  <1>2. HandleOK(io[h])  BY <1>1 DEF PortInv
  <1>3. /\ io[h].reg.access \in {1, 2, 4} /\ Pieces(io[h].reg) \in Nat
        /\ FirstPiece(io[h].reg) \in Nat
    BY <1>2, RegisterFacts DEF HandleOK
  <1>4. 0 * io[h].reg.access = 0  BY <1>3
  <1>5. g \in GasRecord  BY DEF GasRecord
  <1>6. AccessOK(g, io[h], port)
    <2>1. way = "read" => Len(v) = 0  BY EmptySeq
    <2> QED  BY <1>3, <1>4, <2>1 DEF AccessOK
  <1> HIDE DEF g
  <1>7. g.h = h  BY DEF g
  <1> QED  BY <1>1, <1>5, <1>6, <1>7, AccessStep DEF PortInv

(* The registers' facts in the middle of an access.                         *)
LEMMA InAccess ==
  ASSUME PortInv, gas # NoGas
  PROVE  LET m == io[gas.h]
             w == m.reg.access
         IN /\ gas \in GasRecord /\ gas.h \in DOMAIN io /\ HandleOK(m)
            /\ AccessOK(gas, m, port)
            /\ w \in {1, 2, 4} /\ gas.index \in Nat /\ gas.index * w \in Nat
            /\ m.base \in Nat /\ m.len \in Nat
            /\ gas.index < Pieces(m.reg) =>
                 m.base + gas.index * w + w <= PORTS
            /\ Skipped <=> gas.index < FirstPiece(m.reg)
  <1> DEFINE m == io[gas.h]
             w == m.reg.access
  <1>1. /\ gas \in GasRecord /\ gas.h \in DOMAIN io /\ HandleOK(m)
        /\ AccessOK(gas, m, port)
    BY DEF PortInv
  <1>2. m.reg \in Registers /\ m.base = m.reg.base /\ m.len = TotalBits(m.reg) \div 8
    BY <1>1 DEF HandleOK
  <1>3. gas.index \in Nat  BY <1>1 DEF GasRecord
  <1>4. /\ w \in {1, 2, 4} /\ m.base \in 1 .. PORTS - 1 /\ m.len \in Nat
        /\ Pieces(m.reg) \in Nat /\ Pieces(m.reg) * w \in Nat
        /\ m.base + Pieces(m.reg) * w <= PORTS
    BY <1>2, RegisterFacts
  <1>5. (gas.index + 1) * 8 * w <= m.reg.bit_offset <=> gas.index < FirstPiece(m.reg)
    BY <1>2, <1>3, RegisterFacts
  <1>6. Skipped <=> gas.index < FirstPiece(m.reg)  BY <1>5 DEF Skipped, Width
  <1> HIDE DEF m, w
  <1>7. /\ gas.index * w \in Nat
        /\ gas.index < Pieces(m.reg) => gas.index * w + w <= Pieces(m.reg) * w
    BY <1>3, <1>4, PieceOffsets
  <1>8. gas.index < Pieces(m.reg) => m.base + gas.index * w + w <= PORTS
    BY <1>4, <1>7, PortIoAssumption
  <1> QED  BY <1>1, <1>3, <1>4, <1>6, <1>7, <1>8, PortIoAssumption DEF m, w

LEMMA SkipStep ==
  ASSUME PortInv, SkipPiece
  PROVE  PortInv'
  <1> DEFINE m == io[gas.h]
             w == m.reg.access
             zeros == [i \in 1 .. w |-> 0]
  <1>1. /\ gas # NoGas /\ Busy(gas.op) /\ Skipped /\ UNCHANGED <<port, io, status>>
        /\ gas' = [gas EXCEPT !.index = @ + 1,
             !.value = IF gas.op = "read" THEN @ \o zeros ELSE @]
    BY DEF SkipPiece, Width
  <1>2. /\ gas \in GasRecord /\ gas.h \in DOMAIN io /\ HandleOK(m)
        /\ AccessOK(gas, m, port) /\ w \in {1, 2, 4} /\ gas.index \in Nat
        /\ gas.index < FirstPiece(m.reg)
    BY <1>1, InAccess
  <1>3. gas.index < Pieces(m.reg) /\ gas.result = "busy"  BY <1>1 DEF Busy
  <1>4. gas'.h = gas.h  BY <1>1, <1>2 DEF GasRecord
  <1>5. FirstPiece(m.reg) \in Nat  BY <1>2, RegisterFacts DEF HandleOK
  <1>6. ~(gas.index >= FirstPiece(m.reg))  BY <1>2, <1>5
  <1>7. gas' \in GasRecord /\ AccessOK(gas', m, port)
    <2>1. CASE gas.op = "read"
      <3>1. zeros \in Seq(Byte) /\ Len(zeros) = w
        <4>1. zeros \in [1 .. w -> Byte] /\ w \in Nat  BY <1>2, PortIoAssumption
        <4> HIDE DEF zeros, w
        <4>2. zeros \in Seq(Byte)  BY <4>1, SeqDef, Zenon
        <4> QED  BY <4>1, <4>2, LenProperties
      <3>2. gas' = [gas EXCEPT !.index = @ + 1, !.value = @ \o zeros]
        BY <1>1, <2>1
      <3> HIDE DEF zeros, m
      <3> QED  BY <1>2, <1>3, <1>6, <2>1, <3>1, <3>2, ReadPiece
    <2>2. CASE gas.op = "write"
      <3>1. gas' = [gas EXCEPT !.index = @ + 1]
        BY <1>1, <1>2, <2>2 DEF GasRecord
      <3> HIDE DEF m
      <3> QED  BY <1>2, <1>3, <1>6, <2>2, <3>1, WritePiece
    <2> QED  BY <1>2, <2>1, <2>2 DEF GasRecord
  <1> QED  BY <1>1, <1>2, <1>4, <1>7, AccessStep DEF PortInv

(* An access that stops with an error, or reports success at the end.       *)
LEMMA ResultStep ==
  ASSUME PortInv, gas # NoGas, NEW res \in {"ok", "error"},
         res = "ok" => gas.index = Pieces(io[gas.h].reg),
         gas' = [gas EXCEPT !.result = res], io' = io, port' = port,
         status' \in {"OK", "INVALID_ARGUMENT", "OUT_OF_MEMORY"}
  PROVE  PortInv'
  <1>1. gas \in GasRecord /\ gas.h \in DOMAIN io /\ AccessOK(gas, io[gas.h], port)
    BY DEF PortInv
  <1>2. /\ gas' \in GasRecord /\ gas'.h = gas.h /\ gas'.index = gas.index
        /\ gas'.value = gas.value /\ gas'.op = gas.op /\ gas'.result = res
    BY <1>1 DEF GasRecord
  <1>3. AccessOK(gas', io[gas.h], port)  BY <1>1, <1>2 DEF AccessOK
  <1> QED  BY <1>1, <1>2, <1>3, AccessStep DEF PortInv

LEMMA PortReadStep ==
  ASSUME PortInv, uacpi_kernel_io_read
  PROVE  PortInv'
  <1> DEFINE m == io[gas.h]
             w == m.reg.access
             offset == gas.index * w
             data == InPorts(PortOf(gas.h, offset), w)
  <1>1. /\ gas # NoGas /\ Busy("read") /\ ~Skipped /\ UNCHANGED <<port, io>>
        /\ \/ /\ ReadAccepted(gas.h, offset, w) /\ status' = "OK"
              /\ gas' = [gas EXCEPT !.index = @ + 1, !.value = @ \o data]
           \/ gas' = [gas EXCEPT !.result = "error"] /\ status' = "INVALID_ARGUMENT"
    BY DEF uacpi_kernel_io_read, Width
  <1>2. CASE gas' = [gas EXCEPT !.result = "error"] /\ status' = "INVALID_ARGUMENT"
    BY <1>1, <1>2, ResultStep
  <1>3. CASE /\ ReadAccepted(gas.h, offset, w) /\ status' = "OK"
             /\ gas' = [gas EXCEPT !.index = @ + 1, !.value = @ \o data]
    <2>1. /\ gas \in GasRecord /\ gas.h \in DOMAIN io /\ HandleOK(m)
          /\ AccessOK(gas, m, port) /\ w \in {1, 2, 4} /\ offset \in Nat
          /\ m.base \in Nat /\ m.len \in Nat
          /\ gas.index < Pieces(m.reg) => m.base + offset + w <= PORTS
      BY <1>1, InAccess
    <2>2. gas.index < Pieces(m.reg) /\ gas.result = "busy" /\ gas.op = "read"
      BY <1>1 DEF Busy
    <2>3. offset + w <= m.len  BY <1>3 DEF ReadAccepted
    <2>4. gas'.h = gas.h  BY <1>3, <2>1 DEF GasRecord
    <2>5. PortOf(gas.h, offset) = m.base + offset
      <3> HIDE DEF offset, w
      <3>1. m.base + offset \in 0 .. PORTS - 1  BY <2>1, <2>2, PortIoAssumption
      <3>2. (m.base + offset) % PORTS = m.base + offset  BY <3>1, PortIoAssumption
      <3> QED  BY <3>2 DEF PortOf
    <2>6. /\ data \in Seq(Byte) /\ Len(data) = w
          /\ \A i \in 1 .. w : data[i] = port[m.base + offset + i - 1]
      <3> DEFINE d == [i \in 1 .. w |-> port[(m.base + offset + i - 1) % PORTS]]
      <3>1. data = d  BY <2>5 DEF InPorts
      <3>2. \A i \in 1 .. w : /\ (m.base + offset + i - 1) % PORTS = m.base + offset + i - 1
                              /\ m.base + offset + i - 1 \in 0 .. PORTS - 1
        <4> HIDE DEF offset, w, m
        <4> TAKE i \in 1 .. w
        <4>1. m.base + offset + i - 1 \in 0 .. PORTS - 1
          BY <2>1, <2>2, PortIoAssumption
        <4> QED  BY <4>1, PortIoAssumption
      <3>3. port \in [0 .. PORTS - 1 -> Byte]  BY DEF PortInv
      <3> HIDE DEF offset, w, m
      <3>4. \A i \in 1 .. w : d[i] = port[m.base + offset + i - 1] /\ d[i] \in Byte
        BY <3>2, <3>3
      <3>5. d \in [1 .. w -> Byte] /\ w \in Nat
        <4>1. \A i \in 1 .. w : d[i] \in Byte  BY <3>4
        <4> QED  BY <4>1, <2>1
      <3> HIDE DEF d, data
      <3>6. d \in Seq(Byte)  BY <3>5, SeqDef, Zenon
      <3>7. Len(d) = w  BY <3>5, <3>6, LenProperties
      <3> QED  BY <3>1, <3>4, <3>6, <3>7
    <2>7. gas' \in GasRecord /\ AccessOK(gas', m, port)
      <3>1. gas' = [gas EXCEPT !.index = @ + 1, !.value = @ \o data]  BY <1>3
      <3> HIDE DEF data, m
      <3> QED  BY <2>1, <2>2, <2>3, <2>6, <3>1, ReadPiece
    <2> QED  BY <1>1, <1>3, <2>1, <2>4, <2>7, AccessStep DEF PortInv
  <1> QED  BY <1>1, <1>2, <1>3

(* What an accepted write does to the ports: its piece of the value is in   *)
(* the ports of the piece and no other port changes.                        *)
LEMMA WriteFacts ==
  ASSUME PortInv, uacpi_kernel_io_write, gas' # [gas EXCEPT !.result = "error"]
  PROVE  LET m == io[gas.h]
             w == m.reg.access
             offset == gas.index * w
         IN /\ offset < m.len /\ offset + w <= Pieces(m.reg) * w
            /\ m.base + offset + w <= PORTS
            /\ gas' = [gas EXCEPT !.index = @ + 1] /\ status' = "OK"
            /\ port' \in [0 .. PORTS - 1 -> Byte]
            /\ \A i \in 1 .. w : port'[m.base + offset + i - 1] = gas.value[offset + i]
            /\ \A q \in 0 .. PORTS - 1 :
                 q \notin m.base + offset .. m.base + offset + w - 1 => port'[q] = port[q]
  <1> DEFINE m == io[gas.h]
             w == m.reg.access
             offset == gas.index * w
             data == SubSeq(gas.value, offset + 1, offset + w)
  <1>1. /\ gas # NoGas /\ Busy("write") /\ WriteAccepted(gas.h, offset, w)
        /\ OutPorts(PortOf(gas.h, offset), data)
        /\ gas' = [gas EXCEPT !.index = @ + 1] /\ status' = "OK"
    BY DEF uacpi_kernel_io_write, Width
  <1>2. /\ gas \in GasRecord /\ HandleOK(m) /\ AccessOK(gas, m, port)
        /\ w \in {1, 2, 4} /\ gas.index \in Nat /\ offset \in Nat
        /\ m.base \in Nat /\ m.len \in Nat
        /\ gas.index < Pieces(m.reg) => m.base + offset + w <= PORTS
    BY <1>1, InAccess
  <1>3. gas.index < Pieces(m.reg) /\ gas.op = "write"  BY <1>1 DEF Busy
  <1>4. offset < m.len  BY <1>1 DEF WriteAccepted
  <1>5. Pieces(m.reg) \in Nat  BY <1>2, RegisterFacts DEF HandleOK
  <1>6. Pieces(m.reg) * w \in Nat /\ offset + w <= Pieces(m.reg) * w
    <2> HIDE DEF w, m
    <2> QED  BY <1>2, <1>3, <1>5, PieceOffsets DEF offset
  <1>7. gas.value \in Seq(Byte) /\ Len(gas.value) = Pieces(m.reg) * w
    BY <1>2, <1>3 DEF GasRecord, AccessOK
  <1> HIDE DEF offset, w, m
  <1>8. /\ data \in Seq(Byte) /\ Len(data) = w
        /\ \A i \in 1 .. w : data[i] = gas.value[offset + i]
    <2>1. /\ offset + 1 \in 1 .. Len(gas.value) + 1
          /\ offset + w \in offset + 1 - 1 .. Len(gas.value)
      BY <1>2, <1>6, <1>7
    <2>2. /\ data \in Seq(Byte) /\ Len(data) = offset + w - (offset + 1) + 1
          /\ \A i \in 1 .. offset + w - (offset + 1) + 1 :
               data[i] = gas.value[offset + 1 + i - 1]
      <3> DEFINE a == offset + 1
                 b == offset + w
      <3> HIDE DEF a, b
      <3>1. /\ SubSeq(gas.value, a, b) \in Seq(Byte)
            /\ Len(SubSeq(gas.value, a, b)) = IF a <= b THEN b - a + 1 ELSE 0
            /\ \A i \in 1 .. b - a + 1 : SubSeq(gas.value, a, b)[i] = gas.value[a + i - 1]
        BY <2>1, <1>7, SubSeqProperties DEF a, b
      <3>2. a <= b  BY <1>2 DEF a, b
      <3>3. Len(SubSeq(gas.value, a, b)) = b - a + 1  BY <3>1, <3>2
      <3>4. data = SubSeq(gas.value, a, b)  BY DEF a, b
      <3> HIDE DEF data
      <3>5. /\ data \in Seq(Byte) /\ Len(data) = b - a + 1
            /\ \A i \in 1 .. b - a + 1 : data[i] = gas.value[a + i - 1]
        BY <3>1, <3>3, <3>4
      <3> QED  BY <1>2, <3>5 DEF a, b
    <2>3. offset + w - (offset + 1) + 1 = w  BY <1>2
    <2>4. \A i \in 1 .. w : offset + 1 + i - 1 = offset + i  BY <1>2
    <2> QED  BY <2>2, <2>3, <2>4
  <1>9. PortOf(gas.h, offset) = m.base + offset
    <2>1. m.base + offset \in 0 .. PORTS - 1  BY <1>2, <1>3, PortIoAssumption
    <2>2. (m.base + offset) % PORTS = m.base + offset  BY <2>1, PortIoAssumption
    <2> QED  BY <2>2 DEF PortOf, m
  <1>10. port \in [0 .. PORTS - 1 -> Byte]  BY DEF PortInv
  <1>11. port' = [q \in 0 .. PORTS - 1 |->
                    IF q \in m.base + offset .. m.base + offset + w - 1
                      THEN data[q - (m.base + offset) + 1] ELSE port[q]]
    BY <1>1, <1>8, <1>9, <1>10 DEF OutPorts, Span
  <1> HIDE DEF data
  <1>12. \A q \in m.base + offset .. m.base + offset + w - 1 :
           q - (m.base + offset) + 1 \in 1 .. w
    BY <1>2
  <1>13. \A i \in 1 .. w : data[i] \in Byte  BY <1>8, ElementOfSeq
  <1>14. port' \in [0 .. PORTS - 1 -> Byte]
    BY <1>10, <1>11, <1>12, <1>13
  <1>15. ASSUME NEW i \in 1 .. w
         PROVE  port'[m.base + offset + i - 1] = gas.value[offset + i]
    <2>1. /\ m.base + offset + i - 1 \in 0 .. PORTS - 1
          /\ m.base + offset + i - 1 \in m.base + offset .. m.base + offset + w - 1
          /\ m.base + offset + i - 1 - (m.base + offset) + 1 = i
      BY <1>2, <1>3, PortIoAssumption
    <2> DEFINE q == m.base + offset + i - 1
    <2> HIDE DEF q
    <2>2. port'[q] = data[q - (m.base + offset) + 1]
      BY <2>1, <1>11 DEF q
    <2>3. q - (m.base + offset) + 1 = i  BY <1>2 DEF q
    <2>4. port'[q] = data[i]  BY <2>2, <2>3
    <2>5. data[i] = gas.value[offset + i]  BY <1>8
    <2> QED  BY <2>4, <2>5 DEF q
  <1>16. \A q \in 0 .. PORTS - 1 :
           q \notin m.base + offset .. m.base + offset + w - 1 => port'[q] = port[q]
    BY <1>11
  <1> QED  BY <1>1, <1>2, <1>3, <1>4, <1>6, <1>14, <1>15, <1>16 DEF offset, w, m

LEMMA PortWriteStep ==
  ASSUME PortInv, uacpi_kernel_io_write
  PROVE  PortInv'
  <1> DEFINE m == io[gas.h]
             w == m.reg.access
             offset == gas.index * w
  <1>1. /\ gas # NoGas /\ Busy("write") /\ io' = io
        /\ gas' = [gas EXCEPT !.result = "error"] =>
             \/ port' = port /\ status' = "INVALID_ARGUMENT"
             \/ gas' = [gas EXCEPT !.index = @ + 1]
    BY DEF uacpi_kernel_io_write
  <1>2. /\ gas \in GasRecord /\ gas.h \in DOMAIN io /\ HandleOK(m)
        /\ AccessOK(gas, m, port) /\ w \in {1, 2, 4} /\ offset \in Nat
        /\ m.base \in Nat
    BY <1>1, InAccess
  <1>3. CASE gas' = [gas EXCEPT !.result = "error"]
    <2>1. gas.result = "busy" /\ gas'.result = "error"
      BY <1>1, <1>2, <1>3 DEF Busy, GasRecord
    <2>2. gas' # [gas EXCEPT !.index = @ + 1]  BY <1>2, <2>1 DEF GasRecord
    <2> QED  BY <1>1, <1>3, <2>2, ResultStep
  <1>4. CASE gas' # [gas EXCEPT !.result = "error"]
    <2>1. /\ m.base + offset + w <= PORTS
          /\ gas' = [gas EXCEPT !.index = @ + 1] /\ status' = "OK"
          /\ port' \in [0 .. PORTS - 1 -> Byte]
          /\ \A i \in 1 .. w : port'[m.base + offset + i - 1] = gas.value[offset + i]
          /\ \A q \in 0 .. PORTS - 1 :
               q \notin m.base + offset .. m.base + offset + w - 1 => port'[q] = port[q]
      BY <1>4, WriteFacts
    <2>2. gas.index < Pieces(m.reg) /\ gas.result = "busy" /\ gas.op = "write"
      BY <1>1 DEF Busy
    <2>3. gas'.h = gas.h  BY <2>1, <1>2 DEF GasRecord
    <2>4. \A i \in 1 .. offset : port'[m.base + i - 1] = port[m.base + i - 1]
      <3> HIDE DEF offset, w, m
      <3>1. \A i \in 1 .. offset :
              /\ m.base + i - 1 \in 0 .. PORTS - 1
              /\ m.base + i - 1 \notin m.base + offset .. m.base + offset + w - 1
        BY <1>2, <2>1, PortIoAssumption
      <3> QED  BY <3>1, <2>1
    <2>5. gas' \in GasRecord /\ AccessOK(gas', m, port')
      <3>1. /\ \A i \in 1 .. gas.index * m.reg.access :
                 port'[m.base + i - 1] = port[m.base + i - 1]
            /\ \A i \in 1 .. m.reg.access :
                 port'[m.base + gas.index * m.reg.access + i - 1]
                    = gas.value[gas.index * m.reg.access + i]
        BY <2>1, <2>4
      <3>2. gas' = [gas EXCEPT !.index = @ + 1]  BY <2>1
      <3>3. gas \in GasRecord /\ HandleOK(m) /\ AccessOK(gas, m, port)  BY <1>2
      <3> HIDE DEF m
      <3> QED  BY <2>2, <3>1, <3>2, <3>3, WritePiece
    <2> QED  BY <1>1, <1>2, <2>1, <2>3, <2>5, AccessStep
  <1> QED  BY <1>3, <1>4

LEMMA PortStep ==
  ASSUME PortInv, [PortNext]_portVars
  PROVE  PortInv'
  <1>1. CASE \E h \in IoHandles : \/ \E r \in Registers : uacpi_kernel_io_map(h, r)
                                  \/ uacpi_kernel_io_unmap(h)
    <2>1. PICK h \in IoHandles : \/ \E r \in Registers : uacpi_kernel_io_map(h, r)
                                 \/ uacpi_kernel_io_unmap(h)
      BY <1>1
    <2>2. CASE \E r \in Registers : uacpi_kernel_io_map(h, r)
      BY <2>2, PortHandleStep
    <2>3. CASE uacpi_kernel_io_unmap(h)
      <3>1. io[h].reg \in Registers
        BY <2>3 DEF uacpi_kernel_io_unmap, PortInv, HandleOK
      <3> QED  BY <2>3, <3>1, PortHandleStep
    <2> QED  BY <2>1, <2>2, <2>3
  <1>2. ASSUME NEW h \in IoHandles, GasRead(h)  PROVE PortInv'
    <2>1. <<>> \in Seq(Byte)  BY EmptySeq
    <2> QED  BY <1>2, <2>1, PortBeginStep DEF GasRead
  <1>3. ASSUME NEW h \in IoHandles, h \in DOMAIN io,
               NEW v \in [1 .. Pieces(io[h].reg) * io[h].reg.access -> Byte],
               GasWrite(h, v)
        PROVE PortInv'
    <2> DEFINE n == Pieces(io[h].reg) * io[h].reg.access
    <2>1. n \in Nat  BY <1>3, RegisterFacts DEF PortInv, HandleOK
    <2>2. v \in [1 .. n -> Byte]  OBVIOUS
    <2> HIDE DEF n
    <2>3. v \in Seq(Byte)  BY <2>1, <2>2, SeqDef, Zenon
    <2>4. Len(v) = n  BY <2>1, <2>2, <2>3, LenProperties
    <2> QED  BY <1>3, <2>3, <2>4, PortBeginStep DEF GasWrite, n
  <1>4. CASE GasDone
    BY <1>4, ResultStep DEF GasDone, PortInv
  <1>5. CASE GasReturn
    <2>1. gas' = NoGas /\ UNCHANGED <<port, io, status>>  BY <1>5 DEF GasReturn
    <2> QED  BY <2>1, AccessStep DEF PortInv
  <1>6. CASE UNCHANGED portVars
    BY <1>6 DEF PortInv, portVars
  <1> QED
    BY <1>1, <1>2, <1>3, <1>4, <1>5, <1>6, SkipStep, PortReadStep, PortWriteStep
    DEF PortNext

LEMMA PortCorrect == PortSpec => []PortInv
  <1>1. PortInit => PortInv
    <2> SUFFICES ASSUME PortInit PROVE PortInv  OBVIOUS
    <2>1. DOMAIN io = {}  BY DEF PortInit
    <2>2. port \in [0 .. PORTS - 1 -> Byte]  BY PortIoAssumption DEF PortInit
    <2> QED  BY <2>1, <2>2 DEF PortInit, PortInv
  <1> QED  BY <1>1, PortStep, PTL DEF PortSpec

(* What is in the ports and the accesses has its type.                      *)
LEMMA PortTyped == PortInv => PortTypeOK
  <1> SUFFICES ASSUME PortInv PROVE PortTypeOK  OBVIOUS
  <1>1. ASSUME NEW h \in DOMAIN io
        PROVE  io[h].reg \in Registers /\ io[h].len \in 1 .. PORTS
    <2>1. HandleOK(io[h])  BY DEF PortInv
    <2> QED  BY <2>1, RegisterFacts, PortIoAssumption DEF HandleOK
  <1>2. ASSUME gas # NoGas
        PROVE  /\ gas.h \in DOMAIN io /\ gas.index \in 0 .. Pieces(io[gas.h].reg)
               /\ gas.op = "read" => /\ gas.value \in Seq(Byte)
                                     /\ Len(gas.value) = gas.index * Width
    <2>1. /\ gas \in GasRecord /\ gas.h \in DOMAIN io /\ HandleOK(io[gas.h])
          /\ AccessOK(gas, io[gas.h], port)
      BY <1>2 DEF PortInv
    <2>2. Pieces(io[gas.h].reg) \in Nat  BY <2>1, RegisterFacts DEF HandleOK
    <2>3. gas.index <= Pieces(io[gas.h].reg)
      BY <2>1 DEF AccessOK
    <2>4. gas.op = "read" => Len(gas.value) = gas.index * Width
      BY <2>1 DEF AccessOK, Width
    <2> QED  BY <2>1, <2>2, <2>3, <2>4 DEF GasRecord
  <1> QED  BY <1>1, <1>2 DEF PortInv, PortTypeOK

(* A register access that reports success is the access uACPI asked for,    *)
(* for every register, range and access width: uacpi_kernel_io_read and     *)
(* uacpi_kernel_io_write check an offset against the length of the mapping  *)
(* in different ways, and between them store or return every mapped byte.   *)
THEOREM AccessesLandCorrect == PortSpec => [](PortTypeOK /\ AccessesLand)
  <1>1. PortInv => AccessesLand
    <2> SUFFICES ASSUME PortInv, gas # NoGas, gas.result = "ok"
                 PROVE  /\ \A i \in Accessed(io[gas.h].reg) :
                             gas.value[i] = port[io[gas.h].base + i - 1]
                        /\ gas.op = "read" => Len(gas.value) <= io[gas.h].len
      BY DEF AccessesLand
    <2> DEFINE m == io[gas.h]
               w == m.reg.access
    <2>1. HandleOK(m) /\ AccessOK(gas, m, port)  BY InAccess
    <2>2. /\ FirstPiece(m.reg) \in Nat /\ Pieces(m.reg) \in Nat
          /\ FirstPiece(m.reg) < Pieces(m.reg) /\ m.len = TotalBits(m.reg) \div 8
          /\ m.len \in Nat /\ m.len <= Pieces(m.reg) * w /\ Pieces(m.reg) * w \in Nat
      BY <2>1, RegisterFacts DEF HandleOK
    <2>3. gas.index = Pieces(m.reg)  BY <2>1 DEF AccessOK
    <2>4. \A i \in 1 .. Pieces(m.reg) * w :
            i > FirstPiece(m.reg) * w => gas.value[i] = port[m.base + i - 1]
      BY <2>1, <2>3 DEF AccessOK
    <2>5. ASSUME NEW i \in Accessed(m.reg)
          PROVE  i \in 1 .. Pieces(m.reg) * w /\ i > FirstPiece(m.reg) * w
      <3>1. i \in 1 .. m.len /\ i > FirstPiece(m.reg) * w
        BY <2>2 DEF Accessed, FirstPiece
      <3> HIDE DEF w, m
      <3> QED  BY <3>1, <2>2
    <2>6. gas.op = "read" => Len(gas.value) <= m.len
      BY <2>1, <2>2, <2>3 DEF AccessOK
    <2> QED  BY <2>4, <2>5, <2>6
  <1> QED  BY <1>1, PortCorrect, PortTyped, PTL

(* uacpi_kernel_io_write tests only that the access begins in the range;    *)
(* for registers accessed in bytes, or of a whole number of accesses, that  *)
(* is enough for no write to leave the range.                               *)
THEOREM WholeWritesStay == PortSpec => WholeWritesStayInRange
  <1>1. ASSUME PortInv, PortNext, Changed # {}, Whole(io[gas.h].reg)
        PROVE  Changed \subseteq MappedPorts(gas.h)
    <2> DEFINE m == io[gas.h]
               w == m.reg.access
               offset == gas.index * w
    <2>1. port' # port  BY <1>1 DEF Changed
    <2>2. uacpi_kernel_io_write
      BY <1>1, <2>1 DEF PortNext, uacpi_kernel_io_map, uacpi_kernel_io_unmap, GasRead,
         GasWrite, GasBegin, SkipPiece, uacpi_kernel_io_read, GasDone, GasReturn
    <2>3. gas # NoGas  BY <2>2 DEF uacpi_kernel_io_write
    <2>4. /\ gas \in GasRecord /\ HandleOK(m) /\ w \in {1, 2, 4} /\ offset \in Nat
          /\ m.base \in Nat /\ m.len \in Nat
      BY <1>1, <2>3, InAccess
    <2>5. gas' # [gas EXCEPT !.result = "error"]
      <3>1. SUFFICES ASSUME gas' = [gas EXCEPT !.result = "error"]
                     PROVE  FALSE
        OBVIOUS
      <3>2. gas' = [gas EXCEPT !.index = @ + 1] /\ gas.result = "busy"
        BY <2>1, <2>2 DEF uacpi_kernel_io_write, Busy
      <3> QED  BY <3>1, <3>2, <2>4 DEF GasRecord
    <2>6. /\ offset < m.len /\ offset + w <= Pieces(m.reg) * w
          /\ \A q \in 0 .. PORTS - 1 :
               q \notin m.base + offset .. m.base + offset + w - 1 => port'[q] = port[q]
      BY <1>1, <2>2, <2>5, WriteFacts
    <2>7. offset + w <= m.len
      <3>1. w # 1 => m.len = Pieces(m.reg) * w
        BY <1>1, <2>4, RegisterFacts DEF HandleOK
      <3> HIDE DEF offset, w, m
      <3> QED  BY <3>1, <2>4, <2>6
    <2>8. DOMAIN port = 0 .. PORTS - 1  BY <1>1 DEF PortInv
    <2> HIDE DEF offset, w, m
    <2>9. Changed \subseteq m.base + offset .. m.base + offset + w - 1
      BY <2>6, <2>8 DEF Changed
    <2>10. m.base + offset .. m.base + offset + w - 1 \subseteq m.base .. m.base + m.len - 1
      BY <2>4, <2>7
    <2> QED  BY <2>9, <2>10 DEF MappedPorts, Span, m
  <1>2. PortInv /\ [PortNext]_portVars =>
          [Changed # {} => \/ ~Whole(io[gas.h].reg)
                           \/ Changed \subseteq MappedPorts(gas.h)]_portVars
    BY <1>1
  <1> QED  BY <1>2, PortCorrect, PTL DEF PortSpec, WholeWritesStayInRange

-----------------------------------------------------------------------------
(* The global lock.                                                         *)

(* The words the two sides write.                                           *)
LEMMA WordFacts ==
  /\ Released \in LockWord
  /\ \A v \in LockWord : v.owned \in BOOLEAN /\ v.pending \in BOOLEAN /\ Claim(v) \in LockWord
  BY Zenon DEF Released, LockWord, Claim

(* An attempt after a wait is below the limit because the attempt that      *)
(* reaches it does not wait.                                                *)
AttemptsLeft == os = "wait" => spins < MAX_SPINS

(* Every step keeps the word, the values read from it and the number of     *)
(* attempts within their types.                                             *)
LEMMA LockTypeStep ==
  ASSUME LockTypeOK, AttemptsLeft, [LockNext]_lockVars
  PROVE  LockTypeOK' /\ AttemptsLeft'
  <1> USE SpinsAssumption, WordFacts DEF LockTypeOK, AttemptsLeft, osVars, fwVars
  <1>1. CASE OsCall  BY <1>1 DEF OsCall
  <1>2. CASE OsLoad  BY <1>2 DEF OsLoad
  <1>3. CASE OsSwap  BY <1>3 DEF OsSwap
  <1>4. CASE OsReload  BY <1>4 DEF OsReload
  <1>5. CASE OsWait
    <2>1. os' = "load" /\ spins' = spins + 1  BY <1>5 DEF OsWait
    <2>2. spins' \in 0 .. MAX_SPINS  BY <1>5, <2>1 DEF OsWait
    <2> QED  BY <1>5, <2>1, <2>2, Zenon DEF OsWait
  <1>6. CASE OsTimeout  BY <1>6 DEF OsTimeout
  <1>7. CASE OsRelease  BY <1>7 DEF OsRelease
  <1>8. CASE OsClear  BY <1>8 DEF OsClear
  <1>9. CASE FwLoad  BY <1>9 DEF FwLoad
  <1>10. CASE FwSwap  BY <1>10 DEF FwSwap
  <1>11. CASE FwWake  BY <1>11 DEF FwWake
  <1>12. CASE FwRelease  BY <1>12 DEF FwRelease
  <1>13. CASE UNCHANGED lockVars  BY <1>13 DEF lockVars
  <1> QED
    BY <1>1, <1>2, <1>3, <1>4, <1>5, <1>6, <1>7, <1>8, <1>9, <1>10, <1>11,
       <1>12, <1>13 DEF LockNext, OsStep

(* The attempts of uACPI stay within the limit and the word within its two  *)
(* bits, whatever the firmware does between a load and a swap.              *)
THEOREM LockTypeCorrect == LockSpec => []LockTypeOK
  <1>1. LockInit => LockTypeOK /\ AttemptsLeft
    <2>1. 0 \in 0 .. MAX_SPINS  BY SpinsAssumption
    <2> QED  BY <2>1, WordFacts, Zenon DEF LockInit, LockTypeOK, AttemptsLeft
  <1>2. LockTypeOK /\ AttemptsLeft /\ [LockNext]_lockVars => LockTypeOK' /\ AttemptsLeft'
    BY LockTypeStep
  <1> QED  BY <1>1, <1>2, PTL DEF LockSpec

(* The owned bit is set as long as somebody holds the lock.  With it        *)
(* exclusion is inductive: who finds the bit clear at the swap is alone.    *)
OwnedBit == os \in {"owner", "clear"} \/ fw = "owner" => word.owned

LEMMA ExclusionStep ==
  ASSUME LockTypeOK, MutualExclusion, OwnedBit, [LockNext]_lockVars
  PROVE  MutualExclusion' /\ OwnedBit'
  <1> USE DEF LockTypeOK, MutualExclusion, OwnedBit, LockWord, Released, Claim, osVars, fwVars
  <1>1. CASE OsCall  BY <1>1 DEF OsCall
  <1>2. CASE OsLoad  BY <1>2 DEF OsLoad
  <1>3. CASE OsSwap  BY <1>3 DEF OsSwap
  <1>4. CASE OsReload  BY <1>4 DEF OsReload
  <1>5. CASE OsWait  BY <1>5 DEF OsWait
  <1>6. CASE OsTimeout  BY <1>6 DEF OsTimeout
  <1>7. CASE OsRelease  BY <1>7 DEF OsRelease
  <1>8. CASE OsClear  BY <1>8 DEF OsClear
  <1>9. CASE FwLoad  BY <1>9 DEF FwLoad
  <1>10. CASE FwSwap  BY <1>10 DEF FwSwap
  <1>11. CASE FwWake  BY <1>11 DEF FwWake
  <1>12. CASE FwRelease  BY <1>12 DEF FwRelease
  <1>13. CASE UNCHANGED lockVars  BY <1>13 DEF lockVars
  <1> QED
    BY <1>1, <1>2, <1>3, <1>4, <1>5, <1>6, <1>7, <1>8, <1>9, <1>10, <1>11,
       <1>12, <1>13 DEF LockNext, OsStep

(* uACPI and the firmware never hold the global lock together, for every    *)
(* limit on the attempts.                                                   *)
THEOREM ExclusionCorrect == LockSpec => []MutualExclusion
  <1>1. LockInit => MutualExclusion /\ OwnedBit
    BY DEF LockInit, MutualExclusion, OwnedBit
  <1>2. LockTypeOK /\ MutualExclusion /\ OwnedBit /\ [LockNext]_lockVars
          => MutualExclusion' /\ OwnedBit'
    BY ExclusionStep
  <1> QED  BY <1>1, <1>2, LockTypeCorrect, PTL DEF LockSpec

-----------------------------------------------------------------------------
(* The services together: what is proved of each holds of a kernel that     *)
(* offers all of them.                                                      *)

(* A step is one of a service in use; on the variables of every other       *)
(* service it stutters.                                                     *)
LEMMA ServiceStep ==
  ASSUME [Next]_vars
  PROVE  /\ [PortNext]_portVars /\ [PciNext]_pciVars /\ [ScanNext]_scanVars
         /\ [SyncNext]_syncVars /\ [TimeNext]_timeVars /\ [LockNext]_lockVars
  <1>1. CASE UNCHANGED vars  BY <1>1 DEF vars
  <1>2. CASE PortPart  BY <1>2 DEF PortPart
  <1>3. CASE PciPart  BY <1>3 DEF PciPart
  <1>4. CASE ScanPart  BY <1>4 DEF ScanPart
  <1>5. CASE SyncPart  BY <1>5 DEF SyncPart
  <1>6. CASE TimePart  BY <1>6 DEF TimePart
  <1>7. CASE LockPart  BY <1>7 DEF LockPart
  <1>8. CASE ScanOver  BY <1>1, <1>8 DEF ScanOver
  <1> QED  BY <1>1, <1>2, <1>3, <1>4, <1>5, <1>6, <1>7, <1>8 DEF Next

(* Each service, on its own.                                                *)
ServicesApart ==
  /\ PortSpec /\ PciSpec /\ ScanSpec /\ SyncSpec /\ TimeSpec /\ LockSpec

(* A behaviour of MCServices, for any mixes, is one of each service on the  *)
(* variables of that service: what is proved of one can be cited for all.   *)
LEMMA ServicesProject == Spec => ServicesApart
  <1>1. Init => PortInit /\ PciInit /\ ScanInit /\ SyncInit /\ TimeInit /\ LockInit
    BY DEF Init
  <1>2. [Next]_vars =>
          /\ [PortNext]_portVars /\ [PciNext]_pciVars /\ [ScanNext]_scanVars
          /\ [SyncNext]_syncVars /\ [TimeNext]_timeVars /\ [LockNext]_lockVars
    BY ServiceStep
  <1> QED
    BY <1>1, <1>2, PTL
    DEF Spec, ServicesApart, PortSpec, PciSpec, ScanSpec, SyncSpec, TimeSpec, LockSpec

(* The handles, cursors, counters and attempts of all services stay within  *)
(* their ranges, whichever of them uACPI uses and with whatever arguments.  *)
THEOREM ServicesTypeCorrect == Spec => []TypeOK
  <1>1. SyncInv => SyncTypeOK  BY DEF SyncInv
  <1>2. TimeInv => TimeTypeOK  BY DEF TimeInv
  <1>3. PortTypeOK /\ PciTypeOK /\ ScanTypeOK /\ SyncTypeOK /\ TimeTypeOK /\ LockTypeOK
        => TypeOK
    BY DEF TypeOK
  <1> QED
    BY <1>1, <1>2, <1>3, ServicesProject, AccessesLandCorrect, PciTypeCorrect,
       ScanSoundCorrect, SyncCorrect, TimeCorrect, LockTypeCorrect, PTL
    DEF ServicesApart

(* The invariants of the services.                                          *)
ServicesPromise ==
  /\ AccessesLand /\ SectionsMask /\ WaitNotShort /\ MutualExclusion /\ ScanSound

(* What the services promise holds of every interleaving of their calls:    *)
(* register and configuration accesses reach the bytes their caller names,  *)
(* sections mask the interrupts, waits are not short, the enumeration finds *)
(* each function once, and the global lock has one owner.                   *)
THEOREM ServicesCorrect ==
  Spec => []ServicesPromise /\ WholeWritesStayInRange /\ ReadsExact /\ WritesExact
  <1>1. AccessesLand /\ SectionsMask /\ WaitNotShort /\ MutualExclusion /\ ScanSound
        => ServicesPromise
    BY DEF ServicesPromise
  <1> QED
    BY <1>1, ServicesProject, AccessesLandCorrect, MaskingCorrect, WaitsNotShort,
       ExclusionCorrect, ScanSoundCorrect, WholeWritesStay, ReadsExactCorrect,
       WritesExactCorrect, PTL
    DEF ServicesApart

=============================================================================
