------------------------------- MODULE KbdIrq -------------------------------
(***************************************************************************)
(* Keyboard input from the key press to the reader: the 8042 controller and *)
(* the 8259 PIC, the interrupt path of kernel/idt, the ring buffer, and the *)
(* three readers: read_char, which the console polls, and the blocking      *)
(* kbd_read_blocking and getchar, which halt the CPU while they wait.       *)
(*                                                                          *)
(* One CPU: the handler runs in the middle of the main thread whenever      *)
(* interrupts are on.  Make codes are the numbers 1, 2, ... in the order    *)
(* the keys are pressed, break codes their negatives (bit 7 set), and 0 is  *)
(* the keyboard's error code.                                               *)
(***************************************************************************)
EXTENDS KbdRing, FiniteSets

CONSTANTS
  Irqs,            \* the interrupt lines with a device that raises them
  MaxKeys          \* bound: bytes the keyboard sends

TIMER    == 0
KEYBOARD == 1

ASSUME IrqAssumption ==
  /\ {TIMER, KEYBOARD} \subseteq Irqs /\ Irqs \subseteq (0 .. 15) \ {2}
  /\ MaxKeys \in Nat

VARIABLES
  obuf,            \* the controller's output buffer, <<>> if empty
  typed,           \* bytes the keyboard has sent
  irr, inService,  \* the PIC's request and in-service registers
  offsets,         \* the vectors the two PICs start at
  gates,           \* the vectors with a present gate in the IDT
  intFlag,         \* RFLAGS.IF
  vector, stage,   \* the interrupt being handled and where its handler is
  machine,         \* "on", or "reset" after a triple fault
  installed,       \* lines uACPI believes it has a handler on
  rpc, reader, sc, \* the main thread: where it is, in which call, the byte
  offered, taken,  \* calls of kbd_push so far, last byte popped
  lostEdge         \* a byte was in the controller when the PIC was remapped

picVars    == <<irr, inService, offsets>>
cpuVars    == <<intFlag, vector, stage, machine>>
deviceVars == <<obuf, typed>>
threadVars == <<rpc, reader, sc>>
ghostVars  == <<offered, taken, lostEdge>>
vars == <<ringVars, picVars, cpuVars, deviceVars, threadVars, ghostVars,
          gates, installed>>

Readers == {"read_char", "kbd_read_blocking", "getchar"}

NoVector == -1

(* The state _main starts in: interrupts off, an empty IDT, and the PICs    *)
(* where the BIOS left them, at vectors 8 and 0x70.                         *)
Init ==
  /\ RingInit
  /\ obuf = <<>> /\ typed = 0
  /\ irr = {} /\ inService = {} /\ offsets = <<8, 112>>
  /\ gates = {} /\ intFlag = FALSE
  /\ vector = NoVector /\ stage = "none" /\ machine = "on" /\ installed = {}
  /\ rpc = "init_idt" /\ reader = "none" /\ sc = 0
  /\ offered = 0 /\ taken = 0 /\ lostEdge = FALSE

-----------------------------------------------------------------------------
(* Devices (not part of the repository).                                    *)

(* The keyboard sends its next byte when the output buffer is free, and     *)
(* with it raises its line.  The PIC latches the edge.                      *)
Press(code) ==
  /\ typed < MaxKeys /\ obuf = <<>>
  /\ code \in {typed + 1, -(typed + 1), 0}
  /\ obuf' = <<code>> /\ typed' = typed + 1
  /\ irr' = irr \cup {KEYBOARD}
  /\ UNCHANGED <<ringVars, inService, offsets, cpuVars, threadVars, ghostVars,
                 gates, installed>>

(* The timer, or another device, raises its line.                           *)
Raise(n) ==
  /\ n # KEYBOARD /\ n \notin irr
  /\ irr' = irr \cup {n}
  /\ UNCHANGED <<ringVars, inService, offsets, cpuVars, deviceVars, threadVars,
                 ghostVars, gates, installed>>

-----------------------------------------------------------------------------
(* Start-up, in the order of _main.                                         *)

InitIdt ==
  /\ rpc = "init_idt" /\ rpc' = "pic_remap"
  /\ gates' = {14, 32, 33}
  /\ UNCHANGED <<ringVars, picVars, cpuVars, deviceVars, reader, sc, ghostVars,
                 installed>>

(* A bug in pic_remap: the vectors are left where the BIOS put them.        *)
MutPicRemap ==
  /\ rpc = "pic_remap" /\ rpc' = "sti"
  /\ UNCHANGED <<ringVars, picVars, cpuVars, deviceVars, reader, sc, ghostVars,
                 gates, installed>>

(* pic_remap(0x20, 0x28): ICW1 clears the registers and the edge detector,  *)
(* and no line stays masked.  A byte that is in the controller at this      *)
(* moment has lost its edge, and nothing in the kernel drains it.           *)
PicRemap ==
  /\ rpc = "pic_remap" /\ rpc' = "sti"
  /\ offsets' = <<32, 40>> /\ irr' = {} /\ inService' = {}
  /\ lostEdge' = (obuf # <<>>)
  /\ UNCHANGED <<ringVars, cpuVars, deviceVars, reader, sc, offered, taken,
                 gates, installed>>

Sti ==
  /\ rpc = "sti" /\ rpc' = "idle"
  /\ stage = "none" /\ machine = "on"
  /\ intFlag' = TRUE
  /\ UNCHANGED <<ringVars, picVars, vector, stage, machine, deviceVars, reader,
                 sc, ghostVars, gates, installed>>

-----------------------------------------------------------------------------
(* The interrupt path.                                                      *)

VectorOf(n) == IF n < 8 THEN offsets[1] + n ELSE offsets[2] + n - 8

(* Priority on the master, where the slave hangs off line 2.                *)
Rank(n) == IF n < 8 THEN n ELSE 2

(* Request n goes before m; two of the slave's go by their number.          *)
Before(n, m) == Rank(n) < Rank(m) \/ (Rank(n) = Rank(m) /\ n < m)

(* The PIC offers the most urgent request that nothing in service blocks.   *)
(* The CPU takes it between two instructions, which ends a hlt, and turns   *)
(* interrupts off.  Without a gate the fault that follows has no gate       *)
(* either, nor has the double fault: the machine resets.                    *)
Deliver(n) ==
  /\ machine = "on" /\ intFlag
  /\ n \in irr
  /\ \A m \in irr \ {n} : Before(n, m)
  /\ \A m \in inService : Rank(n) < Rank(m)
  /\ irr' = irr \ {n} /\ inService' = inService \cup {n}
  /\ vector' = VectorOf(n) /\ intFlag' = FALSE
  /\ IF VectorOf(n) \in gates
     THEN stage' = "enter" /\ UNCHANGED machine
     ELSE machine' = "reset" /\ UNCHANGED stage
  /\ rpc' = CASE rpc = "halted" /\ reader = "kbd_read_blocking" -> "wait"
              [] rpc = "halted" /\ reader = "getchar" -> "pop"
              [] OTHER -> rpc
  /\ UNCHANGED <<ringVars, offsets, deviceVars, reader, sc, ghostVars, gates,
                 installed>>

(* A bug in isr_handler: the byte is left in the controller when the ring   *)
(* is full.                                                                 *)
MutIsrKeyboard ==
  /\ stage = "enter" /\ vector = 33 /\ obuf # <<>>
  /\ stage' = "eoi"
  /\ IF obuf[1] > 0 /\ Advance(kbd_head) = kbd_tail
     THEN UNCHANGED <<obuf, ringVars, offered>>
     ELSE /\ obuf' = <<>>
          /\ IF obuf[1] >= 0
             THEN kbd_push(obuf[1]) /\ offered' = offered + 1
             ELSE UNCHANGED <<ringVars, offered>>
  /\ UNCHANGED <<picVars, intFlag, vector, machine, typed, threadVars, taken,
                 lostEdge, gates, installed>>

(* isr_handler reads port 0x60, which empties the output buffer, and pushes *)
(* the byte unless it is a break code.                                      *)
IsrKeyboard ==
  /\ stage = "enter" /\ vector = 33 /\ obuf # <<>>
  /\ stage' = "eoi"
  /\ obuf' = <<>>
  /\ IF obuf[1] >= 0
     THEN kbd_push(obuf[1]) /\ offered' = offered + 1
     ELSE UNCHANGED <<ringVars, offered>>
  /\ UNCHANGED <<picVars, intFlag, vector, machine, typed, threadVars, taken,
                 lostEdge, gates, installed>>

(* Nothing to do for the timer but to acknowledge it.                       *)
IsrTimer ==
  /\ stage = "enter" /\ vector = 32
  /\ stage' = "eoi"
  /\ UNCHANGED <<ringVars, picVars, intFlag, vector, machine, deviceVars,
                 threadVars, ghostVars, gates, installed>>

(* A bug in isr_handler: "int_no > 32" leaves the timer unacknowledged.     *)
MutIsrEoi ==
  /\ stage = "eoi" /\ stage' = "iret"
  /\ inService' = IF vector > 32 THEN inService \ {vector - offsets[1]} ELSE inService
  /\ UNCHANGED <<ringVars, irr, offsets, intFlag, vector, machine, deviceVars,
                 threadVars, ghostVars, gates, installed>>

(* The end-of-interrupt command clears the most urgent bit in service.  (No *)
(* gate at 40 or above exists, so the slave never needs one.)               *)
IsrEoi ==
  /\ stage = "eoi" /\ stage' = "iret"
  /\ inService' = {m \in inService : \E k \in inService : Rank(k) < Rank(m)}
  /\ UNCHANGED <<ringVars, irr, offsets, intFlag, vector, machine, deviceVars,
                 threadVars, ghostVars, gates, installed>>

Iretq ==
  /\ stage = "iret" /\ stage' = "none"
  /\ vector' = NoVector /\ intFlag' = TRUE
  /\ UNCHANGED <<ringVars, picVars, machine, deviceVars, threadVars, ghostVars,
                 gates, installed>>

-----------------------------------------------------------------------------
(* The main thread, when no handler is running.                             *)

Running == stage = "none" /\ machine = "on"

threadOnly == <<ringVars, picVars, cpuVars, deviceVars, ghostVars, gates,
                installed>>

Call(f) ==
  /\ Running /\ rpc = "idle"
  /\ reader' = f /\ sc' = 0
  /\ rpc' = IF f = "kbd_read_blocking" THEN "wait" ELSE "pop"
  /\ UNCHANGED threadOnly

(* The loop test of kbd_read_blocking.                                      *)
WaitTest ==
  /\ Running /\ rpc = "wait"
  /\ rpc' = IF RingEmpty THEN "hlt" ELSE "pop"
  /\ UNCHANGED <<reader, sc>> /\ UNCHANGED threadOnly

(* What the callers of kbd_pop do with its result: getchar halts on 0.      *)
AfterPop(code) == IF reader = "getchar" /\ code = 0 THEN "hlt" ELSE "idle"

PopTest ==
  /\ Running /\ rpc = "pop"
  /\ rpc' = IF RingEmpty THEN AfterPop(0) ELSE "read"
  /\ UNCHANGED <<reader, sc>> /\ UNCHANGED threadOnly

PopRead ==
  /\ Running /\ rpc = "read" /\ rpc' = "advance"
  /\ sc' = kbd_buffer[kbd_tail]
  /\ UNCHANGED reader /\ UNCHANGED threadOnly

PopReturn ==
  /\ Running /\ rpc = "advance"
  /\ PopAdvance
  /\ taken' = sc
  /\ rpc' = AfterPop(sc)
  /\ UNCHANGED <<picVars, cpuVars, deviceVars, reader, sc, offered,
                 lostEdge, gates, installed>>

(* A bug in the wait loops: interrupts are turned off for the hlt.          *)
MutHalt ==
  /\ Running /\ rpc = "hlt" /\ rpc' = "halted"
  /\ intFlag' = FALSE
  /\ UNCHANGED <<ringVars, picVars, vector, stage, machine, deviceVars, reader,
                 sc, ghostVars, gates, installed>>

(* hlt stops the thread until the next interrupt of any kind.  One that     *)
(* came after the test and before the hlt does not count.                   *)
Halt ==
  /\ Running /\ rpc = "hlt" /\ rpc' = "halted"
  /\ UNCHANGED <<reader, sc>> /\ UNCHANGED threadOnly

(* uacpi_kernel_install_interrupt_handler, called by uACPI for the SCI: it  *)
(* returns UACPI_STATUS_OK and does nothing else.                           *)
InstallHandler(irq) ==
  /\ Running /\ rpc = "idle" /\ irq \notin installed
  /\ installed' = installed \cup {irq}
  /\ UNCHANGED <<ringVars, picVars, cpuVars, deviceVars, threadVars, ghostVars,
                 gates>>

-----------------------------------------------------------------------------
(* The system.                                                              *)

SCI == 9

BootStep   == InitIdt \/ PicRemap \/ Sti
IsrStep    == IsrKeyboard \/ IsrTimer \/ IsrEoi \/ Iretq
ReaderStep ==
  \/ \E f \in Readers : Call(f)
  \/ WaitTest \/ PopTest \/ PopRead \/ PopReturn \/ Halt

Next ==
  \/ BootStep \/ IsrStep \/ ReaderStep
  \/ \E code \in -MaxKeys .. MaxKeys : Press(code)
  \/ \E n \in Irqs : Raise(n) \/ Deliver(n)
  \/ InstallHandler(SCI)

(* The handler is sequential code and the timer ticks for ever.  Ticks are  *)
(* 55 ms apart and a handler takes microseconds, so as long as ticks are    *)
(* being delivered the processor is time and again out of the handler with  *)
(* no tick pending; then the keyboard's request is delivered and the        *)
(* interrupted thread goes on.  (Nothing is assumed of a processor that     *)
(* takes no more ticks: that would hide a line left in service, or a hlt    *)
(* with interrupts off.)                                                    *)
TicksSpaced ==
  []<><<Deliver(TIMER)>>_vars => []<>(stage = "none" /\ TIMER \notin irr)

Fairness ==
  /\ WF_vars(BootStep) /\ WF_vars(IsrStep)
  /\ WF_vars(Raise(TIMER)) /\ TicksSpaced
  /\ SF_vars(Deliver(TIMER)) /\ SF_vars(Deliver(KEYBOARD))
  /\ SF_vars(ReaderStep)

Spec == Init /\ [][Next]_vars /\ Fairness

-----------------------------------------------------------------------------
(* Properties.                                                              *)

(* The state stays within its types.                                        *)
TypeOK ==
  /\ kbd_buffer \in [RingIndex -> 0 .. MaxKeys]
  /\ kbd_head \in RingIndex /\ kbd_tail \in RingIndex
  /\ obuf = <<>> \/ (Len(obuf) = 1 /\ obuf[1] \in -MaxKeys .. MaxKeys)
  /\ typed \in 0 .. MaxKeys
  /\ irr \subseteq Irqs /\ inService \subseteq Irqs
  /\ offsets \in {<<8, 112>>, <<32, 40>>} /\ gates \subseteq 0 .. 255
  /\ intFlag \in BOOLEAN /\ vector \in -1 .. 255
  /\ stage \in {"none", "enter", "eoi", "iret"}
  /\ machine \in {"on", "reset"} /\ installed \subseteq {SCI}
  /\ rpc \in {"init_idt", "pic_remap", "sti", "idle", "wait", "pop", "read",
              "advance", "hlt", "halted"}
  /\ reader \in Readers \cup {"none"} /\ sc \in 0 .. MaxKeys
  /\ offered \in 0 .. MaxKeys /\ taken \in 0 .. MaxKeys /\ lostEdge \in BOOLEAN

(* The ring is a FIFO of KBD_BUF_SIZE - 1 scancodes: an interrupt between   *)
(* any two steps of a pop neither loses, repeats nor reorders one, and a    *)
(* scancode is dropped only when the ring is full.                          *)
Fifo == INSTANCE ScancodeFifo WITH
  Codes <- 0 .. MaxKeys, CAPACITY <- KBD_BUF_SIZE - 1,
  queue <- Waiting, last <- taken

RingIsFifo == Fifo!Spec

(* A byte in the controller always has a request pending or its handler     *)
(* about to read it.  Otherwise the line never rises again and the keyboard *)
(* is dead, as it is after a key press before pic_remap (lostEdge).         *)
ByteHasRequest ==
  machine = "on" /\ ~lostEdge /\ obuf # <<>> =>
    KEYBOARD \in irr \/ (stage = "enter" /\ vector = 33)

(* No interrupt arrives at a vector without a gate, from the first          *)
(* instruction of _main on.                                                 *)
NeverResets == machine = "on"

(* The PIC has exactly the interrupt being handled in service until the     *)
(* handler acknowledges it, and nothing once the thread runs again: no      *)
(* line is left blocked.                                                    *)
ServiceMatchesHandler ==
  inService = IF stage \in {"enter", "eoi"} THEN {vector - offsets[1]} ELSE {}

(* A scancode in the ring is eventually read, although the test of a        *)
(* blocking reader and its hlt are two steps and the interrupt that brought *)
(* the scancode may fall between them: the next tick wakes the reader.      *)
ScancodesRead ==
  \A i \in 1 .. MaxKeys :
    (\E k \in DOMAIN Waiting : Waiting[k] = i)
      ~> (\A k \in DOMAIN Waiting : Waiting[k] # i)

(* A byte the keyboard sends is eventually taken by the handler, unless it  *)
(* lost its edge to pic_remap.                                              *)
BytesServed == obuf # <<>> ~> (obuf = <<>> \/ lostEdge)

(* uACPI's contract for the host: a handler installed on a line runs when   *)
(* the line is raised.                                                      *)
InstalledLinesHandled ==
  machine = "reset" => vector \notin {VectorOf(n) : n \in installed}

=============================================================================
