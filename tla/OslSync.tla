------------------------------ MODULE OslSync -------------------------------
(***************************************************************************)
(* Synchronisation services of kernel/acpi/kernel_apis.c for uACPI: events, *)
(* the interrupt state, spinlocks and deferred work.  One thread calls      *)
(* them, in properly nested sections; scheduled work runs inside the call   *)
(* that schedules it and may call everything again.  Interrupts arrive      *)
(* between any two calls.                                                   *)
(***************************************************************************)
EXTENDS Integers, Sequences

CONSTANTS
  Events,       \* allocations that can hold an event
  MAX_DEPTH     \* bound on the nesting of sections

ASSUME SyncAssumption == MAX_DEPTH \in Nat

VARIABLES
  signaled,     \* the flags of the events that exist
  IF_flag,      \* RFLAGS.IF
  isr,          \* an interrupt handler runs
  frames,       \* the sections the thread is in, innermost last
  waited        \* the last wait: what it found and what it returned

syncVars == <<signaled, IF_flag, isr, frames, waited>>

evVars  == <<signaled, waited>>
cpuVars == <<IF_flag, isr>>

NoWait == [found |-> FALSE, returned |-> FALSE, valid |-> FALSE]

SyncInit ==
  /\ signaled = [e \in {} |-> FALSE]
  /\ IF_flag = TRUE /\ isr = FALSE
  /\ frames = <<>> /\ waited = NoWait

InThread == ~isr
Top    == frames[Len(frames)]
Innermost(kind) == frames # <<>> /\ Top.kind = kind
Enter(kind, value) ==
  Len(frames) < MAX_DEPTH /\ frames' = Append(frames, [kind |-> kind, value |-> value])
Leave == frames' = SubSeq(frames, 1, Len(frames) - 1)

-----------------------------------------------------------------------------
(* External: the CPU takes an interrupt and returns from it.                *)

Interrupt ==
  /\ IF_flag /\ ~isr
  /\ isr' = TRUE /\ IF_flag' = FALSE
  /\ UNCHANGED <<evVars, frames>>

Iretq ==
  /\ isr
  /\ isr' = FALSE /\ IF_flag' = TRUE
  /\ UNCHANGED <<evVars, frames>>

-----------------------------------------------------------------------------
(* Events.                                                                  *)

uacpi_kernel_create_event(e) ==
  /\ InThread /\ e \notin DOMAIN signaled
  /\ signaled' = [f \in DOMAIN signaled \cup {e} |-> IF f = e THEN FALSE ELSE signaled[f]]
  /\ UNCHANGED <<cpuVars, frames, waited>>

uacpi_kernel_free_event(e) ==
  /\ InThread /\ e \in DOMAIN signaled
  /\ signaled' = [f \in DOMAIN signaled \ {e} |-> signaled[f]]
  /\ UNCHANGED <<cpuVars, frames, waited>>

uacpi_kernel_signal_event(e) ==
  /\ InThread /\ e \in DOMAIN signaled
  /\ signaled' = [signaled EXCEPT ![e] = TRUE]
  /\ UNCHANGED <<cpuVars, frames, waited>>

uacpi_kernel_reset_event(e) ==
  /\ InThread /\ e \in DOMAIN signaled
  /\ signaled' = [signaled EXCEPT ![e] = FALSE]
  /\ UNCHANGED <<cpuVars, frames, waited>>

(* The statuses of the code read as the uacpi_bool it is declared to        *)
(* return: UACPI_STATUS_OK is 0, UACPI_STATUS_TIMEOUT is not.  The call     *)
(* never blocks, whatever the timeout.                                      *)
uacpi_kernel_wait_for_event(e) ==
  /\ InThread /\ e \in DOMAIN signaled
  /\ waited' = [found |-> signaled[e], returned |-> ~signaled[e], valid |-> TRUE]
  /\ signaled' = [signaled EXCEPT ![e] = FALSE]
  /\ UNCHANGED <<cpuVars, frames>>

-----------------------------------------------------------------------------
(* Interrupt state and spinlocks.                                           *)

uacpi_kernel_disable_interrupts ==
  /\ InThread
  /\ Enter("irqoff", IF_flag) /\ IF_flag' = FALSE
  /\ UNCHANGED <<evVars, isr>>

(* A bug: restore is taken for enable.                                      *)
MutRestore ==
  /\ InThread /\ Innermost("irqoff")
  /\ IF_flag' = TRUE /\ Leave
  /\ UNCHANGED <<evVars, isr>>

uacpi_kernel_restore_interrupts ==
  /\ InThread /\ Innermost("irqoff")
  /\ IF_flag' = (Top.value \/ IF_flag) /\ Leave
  /\ UNCHANGED <<evVars, isr>>

(* Neither touches the interrupt flag; lock returns 0 for the flags.        *)
uacpi_kernel_lock_spinlock ==
  /\ InThread /\ Enter("spin", FALSE)
  /\ UNCHANGED <<evVars, cpuVars>>

uacpi_kernel_unlock_spinlock ==
  /\ InThread /\ Innermost("spin") /\ Leave
  /\ UNCHANGED <<evVars, cpuVars>>

-----------------------------------------------------------------------------
(* Work.                                                                    *)

(* handler(ctx) is called at once: its frame is on the same stack.          *)
uacpi_kernel_schedule_work ==
  /\ InThread /\ Enter("work", FALSE)
  /\ UNCHANGED <<evVars, cpuVars>>

WorkReturns ==
  /\ InThread /\ Innermost("work") /\ Leave
  /\ UNCHANGED <<evVars, cpuVars>>

(* Returns UACPI_STATUS_OK without looking.                                 *)
uacpi_kernel_wait_for_work_completion == InThread /\ UNCHANGED syncVars

SyncNext ==
  \/ Interrupt \/ Iretq
  \/ \E e \in Events :
       \/ uacpi_kernel_create_event(e) \/ uacpi_kernel_free_event(e)
       \/ uacpi_kernel_signal_event(e) \/ uacpi_kernel_reset_event(e)
       \/ uacpi_kernel_wait_for_event(e)
  \/ uacpi_kernel_disable_interrupts \/ uacpi_kernel_restore_interrupts
  \/ uacpi_kernel_lock_spinlock \/ uacpi_kernel_unlock_spinlock
  \/ uacpi_kernel_schedule_work \/ WorkReturns \/ uacpi_kernel_wait_for_work_completion

SyncSpec == SyncInit /\ [][SyncNext]_syncVars

-----------------------------------------------------------------------------
(* Properties.                                                              *)

Inside(kind) == \E i \in 1 .. Len(frames) : frames[i].kind = kind

(* Events live from create to free, and sections stay bounded.              *)
SyncTypeOK ==
  /\ DOMAIN signaled \subseteq Events /\ \A e \in DOMAIN signaled : signaled[e] \in BOOLEAN
  /\ IF_flag \in BOOLEAN /\ isr \in BOOLEAN /\ Len(frames) <= MAX_DEPTH
  /\ waited \in [found : BOOLEAN, returned : BOOLEAN, valid : BOOLEAN]

(* Between disable and restore of the interrupts no handler runs and none   *)
(* can start, after the restore of an inner pair and inside work that was   *)
(* scheduled there too; and outside every section interrupts are on, so the *)
(* last restore has turned them on and no tick is lost for good.            *)
SectionsMask ==
  /\ Inside("irqoff") => ~isr /\ ~IF_flag
  /\ ~Inside("irqoff") /\ ~Inside("spin") => isr \/ IF_flag

(* kernel_api.h: locking a spinlock is expected to disable interrupts, so   *)
(* that no handler runs between it and the unlock.                          *)
SpinlocksMask == Inside("spin") => ~isr

(* kernel_api.h: a successful wait is indicated by returning UACPI_TRUE.    *)
WaitReportsSuccess == waited.valid => (waited.returned <=> waited.found)
=============================================================================
