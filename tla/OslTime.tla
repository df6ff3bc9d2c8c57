------------------------------ MODULE OslTime -------------------------------
(***************************************************************************)
(* time_get_ns, uacpi_kernel_stall and uacpi_kernel_sleep of                *)
(* kernel/acpi/kernel_apis.c: time is the time-stamp counter divided by a   *)
(* constant, 3 ticks to the nanosecond, from the first call on; a wait      *)
(* polls it.  The counter runs on between any two instructions, by any      *)
(* amount when an interrupt is served.                                      *)
(***************************************************************************)
EXTENDS Integers

CONSTANTS
  TICKS_PER_NS,   \* what the code divides by (3)
  Durations,      \* waits asked for, in nanoseconds
  MAX_TSC         \* bound on the counter

ASSUME TimeAssumption ==
  /\ TICKS_PER_NS \in Nat \ {0}
  /\ Durations \subseteq Nat /\ MAX_TSC \in Nat \ {0}

VARIABLES
  tsc,            \* the counter; not 0 by the time anything asks
  start_ticks,    \* the static base; 0 until the first call
  wait,           \* "idle", or where the wait is
  start, duration,  \* its locals
  began,          \* the counter when it was called
  read, result    \* the counter and the result of the last time_get_ns

timeVars == <<tsc, start_ticks, wait, start, duration, began, read, result>>

TimeInit ==
  /\ tsc = 1 /\ start_ticks = 0
  /\ wait = "idle" /\ start = 0 /\ duration = 0 /\ began = 0
  /\ read = 0 /\ result = 0

(* External: ticks pass.                                                    *)
Tick(n) ==
  /\ tsc + n <= MAX_TSC /\ tsc' = tsc + n
  /\ UNCHANGED <<start_ticks, wait, start, duration, began, read, result>>

-----------------------------------------------------------------------------
Base == IF start_ticks = 0 THEN tsc ELSE start_ticks

(* What time_get_ns returns now.                                            *)
Now == (tsc - Base) \div TICKS_PER_NS

time_get_ns == start_ticks' = Base /\ read' = tsc /\ result' = Now

(* uacpi_kernel_get_nanoseconds_since_boot                                  *)
GetNs ==
  /\ wait = "idle" /\ time_get_ns
  /\ UNCHANGED <<tsc, wait, start, duration, began>>

(* stall: usec * 1000; sleep: msec * 1000000.                               *)
WaitBegin(d) ==
  /\ wait = "idle" /\ tsc + (d + 1) * TICKS_PER_NS <= MAX_TSC
  /\ time_get_ns
  /\ wait' = "poll" /\ start' = Now /\ duration' = d /\ began' = tsc
  /\ UNCHANGED tsc

(* A bug: ends one nanosecond early.                                        *)
MutExpired == Now - start + 1 >= duration

Expired == Now - start >= duration

(* A bug: the start of the wait is taken again in every round.              *)
MutWaitPoll ==
  /\ wait = "poll"
  /\ time_get_ns
  /\ wait' = IF Expired THEN "return" ELSE "poll"
  /\ start' = Now
  /\ UNCHANGED <<tsc, duration, began>>

WaitPoll ==
  /\ wait = "poll"
  /\ time_get_ns
  /\ wait' = IF Expired THEN "return" ELSE "poll"
  /\ UNCHANGED <<tsc, start, duration, began>>

WaitReturn ==
  /\ wait = "return" /\ wait' = "idle"
  /\ UNCHANGED <<tsc, start_ticks, start, duration, began, read, result>>

TimeCalls == GetNs \/ (\E d \in Durations : WaitBegin(d)) \/ WaitPoll \/ WaitReturn

TimeNext == TimeCalls \/ \E n \in 1 .. 2 * TICKS_PER_NS : Tick(n)

(* A polling loop polls, and the counter runs meanwhile.                    *)
TimeFairness ==
  /\ WF_timeVars(WaitPoll) /\ WF_timeVars(WaitReturn)
  /\ WF_timeVars(wait = "poll" /\ Tick(1))

TimeSpec == TimeInit /\ [][TimeNext]_timeVars /\ TimeFairness

-----------------------------------------------------------------------------
(* Properties.                                                              *)

(* Results are never negative: no reading lies before the base.             *)
TimeTypeOK ==
  /\ tsc \in 1 .. MAX_TSC /\ start_ticks \in 0 .. tsc /\ read \in 0 .. tsc
  /\ wait \in {"idle", "poll", "return"} /\ start \in Nat /\ result \in Nat
  /\ duration \in Durations \cup {0} /\ began \in 0 .. tsc

(* A wait returns no more than one unit of the clock before its time, which *)
(* the two divisions may lose.                                              *)
WaitNotShort ==
  wait = "return" => read - began + TICKS_PER_NS > duration * TICKS_PER_NS

(* Every stall and sleep comes to an end.                                   *)
WaitEnds == wait = "poll" ~> wait = "idle"
=============================================================================
