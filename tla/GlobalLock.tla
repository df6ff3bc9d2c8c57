----------------------------- MODULE GlobalLock -----------------------------
(***************************************************************************)
(* The ACPI global lock, a word in memory shared with the firmware, as      *)
(* uACPI takes it on this kernel (external/uacpi/source/mutex.c) with the   *)
(* kernel's events underneath.  uacpi_kernel_wait_for_event never blocks,   *)
(* and no SCI handler is ever installed that would signal the event, so     *)
(* the wait for a release is a bounded number of attempts.  The firmware    *)
(* runs at any point, between a load and its compare-and-swap too.          *)
(***************************************************************************)
EXTENDS Integers

CONSTANT MAX_SPINS      \* attempts before uACPI gives up (0xFFFF)

ASSUME SpinsAssumption == MAX_SPINS \in Nat \ {0}

VARIABLES
  word,         \* the lock: owned and pending bits
  os, value,    \* where uACPI is, and the value it read from the word
  spins,        \* its attempts
  fw, fwValue,  \* the same for the firmware
  gbl_rls       \* the firmware has been told of a release

lockVars   == <<word, os, value, spins, fw, fwValue, gbl_rls>>
osVars == <<os, value, spins>>
fwVars == <<fw, fwValue>>

LockWord == [owned : BOOLEAN, pending : BOOLEAN]
Released == [owned |-> FALSE, pending |-> FALSE]

LockInit ==
  /\ word = Released /\ value = Released /\ fwValue = Released
  /\ os = "idle" /\ spins = 0 /\ fw = "idle"
  /\ gbl_rls = FALSE

-----------------------------------------------------------------------------
(* uACPI.                                                                   *)

OsCall ==
  /\ os = "idle"
  /\ os' = "load" /\ spins' = 1
  /\ UNCHANGED <<word, value, fwVars, gbl_rls>>

OsLoad ==
  /\ os = "load"
  /\ os' = "swap" /\ value' = word
  /\ UNCHANGED <<word, spins, fwVars, gbl_rls>>

(* The word a contender writes: owned, and pending if it was owned before.  *)
Claim(v) == [owned |-> TRUE, pending |-> v.owned]

(* A bug: a plain store in place of the compare-and-swap.                   *)
MutOsSwap ==
  /\ os = "swap"
  /\ word' = Claim(value)
  /\ os' = IF ~value.owned THEN "owner" ELSE IF spins = MAX_SPINS THEN "timeout" ELSE "wait"
  /\ UNCHANGED <<value, spins, fwVars, gbl_rls>>

(* A bug: one attempt too many.                                             *)
MutOsSwapLimit ==
  /\ os = "swap" /\ word = value
  /\ word' = Claim(value)
  /\ os' = IF ~value.owned THEN "owner" ELSE IF spins > MAX_SPINS THEN "timeout" ELSE "wait"
  /\ UNCHANGED <<value, spins, fwVars, gbl_rls>>

(* try_acquire_global_lock_from_firmware and what its result leads to.      *)
OsSwap ==
  /\ os = "swap" /\ word = value
  /\ word' = Claim(value)
  /\ os' = IF ~value.owned THEN "owner" ELSE IF spins = MAX_SPINS THEN "timeout" ELSE "wait"
  /\ UNCHANGED <<value, spins, fwVars, gbl_rls>>

(* A failed compare-and-swap loads the word again.                          *)
OsReload ==
  /\ os \in {"swap", "clear"} /\ word # value
  /\ value' = word
  /\ UNCHANGED <<word, os, spins, fwVars, gbl_rls>>

(* A wait that blocks until the event is signalled, which nobody does.      *)
MutOsWait == FALSE

(* uacpi_kernel_wait_for_event: not signalled, returns at once.             *)
OsWait ==
  /\ os = "wait"
  /\ os' = "load" /\ spins' = spins + 1
  /\ UNCHANGED <<word, value, fwVars, gbl_rls>>

OsTimeout ==
  /\ os = "timeout"
  /\ os' = "idle"
  /\ UNCHANGED <<word, value, spins, fwVars, gbl_rls>>

OsRelease ==
  /\ os = "owner"
  /\ os' = "clear" /\ value' = word
  /\ UNCHANGED <<word, spins, fwVars, gbl_rls>>

(* A bug: a plain store in place of the compare-and-swap.                   *)
MutOsClear ==
  /\ os = "clear"
  /\ word' = Released /\ os' = "idle"
  /\ gbl_rls' = (gbl_rls \/ value.pending)
  /\ UNCHANGED <<value, spins, fwVars>>

(* do_release_global_lock_to_firmware; a pending bit is answered by writing *)
(* GBL_RLS.                                                                 *)
OsClear ==
  /\ os = "clear" /\ word = value
  /\ word' = Released /\ os' = "idle"
  /\ gbl_rls' = (gbl_rls \/ value.pending)
  /\ UNCHANGED <<value, spins, fwVars>>

OsStep == OsLoad \/ OsSwap \/ OsReload \/ OsWait \/ OsTimeout \/ OsRelease \/ OsClear

-----------------------------------------------------------------------------
(* External: the firmware, by the same protocol.  Its own release notice is *)
(* an SCI, which reaches nobody.                                            *)

FwLoad ==
  /\ fw = "idle"
  /\ fw' = "swap" /\ fwValue' = word
  /\ UNCHANGED <<word, osVars, gbl_rls>>

FwSwap ==
  /\ fw = "swap"
  /\ IF word = fwValue
     THEN word' = Claim(word) /\ fw' = (IF word.owned THEN "wait" ELSE "owner")
          /\ UNCHANGED fwValue
     ELSE fwValue' = word /\ UNCHANGED <<word, fw>>
  /\ UNCHANGED <<osVars, gbl_rls>>

FwWake ==
  /\ fw = "wait" /\ gbl_rls
  /\ fw' = "swap" /\ fwValue' = word /\ gbl_rls' = FALSE
  /\ UNCHANGED <<word, osVars>>

FwRelease ==
  /\ fw = "owner"
  /\ word' = Released /\ fw' = "idle"
  /\ UNCHANGED <<osVars, fwValue, gbl_rls>>

LockNext == OsCall \/ OsStep \/ FwLoad \/ FwSwap \/ FwWake \/ FwRelease

(* uACPI is sequential code, and what it runs under the lock comes to an    *)
(* end.  The firmware owes nothing but to look at a notice it waits for; it *)
(* may keep the lock for ever.  It does not run between every load and swap *)
(* of the kernel, so a swap that is possible again and again succeeds.      *)
LockFairness ==
  /\ WF_lockVars(OsStep) /\ SF_lockVars(OsSwap) /\ SF_lockVars(OsClear) /\ WF_lockVars(FwWake)

LockSpec == LockInit /\ [][LockNext]_lockVars /\ LockFairness

-----------------------------------------------------------------------------
(* Properties.                                                              *)

(* The attempts stay within the limit, whatever the firmware does.          *)
LockTypeOK ==
  /\ word \in LockWord /\ value \in LockWord /\ fwValue \in LockWord
  /\ gbl_rls \in BOOLEAN
  /\ os \in {"idle", "load", "swap", "wait", "owner", "clear", "timeout"}
  /\ fw \in {"idle", "swap", "wait", "owner"}
  /\ spins \in 0 .. MAX_SPINS

(* The firmware and uACPI never hold the global lock at the same time.      *)
MutualExclusion == ~(os \in {"owner", "clear"} /\ fw = "owner")

(* A call to take the lock returns, with the lock or without, even if the   *)
(* firmware keeps it for ever: uACPI relies on no notification, which no    *)
(* handler would receive.                                                   *)
AcquireReturns == os = "load" ~> os \in {"owner", "timeout"}

(* Firmware that waits for the lock is told when uACPI gives it up, even if *)
(* it set the pending bit while the release was under way.                  *)
FirmwareNotified == fw = "wait" ~> fw # "wait"
=============================================================================
