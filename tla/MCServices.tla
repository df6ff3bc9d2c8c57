----------------------------- MODULE MCServices -----------------------------
(***************************************************************************)
(* The services the kernel offers uACPI, and the enumeration of the PCI bus *)
(* by _main, in one instance.  A behaviour uses those of one mix, in any    *)
(* order of their steps.  The variables of the services are disjoint: what  *)
(* they share in the code, the heap their handles come from, is Heap's      *)
(* matter, and a handle is only taken or free here.                         *)
(***************************************************************************)
EXTENDS MCPortIo, MCPciConfig, MCPciScan, OslSync, OslTime, GlobalLock

CONSTANT Mixes     \* the sets of services a behaviour may use

VARIABLE used      \* the one it does use

vars == <<used, portVars, pciVars, scanVars, syncVars, timeVars, lockVars>>

(* The machine pci_init finds matters only to the enumeration.              *)
Init ==
  /\ used \in Mixes
  /\ PortInit /\ PciInit /\ ScanInit /\ SyncInit /\ TimeInit /\ LockInit
  /\ "scan" \notin used => \A n \in DOMAIN machine : machine[n].functions = {}
                                                /\ ~machine[n].deaf

PortPart == PortNext /\ UNCHANGED <<pciVars, scanVars, syncVars, timeVars, lockVars>>
PciPart  == PciNext  /\ UNCHANGED <<portVars, scanVars, syncVars, timeVars, lockVars>>
ScanPart == ScanNext /\ UNCHANGED <<portVars, pciVars, syncVars, timeVars, lockVars>>
SyncPart == SyncNext /\ UNCHANGED <<portVars, pciVars, scanVars, timeVars, lockVars>>
TimePart == TimeNext /\ UNCHANGED <<portVars, pciVars, scanVars, syncVars, lockVars>>
LockPart == LockNext /\ UNCHANGED <<portVars, pciVars, scanVars, syncVars, timeVars>>

(* pci_init has returned.                                                   *)
ScanOver == scan = "done" /\ UNCHANGED vars

Next ==
  /\ UNCHANGED used
  /\ \/ "port" \in used /\ PortPart
     \/ "config" \in used /\ PciPart
     \/ "scan" \in used /\ (ScanPart \/ ScanOver)
     \/ "sync" \in used /\ SyncPart
     \/ "time" \in used /\ TimePart
     \/ "lock" \in used /\ LockPart

(* Each service by itself, and the sections and events in every interleaving *)
(* with the global lock, whose acquisition uses them.                       *)
MCMixes ==
  {{"port"}, {"config"}, {"scan"}, {"time"}, {"sync", "lock"}}

(* What each service owes on its own; nothing is owed by one that is idle.  *)
Spec == Init /\ [][Next]_vars /\ WF_scanVars(ScanStep) /\ TimeFairness /\ LockFairness

(* Handles, counters, cursors of loops and the attempts at the global lock  *)
(* stay within their ranges.                                                *)
TypeOK ==
  /\ PortTypeOK /\ PciTypeOK /\ ScanTypeOK /\ SyncTypeOK /\ TimeTypeOK /\ LockTypeOK
=============================================================================
