------------------------------ MODULE PciScan -------------------------------
(***************************************************************************)
(* pci_init of kernel/drivers/pci/pci.c: the enumeration of the PCI bus.    *)
(* A device without function 0 does not exist; only a device whose header   *)
(* says so is asked for further functions, because a device with a single   *)
(* function may answer for all eight.                                       *)
(***************************************************************************)
EXTENDS Pci, Sequences, FiniteSets

CONSTANTS
  BUS_COUNTER, BYTE_COUNTER,   \* values of uint16_t and uint8_t loop variables
  Slots                        \* what may sit at a device number

Slot == [functions : SUBSET Function, multi : BOOLEAN, deaf : BOOLEAN]

(* Slots as the PCI specification has them: function 0 is there if any is,  *)
(* the header tells whether there are more, and only a device with a single *)
(* function may be deaf to the function number.                             *)
ASSUME ScanAssumption ==
  /\ {BUS_COUNTER, BYTE_COUNTER} \subseteq Nat
  /\ BUSES < BUS_COUNTER /\ DEVICES < BYTE_COUNTER /\ FUNCTIONS < BYTE_COUNTER
  /\ Slots \subseteq Slot
  /\ \A s \in Slots : /\ s.functions # {} => 0 \in s.functions
                      /\ s.multi <=> s.functions \ {0} # {}
                      /\ s.deaf => s.functions = {0}

VARIABLES machine, bus, device, function, functions, scan, found

scanVars == <<machine, bus, device, function, functions, scan, found>>

ScanInit ==
  /\ machine \in [Bus \X Device -> Slots]
  /\ bus = 0 /\ device = 0 /\ function = 0 /\ functions = 0
  /\ scan = "idle" /\ found = <<>>

-----------------------------------------------------------------------------
(* What configuration reads return.                                         *)

Answers(b, d, f) ==
  LET s == machine[<<b, d>>] IN f \in s.functions \/ s.deaf

MultiFunction(b, d) == machine[<<b, d>>].multi

(* (header & 0x80) ? 8 : 1                                                  *)
FunctionCount(b, d) == IF MultiFunction(b, d) THEN FUNCTIONS ELSE 1

(* _main calls pci_init.                                                    *)
pci_init ==
  /\ scan = "idle" /\ scan' = "device"
  /\ UNCHANGED <<machine, bus, device, function, functions, found>>

(* A bug: the bus is counted in a byte, like the device.                    *)
MutNextBus == (bus + 1) % BYTE_COUNTER

NextBus == (bus + 1) % BUS_COUNTER

NextDevice == (device + 1) % BYTE_COUNTER

(* The vendor test of a device number and the reading of its header.        *)
ProbeDevice ==
  /\ scan = "device" /\ bus < BUSES /\ device < DEVICES
  /\ IF Answers(bus, device, 0)
     THEN /\ functions' = FunctionCount(bus, device) /\ function' = 0
          /\ scan' = "function" /\ device' = device
     ELSE device' = NextDevice /\ UNCHANGED <<function, functions, scan>>
  /\ UNCHANGED <<machine, bus, found>>

(* pci_scan returns at once if nothing answers, else it has found a device. *)
pci_scan ==
  /\ scan = "function" /\ function < functions
  /\ found' = IF Answers(bus, device, function)
              THEN Append(found, <<bus, device, function>>) ELSE found
  /\ function' = (function + 1) % BYTE_COUNTER
  /\ UNCHANGED <<machine, bus, device, functions, scan>>

FunctionsDone ==
  /\ scan = "function" /\ function >= functions
  /\ device' = NextDevice /\ scan' = "device"
  /\ UNCHANGED <<machine, bus, function, functions, found>>

BusDone ==
  /\ scan = "device" /\ bus < BUSES /\ device >= DEVICES
  /\ bus' = NextBus /\ device' = 0
  /\ UNCHANGED <<machine, function, functions, scan, found>>

ScanDone ==
  /\ scan = "device" /\ bus >= BUSES
  /\ scan' = "done"
  /\ UNCHANGED <<machine, bus, device, function, functions, found>>

ScanStep == ProbeDevice \/ pci_scan \/ FunctionsDone \/ BusDone \/ ScanDone

ScanNext == pci_init \/ ScanStep

(* Sequential code.                                                         *)
ScanSpec == ScanInit /\ [][ScanNext]_scanVars /\ WF_scanVars(ScanStep)

-----------------------------------------------------------------------------
(* Properties.                                                              *)

(* The loop variables stay in the ranges of their types.                    *)
ScanTypeOK ==
  /\ bus \in 0 .. BUSES /\ device \in 0 .. DEVICES /\ function \in 0 .. FUNCTIONS
  /\ functions \in 0 .. FUNCTIONS /\ scan \in {"idle", "device", "function", "done"}
  /\ found \in Seq(Bus \X Device \X Function)

Existing == {n \in Bus \X Device \X Function :
               n[3] \in machine[<<n[1], n[2]>>].functions}

Found == {found[i] : i \in 1 .. Len(found)}

(* pci_init returns, over loop counters that wrap, and has then visited     *)
(* every function of the machine once, the last one of the last device of   *)
(* the last bus too, and no echo of function 0 under another number.        *)
ScanExact ==
  scan = "device" ~> /\ scan = "done" /\ Found = Existing
                     /\ Cardinality(Found) = Len(found)
=============================================================================
