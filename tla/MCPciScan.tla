----------------------------- MODULE MCPciScan ------------------------------
(* Three buses of two devices with up to two functions, in every conforming *)
(* arrangement; as many buses as a byte has values, as 256 are.             *)
EXTENDS PciScan

MCSlots == {s \in Slot : /\ s.functions # {} => 0 \in s.functions
                         /\ s.multi <=> s.functions \ {0} # {}
                         /\ s.deaf => s.functions = {0}}
=============================================================================
