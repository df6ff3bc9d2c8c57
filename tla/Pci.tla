-------------------------------- MODULE Pci ---------------------------------
(* The numbering of PCI functions, as the ports 0xCF8 and 0xCFC have it.    *)
EXTENDS Integers

CONSTANTS BUSES, DEVICES, FUNCTIONS      \* 256, 32 and 8

ASSUME PciNumbers == {BUSES, DEVICES, FUNCTIONS} \subseteq Nat \ {0}

Bus == 0 .. BUSES - 1
Device == 0 .. DEVICES - 1
Function == 0 .. FUNCTIONS - 1
=============================================================================
