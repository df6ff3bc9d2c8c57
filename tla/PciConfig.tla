----------------------------- MODULE PciConfig ------------------------------
(***************************************************************************)
(* PCI configuration space through the ports 0xCF8 and 0xCFC:               *)
(* kernel/drivers/pci/pci_config.c, and the handles by which uACPI uses it  *)
(* (kernel/acpi/kernel_apis.c).  Every access is to an aligned doubleword;  *)
(* narrow reads cut their bytes out of it, narrow writes read, merge and    *)
(* write back.  The device goes on meanwhile and raises status bits, which  *)
(* are cleared by writing a one to them.                                    *)
(***************************************************************************)
EXTENDS Pci, Sequences

CONSTANTS
  SPACE,                      \* bytes of the space of one function (256)
  Opened,                     \* addresses uACPI opens; 0xCF8 is segment 0
  Present,                    \* the <<bus, device, function>> that exist
  Plain, Status,              \* offsets of read-write and of status bytes
  PciHandles,                    \* allocations that can hold a handle
  Accesses                    \* [width, offset, value] uACPI asks for

Address == [segment : Nat, bus : Bus, device : Device, function : Function]

ASSUME PciAssumption ==
  /\ SPACE \in Nat \ {0} /\ SPACE % 4 = 0
  /\ Opened \subseteq Address /\ Present \subseteq Bus \X Device \X Function
  /\ Plain \cap Status = {} /\ Plain \cup Status \subseteq 0 .. SPACE - 1
  /\ \A a \in Accesses : a.width \in {1, 2, 4} /\ a.offset \in Nat
                         /\ a.value \in [1 .. a.width -> Nat]

VARIABLES
  config,       \* the bytes of the present functions, by their address
  handle,       \* the open handles: tinos_pci_handle_t
  select,       \* the address last written to 0xCF8
  op            \* the access in progress, or NoOp

pciVars == <<config, handle, select, op>>

NoOp == [pc |-> "none"]
Ones == -1      \* what absent hardware answers

(* The number a function has in the address written to 0xCF8.               *)
Cell(bus, device, function, offset) ==
  ((bus * DEVICES + device) * FUNCTIONS + function) * SPACE + offset

Cells == UNION {{Cell(f[1], f[2], f[3], o) : o \in 0 .. SPACE - 1} : f \in Present}

(* Bytes that are neither plain nor status are constant; here each tells    *)
(* where it is.                                                             *)
PciInit ==
  /\ config = [n \in Cells |-> IF n % SPACE \in Plain \cup Status THEN 0 ELSE n + 2]
  /\ handle = [h \in {} |-> 0] /\ select = 0 /\ op = NoOp

-----------------------------------------------------------------------------
(* External: the host bridge.                                               *)

inl == [i \in 1 .. 4 |-> IF select + i - 1 \in Cells THEN config[select + i - 1] ELSE Ones]

outl(data) ==
  config' = [n \in Cells |->
    IF n - select \notin 0 .. 3 THEN config[n]
    ELSE LET d == data[n - select + 1] IN
      CASE n % SPACE \in Plain  -> d
        [] n % SPACE \in Status -> IF d = 1 THEN 0 ELSE config[n]
        [] OTHER                -> config[n]]

(* The device reports something in a status byte.                           *)
RaiseStatus(n) ==
  /\ n % SPACE \in Status /\ config[n] = 0
  /\ config' = [config EXCEPT ![n] = 1]
  /\ UNCHANGED <<handle, select, op>>

-----------------------------------------------------------------------------
(* PciHandles.                                                                 *)

(* The address is stored, the segment with it; whether the device exists is *)
(* not looked at.                                                           *)
uacpi_kernel_pci_device_open(h, address) ==
  /\ op = NoOp /\ h \notin DOMAIN handle
  /\ handle' = [k \in DOMAIN handle \cup {h} |-> IF k = h THEN address ELSE handle[k]]
  /\ UNCHANGED <<config, select, op>>

uacpi_kernel_pci_device_close(h) ==
  /\ op = NoOp /\ h \in DOMAIN handle
  /\ handle' = [k \in DOMAIN handle \ {h} |-> handle[k]]
  /\ UNCHANGED <<config, select, op>>

-----------------------------------------------------------------------------
(* Accesses.                                                                *)

(* The offset is cast to uint8_t and its low two bits are dropped; the      *)
(* segment is not used.                                                     *)
pci_config_address(a, offset) ==
  LET byte == offset % SPACE
  IN Cell(a.bus, a.device, a.function, byte - (byte % 4))

(* A bug: words are always taken from the low half of the doubleword.       *)
MutShift(width, offset) == IF width = 1 THEN offset % 4 ELSE 0

(* (offset & 3) for a byte, (offset & 2) for a word.                        *)
Shift(width, offset) ==
  CASE width = 1 -> offset % 4
    [] width = 2 -> 2 * ((offset % 4) \div 2)
    [] width = 4 -> 0

(* outl(PCI_CONFIG_ADDRESS, address)                                        *)
ConfigBegin(h, kind, access) ==
  /\ op = NoOp /\ h \in DOMAIN handle
  /\ select' = pci_config_address(handle[h], access.offset)
  /\ op' = [pc |-> kind, h |-> h, width |-> access.width, offset |-> access.offset,
            value |-> IF kind = "read" THEN <<>> ELSE access.value, current |-> <<>>]
  /\ UNCHANGED <<config, handle>>

Skip == Shift(op.width, op.offset)

pci_config_read ==
  /\ op.pc = "read"
  /\ op' = [op EXCEPT !.pc = "done", !.value = SubSeq(inl, Skip + 1, Skip + op.width)]
  /\ UNCHANGED <<config, handle, select>>

pci_config_write32 ==
  /\ op.pc = "write" /\ op.width = 4
  /\ outl(op.value)
  /\ op' = [op EXCEPT !.pc = "done"]
  /\ UNCHANGED <<handle, select>>

(* A bug in the merge: the word write clears the whole doubleword.          *)
MutMerge == [i \in 1 .. 4 |-> IF i - Skip \in 1 .. op.width THEN op.value[i - Skip] ELSE 0]

Merge == [i \in 1 .. 4 |->
            IF i - Skip \in 1 .. op.width THEN op.value[i - Skip] ELSE op.current[i]]

(* pci_config_write8 and pci_config_write16.                                *)
ReadForWrite ==
  /\ op.pc = "write" /\ op.width < 4
  /\ op' = [op EXCEPT !.pc = "merge", !.current = inl]
  /\ UNCHANGED <<config, handle, select>>

WriteBack ==
  /\ op.pc = "merge"
  /\ outl(Merge)
  /\ op' = [op EXCEPT !.pc = "done"]
  /\ UNCHANGED <<handle, select>>

ConfigReturn == op.pc = "done" /\ op' = NoOp /\ UNCHANGED <<config, handle, select>>

PciNext ==
  \/ \E h \in PciHandles :
       \/ \E a \in Opened : uacpi_kernel_pci_device_open(h, a)
       \/ uacpi_kernel_pci_device_close(h)
       \/ \E a \in Accesses, k \in {"read", "write"} : ConfigBegin(h, k, a)
  \/ pci_config_read \/ pci_config_write32 \/ ReadForWrite \/ WriteBack \/ ConfigReturn
  \/ \E n \in Cells : RaiseStatus(n)

PciSpec == PciInit /\ [][PciNext]_pciVars

-----------------------------------------------------------------------------
(* Properties.                                                              *)

(* 0xCF8 always holds the address of a doubleword; bytes are bytes.         *)
PciTypeOK ==
  /\ config \in [Cells -> Nat]
  /\ \A h \in DOMAIN handle : h \in PciHandles /\ handle[h] \in Opened
  /\ select \in 0 .. BUSES * DEVICES * FUNCTIONS * SPACE - 4 /\ select % 4 = 0
  /\ op.pc \in {"none", "read", "write", "merge", "done"}

(* The bytes uACPI means: those at the offset, in the space of the device   *)
(* the handle was opened for; -1 for a byte the ports cannot reach.         *)
Named(i) ==
  LET a == handle[op.h] IN
  IF a.segment = 0 /\ op.offset + i - 1 < SPACE
  THEN Cell(a.bus, a.device, a.function, op.offset + i - 1) ELSE -1

Target == {Named(i) : i \in 1 .. op.width}

(* Accesses the configuration mechanism can express.                        *)
Expressible == -1 \notin Target /\ op.offset % op.width = 0

Answer(n) == IF n \in Cells THEN config[n] ELSE Ones

ReadStep == op.pc = "read" /\ op'.pc = "done"

(* An aligned read of the first segment within the space returns the bytes  *)
(* at the offset, in order, and all ones from a device that is absent.      *)
ReadsExact ==
  [][ReadStep /\ Expressible =>
       \A i \in 1 .. op.width : op'.value[i] = Answer(Named(i))]_pciVars

WriteStep == op.pc \in {"write", "merge"} /\ op'.pc = "done"

Cleared == {n \in Cells : n % SPACE \in Status /\ config[n] = 1 /\ config'[n] = 0}

(* An aligned write stores its value and, although it rewrites the whole    *)
(* doubleword, leaves the plain bytes next to it as they were; and a status *)
(* that the device raises between the read and the write-back is not lost:  *)
(* only what was read as one is written as one.                             *)
WritesExact ==
  [][WriteStep /\ Expressible =>
       /\ \A i \in 1 .. op.width :
            Named(i) \in Cells /\ Named(i) % SPACE \in Plain
              => config'[Named(i)] = op.value[i]
       /\ \A n \in Cells \ Target : n % SPACE \in Plain => config'[n] = config[n]
       /\ \A n \in Cleared \ Target : op.current[n - select + 1] = 1]_pciVars

(* What a caller of write8 and write16 relies on: a write of some bytes of  *)
(* the configuration space clears no status byte it does not name.          *)
StatusKept == [][WriteStep /\ Expressible => Cleared \subseteq Target]_pciVars
=============================================================================
