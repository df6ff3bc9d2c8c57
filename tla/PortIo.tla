------------------------------- MODULE PortIo -------------------------------
(***************************************************************************)
(* The port I/O services of kernel/acpi/kernel_apis.c, io_map, io_unmap and *)
(* the six accesses, under the client that uses them with widths of its     *)
(* own: uACPI's generic address structures, which map a register of any bit *)
(* width and read or write it piece by piece.  A port holds one byte; an    *)
(* access of w bytes touches w consecutive ports.                           *)
(***************************************************************************)
EXTENDS Integers, Sequences, FiniteSets

CONSTANTS
  PORTS,        \* number of ports (2^16)
  Byte,         \* values of a byte
  IoHandles,      \* allocations that can hold a tinos_io_handle_t
  Registers     \* [base, bit_offset, bit_width, access (bytes)] uACPI knows

TotalBits(r) == r.bit_offset + r.bit_width

Pieces(r) == (TotalBits(r) + 8 * r.access - 1) \div (8 * r.access)

ASSUME PortIoAssumption ==
  /\ PORTS \in Nat \ {0} /\ Byte \subseteq Nat /\ 0 \in Byte
  /\ \A r \in Registers :
       /\ r.base \in 1 .. PORTS - 1 /\ r.access \in {1, 2, 4}
       /\ r.bit_offset \in Nat /\ r.bit_width \in Nat \ {0}
       /\ r.base + Pieces(r) * r.access <= PORTS

VARIABLES
  port,         \* what the ports hold
  io,           \* the handles: [reg, base, len]
  gas,          \* the register access in progress, or NoGas
  status        \* what the last service returned

portVars == <<port, io, gas, status>>

NoGas == [op |-> "none"]

Span(base, n) == base .. base + n - 1

PortInit ==
  /\ port = [p \in 0 .. PORTS - 1 |-> 0]
  /\ io = [h \in {} |-> 0] /\ gas = NoGas /\ status = "OK"

-----------------------------------------------------------------------------
(* The services.                                                            *)

(* io_map by uacpi_map_gas_noalloc: whole bytes of the register.  A length  *)
(* of zero is refused, and so is everything when malloc fails.              *)
uacpi_kernel_io_map(h, r) ==
  /\ gas = NoGas /\ h \notin DOMAIN io
  /\ IF TotalBits(r) \div 8 = 0 THEN status' = "INVALID_ARGUMENT" /\ UNCHANGED io
     ELSE \/ /\ status' = "OK"
             /\ io' = [k \in DOMAIN io \cup {h} |-> IF k # h THEN io[k] ELSE
                        [reg |-> r, base |-> r.base, len |-> TotalBits(r) \div 8]]
          \/ status' = "OUT_OF_MEMORY" /\ UNCHANGED io
  /\ UNCHANGED <<port, gas>>

uacpi_kernel_io_unmap(h) ==
  /\ gas = NoGas /\ h \in DOMAIN io
  /\ io' = [k \in DOMAIN io \ {h} |-> io[k]]
  /\ UNCHANGED <<port, gas, status>>

ReadAccepted(h, offset, width) == offset + width <= io[h].len

(* A bug: one offset too many.                                              *)
MutWriteAccepted(h, offset, width) == offset <= io[h].len

WriteAccepted(h, offset, width) == offset < io[h].len

(* A bug: the accesses go to the start of the range.                        *)
MutPortOf(h, offset) == io[h].base

PortOf(h, offset) == (io[h].base + offset) % PORTS

(* in and out instructions of width bytes at p.                             *)
InPorts(p, width) == [i \in 1 .. width |-> port[(p + i - 1) % PORTS]]

OutPorts(p, data) ==
  port' = [q \in DOMAIN port |->
             IF q \in Span(p, Len(data)) THEN data[q - p + 1] ELSE port[q]]

-----------------------------------------------------------------------------
(* The client: uacpi_gas_read_mapped and uacpi_gas_write_mapped.            *)

GasBegin(h, op, value) ==
  /\ gas = NoGas /\ h \in DOMAIN io
  /\ gas' = [op |-> op, h |-> h, index |-> 0, value |-> value, result |-> "busy"]
  /\ UNCHANGED <<port, io, status>>

GasRead(h) == GasBegin(h, "read", <<>>)

(* One byte of the value for each byte of the pieces.                       *)
GasWrite(h, value) == GasBegin(h, "write", value)

Busy(op) == gas.op = op /\ gas.result = "busy" /\ gas.index < Pieces(io[gas.h].reg)

Width == io[gas.h].reg.access

(* A piece below the bit offset is not accessed; it reads as zero.          *)
Skipped == (gas.index + 1) * 8 * Width <= io[gas.h].reg.bit_offset

SkipPiece ==
  /\ gas # NoGas /\ Busy(gas.op) /\ Skipped
  /\ gas' = [gas EXCEPT !.index = @ + 1,
       !.value = IF gas.op = "read" THEN @ \o [i \in 1 .. Width |-> 0] ELSE @]
  /\ UNCHANGED <<port, io, status>>

uacpi_kernel_io_read ==
  /\ gas # NoGas /\ Busy("read") /\ ~Skipped
  /\ LET offset == gas.index * Width
     IN IF ReadAccepted(gas.h, offset, Width)
        THEN /\ gas' = [gas EXCEPT !.index = @ + 1,
                          !.value = @ \o InPorts(PortOf(gas.h, offset), Width)]
             /\ status' = "OK"
        ELSE gas' = [gas EXCEPT !.result = "error"] /\ status' = "INVALID_ARGUMENT"
  /\ UNCHANGED <<port, io>>

uacpi_kernel_io_write ==
  /\ gas # NoGas /\ Busy("write") /\ ~Skipped
  /\ LET offset == gas.index * Width
     IN IF WriteAccepted(gas.h, offset, Width)
        THEN /\ OutPorts(PortOf(gas.h, offset), SubSeq(gas.value, offset + 1, offset + Width))
             /\ gas' = [gas EXCEPT !.index = @ + 1] /\ status' = "OK"
        ELSE /\ gas' = [gas EXCEPT !.result = "error"] /\ status' = "INVALID_ARGUMENT"
             /\ UNCHANGED port
  /\ UNCHANGED io

(* The loop ends with the last piece or the first error.                    *)
GasDone ==
  /\ gas # NoGas /\ gas.result = "busy" /\ gas.index = Pieces(io[gas.h].reg)
  /\ gas' = [gas EXCEPT !.result = "ok"]
  /\ UNCHANGED <<port, io, status>>

GasReturn ==
  /\ gas # NoGas /\ gas.result # "busy"
  /\ gas' = NoGas /\ UNCHANGED <<port, io, status>>

PortNext ==
  \/ \E h \in IoHandles :
       \/ \E r \in Registers : uacpi_kernel_io_map(h, r)
       \/ uacpi_kernel_io_unmap(h)
       \/ GasRead(h)
       \/ h \in DOMAIN io /\ \E v \in [1 .. Pieces(io[h].reg) * io[h].reg.access -> Byte] :
            GasWrite(h, v)
  \/ SkipPiece \/ uacpi_kernel_io_read \/ uacpi_kernel_io_write \/ GasDone \/ GasReturn

PortSpec == PortInit /\ [][PortNext]_portVars

-----------------------------------------------------------------------------
(* Properties.                                                              *)

(* Ports hold bytes, a handle covers the bytes of a known register, and an  *)
(* access in progress has one value byte per accessed byte.                 *)
PortTypeOK ==
  /\ port \in [0 .. PORTS - 1 -> Byte]
  /\ DOMAIN io \subseteq IoHandles
  /\ \A h \in DOMAIN io : io[h].reg \in Registers /\ io[h].len \in 1 .. PORTS
  /\ gas # NoGas =>
       /\ gas.h \in DOMAIN io /\ gas.index \in 0 .. Pieces(io[gas.h].reg)
       /\ gas.op = "read" => gas.value \in Seq(Byte) /\ Len(gas.value) = gas.index * Width
  /\ status \in {"OK", "INVALID_ARGUMENT", "OUT_OF_MEMORY"}

Accessed(reg) == {i \in 1 .. TotalBits(reg) \div 8 :
                    i > (reg.bit_offset \div (8 * reg.access)) * reg.access}

(* A register access that reports success is the access uACPI asked for: of *)
(* the bytes in the mapped range, a write has stored every one and a read   *)
(* has returned every one, whatever the number of pieces; and a read has    *)
(* returned nothing from a port outside the range.                          *)
AccessesLand ==
  gas # NoGas /\ gas.result = "ok" =>
    /\ \A i \in Accessed(io[gas.h].reg) : gas.value[i] = port[io[gas.h].base + i - 1]
    /\ gas.op = "read" => Len(gas.value) <= io[gas.h].len

(* The registers accessed in bytes, or of a whole number of accesses.       *)
Whole(reg) == reg.access = 1 \/ TotalBits(reg) % (8 * reg.access) = 0

Changed == {p \in DOMAIN port : port'[p] # port[p]}

MappedPorts(h) == Span(io[h].base, io[h].len)

(* A write changes no port outside the range that was mapped, if accesses   *)
(* are bytes or the width of the register is a whole number of them: the    *)
(* last piece then ends within the range or is refused.                     *)
WholeWritesStayInRange ==
  [][Changed # {} => \/ ~Whole(io[gas.h].reg)
                     \/ Changed \subseteq MappedPorts(gas.h)]_portVars
=============================================================================
