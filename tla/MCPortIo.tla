------------------------------ MODULE MCPortIo ------------------------------
(* Eight ports, two handles.  The registers: two bytes in byte accesses;    *)
(* one word; three bytes in word accesses, so that the last piece sticks    *)
(* out; two words of which the first lies below the bit offset; 12 bits, of *)
(* which a whole byte is mapped; 4 bits, too few to map; a word that        *)
(* overlaps the others.                                                     *)
EXTENDS PortIo

Reg(base, offset, width, access) ==
  [base |-> base, bit_offset |-> offset, bit_width |-> width, access |-> access]

MCRegisters ==
  {Reg(1, 0, 16, 1), Reg(3, 0, 16, 2), Reg(2, 0, 24, 2), Reg(1, 16, 16, 2),
   Reg(4, 0, 12, 1), Reg(5, 0, 4, 1)}
=============================================================================
