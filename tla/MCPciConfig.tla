---------------------------- MODULE MCPciConfig -----------------------------
(* Two functions are present, which differ in bus, device and function      *)
(* number; uACPI opens both, one that is absent, and one in a segment that  *)
(* the ports do not reach.  The space has two doublewords: identification,  *)
(* which is constant, then two plain bytes (command) and two status bytes.  *)
(* The accesses are of all widths, one misaligned and one beyond the space. *)
EXTENDS PciConfig

Acc(offset, value) == [width |-> Len(value), offset |-> offset, value |-> value]

MCAccesses ==
  {Acc(4, <<1>>), Acc(5, <<1>>), Acc(6, <<1>>), Acc(4, <<1, 0>>), Acc(5, <<0, 1>>),
   Acc(6, <<0, 1>>), Acc(4, <<0, 1, 0, 0>>), Acc(0, <<0, 0, 0, 0>>), Acc(3, <<1>>),
   Acc(10, <<1, 1>>)}

MCPresent == {<<0, 0, 0>>, <<1, 1, 1>>}

At(s, b, d, f) == [segment |-> s, bus |-> b, device |-> d, function |-> f]

MCOpened == {At(0, 0, 0, 0), At(0, 1, 1, 1), At(0, 0, 1, 0), At(1, 0, 0, 0)}
=============================================================================
