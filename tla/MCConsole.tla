----------------------------- MODULE MCConsole ------------------------------
(***************************************************************************)
(* The two halves of the output path, the screen with its users and printf, *)
(* which turns a call into characters.  They share no state: a behaviour    *)
(* uses one of them.                                                        *)
(*                                                                          *)
(* A screen of four rows of four cells, a buffer of four: a line of three   *)
(* letters reaches the margin and the answer to it scrolls the screen.      *)
(* Ints of 9 bits, long numbers of 12: every int, a spread of long numbers  *)
(* with the largest, and a format that mixes all the conversions.           *)
(***************************************************************************)
EXTENDS Console, Printf

MCVer == <<"a">>
MCHalt == <<"b">>
MCPoweroff == <<"a", "b">>
MCVerText == <<"v", LF>>
MCUnknownText == <<"?">>
MCFailText == <<"e">>
MCPmmText == <<"p", LF, "p", LF>>
MCMemText == <<"m", LF>>
MCVmmText == <<"w", LF, "w", LF, "w", LF>>
MCErrText == <<"x", LF>>
MCLogText == <<"l", "l">>
MCAllocText == <<"n">>

MCFormats ==
  {<<<<"%", "d">>, <<n>>>> : n \in -256 .. 255}
    \cup {<<<<"%", f>>, <<n>>>> : f \in {"u", "x"},
            n \in {0, 1, 9, 10, 99, 100, 255, 256, 1000, 4000, 4095}}
    \cup {<<<<"a", "%", "s", "%", "%", "%", "u", "%", "q", "%", "d", "%", "x">>,
            <<<<"h", "i">>, 40, -3, 17>>>>}

VARIABLE used

vars == <<used, consoleVars, printfVars>>

Init == used \in {"screen", "printf"} /\ ConsoleInit /\ PrintfInit

Next ==
  /\ UNCHANGED used
  /\ \/ used = "screen" /\ ConsoleNext /\ UNCHANGED printfVars
     \/ used = "printf" /\ PrintfNext /\ UNCHANGED consoleVars

Spec == Init /\ [][Next]_vars /\ WF_printfVars(PrintfStep)

(* The cursor stays on the screen, the line in its buffer and the digits of *)
(* a number in theirs, and no store misses the screen.                      *)
TypeOK == ConsoleTypeOK /\ PrintfTypeOK
=============================================================================
