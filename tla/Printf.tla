------------------------------- MODULE Printf -------------------------------
(***************************************************************************)
(* printf of kernel/lib/std/stdio.c, one conversion or character at a time: *)
(* the format string is walked, %d and %u collect their digits backwards in *)
(* a buffer on the stack and print them from its end.  Numbers have their   *)
(* width: an int is negated in two's complement.  A string is a sequence of *)
(* characters without its terminator.                                       *)
(***************************************************************************)
EXTENDS Integers, Sequences, SequencesExt

CONSTANTS
  INT_BITS,        \* bits of an int (32)
  LONG_BITS,       \* bits of a uint64_t (64)
  BUF_D, BUF_U,    \* the digit buffers (16 and 21)
  Formats          \* pairs <<format, arguments>>

Pow(b, n) == LET p[k \in 0 .. n] == IF k = 0 THEN 1 ELSE b * p[k - 1] IN p[n]

INT_MIN == -Pow(2, INT_BITS - 1)

(* What a caller passes for a conversion.                                   *)
Passed(c) ==
  CASE c = "s" -> Seq(STRING)
    [] c = "d" -> INT_MIN .. -INT_MIN - 1
    [] c \in {"u", "x"} -> 0 .. Pow(2, LONG_BITS) - 1

Takes == {"s", "d", "u", "x"}

(* A place in a format: is the next character behind a %, and which         *)
(* argument is next?  After a character, and after k of them.               *)
Beyond(p, c) == <<~p[1] /\ c = "%", IF p[1] /\ c \in Takes THEN p[2] + 1 ELSE p[2]>>

Place(f) ==
  LET w[k \in 0 .. Len(f)] == IF k = 0 THEN <<FALSE, 1>> ELSE Beyond(w[k - 1], f[k])
  IN w

(* A call has the arguments its format asks for, as C demands.              *)
Matches(f, args) ==
  /\ Place(f)[Len(f)] = <<FALSE, Len(args) + 1>>
  /\ \A k \in 1 .. Len(f) : Place(f)[k - 1][1] /\ f[k] \in Takes
       => args[Place(f)[k - 1][2]] \in Passed(f[k])

ASSUME PrintfAssumption ==
  /\ INT_BITS \in Nat \ {0} /\ LONG_BITS \in Nat \ {0} /\ LONG_BITS % 4 = 0
  /\ BUF_D \in Nat /\ Pow(2, INT_BITS - 1) <= Pow(10, BUF_D)
  /\ BUF_U \in Nat /\ Pow(2, LONG_BITS) <= Pow(10, BUF_U)
  /\ \A c \in Formats :
       c[1] \in Seq(STRING) /\ Len(c[2]) \in Nat /\ Matches(c[1], c[2])

VARIABLES
  call,            \* the format and its arguments
  i, next,         \* index into the format; the next argument
  num, buf,        \* the number being converted and its digits so far
  conv, out        \* where printf is, and what it has printed

printfVars == <<call, i, next, num, buf, conv, out>>

fmt == call[1]
Arg == call[2][next]

(* -num in two's complement.                                                *)
Negate(n) == IF n = INT_MIN THEN n ELSE -n

(* Digits are numbers in out, other characters strings; both in pairs.      *)
Chr(c) == <<"c", c>>
Dig(d) == <<"d", d>>

PrintfInit ==
  /\ call = <<<<>>, <<>>>> /\ i = 1 /\ next = 1
  /\ num = 0 /\ buf = <<>> /\ conv = "idle" /\ out = <<>>

printf(c) ==
  /\ conv = "idle"
  /\ call' = c /\ conv' = "walk"
  /\ UNCHANGED <<i, next, num, buf, out>>

Walking == conv = "walk" /\ i <= Len(fmt)

PutPlain ==
  /\ Walking /\ fmt[i] # "%"
  /\ out' = Append(out, Chr(fmt[i])) /\ i' = i + 1
  /\ UNCHANGED <<call, next, num, buf, conv>>

(* The character after the %, if the string has one.                        *)
Conv(c) == Walking /\ fmt[i] = "%" /\ i < Len(fmt) /\ fmt[i + 1] = c

PutPercent ==
  /\ Conv("%")
  /\ out' = Append(out, Chr("%")) /\ i' = i + 2
  /\ UNCHANGED <<call, next, num, buf, conv>>

PutArgument ==
  /\ Conv("s")
  /\ out' = out \o [k \in 1 .. Len(Arg) |-> Chr(Arg[k])]
  /\ i' = i + 2 /\ next' = next + 1
  /\ UNCHANGED <<call, num, buf, conv>>

(* default: the character is printed behind its %, no argument is taken.    *)
PutUnknown ==
  /\ Walking /\ fmt[i] = "%" /\ i < Len(fmt)
  /\ fmt[i + 1] \notin Takes \cup {"%"}
  /\ out' = out \o <<Chr("%"), Chr(fmt[i + 1])>> /\ i' = i + 2
  /\ UNCHANGED <<call, next, num, buf, conv>>

Hex(n) == [k \in 1 .. LONG_BITS \div 4 |-> Dig((n \div Pow(16, LONG_BITS \div 4 - k)) % 16)]

PutHex ==
  /\ Conv("x")
  /\ out' = out \o <<Chr("0"), Chr("x")>> \o Hex(Arg)
  /\ i' = i + 2 /\ next' = next + 1
  /\ UNCHANGED <<call, num, buf, conv>>

(* A bug: the test for zero comes before the argument is taken.             *)
MutPutZero ==
  /\ Conv("d") \/ Conv("u")
  /\ Arg = 0
  /\ out' = Append(out, Dig(0)) /\ i' = i + 2
  /\ UNCHANGED <<call, next, num, buf, conv>>

PutZero ==
  /\ Conv("d") \/ Conv("u")
  /\ Arg = 0
  /\ out' = Append(out, Dig(0)) /\ i' = i + 2 /\ next' = next + 1
  /\ UNCHANGED <<call, num, buf, conv>>

Magnitude(n) == IF n < 0 THEN Negate(n) ELSE n

BeginNumber ==
  /\ Conv("d") \/ Conv("u")
  /\ Arg # 0
  /\ out' = IF Arg < 0 THEN Append(out, Chr("-")) ELSE out
  /\ num' = Magnitude(Arg) /\ buf' = <<>> /\ conv' = fmt[i + 1]
  /\ i' = i + 2 /\ next' = next + 1
  /\ UNCHANGED call

NextDigit ==
  /\ conv \in {"d", "u"} /\ num > 0
  /\ buf' = Append(buf, Dig(num % 10)) /\ num' = num \div 10
  /\ UNCHANGED <<call, i, next, conv, out>>

(* A bug: the digits come out in the order they were found.                 *)
MutDigits == buf

Digits == Reverse(buf)

EndNumber ==
  /\ conv \in {"d", "u"} /\ num <= 0
  /\ out' = out \o Digits /\ conv' = "walk"
  /\ UNCHANGED <<call, i, next, num, buf>>

PrintfReturn ==
  /\ conv = "walk" /\ i > Len(fmt)
  /\ conv' = "done" /\ UNCHANGED <<call, i, next, num, buf, out>>

PrintfStep ==
  \/ PutPlain \/ PutPercent \/ PutArgument \/ PutUnknown \/ PutHex \/ PutZero
  \/ BeginNumber \/ NextDigit \/ EndNumber \/ PrintfReturn

PrintfNext == PrintfStep \/ \E c \in Formats : printf(c)

PrintfSpec == PrintfInit /\ [][PrintfNext]_printfVars /\ WF_printfVars(PrintfStep)

-----------------------------------------------------------------------------
(* Properties.                                                              *)

(* The digits of the largest numbers fit the buffers on the stack.          *)
PrintfTypeOK ==
  /\ i \in 1 .. Len(fmt) + 1 /\ next \in 1 .. Len(call[2]) + 1
  /\ conv \in {"idle", "walk", "d", "u", "done"}
  /\ conv = "d" => Len(buf) <= BUF_D
  /\ conv = "u" => Len(buf) <= BUF_U

(* The value a row of digits stands for.                                    *)
Value(digits, base) ==
  LET v[k \in 0 .. Len(digits)] == IF k = 0 THEN 0 ELSE base * v[k - 1] + digits[k][2]
  IN v[Len(digits)]

(* What the single conversion of a format should print.                     *)
Shows(n, text, base) ==
  LET sign == n < 0
      digits == IF sign THEN Tail(text) ELSE text
  IN /\ sign => Head(text) = Chr("-")
     /\ digits # <<>> /\ \A k \in 1 .. Len(digits) : digits[k][1] = "d"
     /\ Value(digits, base) = (IF sign THEN -n ELSE n)

(* For every argument except the smallest int, a number is printed as       *)
(* decimal digits with that value and without leading zeros, or as all its  *)
(* hexadecimal digits.                                                      *)
NumbersExact ==
  conv = "done" /\ Len(fmt) = 2 /\ Len(call[2]) = 1 /\ fmt[2] # "s" =>
    LET n == call[2][1] IN
    IF fmt[2] = "x"
    THEN /\ SubSeq(out, 1, 2) = <<Chr("0"), Chr("x")>> /\ Len(out) = 2 + LONG_BITS \div 4
         /\ Value(SubSeq(out, 3, Len(out)), 16) = n
    ELSE n # INT_MIN =>
           Shows(n, out, 10) /\ (n # 0 => out[IF n < 0 THEN 2 ELSE 1] # Dig(0))

(* Every argument is used once, in order, by its own conversion, and the    *)
(* call comes to an end.                                                    *)
ArgumentsUsed == conv = "walk" ~> (conv = "done" /\ next = Len(call[2]) + 1)
=============================================================================
