-------------------------------- MODULE Vga ---------------------------------
(***************************************************************************)
(* The text screen of kernel/lib/std/stdio.c.  A screen s is a record of    *)
(* the cells by their index, the cursor, the position the cursor hardware   *)
(* was told, whether a store ever missed the screen, and how many rows have *)
(* come in from below.  A string is printed character by character.  Nobody *)
(* calls clear_screen: the kernel starts on what the boot loader left.      *)
(***************************************************************************)
EXTENDS Integers, Sequences

CONSTANTS VGA_WIDTH, VGA_HEIGHT      \* 80 and 60

ASSUME VgaAssumption == VGA_WIDTH \in Nat \ {0} /\ VGA_HEIGHT \in Nat \ {0, 1}

Blank == " "
LF == "LF"       \* the line feed and the backspace
BS == "BS"

VGA_CELLS == VGA_WIDTH * VGA_HEIGHT

At(s) == s.y * VGA_WIDTH + s.x

CountUp(n) == IF n < VGA_HEIGHT THEN n + 1 ELSE n

(* A bug: the last line is not cleared.                                     *)
MutScroll(s) ==
  [s EXCEPT !.cells = [i \in DOMAIN s.cells |->
       IF i < VGA_CELLS - VGA_WIDTH THEN s.cells[i + VGA_WIDTH] ELSE s.cells[i]],
     !.y = IF @ > 0 THEN @ - 1 ELSE @, !.scrolled = CountUp(@)]

(* The hardware cursor is not moved.                                        *)
scroll_screen(s) ==
  [s EXCEPT !.cells = [i \in DOMAIN s.cells |->
       IF i < VGA_CELLS - VGA_WIDTH THEN s.cells[i + VGA_WIDTH] ELSE Blank],
     !.y = IF @ > 0 THEN @ - 1 ELSE @, !.scrolled = CountUp(@)]

Store(s, c) ==
  IF At(s) \in DOMAIN s.cells THEN [s EXCEPT !.cells[At(s)] = c]
  ELSE [s EXCEPT !.stray = TRUE]

NewLine(s) == [s EXCEPT !.x = 0, !.y = @ + 1]

update_cursor(s) == [s EXCEPT !.hw = At(s)]

(* A bug: the row is tested with > instead of >=.                           *)
MutClamp(s) ==
  IF s.y > VGA_HEIGHT THEN [scroll_screen(s) EXCEPT !.y = VGA_HEIGHT - 1] ELSE s

Clamp(s) ==
  IF s.y >= VGA_HEIGHT THEN [scroll_screen(s) EXCEPT !.y = VGA_HEIGHT - 1] ELSE s

putchar(s, c) ==
  LET shown == [Store(s, c) EXCEPT !.x = @ + 1]
      moved == CASE c = LF -> NewLine(s)
                 [] c = BS -> IF s.x > 0 THEN Store([s EXCEPT !.x = @ - 1], Blank) ELSE s
                 [] OTHER    -> IF shown.x >= VGA_WIDTH THEN NewLine(shown) ELSE shown
  IN update_cursor(Clamp(moved))

PutString(s, str) ==
  LET put[n \in 0 .. Len(str)] == IF n = 0 THEN s ELSE putchar(put[n - 1], str[n])
  IN put[Len(str)]
=============================================================================
