---------------------------- MODULE OutputProofs ----------------------------
(***************************************************************************)
(* The screen, the line editor and printf, for every size of the screen and *)
(* of the line, every width of an int and every call with the arguments its *)
(* format asks for.                                                         *)
(***************************************************************************)
EXTENDS MCConsole, WellFoundedInduction, TLAPS

-----------------------------------------------------------------------------
(* Induction over the naturals, by the least counterexample.                *)

LEMMA LeastNat ==
  ASSUME NEW T, T \subseteq Nat, T # {}
  PROVE  \E x \in T : \A y \in T : x <= y
  <1>1. \E x \in T : \A y \in T : ~(<<y, x>> \in OpToRel(<, Nat))
    BY NatLessThanWellFounded, WFMin
  <1>2. ASSUME NEW x \in Nat, NEW y \in Nat, x < y  PROVE <<x, y>> \in OpToRel(<, Nat)
    <2>1. <<x, y>> \in Nat \X Nat  OBVIOUS
    <2>2. <<x, y>>[1] < <<x, y>>[2]  BY <1>2
    <2> QED  BY <2>1, <2>2, Zenon DEF OpToRel
  <1>3. \E x \in T : \A y \in T : ~(y < x)  BY <1>1, <1>2, Zenon
  <1> QED  BY <1>3

LEMMA UpTo ==
  ASSUME NEW S, 0 \in S, \A n \in Nat : n \in S => n + 1 \in S
  PROVE  \A n \in Nat : n \in S
  <1> SUFFICES ASSUME Nat \ S # {}  PROVE FALSE
    OBVIOUS
  <1>1. PICK x \in Nat \ S : \A y \in Nat \ S : x <= y  BY LeastNat
  <1>2. x - 1 \in Nat  BY <1>1
  <1> QED  BY <1>1, <1>2

-----------------------------------------------------------------------------
(* The screen.                                                              *)

(* The cells with the blank rows below the cursor, for a cursor that may    *)
(* have left the screen at the bottom.                                      *)
Screen(s) ==
  /\ s = [cells |-> s.cells, x |-> s.x, y |-> s.y, hw |-> s.hw, stray |-> s.stray,
          scrolled |-> s.scrolled]
  /\ s.cells = [k \in 0 .. VGA_CELLS - 1 |-> s.cells[k]]
  /\ s.x \in 0 .. VGA_WIDTH - 1 /\ s.y \in 0 .. VGA_HEIGHT
  /\ s.y = VGA_HEIGHT => s.x = 0
  /\ s.scrolled \in 0 .. VGA_HEIGHT /\ s.stray = FALSE
  /\ \A k \in At(s) .. VGA_CELLS - 1 :
       k >= (VGA_HEIGHT - s.scrolled) * VGA_WIDTH => s.cells[k] = Blank

ScreenOK(s) == Screen(s) /\ s.y < VGA_HEIGHT

LEMMA Sizes ==
  /\ VGA_WIDTH \in Nat \ {0} /\ VGA_HEIGHT \in Nat \ {0, 1}
  /\ VGA_CELLS \in Nat /\ VGA_CELLS >= VGA_WIDTH
  <1>1. VGA_WIDTH \in Nat \ {0} /\ VGA_HEIGHT \in Nat \ {0, 1}  BY VgaAssumption
  <1>2. VGA_CELLS \in Nat  BY <1>1 DEF VGA_CELLS
  <1>3. VGA_CELLS = VGA_WIDTH + VGA_WIDTH * (VGA_HEIGHT - 1)  BY <1>1 DEF VGA_CELLS
  <1>4. VGA_WIDTH * (VGA_HEIGHT - 1) >= 0
    <2>1. VGA_HEIGHT - 1 \in Nat  BY <1>1
    <2>2. \A a, b \in Nat : a * b >= 0  OBVIOUS
    <2> QED  BY <1>1, <2>1, <2>2
  <1>5. VGA_WIDTH * (VGA_HEIGHT - 1) \in Int  BY <1>1
  <1> QED  BY <1>1, <1>2, <1>3, <1>4, <1>5

(* The index of a cell in row y and column x.                               *)
LEMMA AtIs ==
  ASSUME NEW x \in 0 .. VGA_WIDTH - 1, NEW y \in 0 .. VGA_HEIGHT
  PROVE  /\ y * VGA_WIDTH + x \in Nat
         /\ y < VGA_HEIGHT => y * VGA_WIDTH + x < VGA_CELLS
         /\ VGA_HEIGHT * VGA_WIDTH = VGA_CELLS
         /\ (y + 1) * VGA_WIDTH = y * VGA_WIDTH + VGA_WIDTH
         /\ (y - 1) * VGA_WIDTH = y * VGA_WIDTH - VGA_WIDTH
         /\ y * VGA_WIDTH \in Nat
  <1> DEFINE W == VGA_WIDTH
             H == VGA_HEIGHT
  <1>1. W \in Nat \ {0} /\ H \in Nat  BY Sizes
  <1>2. VGA_CELLS = W * H  BY DEF VGA_CELLS
  <1> HIDE DEF W, H
  <1>3. x \in 0 .. W - 1 /\ y \in 0 .. H  BY DEF W, H
  <1>4. \A a, b \in Nat : a * b \in Nat  OBVIOUS
  <1>5. y * W \in Nat  BY <1>1, <1>3, <1>4
  <1>6. ASSUME y < H  PROVE y * W + x < W * H
    <2>1. PICK d \in Nat : H = y + 1 + d
      <3>1. H - y - 1 \in Nat  BY <1>1, <1>3, <1>6
      <3> WITNESS H - y - 1 \in Nat
      <3> QED  BY <1>1, <1>3
    <2>2. W * H = y * W + W + d * W  BY <1>1, <1>3, <2>1
    <2>3. d * W \in Nat  BY <1>1, <1>4
    <2> QED  BY <1>1, <1>3, <1>5, <2>2, <2>3
  <1>7. H * W = W * H  BY <1>1
  <1>8. (y + 1) * W = y * W + W /\ (y - 1) * W = y * W - W  BY <1>1, <1>3
  <1> QED  BY <1>1, <1>2, <1>3, <1>5, <1>6, <1>7, <1>8 DEF W, H

(* What a screen is made of, by its fields.                                 *)
LEMMA ScreenFields ==
  ASSUME NEW c, NEW x, NEW y, NEW hw, NEW stray, NEW n, NEW s,
         s = [cells |-> c, x |-> x, y |-> y, hw |-> hw, stray |-> stray, scrolled |-> n],
         c = [k \in 0 .. VGA_CELLS - 1 |-> c[k]],
         x \in 0 .. VGA_WIDTH - 1, y \in 0 .. VGA_HEIGHT, y = VGA_HEIGHT => x = 0,
         n \in 0 .. VGA_HEIGHT, stray = FALSE,
         \A k \in y * VGA_WIDTH + x .. VGA_CELLS - 1 :
           k >= (VGA_HEIGHT - n) * VGA_WIDTH => c[k] = Blank
  PROVE  Screen(s)
  <1>1. /\ s.cells = c /\ s.x = x /\ s.y = y /\ s.hw = hw /\ s.stray = stray
        /\ s.scrolled = n
    OBVIOUS
  <1>2. At(s) = y * VGA_WIDTH + x  BY <1>1 DEF At
  <1>3. s = [cells |-> s.cells, x |-> s.x, y |-> s.y, hw |-> s.hw, stray |-> s.stray,
             scrolled |-> s.scrolled]
    BY <1>1
  <1> QED  BY <1>1, <1>2, <1>3 DEF Screen

LEMMA ScrollOK ==
  ASSUME NEW s, Screen(s)
  PROVE  /\ ScreenOK(scroll_screen(s))
         /\ s.y > 0 => scroll_screen(s).y = s.y - 1
  <1>1. PICK t : t = scroll_screen(s)  OBVIOUS
  <1>2. PICK c : c = [k \in 0 .. VGA_CELLS - 1 |->
                       IF k < VGA_CELLS - VGA_WIDTH THEN s.cells[k + VGA_WIDTH] ELSE Blank]
    OBVIOUS
  <1>3. PICK y : y = IF s.y > 0 THEN s.y - 1 ELSE s.y  OBVIOUS
  <1>4. PICK n : n = CountUp(s.scrolled)  OBVIOUS
  <1>5. t = [cells |-> c, x |-> s.x, y |-> y, hw |-> s.hw, stray |-> s.stray,
             scrolled |-> n]
    <2>1. DOMAIN s.cells = 0 .. VGA_CELLS - 1  BY DEF Screen
    <2> QED  BY <1>1, <1>2, <1>3, <1>4, <2>1 DEF Screen, scroll_screen
  <1>6. c = [k \in 0 .. VGA_CELLS - 1 |-> c[k]]  BY <1>2
  <1>7. /\ s.x \in 0 .. VGA_WIDTH - 1 /\ s.y \in 0 .. VGA_HEIGHT /\ s.scrolled \in 0 .. VGA_HEIGHT
        /\ s.stray = FALSE
    BY DEF Screen
  <1>8. y \in 0 .. VGA_HEIGHT - 1 /\ n \in 0 .. VGA_HEIGHT
    BY <1>3, <1>4, <1>7, Sizes DEF CountUp
  <1>9. ASSUME NEW k \in y * VGA_WIDTH + s.x .. VGA_CELLS - 1,
               k >= (VGA_HEIGHT - n) * VGA_WIDTH
        PROVE  c[k] = Blank
    <2> DEFINE A == s.y * VGA_WIDTH + s.x
               B == y * VGA_WIDTH + s.x
               R == (VGA_HEIGHT - s.scrolled) * VGA_WIDTH
               Q == (VGA_HEIGHT - n) * VGA_WIDTH
    <2>0. y \in 0 .. VGA_HEIGHT /\ VGA_HEIGHT - n \in 0 .. VGA_HEIGHT
          /\ VGA_HEIGHT - s.scrolled \in 0 .. VGA_HEIGHT /\ 0 \in 0 .. VGA_WIDTH - 1
      BY <1>7, <1>8, Sizes
    <2>1. A \in Nat /\ B \in Nat  BY <1>7, <2>0, AtIs
    <2>2. R \in Nat /\ Q \in Nat  BY <2>0, AtIs
    <2>3. A <= B + VGA_WIDTH
      <3>1. CASE s.y > 0  BY <1>3, <1>7, <3>1, AtIs, <2>1, Sizes
      <3>2. CASE ~(s.y > 0)  BY <1>3, <3>2, <2>1, Sizes
      <3> QED  BY <3>1, <3>2
    <2>4. R <= Q + VGA_WIDTH
      <3>1. CASE s.scrolled < VGA_HEIGHT
        <4>1. VGA_HEIGHT - n = (VGA_HEIGHT - s.scrolled) - 1
          BY <3>1, <1>4, <1>7, Sizes DEF CountUp
        <4>2. Q = R - VGA_WIDTH  BY <4>1, <2>0, AtIs
        <4> QED  BY <4>2, <2>2, Sizes
      <3>2. CASE ~(s.scrolled < VGA_HEIGHT)
        <4>1. n = s.scrolled  BY <3>2, <1>4 DEF CountUp
        <4> QED  BY <4>1, <2>2, Sizes
      <3> QED  BY <3>1, <3>2
    <2>5. \A j \in A .. VGA_CELLS - 1 : j >= R => s.cells[j] = Blank  BY DEF Screen, At
    <2>6. k \in B .. VGA_CELLS - 1 /\ k >= Q  BY <1>9
    <2> HIDE DEF A, B, R, Q
    <2>7. k \in 0 .. VGA_CELLS - 1 BY <2>1, <2>6, Sizes
    <2>8. CASE k < VGA_CELLS - VGA_WIDTH
      <3>1. k + VGA_WIDTH \in A .. VGA_CELLS - 1 /\ k + VGA_WIDTH >= R
        BY <2>1, <2>2, <2>3, <2>4, <2>6, <2>8, Sizes
      <3> QED  BY <3>1, <2>5, <2>7, <2>8, <1>2
    <2>9. CASE ~(k < VGA_CELLS - VGA_WIDTH)  BY <2>7, <2>9, <1>2
    <2> QED  BY <2>8, <2>9
  <1>10. y \in 0 .. VGA_HEIGHT /\ y # VGA_HEIGHT /\ y < VGA_HEIGHT  BY <1>8, Sizes
  <1>11. Screen(t)
    BY <1>5, <1>6, <1>7, <1>8, <1>9, <1>10, ScreenFields
  <1>12. t.y = y  BY <1>5
  <1> QED  BY <1>1, <1>3, <1>10, <1>11, <1>12 DEF ScreenOK

LEMMA ClampOK ==
  ASSUME NEW s, Screen(s)
  PROVE  /\ ScreenOK(Clamp(s))
         /\ s.y < VGA_HEIGHT => Clamp(s) = s
  <1>0. s.y \in 0 .. VGA_HEIGHT  BY DEF Screen
  <1>1. CASE s.y = VGA_HEIGHT
    <2>1. PICK t : t = scroll_screen(s)  OBVIOUS
    <2>2. ScreenOK(t) /\ t.y = VGA_HEIGHT - 1  BY <1>1, <2>1, ScrollOK, Sizes
    <2>3. [t EXCEPT !.y = VGA_HEIGHT - 1] = t  BY <2>2 DEF ScreenOK, Screen
    <2>4. Clamp(s) = t  BY <1>1, <2>1, <2>3, Sizes DEF Clamp
    <2> QED  BY <2>2, <2>4, <1>1, Sizes
  <1>2. CASE s.y < VGA_HEIGHT
    <2>1. Clamp(s) = s  BY <1>0, <1>2, Sizes DEF Clamp
    <2> QED  BY <2>1, <1>2 DEF ScreenOK
  <1> QED  BY <1>0, <1>1, <1>2, Sizes

LEMMA CursorOK ==
  ASSUME NEW s, ScreenOK(s)
  PROVE  /\ ScreenOK(update_cursor(s))
         /\ update_cursor(s) = [cells |-> s.cells, x |-> s.x, y |-> s.y, hw |-> At(s),
                                stray |-> FALSE, scrolled |-> s.scrolled]
  <1>1. PICK t : t = update_cursor(s)  OBVIOUS
  <1>2. t = [cells |-> s.cells, x |-> s.x, y |-> s.y, hw |-> At(s), stray |-> FALSE,
             scrolled |-> s.scrolled]
    BY <1>1 DEF update_cursor, ScreenOK, Screen
  <1>3. At(t) = At(s)  BY <1>2 DEF At
  <1>4. t.cells = s.cells /\ t.x = s.x /\ t.y = s.y /\ t.stray = FALSE /\ t.scrolled = s.scrolled
        /\ t.hw = At(s)
    BY <1>2
  <1> HIDE DEF At
  <1>5. Screen(t)  BY <1>2, <1>3, <1>4 DEF Screen, ScreenOK
  <1> QED  BY <1>1, <1>2, <1>4, <1>5 DEF ScreenOK

Behind(s, c, a, x, y) ==
  /\ a \in Nat /\ a < VGA_CELLS /\ a + 1 >= At(s)
  /\ x \in 0 .. VGA_WIDTH - 1 /\ y \in 0 .. VGA_HEIGHT /\ (y = VGA_HEIGHT => x = 0)
  /\ y * VGA_WIDTH + x >= a /\ (y * VGA_WIDTH + x > a \/ c = Blank)

(* A cell at or before the cursor is overwritten and the cursor put behind  *)
(* it: the rest of the screen below is as blank as before.                  *)
LEMMA StoredOK ==
  ASSUME NEW s, ScreenOK(s), NEW c, NEW a, NEW x, NEW y, Behind(s, c, a, x, y),
         NEW t, t = [cells |-> [s.cells EXCEPT ![a] = c], x |-> x, y |-> y,
                     hw |-> s.hw, stray |-> s.stray, scrolled |-> s.scrolled]
  PROVE  Screen(t)
  <1> DEFINE n == s.scrolled
  <1>0. /\ a \in Nat /\ a < VGA_CELLS /\ a + 1 >= At(s)
        /\ x \in 0 .. VGA_WIDTH - 1 /\ y \in 0 .. VGA_HEIGHT /\ (y = VGA_HEIGHT => x = 0)
        /\ y * VGA_WIDTH + x >= a /\ (y * VGA_WIDTH + x > a \/ c = Blank)
    BY DEF Behind
  <1>1. PICK d : d = [s.cells EXCEPT ![a] = c]  OBVIOUS
  <1>2. s.cells = [k \in 0 .. VGA_CELLS - 1 |-> s.cells[k]] /\ n \in 0 .. VGA_HEIGHT
        /\ s.stray = FALSE
    BY DEF ScreenOK, Screen
  <1>3. \A k \in At(s) .. VGA_CELLS - 1 :
          k >= (VGA_HEIGHT - n) * VGA_WIDTH => s.cells[k] = Blank
    BY DEF ScreenOK, Screen
  <1>4. d = [k \in 0 .. VGA_CELLS - 1 |-> d[k]]  BY <1>1, <1>2
  <1>5. \A k \in 0 .. VGA_CELLS - 1 : d[k] = IF k = a THEN c ELSE s.cells[k]
    BY <1>1, <1>2
  <1>6. At(s) \in Nat /\ y * VGA_WIDTH + x \in Nat
    <2>1. s.x \in 0 .. VGA_WIDTH - 1 /\ s.y \in 0 .. VGA_HEIGHT  BY DEF ScreenOK, Screen
    <2> QED  BY <1>0, <2>1, AtIs DEF At
  <1>7. ASSUME NEW k \in y * VGA_WIDTH + x .. VGA_CELLS - 1,
               k >= (VGA_HEIGHT - n) * VGA_WIDTH
        PROVE  d[k] = Blank
    <2> DEFINE B == y * VGA_WIDTH + x
    <2>1. B \in Nat /\ k \in B .. VGA_CELLS - 1  BY <1>6, <1>7
    <2>2. (B > a \/ c = Blank) /\ B >= a  BY <1>0
    <2> HIDE DEF B
    <2>3. k \in 0 .. VGA_CELLS - 1  BY <2>1, Sizes
    <2>4. CASE k = a  BY <1>0, <2>1, <2>2, <2>4, <1>5, <2>3
    <2>5. CASE k # a
      <3>1. k >= At(s)  BY <1>0, <2>1, <2>2, <2>5, <1>6
      <3>2. s.cells[k] = Blank  BY <3>1, <2>3, <1>3, <1>7, <1>6, Sizes
      <3> QED  BY <3>2, <2>3, <2>5, <1>5
    <2> QED  BY <2>4, <2>5
  <1>8. t = [cells |-> d, x |-> x, y |-> y, hw |-> s.hw, stray |-> s.stray, scrolled |-> n]
    BY <1>1
  <1>9. /\ t.cells = d /\ t.x = x /\ t.y = y /\ t.hw = s.hw /\ t.stray = s.stray
        /\ t.scrolled = n
    BY <1>8
  <1>10. At(t) = y * VGA_WIDTH + x  BY <1>9 DEF At
  <1>11. t = [cells |-> t.cells, x |-> t.x, y |-> t.y, hw |-> t.hw, stray |-> t.stray,
              scrolled |-> t.scrolled]
    BY <1>8, <1>9
  <1> QED  BY <1>0, <1>2, <1>4, <1>7, <1>9, <1>10, <1>11 DEF Screen

(* The store of a character at the cursor is on the screen.                 *)
LEMMA StoreIs ==
  ASSUME NEW s, NEW c, Screen(s), s.y < VGA_HEIGHT
  PROVE  /\ At(s) \in Nat /\ At(s) < VGA_CELLS
         /\ Store(s, c) = [cells |-> [s.cells EXCEPT ![At(s)] = c], x |-> s.x, y |-> s.y,
                           hw |-> s.hw, stray |-> s.stray, scrolled |-> s.scrolled]
  <1>1. At(s) \in Nat /\ At(s) < VGA_CELLS
    <2>1. s.x \in 0 .. VGA_WIDTH - 1 /\ s.y \in 0 .. VGA_HEIGHT  BY DEF Screen
    <2> QED  BY <2>1, AtIs DEF At
  <1>2. At(s) \in DOMAIN s.cells
    <2>1. DOMAIN s.cells = 0 .. VGA_CELLS - 1  BY DEF Screen
    <2> QED  BY <1>1, <2>1, Sizes
  <1>3. Store(s, c) = [s EXCEPT !.cells[At(s)] = c]  BY <1>2 DEF Store
  <1>4. PICK t : t = [s EXCEPT !.cells[At(s)] = c]  OBVIOUS
  <1>5. t = [cells |-> [s.cells EXCEPT ![At(s)] = c], x |-> s.x, y |-> s.y,
             hw |-> s.hw, stray |-> s.stray, scrolled |-> s.scrolled]
    BY <1>4 DEF Screen
  <1> QED  BY <1>1, <1>3, <1>4, <1>5

(* A character that is not a control: it is shown, and the line goes on     *)
(* behind it unless that is the right margin.                               *)
LEMMA PutPlainChar ==
  ASSUME NEW s, ScreenOK(s), NEW c, c # LF, c # BS
  PROVE  /\ ScreenOK(putchar(s, c)) /\ putchar(s, c).hw = At(putchar(s, c))
         /\ s.x + 1 < VGA_WIDTH =>
              putchar(s, c) = [cells |-> [s.cells EXCEPT ![At(s)] = c], x |-> s.x + 1,
                               y |-> s.y, hw |-> At(s) + 1, stray |-> FALSE,
                               scrolled |-> s.scrolled]
  <1>0. /\ Screen(s) /\ s.y < VGA_HEIGHT /\ s.stray = FALSE
        /\ s.x \in 0 .. VGA_WIDTH - 1 /\ s.y \in 0 .. VGA_HEIGHT
    BY DEF ScreenOK, Screen
  <1>1. PICK a : a = At(s)  OBVIOUS
  <1>2. a \in Nat /\ a < VGA_CELLS  BY <1>0, <1>1, StoreIs
  <1>3. PICK u : u = Store(s, c)  OBVIOUS
  <1>4. u = [cells |-> [s.cells EXCEPT ![a] = c], x |-> s.x, y |-> s.y,
             hw |-> s.hw, stray |-> s.stray, scrolled |-> s.scrolled]
    BY <1>0, <1>1, <1>3, StoreIs
  <1>5. PICK v : v = [u EXCEPT !.x = @ + 1]  OBVIOUS
  <1>6. v = [cells |-> [s.cells EXCEPT ![a] = c], x |-> s.x + 1, y |-> s.y,
             hw |-> s.hw, stray |-> s.stray, scrolled |-> s.scrolled]
    BY <1>4, <1>5
  <1>7. PICK w : w = IF v.x >= VGA_WIDTH THEN NewLine(v) ELSE v  OBVIOUS
  <1>8. putchar(s, c) = update_cursor(Clamp(w))  BY <1>3, <1>5, <1>7 DEF putchar
  <1>9. Screen(w) /\ (s.x + 1 < VGA_WIDTH => w = v)
    <2>1. CASE s.x + 1 < VGA_WIDTH
      <3>1. w = v  BY <2>1, <1>6, <1>7, <1>0, Sizes
      <3>2. s.x + 1 \in 0 .. VGA_WIDTH - 1  BY <2>1, <1>0, Sizes
      <3>3. s.y * VGA_WIDTH + (s.x + 1) = a + 1
        <4>1. s.y * VGA_WIDTH \in Nat  BY <1>0, AtIs
        <4> QED  BY <4>1, <1>0, <1>1 DEF At
      <3>4. Behind(s, c, a, s.x + 1, s.y)
        BY <1>0, <1>1, <1>2, <3>2, <3>3, Sizes DEF Behind
      <3>5. Screen(v)  BY <1>6, <3>4, StoredOK
      <3> QED  BY <3>1, <3>5
    <2>2. CASE ~(s.x + 1 < VGA_WIDTH)
      <3>1. s.x + 1 = VGA_WIDTH  BY <2>2, <1>0, Sizes
      <3>2. w = NewLine(v)  BY <3>1, <1>6, <1>7, Sizes
      <3>3. w = [cells |-> [s.cells EXCEPT ![a] = c], x |-> 0, y |-> s.y + 1,
                 hw |-> s.hw, stray |-> s.stray, scrolled |-> s.scrolled]
        BY <3>2, <1>6 DEF NewLine
      <3>4. (s.y + 1) * VGA_WIDTH + 0 = a + 1
        <4>1. s.y * VGA_WIDTH \in Nat /\ (s.y + 1) * VGA_WIDTH = s.y * VGA_WIDTH + VGA_WIDTH
          BY <1>0, AtIs
        <4> QED  BY <4>1, <3>1, <1>0, <1>1, Sizes DEF At
      <3>5. 0 \in 0 .. VGA_WIDTH - 1 /\ s.y + 1 \in 0 .. VGA_HEIGHT  BY <1>0, Sizes
      <3>6. Behind(s, c, a, 0, s.y + 1)
        BY <1>1, <1>2, <3>4, <3>5, Sizes DEF Behind
      <3>7. Screen(w)  BY <3>3, <3>6, StoredOK
      <3> QED  BY <2>2, <3>7
    <2> QED  BY <2>1, <2>2
  <1>10. PICK r : r = Clamp(w)  OBVIOUS
  <1>11. ScreenOK(r) /\ (w.y < VGA_HEIGHT => r = w)  BY <1>9, <1>10, ClampOK
  <1>12. /\ ScreenOK(putchar(s, c))
         /\ putchar(s, c) = [cells |-> r.cells, x |-> r.x, y |-> r.y, hw |-> At(r),
                             stray |-> FALSE, scrolled |-> r.scrolled]
    BY <1>8, <1>10, <1>11, CursorOK
  <1>13. putchar(s, c).hw = At(putchar(s, c))  BY <1>12 DEF At
  <1>14. ASSUME s.x + 1 < VGA_WIDTH
         PROVE  putchar(s, c) = [cells |-> [s.cells EXCEPT ![a] = c], x |-> s.x + 1,
                                 y |-> s.y, hw |-> a + 1, stray |-> FALSE,
                                 scrolled |-> s.scrolled]
    <2>1. r = v  BY <1>9, <1>11, <1>14, <1>6, <1>0
    <2>2. At(r) = a + 1
      <3>1. s.y * VGA_WIDTH \in Nat  BY <1>0, AtIs
      <3> QED  BY <3>1, <2>1, <1>0, <1>1, <1>6 DEF At
    <2>3. /\ r.cells = [s.cells EXCEPT ![a] = c] /\ r.x = s.x + 1 /\ r.y = s.y
          /\ r.scrolled = s.scrolled
      BY <2>1, <1>6
    <2> QED  BY <1>12, <2>2, <2>3
  <1> QED  BY <1>1, <1>12, <1>13, <1>14

(* The backspace: the cell before the cursor is blanked.                    *)
LEMMA PutBackspace ==
  ASSUME NEW s, ScreenOK(s)
  PROVE  /\ ScreenOK(putchar(s, BS)) /\ putchar(s, BS).hw = At(putchar(s, BS))
         /\ s.x > 0 =>
              putchar(s, BS) = [cells |-> [s.cells EXCEPT ![At(s) - 1] = Blank],
                                x |-> s.x - 1, y |-> s.y, hw |-> At(s) - 1,
                                stray |-> FALSE, scrolled |-> s.scrolled]
  <1>0. /\ Screen(s) /\ s.y < VGA_HEIGHT /\ s.stray = FALSE
        /\ s.x \in 0 .. VGA_WIDTH - 1 /\ s.y \in 0 .. VGA_HEIGHT
    BY DEF ScreenOK, Screen
  <1>1. PICK a : a = At(s) - 1  OBVIOUS
  <1>2. s.y * VGA_WIDTH \in Nat  BY <1>0, AtIs
  <1>3. PICK w : w = IF s.x > 0 THEN Store([s EXCEPT !.x = @ - 1], Blank) ELSE s  OBVIOUS
  <1>4. putchar(s, BS) = update_cursor(Clamp(w))  BY <1>3 DEF putchar, BS, LF
  <1>5. ASSUME s.x > 0
        PROVE  /\ w = [cells |-> [s.cells EXCEPT ![a] = Blank], x |-> s.x - 1, y |-> s.y,
                       hw |-> s.hw, stray |-> s.stray, scrolled |-> s.scrolled]
               /\ s.y * VGA_WIDTH + (s.x - 1) = a /\ Screen(w)
    <2>1. PICK b : b = [s EXCEPT !.x = @ - 1]  OBVIOUS
    <2>2. b = [cells |-> s.cells, x |-> s.x - 1, y |-> s.y, hw |-> s.hw,
               stray |-> s.stray, scrolled |-> s.scrolled]
      BY <2>1, <1>0 DEF Screen
    <2>3. s.y * VGA_WIDTH + (s.x - 1) = a  BY <1>0, <1>1, <1>2 DEF At
    <2>4. At(b) = a  BY <2>2, <2>3 DEF At
    <2>5. s.x - 1 \in 0 .. VGA_WIDTH - 1  BY <1>0, <1>5, Sizes
    <2>6. a \in Nat /\ a < VGA_CELLS  BY <2>3, <2>5, <1>0, AtIs
    <2>7. a \in DOMAIN b.cells
      <3>1. DOMAIN b.cells = 0 .. VGA_CELLS - 1  BY <2>2, <1>0 DEF Screen
      <3> QED  BY <3>1, <2>6, Sizes
    <2>8. w = [b EXCEPT !.cells[a] = Blank]  BY <1>3, <1>5, <2>1, <2>4, <2>7 DEF Store
    <2>9. w = [cells |-> [s.cells EXCEPT ![a] = Blank], x |-> s.x - 1, y |-> s.y,
               hw |-> s.hw, stray |-> s.stray, scrolled |-> s.scrolled]
      BY <2>8, <2>2
    <2>10. a + 1 = At(s)  BY <2>3, <1>0, <1>2 DEF At
    <2>11. Behind(s, Blank, a, s.x - 1, s.y)
      BY <1>0, <2>3, <2>5, <2>6, <2>10, Sizes DEF Behind
    <2>12. Screen(w)  BY <2>9, <2>11, StoredOK
    <2> QED  BY <2>3, <2>9, <2>12
  <1>6. Screen(w) /\ w.y < VGA_HEIGHT
    <2>1. CASE s.x > 0
      <3>1. w.y = s.y  BY <1>5, <2>1
      <3> QED  BY <1>5, <2>1, <3>1, <1>0
    <2>2. CASE ~(s.x > 0)  BY <1>0, <1>3, <2>2
    <2> QED  BY <2>1, <2>2
  <1>7. Clamp(w) = w /\ ScreenOK(w)  BY <1>6, ClampOK DEF ScreenOK
  <1>8. /\ ScreenOK(putchar(s, BS))
        /\ putchar(s, BS) = [cells |-> w.cells, x |-> w.x, y |-> w.y, hw |-> At(w),
                             stray |-> FALSE, scrolled |-> w.scrolled]
    BY <1>4, <1>7, CursorOK
  <1>9. putchar(s, BS).hw = At(putchar(s, BS))  BY <1>8 DEF At
  <1>10. ASSUME s.x > 0
         PROVE  putchar(s, BS) = [cells |-> [s.cells EXCEPT ![a] = Blank], x |-> s.x - 1,
                                  y |-> s.y, hw |-> a, stray |-> FALSE,
                                  scrolled |-> s.scrolled]
    <2>1. /\ w.cells = [s.cells EXCEPT ![a] = Blank] /\ w.x = s.x - 1 /\ w.y = s.y
          /\ w.scrolled = s.scrolled
      BY <1>5, <1>10
    <2>2. At(w) = a  BY <2>1, <1>5, <1>10 DEF At
    <2> QED  BY <1>8, <2>1, <2>2
  <1> QED  BY <1>1, <1>8, <1>9, <1>10

LEMMA PutNewLine ==
  ASSUME NEW s, ScreenOK(s)
  PROVE  ScreenOK(putchar(s, LF)) /\ putchar(s, LF).hw = At(putchar(s, LF))
  <1>0. /\ Screen(s) /\ s.y < VGA_HEIGHT /\ s.stray = FALSE
        /\ s.x \in 0 .. VGA_WIDTH - 1 /\ s.y \in 0 .. VGA_HEIGHT
        /\ s.scrolled \in 0 .. VGA_HEIGHT
        /\ s.cells = [k \in 0 .. VGA_CELLS - 1 |-> s.cells[k]]
    BY DEF ScreenOK, Screen
  <1>1. PICK w : w = NewLine(s)  OBVIOUS
  <1>2. w = [cells |-> s.cells, x |-> 0, y |-> s.y + 1, hw |-> s.hw, stray |-> s.stray,
             scrolled |-> s.scrolled]
    BY <1>0, <1>1 DEF NewLine, Screen
  <1>3. putchar(s, LF) = update_cursor(Clamp(w))  BY <1>1 DEF putchar, BS, LF
  <1>4. s.y + 1 \in 0 .. VGA_HEIGHT /\ 0 \in 0 .. VGA_WIDTH - 1  BY <1>0, Sizes
  <1>5. (s.y + 1) * VGA_WIDTH + 0 >= At(s) /\ At(s) \in Nat
    <2> DEFINE P == s.y * VGA_WIDTH
               Q == (s.y + 1) * VGA_WIDTH
    <2>1. P \in Nat /\ Q = P + VGA_WIDTH  BY <1>0, AtIs
    <2>2. At(s) = P + s.x  BY DEF At
    <2> HIDE DEF P, Q
    <2>3. Q + 0 >= At(s) /\ At(s) \in Nat  BY <2>1, <2>2, <1>0, Sizes
    <2> QED  BY <2>3 DEF Q
  <1>6. ASSUME NEW k \in (s.y + 1) * VGA_WIDTH + 0 .. VGA_CELLS - 1,
               k >= (VGA_HEIGHT - s.scrolled) * VGA_WIDTH
        PROVE  s.cells[k] = Blank
    <2>1. \A j \in At(s) .. VGA_CELLS - 1 :
            j >= (VGA_HEIGHT - s.scrolled) * VGA_WIDTH => s.cells[j] = Blank
      BY <1>0 DEF Screen
    <2> DEFINE B == (s.y + 1) * VGA_WIDTH + 0
    <2>2. B \in Nat /\ B >= At(s) /\ k \in B .. VGA_CELLS - 1  BY <1>4, <1>5, AtIs
    <2> HIDE DEF B
    <2>3. k \in At(s) .. VGA_CELLS - 1  BY <1>5, <2>2, Sizes
    <2> QED  BY <2>1, <2>3, <1>6
  <1>7. Screen(w)  BY <1>0, <1>2, <1>4, <1>6, ScreenFields
  <1>8. PICK r : r = Clamp(w)  OBVIOUS
  <1>9. ScreenOK(r)  BY <1>7, <1>8, ClampOK
  <1>10. /\ ScreenOK(putchar(s, LF))
         /\ putchar(s, LF) = [cells |-> r.cells, x |-> r.x, y |-> r.y, hw |-> At(r),
                              stray |-> FALSE, scrolled |-> r.scrolled]
    BY <1>3, <1>8, <1>9, CursorOK
  <1>11. putchar(s, LF).hw = At(putchar(s, LF))  BY <1>10 DEF At
  <1> QED  BY <1>10, <1>11

(* putchar keeps the screen and leaves the hardware's cursor at its own.    *)
LEMMA PutcharOK ==
  ASSUME NEW s, ScreenOK(s), NEW c
  PROVE  ScreenOK(putchar(s, c)) /\ putchar(s, c).hw = At(putchar(s, c))
  BY PutPlainChar, PutBackspace, PutNewLine

-----------------------------------------------------------------------------
(* Strings.                                                                 *)

(* The screens between the characters of a string.                          *)
Between(s, str, f) ==
  /\ f[0] = s /\ f[Len(str)] = PutString(s, str)
  /\ \A n \in 1 .. Len(str) : f[n] = putchar(f[n - 1], str[n])

LEMMA PutEquation ==
  ASSUME NEW s, NEW str, Len(str) \in Nat
  PROVE  \E f : Between(s, str, f)
  <1>0. PICK N : N = Len(str) /\ N \in Nat  OBVIOUS
  <1> DEFINE Eq(f, k) == f = [n \in 0 .. k |-> IF n = 0 THEN s ELSE putchar(f[n - 1], str[n])]
             S == {k \in Nat : \E f : Eq(f, k)}
  <1>1. 0 \in S
    <2> DEFINE g == [n \in 0 .. 0 |-> s]
    <2>1. Eq(g, 0)  OBVIOUS
    <2> QED  BY <2>1
  <1>2. ASSUME NEW k \in Nat, k \in S  PROVE k + 1 \in S
    <2>1. PICK g : Eq(g, k)  BY <1>2
    <2> DEFINE f == [n \in 0 .. k + 1 |->
                      IF n = k + 1 THEN putchar(g[k], str[k + 1]) ELSE g[n]]
    <2>2. Eq(f, k + 1)
      <3>1. \A n \in 0 .. k + 1 : n # 0 => n - 1 \in 0 .. k /\ f[n - 1] = g[n - 1]  OBVIOUS
      <3>2. \A n \in 0 .. k : g[n] = IF n = 0 THEN s ELSE putchar(g[n - 1], str[n])
        BY <2>1
      <3>3. \A n \in 0 .. k : f[n] = g[n]  OBVIOUS
      <3>4. f[k + 1] = putchar(g[k], str[k + 1]) /\ (k + 1) - 1 = k /\ k + 1 # 0  OBVIOUS
      <3>5. ASSUME NEW n \in 0 .. k + 1
            PROVE  f[n] = IF n = 0 THEN s ELSE putchar(f[n - 1], str[n])
        <4> HIDE DEF f
        <4>1. CASE n = k + 1  BY <3>1, <3>4, <4>1
        <4>2. CASE n # k + 1
          <5>1. n \in 0 .. k  BY <4>2
          <5> QED  BY <3>1, <3>2, <3>3, <5>1
        <4> QED  BY <4>1, <4>2
      <3> QED  BY <3>5
    <2> HIDE DEF f, Eq
    <2> QED  BY <2>2
  <1>3. N \in S
    <2> HIDE DEF S
    <2> QED  BY <1>0, <1>1, <1>2, UpTo
  <1>4. \E f : Eq(f, N)  BY <1>3
  <1>5. PutString(s, str) = (CHOOSE f : Eq(f, N))[N]  BY <1>0 DEF PutString
  <1>6. PICK f : f = CHOOSE g : Eq(g, N)  OBVIOUS
  <1>7. Eq(f, N)
    <2> HIDE DEF Eq
    <2> QED  BY <1>4, <1>6
  <1>8. \A n \in 0 .. N : f[n] = IF n = 0 THEN s ELSE putchar(f[n - 1], str[n])  BY <1>7
  <1>9. f[N] = PutString(s, str)
    <2> HIDE DEF Eq
    <2> QED  BY <1>5, <1>6
  <1>10. 0 \in 0 .. N /\ \A n \in 1 .. N : n \in 0 .. N /\ n # 0  BY <1>0
  <1>11. f[0] = s  BY <1>8, <1>10
  <1>12. \A n \in 1 .. N : f[n] = putchar(f[n - 1], str[n])  BY <1>8, <1>10
  <1> HIDE DEF Eq
  <1> QED  BY <1>0, <1>9, <1>11, <1>12 DEF Between

LEMMA PutStringOK ==
  ASSUME NEW s, ScreenOK(s), NEW str, Len(str) \in Nat
  PROVE  ScreenOK(PutString(s, str))
  <1>1. PICK N : N = Len(str) /\ N \in Nat  OBVIOUS
  <1>0. PICK f : Between(s, str, f)  BY PutEquation
  <1>2. /\ f[0] = s /\ f[N] = PutString(s, str)
        /\ \A n \in 1 .. N : f[n] = putchar(f[n - 1], str[n])
    BY <1>0, <1>1 DEF Between
  <1> DEFINE S == {n \in Nat : n <= N => ScreenOK(f[n])}
  <1>3. 0 \in S  BY <1>2
  <1>4. ASSUME NEW n \in Nat, n \in S  PROVE n + 1 \in S
    <2>1. SUFFICES ASSUME n + 1 <= N  PROVE ScreenOK(f[n + 1])  OBVIOUS
    <2>2. ScreenOK(f[n])  BY <1>1, <1>4, <2>1
    <2>3. n + 1 \in 1 .. N /\ (n + 1) - 1 = n  BY <1>1, <2>1
    <2>4. f[n + 1] = putchar(f[n], str[n + 1])  BY <1>2, <2>3
    <2> QED  BY <2>2, <2>4, PutcharOK
  <1>5. N \in S
    <2> HIDE DEF S
    <2> QED  BY <1>1, <1>3, <1>4, UpTo
  <1> QED  BY <1>1, <1>2, <1>5

(* A string of one character.                                               *)
LEMMA PutOne ==
  ASSUME NEW s, NEW c
  PROVE  PutString(s, <<c>>) = putchar(s, c)
  <1>1. PICK str : str = <<c>>  OBVIOUS
  <1>2. Len(str) = 1 /\ str[1] = c  BY <1>1
  <1>0. PICK f : Between(s, str, f)  BY <1>2, PutEquation
  <1>3. /\ f[0] = s /\ f[1] = PutString(s, str)
        /\ \A n \in 1 .. 1 : f[n] = putchar(f[n - 1], str[n])
    BY <1>0, <1>2 DEF Between
  <1>4. f[1] = putchar(f[0], str[1])  BY <1>3
  <1> QED  BY <1>1, <1>2, <1>3, <1>4

(* Backspace, blank, backspace: the last character of the row is taken off  *)
(* the screen.                                                              *)
LEMMA EraseIs ==
  ASSUME NEW s, ScreenOK(s), s.x > 0
  PROVE  PutString(s, Erase) = [cells |-> [s.cells EXCEPT ![At(s) - 1] = Blank],
                                x |-> s.x - 1, y |-> s.y, hw |-> At(s) - 1,
                                stray |-> FALSE, scrolled |-> s.scrolled]
  <1>1. PICK str : str = Erase  OBVIOUS
  <1>2. Len(str) = 3 /\ str[1] = BS /\ str[2] = Blank /\ str[3] = BS
    BY <1>1 DEF Erase, Blank
  <1>0. PICK f : Between(s, str, f)  BY <1>2, PutEquation
  <1>3. /\ f[0] = s /\ f[3] = PutString(s, str)
        /\ \A n \in 1 .. 3 : f[n] = putchar(f[n - 1], str[n])
    BY <1>0, <1>2 DEF Between
  <1>4. f[1] = putchar(s, BS) /\ f[2] = putchar(f[1], Blank) /\ f[3] = putchar(f[2], BS)
    <2>1. f[1] = putchar(f[1 - 1], str[1])  BY <1>3
    <2>2. f[2] = putchar(f[2 - 1], str[2])  BY <1>3
    <2>3. f[3] = putchar(f[3 - 1], str[3])  BY <1>3
    <2> QED  BY <1>2, <1>3, <2>1, <2>2, <2>3
  <1>5. PICK a : a = At(s) - 1  OBVIOUS
  <1>6. PICK d : d = [s.cells EXCEPT ![a] = Blank]  OBVIOUS
  <1>7. s.x \in 0 .. VGA_WIDTH - 1 /\ s.y \in 0 .. VGA_HEIGHT /\ s.y * VGA_WIDTH \in Nat
    BY AtIs DEF ScreenOK, Screen
  <1>8. At(s) = a + 1 /\ a \in Nat /\ a = s.y * VGA_WIDTH + (s.x - 1)
    BY <1>5, <1>7 DEF At
  <1>9. PICK u : u = f[1]  OBVIOUS
  <1>10. ScreenOK(u) /\ u = [cells |-> d, x |-> s.x - 1, y |-> s.y, hw |-> a,
                             stray |-> FALSE, scrolled |-> s.scrolled]
    BY <1>4, <1>5, <1>6, <1>9, PutBackspace
  <1>11. At(u) = a /\ u.x + 1 < VGA_WIDTH /\ [u.cells EXCEPT ![a] = Blank] = d
    <2>1. At(u) = a  BY <1>8, <1>10 DEF At
    <2>2. u.x + 1 < VGA_WIDTH  BY <1>7, <1>10, Sizes
    <2>3. s.cells = [k \in 0 .. VGA_CELLS - 1 |-> s.cells[k]]  BY DEF ScreenOK, Screen
    <2>4. [d EXCEPT ![a] = Blank] = d  BY <1>6, <2>3
    <2> QED  BY <1>10, <2>1, <2>2, <2>4
  <1>12. Blank # LF /\ Blank # BS  BY DEF Blank, LF, BS
  <1>13. PICK v : v = f[2]  OBVIOUS
  <1>14. ScreenOK(v) /\ v = [cells |-> d, x |-> s.x, y |-> s.y, hw |-> a + 1,
                             stray |-> FALSE, scrolled |-> s.scrolled]
    <2>1. v = putchar(u, Blank)  BY <1>4, <1>9, <1>13
    <2>2. ScreenOK(v) /\ v = [cells |-> [u.cells EXCEPT ![At(u)] = Blank], x |-> u.x + 1,
                              y |-> u.y, hw |-> At(u) + 1, stray |-> FALSE,
                              scrolled |-> u.scrolled]
      BY <1>10, <1>11, <1>12, <2>1, PutPlainChar
    <2>3. u.x + 1 = s.x /\ u.y = s.y /\ u.scrolled = s.scrolled  BY <1>7, <1>10
    <2> QED  BY <1>11, <2>2, <2>3
  <1>15. At(v) = a + 1 /\ v.x > 0 /\ [v.cells EXCEPT ![a] = Blank] = d
    <2>1. At(v) = a + 1  BY <1>8, <1>14 DEF At
    <2>3. s.cells = [k \in 0 .. VGA_CELLS - 1 |-> s.cells[k]]  BY DEF ScreenOK, Screen
    <2>4. [d EXCEPT ![a] = Blank] = d  BY <1>6, <2>3
    <2> QED  BY <1>14, <2>1, <2>4
  <1>16. f[3] = [cells |-> d, x |-> s.x - 1, y |-> s.y, hw |-> a,
                 stray |-> FALSE, scrolled |-> s.scrolled]
    <2>1. f[3] = putchar(v, BS)  BY <1>4, <1>13
    <2>2. f[3] = [cells |-> [v.cells EXCEPT ![At(v) - 1] = Blank], x |-> v.x - 1,
                  y |-> v.y, hw |-> At(v) - 1, stray |-> FALSE, scrolled |-> v.scrolled]
      BY <1>14, <1>15, <2>1, PutBackspace
    <2>3. At(v) - 1 = a  BY <1>8, <1>15
    <2>4. v.x = s.x /\ v.y = s.y /\ v.scrolled = s.scrolled  BY <1>14
    <2> QED  BY <1>15, <2>2, <2>3, <2>4
  <1> QED  BY <1>1, <1>3, <1>5, <1>6, <1>16

-----------------------------------------------------------------------------
(* The line in the buffer.                                                  *)

LEMMA LineIsTyped ==
  ASSUME NEW b, NEW p \in 0 .. BUFFER - 1, DOMAIN b = 0 .. BUFFER - 1,
         NEW l \in Seq(Letters), Len(l) = p, \A k \in 1 .. p : b[k - 1] = l[k],
         NEW t, t = [b EXCEPT ![p] = NUL]
  PROVE  CString(t) = l
  <1> DEFINE End(n) == /\ n = BUFFER \/ t[n] = NUL
                       /\ \A m \in 0 .. n - 1 : t[m] # NUL
  <1>1. BUFFER \in Nat \ {0} /\ NUL \notin Letters  BY ConsoleAssumption
  <1>2. t[p] = NUL /\ \A m \in 0 .. BUFFER - 1 : m # p => t[m] = b[m]  BY <1>1
  <1>3. ASSUME NEW m \in 0 .. p - 1  PROVE t[m] = l[m + 1] /\ t[m] # NUL
    <2>1. m + 1 \in 1 .. p /\ (m + 1) - 1 = m /\ m \in 0 .. BUFFER - 1 /\ m # p  BY <1>1
    <2>2. t[m] = l[m + 1]  BY <1>2, <2>1
    <2>3. l[m + 1] \in Letters  BY <2>1
    <2> QED  BY <1>1, <2>2, <2>3
  <1>4. End(p)  BY <1>2, <1>3
  <1>5. ASSUME NEW n \in 0 .. BUFFER, End(n)  PROVE n = p
    <2>1. CASE n < p
      <3>1. n \in 0 .. p - 1 /\ n # BUFFER  BY <1>1, <2>1
      <3> QED  BY <3>1, <1>3, <1>5
    <2>2. CASE n > p
      <3>1. p \in 0 .. n - 1  BY <1>1, <2>2
      <3> QED  BY <3>1, <1>2, <1>5
    <2> QED  BY <1>1, <2>1, <2>2
  <1>6. PICK end : end = CHOOSE n \in 0 .. BUFFER : End(n)  OBVIOUS
  <1>7. end = p
    <2>1. p \in 0 .. BUFFER  BY <1>1
    <2> HIDE DEF End
    <2> QED  BY <1>4, <1>5, <1>6, <2>1
  <1>8. CString(t) = [k \in 1 .. end |-> t[k - 1]]  BY <1>6 DEF CString
  <1>9. l = [k \in 1 .. p |-> l[k]]  OBVIOUS
  <1>10. \A k \in 1 .. p : t[k - 1] = l[k]
    <2> TAKE k \in 1 .. p
    <2>1. k - 1 \in 0 .. p - 1 /\ (k - 1) + 1 = k  OBVIOUS
    <2> QED  BY <1>3, <2>1
  <1> HIDE DEF End
  <1> QED  BY <1>7, <1>8, <1>9, <1>10

-----------------------------------------------------------------------------
(* The inductive invariant of the console.                                  *)

Places == {"reset", "vmm", "acpi", "loaded", "console", "edit", "shutdown", "halted", "off"}

(* The buffer begins with the line.                                         *)
Held(b, p, l) ==
  /\ l \in Seq(Letters) /\ Len(l) = p /\ \A k \in 1 .. p : b[k - 1] = l[k]

(* The line stands in the row of the cursor, and the cursor behind it.      *)
Shown(s, l, h) ==
  /\ Len(l) <= s.x /\ At(s) = h + Len(l) /\ h \in Nat /\ s.hw = At(s)
  /\ \A k \in 1 .. Len(l) : s.cells[h + k - 1] = l[k]

BufferOK(b, p) == b = [k \in 0 .. BUFFER - 1 |-> b[k]] /\ p \in 0 .. BUFFER - 1

ConsoleInv ==
  /\ ScreenOK(screen) /\ BufferOK(buffer, pos)
  /\ pc \in Places /\ wrapped \in BOOLEAN
  /\ pc = "edit" => Held(buffer, pos, typed)
  /\ pc = "edit" /\ ~wrapped => Shown(screen, typed, home)

LEMMA TextLengths ==
  /\ Len(VerText) \in Nat /\ Len(FailText) \in Nat /\ Len(VmmText) \in Nat
  /\ Len(ErrText) \in Nat /\ Len(PmmText \o MemText) \in Nat /\ Len(Append(LogText, LF)) \in Nat
  /\ Len(<<LF>>) \in Nat /\ Len(<<"g", LF>>) \in Nat
  /\ Len(<<LF>> \o AllocText \o <<LF>>) \in Nat
  /\ \A l \in Seq(Letters) : Len(UnknownText \o l \o <<LF>>) \in Nat
  <1>1. /\ VerText \in Seq(STRING) /\ UnknownText \in Seq(STRING) /\ FailText \in Seq(STRING)
        /\ PmmText \in Seq(STRING) /\ MemText \in Seq(STRING) /\ VmmText \in Seq(STRING)
        /\ LogText \in Seq(STRING) /\ AllocText \in Seq(STRING) /\ ErrText \in Seq(STRING)
    BY ConsoleAssumption
  <1> DEFINE C == STRING \cup Letters \cup {LF}
  <1>2. \A t \in Seq(STRING) : t \in Seq(C)
    <2> TAKE t \in Seq(STRING)
    <2>1. t \in [1 .. Len(t) -> C] /\ Len(t) \in Nat  OBVIOUS
    <2> QED  BY <2>1
  <1>3. LF \in C  OBVIOUS
  <1>4. \A l \in Seq(Letters) : l \in Seq(C)
    <2> TAKE l \in Seq(Letters)
    <2>1. l \in [1 .. Len(l) -> C] /\ Len(l) \in Nat  OBVIOUS
    <2> QED  BY <2>1
  <1> HIDE DEF C
  <1>5. /\ UnknownText \in Seq(C) /\ LogText \in Seq(C) /\ AllocText \in Seq(C)
        /\ <<LF>> \in Seq(C)
    BY <1>1, <1>2, <1>3
  <1>6. PmmText \o MemText \in Seq(STRING) /\ Append(LogText, LF) \in Seq(C)
    BY <1>1, <1>3, <1>5
  <1>7. ASSUME NEW l \in Seq(Letters)  PROVE Len(UnknownText \o l \o <<LF>>) \in Nat
    <2>1. UnknownText \o l \o <<LF>> \in Seq(C)  BY <1>4, <1>5
    <2> QED  BY <2>1
  <1>8. <<LF>> \o AllocText \o <<LF>> \in Seq(C)  BY <1>5
  <1> QED  BY <1>1, <1>6, <1>7, <1>8

LEMMA LogOK ==
  ASSUME NEW s, ScreenOK(s)
  PROVE  ScreenOK(uacpi_kernel_log(s)) /\ ScreenOK(AllocFails(s))
  <1>1. PICK t : t = PutString(s, Append(LogText, LF))  OBVIOUS
  <1>2. ScreenOK(t)  BY <1>1, TextLengths, PutStringOK
  <1>3. Screen(t)  BY <1>2 DEF ScreenOK
  <1>4. ScreenOK(uacpi_kernel_log(s))  BY <1>1, <1>3, ScrollOK DEF uacpi_kernel_log
  <1>5. ScreenOK(AllocFails(s))  BY TextLengths, PutStringOK DEF AllocFails
  <1> QED  BY <1>4, <1>5

LEMMA AnswerOK ==
  ASSUME NEW s, ScreenOK(s), NEW line \in Seq(Letters)
  PROVE  ScreenOK(Answer(line, s))
  <1>1. ScreenOK(PutString(s, VerText))  BY TextLengths, PutStringOK
  <1>2. ScreenOK(PutString(s, UnknownText \o line \o <<LF>>))  BY TextLengths, PutStringOK
  <1> QED  BY <1>1, <1>2 DEF Answer

LEMMA ConsoleStarts == ConsoleInit => ConsoleInv
  <1> SUFFICES ASSUME ConsoleInit  PROVE ConsoleInv  OBVIOUS
  <1>0. BUFFER \in Nat \ {0}  BY ConsoleAssumption
  <1>1. PICK c : c = [k \in 0 .. VGA_CELLS - 1 |-> Junk]  OBVIOUS
  <1>2. PICK s : s = [cells |-> c, x |-> 0, y |-> 0, hw |-> 0, stray |-> FALSE, scrolled |-> 0]
    OBVIOUS
  <1>3. screen = s  BY <1>1, <1>2 DEF ConsoleInit
  <1>4. VGA_HEIGHT - 0 = VGA_HEIGHT /\ VGA_HEIGHT * VGA_WIDTH = VGA_CELLS
        /\ 0 * VGA_WIDTH + 0 = 0
    BY Sizes, AtIs
  <1>5. ScreenOK(s)
    <2>1. c = [k \in 0 .. VGA_CELLS - 1 |-> c[k]]  BY <1>1
    <2>2. At(s) = 0  BY <1>2, <1>4 DEF At
    <2>3. \A k \in 0 .. VGA_CELLS - 1 : ~(k >= (VGA_HEIGHT - s.scrolled) * VGA_WIDTH)
      BY <1>2, <1>4, Sizes
    <2>4. /\ s.cells = c /\ s.x = 0 /\ s.y = 0 /\ s.hw = 0 /\ s.stray = FALSE
          /\ s.scrolled = 0
      BY <1>2
    <2>5. s = [cells |-> s.cells, x |-> s.x, y |-> s.y, hw |-> s.hw, stray |-> s.stray,
               scrolled |-> s.scrolled]
      BY <1>2, <2>4
    <2> QED  BY <2>1, <2>2, <2>3, <2>4, <2>5, Sizes DEF ScreenOK, Screen
  <1>6. BufferOK(buffer, pos)  BY <1>0 DEF ConsoleInit, BufferOK
  <1> QED  BY <1>3, <1>5, <1>6 DEF ConsoleInit, ConsoleInv, Places

(* What is printed on the way to the console and by uACPI.                  *)
LEMMA OutputKeeps ==
  ASSUME ConsoleInv, NEW here, NEW there \in Places \ {"edit"}, NEW s, ScreenOK(s),
         Output(here, there, s)
  PROVE  ConsoleInv'
  <1>1. screen' = s /\ pc' = there /\ buffer' = buffer /\ pos' = pos /\ wrapped' = wrapped
    BY DEF Output
  <1>2. BufferOK(buffer, pos) /\ wrapped \in BOOLEAN  BY DEF ConsoleInv
  <1>3. there \in Places /\ there # "edit"  OBVIOUS
  <1>4. ScreenOK(screen')  BY <1>1
  <1> QED  BY <1>1, <1>2, <1>3, <1>4 DEF ConsoleInv

LEMMA StartUpKeeps ==
  ASSUME ConsoleInv,
         MemoryAmount \/ VmmInit \/ UacpiPrints \/ AcpiInitialized \/ AcpiFails \/ AcpiDone
         \/ ShutdownDone
  PROVE  ConsoleInv'
  <1>0. ScreenOK(screen)  BY DEF ConsoleInv
  <1>p. {"vmm", "acpi", "loaded", "console", "shutdown", "off"} \subseteq Places \ {"edit"}
    BY DEF Places
  <1>1. PICK s : s = screen  OBVIOUS
  <1>2. ScreenOK(s) /\ Screen(s)  BY <1>0, <1>1 DEF ScreenOK
  <1>3. CASE MemoryAmount
    <2>1. PICK a : a = PutString(s, PmmText \o MemText)  OBVIOUS
    <2>2. ScreenOK(a)  BY <1>2, <2>1, TextLengths, PutStringOK
    <2>3. Screen(a)  BY <2>2 DEF ScreenOK
    <2>4. PICK b : b = scroll_screen(a)  OBVIOUS
    <2>5. Screen(b)  BY <2>3, <2>4, ScrollOK DEF ScreenOK
    <2>6. PICK c : c = scroll_screen(b)  OBVIOUS
    <2>7. Screen(c)  BY <2>5, <2>6, ScrollOK DEF ScreenOK
    <2>8. PICK d : d = scroll_screen(c)  OBVIOUS
    <2>9. ScreenOK(d)  BY <2>7, <2>8, ScrollOK
    <2>10. Output("reset", "vmm", d)  BY <1>1, <1>3, <2>1, <2>4, <2>6, <2>8 DEF MemoryAmount
    <2> QED  BY <1>p, <2>9, <2>10, OutputKeeps
  <1>4. CASE VmmInit
    <2>1. PICK a : a = PutString(s, VmmText)  OBVIOUS
    <2>2. ScreenOK(a)  BY <1>2, <2>1, TextLengths, PutStringOK
    <2>3. Output("vmm", "acpi", a)  BY <1>1, <1>4, <2>1 DEF VmmInit
    <2> QED  BY <1>p, <2>2, <2>3, OutputKeeps
  <1>5. CASE UacpiPrints
    <2>1. PICK a, b : a = uacpi_kernel_log(s) /\ b = AllocFails(s)  OBVIOUS
    <2>2. ScreenOK(a) /\ ScreenOK(b)  BY <1>2, <2>1, LogOK
    <2>3. PICK p \in {"acpi", "loaded", "shutdown"} : Output(p, p, a) \/ Output(p, p, b)
      BY <1>1, <1>5, <2>1 DEF UacpiPrints
    <2>4. p \in Places \ {"edit"}  BY <1>p, <2>3
    <2> QED  BY <2>2, <2>3, <2>4, OutputKeeps
  <1>6. CASE AcpiInitialized
    <2>1. PICK a : a = scroll_screen(s)  OBVIOUS
    <2>2. ScreenOK(a)  BY <1>2, <2>1, ScrollOK
    <2>3. Output("acpi", "loaded", a)  BY <1>1, <1>6, <2>1 DEF AcpiInitialized
    <2> QED  BY <1>p, <2>2, <2>3, OutputKeeps
  <1>7. CASE AcpiFails
    <2>1. PICK a : a = PutString(s, ErrText)  OBVIOUS
    <2>2. ScreenOK(a)  BY <1>2, <2>1, TextLengths, PutStringOK
    <2>3. PICK p \in {"acpi", "loaded"} : Output(p, "console", a)
      BY <1>1, <1>7, <2>1 DEF AcpiFails
    <2> QED  BY <1>p, <2>2, <2>3, OutputKeeps
  <1>8. CASE AcpiDone
    <2>1. Output("loaded", "console", s)  BY <1>1, <1>8 DEF AcpiDone
    <2> QED  BY <1>p, <1>2, <2>1, OutputKeeps
  <1>9. CASE ShutdownDone
    <2>1. Output("shutdown", "off", s)  BY <1>1, <1>9 DEF ShutdownDone
    <2> QED  BY <1>p, <1>2, <2>1, OutputKeeps
  <1> QED  BY <1>3, <1>4, <1>5, <1>6, <1>7, <1>8, <1>9

(* The prompt, after which the line is empty.                               *)
LEMMA PromptKeeps ==
  ASSUME NEW s, ScreenOK(s), Prompt(s), pc' = "edit", BufferOK(buffer', 0)
  PROVE  ConsoleInv'
  <1>1. PICK t : t = PutString(s, <<">">>)  OBVIOUS
  <1>2. t = putchar(s, ">")  BY <1>1, PutOne
  <1>3. ScreenOK(t) /\ t.hw = At(t)  BY <1>2, PutcharOK
  <1>4. screen' = t /\ home' = At(t) /\ typed' = <<>> /\ wrapped' = FALSE /\ pos' = 0
    BY <1>1 DEF Prompt
  <1>5. At(t) \in Nat /\ t.x \in 0 .. VGA_WIDTH - 1
    <2>1. t.x \in 0 .. VGA_WIDTH - 1 /\ t.y \in 0 .. VGA_HEIGHT  BY <1>3 DEF ScreenOK, Screen
    <2> QED  BY <2>1, AtIs DEF At
  <1>6. Held(buffer', pos', typed')  BY <1>4 DEF Held
  <1>7. Shown(t, <<>>, At(t))
    <2>1. Len(<<>>) = 0  OBVIOUS
    <2>2. Len(<<>>) <= t.x /\ At(t) = At(t) + Len(<<>>)  BY <1>5, <2>1, Sizes
    <2> QED  BY <1>3, <1>5, <2>1, <2>2 DEF Shown
  <1>8. Shown(screen', typed', home')  BY <1>4, <1>7
  <1>9. ScreenOK(screen') /\ BufferOK(buffer', pos')  BY <1>3, <1>4
  <1> QED  BY <1>4, <1>6, <1>8, <1>9 DEF ConsoleInv, Places

LEMMA GreetKeeps ==
  ASSUME ConsoleInv, Greet  PROVE ConsoleInv'
  <1>1. PICK s : s = screen  OBVIOUS
  <1>2. ScreenOK(s)  BY <1>1 DEF ConsoleInv
  <1>3. PICK t : t = PutString(s, <<"g", LF>>)  OBVIOUS
  <1>4. ScreenOK(t)  BY <1>2, <1>3, TextLengths, PutStringOK
  <1>5. Prompt(t) /\ pc' = "edit" /\ buffer' = buffer  BY <1>1, <1>3 DEF Greet
  <1>6. BufferOK(buffer', 0)
    BY <1>5, ConsoleAssumption DEF ConsoleInv, BufferOK
  <1> QED  BY <1>4, <1>5, <1>6, PromptKeeps

LEMMA ShutdownFailsKeeps ==
  ASSUME ConsoleInv, ShutdownFails  PROVE ConsoleInv'
  <1>1. PICK s, a : s = screen /\ a = PutString(s, FailText)  OBVIOUS
  <1>2. Screen(a)  BY <1>1, TextLengths, PutStringOK DEF ConsoleInv, ScreenOK
  <1>3. PICK c : c = scroll_screen(a)  OBVIOUS
  <1>4. ScreenOK(c)  BY <1>2, <1>3, ScrollOK
  <1>5. Prompt(c) /\ pc' = "edit" /\ buffer' = buffer  BY <1>1, <1>3 DEF ShutdownFails
  <1>6. BufferOK(buffer', 0)
    BY <1>5, ConsoleAssumption DEF ConsoleInv, BufferOK
  <1> QED  BY <1>4, <1>5, <1>6, PromptKeeps

(* What Enter hands over, and the buffer it leaves.                         *)
LEMMA EnteredLine ==
  ASSUME ConsoleInv, pc = "edit"
  PROVE  CString(Terminated) = typed /\ typed \in Seq(Letters) /\ BufferOK(Terminated, 0)
         /\ BufferOK(Terminated, pos)
  <1>1. BufferOK(buffer, pos) /\ Held(buffer, pos, typed)  BY DEF ConsoleInv
  <1>2. PICK b, p, l, t : b = buffer /\ p = pos /\ l = typed /\ t = Terminated  OBVIOUS
  <1>3. t = [b EXCEPT ![p] = NUL]  BY <1>2 DEF Terminated
  <1>4. BufferOK(b, p) /\ Held(b, p, l)  BY <1>1, <1>2
  <1>5. CString(t) = l
    BY <1>3, <1>4, LineIsTyped DEF BufferOK, Held
  <1>6. BUFFER \in Nat \ {0} BY ConsoleAssumption
  <1>7. BufferOK(t, 0) /\ BufferOK(t, p)  BY <1>3, <1>4, <1>6 DEF BufferOK
  <1> QED  BY <1>1, <1>2, <1>5, <1>7 DEF Held

LEMMA EnterKeeps ==
  ASSUME ConsoleInv, Enter  PROVE ConsoleInv'
  <1>0. pc = "edit"  BY DEF Enter
  <1>1. PICK s, l : s = screen /\ l = typed  OBVIOUS
  <1>2. ScreenOK(s) /\ l \in Seq(Letters)  BY <1>0, <1>1, EnteredLine DEF ConsoleInv
  <1>3. PICK a : a = PutString(s, <<LF>>)  OBVIOUS
  <1>4. ScreenOK(a)  BY <1>2, <1>3, TextLengths, PutStringOK
  <1>5. PICK b : b = Answer(l, a)  OBVIOUS
  <1>6. Screen(b)  BY <1>2, <1>4, <1>5, AnswerOK DEF ScreenOK
  <1>7. PICK c : c = scroll_screen(b)  OBVIOUS
  <1>8. ScreenOK(c)  BY <1>6, <1>7, ScrollOK
  <1>9. CString(Terminated) = l  BY <1>0, <1>1, EnteredLine
  <1>10. Prompt(c) /\ pc' = "edit" /\ buffer' = Terminated
    BY <1>1, <1>3, <1>5, <1>7, <1>9 DEF Enter
  <1>11. BufferOK(buffer', 0)  BY <1>0, <1>10, EnteredLine
  <1> QED  BY <1>8, <1>10, <1>11, PromptKeeps

LEMMA EnterLastKeeps ==
  ASSUME ConsoleInv, EnterLast  PROVE ConsoleInv'
  <1>1. pc = "edit" /\ pc' \in Places /\ pc' # "edit"  BY DEF EnterLast, Places
  <1>2. PICK s, a : s = screen /\ a = PutString(s, <<LF>>)  OBVIOUS
  <1>3. ScreenOK(a)  BY <1>2, TextLengths, PutStringOK DEF ConsoleInv
  <1>4. screen' = a /\ buffer' = Terminated /\ pos' = pos /\ wrapped' = wrapped
    BY <1>2 DEF EnterLast
  <1>5. ScreenOK(screen') /\ BufferOK(buffer', pos')  BY <1>1, <1>3, <1>4, EnteredLine
  <1> QED  BY <1>1, <1>4, <1>5 DEF ConsoleInv

(* A letter at the end of the line.                                         *)
LEMMA HeldGrows ==
  ASSUME NEW b, NEW p, NEW l, NEW c \in Letters, BufferOK(b, p), Held(b, p, l),
         p < BUFFER - 1
  PROVE  BufferOK([b EXCEPT ![p] = c], p + 1) /\ Held([b EXCEPT ![p] = c], p + 1, Append(l, c))
  <1>1. BUFFER \in Nat \ {0}  BY ConsoleAssumption
  <1>2. PICK d, m : d = [b EXCEPT ![p] = c] /\ m = Append(l, c)  OBVIOUS
  <1>3. p \in 0 .. BUFFER - 1 /\ b = [k \in 0 .. BUFFER - 1 |-> b[k]]  BY DEF BufferOK
  <1>4. BufferOK(d, p + 1)  BY <1>1, <1>2, <1>3 DEF BufferOK
  <1>5. l \in Seq(Letters) /\ Len(l) = p /\ \A k \in 1 .. p : b[k - 1] = l[k]  BY DEF Held
  <1>6. m \in Seq(Letters) /\ Len(m) = p + 1 /\ m[p + 1] = c
        /\ \A k \in 1 .. p : m[k] = l[k]
    BY <1>2, <1>5
  <1>7. ASSUME NEW k \in 1 .. p + 1  PROVE d[k - 1] = m[k]
    <2>1. CASE k = p + 1
      <3>1. k - 1 = p  BY <1>3, <2>1
      <3>2. d[p] = c  BY <1>2, <1>3
      <3> QED  BY <2>1, <3>1, <3>2, <1>6
    <2>2. CASE k # p + 1
      <3>1. k \in 1 .. p /\ k - 1 # p /\ k - 1 \in 0 .. BUFFER - 1  BY <1>1, <1>3, <2>2
      <3>2. d[k - 1] = b[k - 1]  BY <1>2, <1>3, <3>1
      <3> QED  BY <3>1, <3>2, <1>5, <1>6
    <2> QED  BY <2>1, <2>2
  <1>8. Held(d, p + 1, m)  BY <1>6, <1>7 DEF Held
  <1> QED  BY <1>2, <1>4, <1>8

LEMMA ShownGrows ==
  ASSUME NEW s, ScreenOK(s), NEW l \in Seq(Letters), NEW h, NEW c \in Letters,
         Shown(s, l, h), s.x + 1 < VGA_WIDTH
  PROVE  Shown(putchar(s, c), Append(l, c), h)
  <1>1. c # LF /\ c # BS  BY ConsoleAssumption
  <1>2. PICK t, m, a : t = putchar(s, c) /\ m = Append(l, c) /\ a = At(s)  OBVIOUS
  <1>3. t = [cells |-> [s.cells EXCEPT ![a] = c], x |-> s.x + 1, y |-> s.y,
             hw |-> a + 1, stray |-> FALSE, scrolled |-> s.scrolled]
    BY <1>1, <1>2, PutPlainChar
  <1>4. /\ s.x \in 0 .. VGA_WIDTH - 1 /\ s.y * VGA_WIDTH \in Nat
        /\ s.cells = [k \in 0 .. VGA_CELLS - 1 |-> s.cells[k]]
    BY AtIs DEF ScreenOK, Screen
  <1>5. a \in Nat /\ a < VGA_CELLS  BY <1>2, StoreIs DEF ScreenOK
  <1>6. At(t) = a + 1  BY <1>2, <1>3, <1>4 DEF At
  <1>7. PICK n : n = Len(l) /\ n \in Nat  OBVIOUS
  <1>8. Len(m) = n + 1 /\ m[n + 1] = c /\ \A k \in 1 .. n : m[k] = l[k]
    BY <1>2, <1>7
  <1>9. /\ n <= s.x /\ a = h + n /\ h \in Nat
        /\ \A k \in 1 .. n : s.cells[h + k - 1] = l[k]
    BY <1>2, <1>7 DEF Shown
  <1>10. ASSUME NEW k \in 1 .. n + 1  PROVE t.cells[h + k - 1] = m[k]
    <2>1. CASE k = n + 1
      <3>1. h + k - 1 = a  BY <1>7, <1>9, <2>1
      <3>2. t.cells[a] = c  BY <1>3, <1>4, <1>5, Sizes
      <3> QED  BY <2>1, <3>1, <3>2, <1>8
    <2>2. CASE k # n + 1
      <3>1. k \in 1 .. n /\ h + k - 1 # a /\ h + k - 1 \in 0 .. VGA_CELLS - 1
        BY <1>5, <1>7, <1>9, <2>2, Sizes
      <3>2. t.cells[h + k - 1] = s.cells[h + k - 1]  BY <1>3, <1>4, <3>1
      <3> QED  BY <3>1, <3>2, <1>8, <1>9
    <2> QED  BY <2>1, <2>2
  <1>11. t.x = s.x + 1 /\ t.hw = a + 1  BY <1>3
  <1>12. Len(m) <= t.x /\ At(t) = h + Len(m)
    <2>1. Len(m) = n + 1 /\ n <= s.x /\ a = h + n /\ h \in Nat /\ s.x \in Nat
      BY <1>4, <1>8, <1>9, Sizes
    <2> QED  BY <1>6, <1>7, <1>11, <2>1
  <1>13. Shown(t, m, h)  BY <1>6, <1>8, <1>9, <1>10, <1>11, <1>12 DEF Shown
  <1> QED  BY <1>2, <1>13

LEMMA LetterKeeps ==
  ASSUME ConsoleInv, NEW c \in Letters, Letter(c)  PROVE ConsoleInv'
  <1>0. pc = "edit" /\ pc' = pc /\ home' = home  BY DEF Letter
  <1>1. CASE ~Room
    <2>1. UNCHANGED <<screen, buffer, pos, typed, wrapped>>  BY <1>1 DEF Letter
    <2> QED  BY <1>0, <2>1 DEF ConsoleInv
  <1>2. CASE Room
    <2>1. PICK s, b, p, l, h : s = screen /\ b = buffer /\ p = pos /\ l = typed /\ h = home
      OBVIOUS
    <2>2. /\ ScreenOK(s) /\ BufferOK(b, p) /\ Held(b, p, l) /\ wrapped \in BOOLEAN
          /\ ~wrapped => Shown(s, l, h)
      BY <1>0, <2>1 DEF ConsoleInv
    <2>3. p < BUFFER - 1  BY <1>2, <2>1 DEF Room
    <2>4. /\ buffer' = [b EXCEPT ![p] = c] /\ pos' = p + 1 /\ screen' = putchar(s, c)
          /\ typed' = Append(l, c) /\ wrapped' = (wrapped \/ s.x + 1 >= VGA_WIDTH)
      BY <1>2, <2>1 DEF Letter
    <2>5. BufferOK(buffer', pos') /\ Held(buffer', pos', typed')
      BY <2>2, <2>3, <2>4, HeldGrows
    <2>6. ScreenOK(screen')  BY <2>2, <2>4, PutcharOK
    <2>7. ASSUME ~wrapped'  PROVE Shown(screen', typed', home')
      <3>1. ~wrapped /\ s.x + 1 < VGA_WIDTH
        <4>1. ~wrapped /\ ~(s.x + 1 >= VGA_WIDTH)  BY <2>4, <2>7
        <4>2. s.x \in 0 .. VGA_WIDTH - 1  BY <2>2 DEF ScreenOK, Screen
        <4> QED  BY <4>1, <4>2, Sizes
      <3>2. l \in Seq(Letters)  BY <2>2 DEF Held
      <3>3. Shown(putchar(s, c), Append(l, c), h)  BY <2>2, <3>1, <3>2, ShownGrows
      <3> QED  BY <1>0, <2>1, <2>4, <3>3
    <2>8. wrapped' \in BOOLEAN  BY <2>4
    <2> QED  BY <1>0, <2>5, <2>6, <2>7, <2>8 DEF ConsoleInv, Places
  <1> QED  BY <1>1, <1>2

(* The last letter is taken back.                                           *)
LEMMA HeldShrinks ==
  ASSUME NEW b, NEW p, NEW l, BufferOK(b, p), Held(b, p, l), p > 0
  PROVE  /\ BufferOK(b, p - 1) /\ Held(b, p - 1, SubSeq(l, 1, Len(l) - 1))
         /\ Len(SubSeq(l, 1, Len(l) - 1)) = p - 1
         /\ \A k \in 1 .. p - 1 : SubSeq(l, 1, Len(l) - 1)[k] = l[k]
  <1>1. BUFFER \in Nat \ {0}  BY ConsoleAssumption
  <1>2. p \in 0 .. BUFFER - 1  BY DEF BufferOK
  <1>3. BufferOK(b, p - 1)  BY <1>1, <1>2 DEF BufferOK
  <1>4. l \in Seq(Letters) /\ Len(l) = p /\ \A k \in 1 .. p : b[k - 1] = l[k]  BY DEF Held
  <1>5. PICK m : m = SubSeq(l, 1, p - 1)  OBVIOUS
  <1>6. m \in Seq(Letters) /\ Len(m) = p - 1 /\ \A k \in 1 .. p - 1 : m[k] = l[k]
    BY <1>2, <1>4, <1>5
  <1>7. \A k \in 1 .. p - 1 : k \in 1 .. p  BY <1>2
  <1>8. Held(b, p - 1, m)  BY <1>4, <1>6, <1>7 DEF Held
  <1> QED  BY <1>3, <1>4, <1>5, <1>6, <1>8

LEMMA ShownShrinks ==
  ASSUME NEW s, ScreenOK(s), NEW l, NEW m, NEW h, NEW n \in Nat, Len(l) = n + 1,
         Len(m) = n, \A k \in 1 .. n : m[k] = l[k], Shown(s, l, h)
  PROVE  Shown(PutString(s, Erase), m, h)
  <1>1. /\ n + 1 <= s.x /\ At(s) = h + (n + 1) /\ h \in Nat
        /\ \A k \in 1 .. n + 1 : s.cells[h + k - 1] = l[k]
    BY DEF Shown
  <1>2. /\ s.x \in 0 .. VGA_WIDTH - 1 /\ s.y * VGA_WIDTH \in Nat
        /\ s.cells = [k \in 0 .. VGA_CELLS - 1 |-> s.cells[k]]
    BY AtIs DEF ScreenOK, Screen
  <1>3. PICK t, a : t = PutString(s, Erase) /\ a = At(s) - 1  OBVIOUS
  <1>4. s.x > 0  BY <1>1, <1>2
  <1>5. t = [cells |-> [s.cells EXCEPT ![a] = Blank], x |-> s.x - 1, y |-> s.y,
             hw |-> a, stray |-> FALSE, scrolled |-> s.scrolled]
    BY <1>3, <1>4, EraseIs
  <1>6. a = h + n  BY <1>1, <1>3
  <1>7. At(t) = a  BY <1>2, <1>3, <1>5 DEF At
  <1>8. At(s) < VGA_CELLS  BY StoreIs DEF ScreenOK
  <1>9. ASSUME NEW k \in 1 .. n  PROVE t.cells[h + k - 1] = m[k]
    <2>1. h + k - 1 # a /\ h + k - 1 \in 0 .. VGA_CELLS - 1 /\ k \in 1 .. n + 1
      BY <1>1, <1>6, <1>8, Sizes
    <2>2. t.cells[h + k - 1] = s.cells[h + k - 1]  BY <1>2, <1>5, <2>1
    <2> QED  BY <1>1, <2>1, <2>2
  <1>10. t.x = s.x - 1 /\ t.hw = a  BY <1>5
  <1>11. Len(m) <= t.x /\ At(t) = h + Len(m)  BY <1>1, <1>2, <1>6, <1>7, <1>10
  <1>12. Shown(t, m, h)  BY <1>1, <1>7, <1>9, <1>10, <1>11 DEF Shown
  <1> QED  BY <1>3, <1>12

LEMMA BackspaceKeeps ==
  ASSUME ConsoleInv, Backspace  PROVE ConsoleInv'
  <1>0. /\ pc = "edit" /\ pc' = pc /\ home' = home /\ buffer' = buffer
        /\ wrapped' = wrapped
    BY DEF Backspace
  <1>1. CASE ~(pos > 0)
    <2>1. UNCHANGED <<screen, pos, typed>>  BY <1>1 DEF Backspace
    <2> QED  BY <1>0, <2>1 DEF ConsoleInv
  <1>2. CASE pos > 0
    <2>1. PICK s, b, p, l, h : s = screen /\ b = buffer /\ p = pos /\ l = typed /\ h = home
      OBVIOUS
    <2>2. /\ ScreenOK(s) /\ BufferOK(b, p) /\ Held(b, p, l) /\ wrapped \in BOOLEAN
          /\ ~wrapped => Shown(s, l, h)
      BY <1>0, <2>1 DEF ConsoleInv
    <2>3. PICK m : m = SubSeq(l, 1, Len(l) - 1)  OBVIOUS
    <2>4. pos' = p - 1 /\ screen' = PutString(s, Erase) /\ typed' = m
      BY <1>2, <2>1, <2>3 DEF Backspace
    <2>5. BufferOK(b, p - 1) /\ Held(b, p - 1, m) /\ Len(m) = p - 1
          /\ \A k \in 1 .. p - 1 : m[k] = l[k]
      BY <1>2, <2>1, <2>2, <2>3, HeldShrinks
    <2>6. ScreenOK(PutString(s, Erase))
      <3>1. Len(Erase) \in Nat  BY DEF Erase
      <3> QED  BY <2>2, <3>1, PutStringOK
    <2>7. p - 1 \in Nat /\ Len(l) = (p - 1) + 1
      <3>1. p \in Nat /\ Len(l) = p
        BY <2>2, ConsoleAssumption DEF BufferOK, Held
      <3> QED  BY <1>2, <2>1, <3>1
    <2>8. ASSUME ~wrapped  PROVE Shown(PutString(s, Erase), m, h)
      BY <2>2, <2>5, <2>7, <2>8, ShownShrinks
    <2>9. ScreenOK(screen') /\ BufferOK(buffer', pos') /\ Held(buffer', pos', typed')
      BY <1>0, <2>1, <2>4, <2>5, <2>6
    <2>10. ~wrapped => Shown(screen', typed', home')  BY <1>0, <2>1, <2>4, <2>8
    <2> QED  BY <1>0, <2>2, <2>9, <2>10 DEF ConsoleInv, Places
  <1> QED  BY <1>1, <1>2

LEMMA ConsoleKeeps == ConsoleInv /\ [ConsoleNext]_consoleVars => ConsoleInv'
  <1> SUFFICES ASSUME ConsoleInv, [ConsoleNext]_consoleVars  PROVE ConsoleInv'  OBVIOUS
  <1>1. CASE UNCHANGED consoleVars  BY <1>1 DEF ConsoleInv, consoleVars
  <1>2. CASE ConsoleNext
    BY <1>2, StartUpKeeps, GreetKeeps, BackspaceKeeps, EnterKeeps, EnterLastKeeps,
       ShutdownFailsKeeps, LetterKeeps DEF ConsoleNext
  <1> QED  BY <1>1, <1>2

LEMMA ConsoleInvMeans ==
  ConsoleInv => ConsoleTypeOK /\ LineAsTyped /\ BlankAhead /\ LineShown
  <1> SUFFICES ASSUME ConsoleInv  PROVE ConsoleTypeOK /\ LineAsTyped /\ BlankAhead /\ LineShown
    OBVIOUS
  <1>1. ConsoleTypeOK
    <2>1. ScreenOK(screen) /\ BufferOK(buffer, pos) /\ pc \in Places  BY DEF ConsoleInv
    <2>2. DOMAIN screen.cells = 0 .. VGA_CELLS - 1 /\ ~screen.stray
          /\ screen.x \in 0 .. VGA_WIDTH - 1 /\ screen.y \in 0 .. VGA_HEIGHT - 1
      BY <2>1, Sizes DEF ScreenOK, Screen
    <2>3. DOMAIN buffer = 0 .. BUFFER - 1 /\ pos \in 0 .. BUFFER - 1
      BY <2>1 DEF BufferOK
    <2> QED  BY <2>1, <2>2, <2>3 DEF ConsoleTypeOK, Places
  <1>2. LineAsTyped  BY EnteredLine DEF LineAsTyped
  <1>3. BlankAhead  BY DEF ConsoleInv, ScreenOK, Screen, BlankAhead
  <1>4. LineShown  BY DEF ConsoleInv, Shown, LineShown
  <1> QED  BY <1>1, <1>2, <1>3, <1>4

-----------------------------------------------------------------------------
(* Powers.                                                                  *)

Powers(b, n, f) ==
  f[0] = 1 /\ f[n] = Pow(b, n) /\ \A k \in 1 .. n : f[k] = b * f[k - 1]

LEMMA PowEquation ==
  ASSUME NEW b, NEW N \in Nat
  PROVE  \E f : Powers(b, N, f)
  <1> DEFINE Eq(f, k) == f = [n \in 0 .. k |-> IF n = 0 THEN 1 ELSE b * f[n - 1]]
             S == {k \in Nat : \E f : Eq(f, k)}
  <1>1. 0 \in S
    <2> DEFINE g == [n \in 0 .. 0 |-> 1]
    <2>1. Eq(g, 0)  OBVIOUS
    <2> QED  BY <2>1
  <1>2. ASSUME NEW k \in Nat, k \in S  PROVE k + 1 \in S
    <2>1. PICK g : Eq(g, k)  BY <1>2
    <2> DEFINE f == [n \in 0 .. k + 1 |-> IF n = k + 1 THEN b * g[k] ELSE g[n]]
    <2>2. Eq(f, k + 1)
      <3>1. \A n \in 0 .. k + 1 : n # 0 => n - 1 \in 0 .. k /\ f[n - 1] = g[n - 1]  OBVIOUS
      <3>2. \A n \in 0 .. k : g[n] = IF n = 0 THEN 1 ELSE b * g[n - 1]
        BY <2>1
      <3>3. \A n \in 0 .. k : f[n] = g[n]  OBVIOUS
      <3>4. f[k + 1] = b * g[k] /\ (k + 1) - 1 = k /\ k + 1 # 0
        OBVIOUS
      <3>5. ASSUME NEW n \in 0 .. k + 1
            PROVE  f[n] = IF n = 0 THEN 1 ELSE b * f[n - 1]
        <4> HIDE DEF f
        <4>1. CASE n = k + 1  BY <3>1, <3>4, <4>1
        <4>2. CASE n # k + 1
          <5>1. n \in 0 .. k  BY <4>2
          <5> QED  BY <3>1, <3>2, <3>3, <5>1
        <4> QED  BY <4>1, <4>2
      <3> QED  BY <3>5
    <2> HIDE DEF f, Eq
    <2> QED  BY <2>2
  <1>3. N \in S
    <2> HIDE DEF S
    <2> QED  BY <1>1, <1>2, UpTo
  <1>4. \E f : Eq(f, N)  BY <1>3
  <1>5. PICK f : f = CHOOSE g : Eq(g, N)  OBVIOUS
  <1>6. Eq(f, N)
    <2> HIDE DEF Eq
    <2> QED  BY <1>4, <1>5
  <1>7. Pow(b, N) = f[N]
    <2>1. Pow(b, N) = (CHOOSE g : Eq(g, N))[N]
      BY DEF Pow
    <2> HIDE DEF Eq
    <2> QED  BY <1>5, <2>1
  <1>8. \A n \in 0 .. N : f[n] = IF n = 0 THEN 1 ELSE b * f[n - 1]  BY <1>6
  <1>9. 0 \in 0 .. N /\ \A n \in 1 .. N : n \in 0 .. N /\ n # 0  OBVIOUS
  <1>10. f[0] = 1  BY <1>8, <1>9
  <1>11. \A n \in 1 .. N : f[n] = b * f[n - 1]  BY <1>8, <1>9
  <1> HIDE DEF Eq
  <1> QED  BY <1>7, <1>10, <1>11 DEF Powers


LEMMA PowersAgree ==
  ASSUME NEW b, NEW M \in Nat, NEW N \in Nat, M <= N, NEW f, NEW g,
         Powers(b, M, f), Powers(b, N, g)
  PROVE  f[M] = g[M]
  <1> DEFINE S == {k \in Nat : k <= M => f[k] = g[k]}
  <1>0. /\ f[0] = 1 /\ \A k \in 1 .. M : f[k] = b * f[k - 1]
        /\ g[0] = 1 /\ \A k \in 1 .. N : g[k] = b * g[k - 1]
    BY DEF Powers
  <1>1. 0 \in S  BY <1>0
  <1>2. ASSUME NEW k \in Nat, k \in S  PROVE k + 1 \in S
    <2>1. SUFFICES ASSUME k + 1 <= M  PROVE f[k + 1] = g[k + 1]  OBVIOUS
    <2>2. f[k] = g[k]  BY <1>2, <2>1
    <2>3. k + 1 \in 1 .. M /\ k + 1 \in 1 .. N /\ (k + 1) - 1 = k  BY <2>1
    <2> QED  BY <1>0, <2>2, <2>3
  <1>3. M \in S
    <2> HIDE DEF S
    <2> QED  BY <1>1, <1>2, UpTo
  <1> QED  BY <1>3

LEMMA PowStep ==
  ASSUME NEW b  PROVE Pow(b, 0) = 1 /\ \A n \in Nat : Pow(b, n + 1) = b * Pow(b, n)
  <1>1. Pow(b, 0) = 1
    <2>1. PICK f : Powers(b, 0, f)  BY PowEquation
    <2> QED  BY <2>1 DEF Powers
  <1>2. ASSUME NEW n \in Nat  PROVE Pow(b, n + 1) = b * Pow(b, n)
    <2>1. PICK f : Powers(b, n, f)  BY PowEquation
    <2>2. PICK m : m = n + 1 /\ m \in Nat /\ n <= m /\ m - 1 = n /\ m \in 1 .. m  OBVIOUS
    <2>3. PICK g : Powers(b, m, g)  BY <2>2, PowEquation
    <2>4. f[n] = g[n]  BY <2>1, <2>2, <2>3, PowersAgree
    <2>5. g[m] = b * g[m - 1]  BY <2>2, <2>3 DEF Powers
    <2>6. Pow(b, m) = g[m] /\ Pow(b, n) = f[n]  BY <2>1, <2>3 DEF Powers
    <2> QED  BY <2>2, <2>4, <2>5, <2>6
  <1> QED  BY <1>1, <1>2

LEMMA PowPositive ==
  ASSUME NEW b \in Nat \ {0}  PROVE \A n \in Nat : Pow(b, n) \in Nat \ {0}
  <1> DEFINE S == {n \in Nat : Pow(b, n) \in Nat \ {0}}
  <1>1. 0 \in S  BY PowStep
  <1>2. ASSUME NEW n \in Nat, n \in S  PROVE n + 1 \in S
    <2>1. PICK p : p = Pow(b, n)  OBVIOUS
    <2>2. p \in Nat \ {0}  BY <1>2, <2>1
    <2>3. b * p \in Nat \ {0}  BY <2>2
    <2>4. Pow(b, n + 1) = b * p  BY <2>1, PowStep
    <2> QED  BY <2>3, <2>4
  <1> HIDE DEF S
  <1>3. \A n \in Nat : n \in S  BY <1>1, <1>2, UpTo
  <1> QED  BY <1>3 DEF S

(* A hexadecimal digit is four bits.                                        *)
LEMMA FourBits == \A n \in Nat : Pow(2, 4 * n) = Pow(16, n)
  <1> DEFINE S == {n \in Nat : Pow(2, 4 * n) = Pow(16, n)}
  <1>1. 0 \in S
    <2>1. 4 * 0 = 0  OBVIOUS
    <2> QED  BY <2>1, PowStep
  <1>2. ASSUME NEW n \in Nat, n \in S  PROVE n + 1 \in S
    <2>1. PICK m : m = 4 * n /\ m \in Nat  OBVIOUS
    <2>2. PICK p : p = Pow(2, m)  OBVIOUS
    <2>3. p \in Nat  BY <2>1, <2>2, PowPositive
    <2>4. PICK m1, m2, m3 : /\ m1 = m + 1 /\ m2 = m1 + 1 /\ m3 = m2 + 1
                            /\ m1 \in Nat /\ m2 \in Nat /\ m3 \in Nat
      BY <2>1
    <2>5. Pow(2, m1) = 2 * p  BY <2>1, <2>2, <2>4, PowStep
    <2>6. Pow(2, m2) = 2 * (2 * p)  BY <2>4, <2>5, PowStep
    <2>7. Pow(2, m3) = 2 * (2 * (2 * p))  BY <2>4, <2>6, PowStep
    <2>8. Pow(2, 4 * (n + 1)) = 2 * (2 * (2 * (2 * p)))
      <3>1. m3 + 1 = 4 * (n + 1)  BY <2>1, <2>4
      <3>2. Pow(2, m3 + 1) = 2 * Pow(2, m3)  BY <2>4, PowStep
      <3> QED  BY <2>7, <3>1, <3>2
    <2>9. Pow(16, n + 1) = 16 * p  BY <1>2, <2>1, <2>2, PowStep
    <2>10. 2 * (2 * (2 * (2 * p))) = 16 * p  BY <2>3
    <2>11. Pow(2, 4 * (n + 1)) = Pow(16, n + 1)  BY <2>8, <2>9, <2>10
    <2> QED  BY <2>11
  <1> HIDE DEF S
  <1>3. \A n \in Nat : n \in S  BY <1>1, <1>2, UpTo
  <1> QED  BY <1>3 DEF S

-----------------------------------------------------------------------------
(* Digits.                                                                  *)

Sums(ds, b, n, f) ==
  f[0] = 0 /\ f[n] = Value(ds, b) /\ \A k \in 1 .. n : f[k] = b * f[k - 1] + ds[k][2]

LEMMA ValueEquation ==
  ASSUME NEW ds, NEW b, NEW N \in Nat, N = Len(ds)
  PROVE  \E f : Sums(ds, b, N, f)
  <1> DEFINE Eq(f, k) == f = [n \in 0 .. k |-> IF n = 0 THEN 0 ELSE b * f[n - 1] + ds[n][2]]
             S == {k \in Nat : \E f : Eq(f, k)}
  <1>1. 0 \in S
    <2> DEFINE g == [n \in 0 .. 0 |-> 0]
    <2>1. Eq(g, 0)  OBVIOUS
    <2> QED  BY <2>1
  <1>2. ASSUME NEW k \in Nat, k \in S  PROVE k + 1 \in S
    <2>1. PICK g : Eq(g, k)  BY <1>2
    <2> DEFINE f == [n \in 0 .. k + 1 |-> IF n = k + 1 THEN b * g[k] + ds[k + 1][2] ELSE g[n]]
    <2>2. Eq(f, k + 1)
      <3>1. \A n \in 0 .. k + 1 : n # 0 => n - 1 \in 0 .. k /\ f[n - 1] = g[n - 1]  OBVIOUS
      <3>2. \A n \in 0 .. k : g[n] = IF n = 0 THEN 0 ELSE b * g[n - 1] + ds[n][2]
        BY <2>1
      <3>3. \A n \in 0 .. k : f[n] = g[n]  OBVIOUS
      <3>4. f[k + 1] = b * g[k] + ds[k + 1][2] /\ (k + 1) - 1 = k /\ k + 1 # 0
        OBVIOUS
      <3>5. ASSUME NEW n \in 0 .. k + 1
            PROVE  f[n] = IF n = 0 THEN 0 ELSE b * f[n - 1] + ds[n][2]
        <4> HIDE DEF f
        <4>1. CASE n = k + 1  BY <3>1, <3>4, <4>1
        <4>2. CASE n # k + 1
          <5>1. n \in 0 .. k  BY <4>2
          <5> QED  BY <3>1, <3>2, <3>3, <5>1
        <4> QED  BY <4>1, <4>2
      <3> QED  BY <3>5
    <2> HIDE DEF f, Eq
    <2> QED  BY <2>2
  <1>3. N \in S
    <2> HIDE DEF S
    <2> QED  BY <1>1, <1>2, UpTo
  <1>4. \E f : Eq(f, N)  BY <1>3
  <1>5. PICK f : f = CHOOSE g : Eq(g, N)  OBVIOUS
  <1>6. Eq(f, N)
    <2> HIDE DEF Eq
    <2> QED  BY <1>4, <1>5
  <1>7. Value(ds, b) = f[N]
    <2>1. Value(ds, b) = (CHOOSE g : Eq(g, N))[N]
      BY DEF Value
    <2> HIDE DEF Eq
    <2> QED  BY <1>5, <2>1
  <1>8. \A n \in 0 .. N : f[n] = IF n = 0 THEN 0 ELSE b * f[n - 1] + ds[n][2]  BY <1>6
  <1>9. 0 \in 0 .. N /\ \A n \in 1 .. N : n \in 0 .. N /\ n # 0  OBVIOUS
  <1>10. f[0] = 0  BY <1>8, <1>9
  <1>11. \A n \in 1 .. N : f[n] = b * f[n - 1] + ds[n][2]  BY <1>8, <1>9
  <1> HIDE DEF Eq
  <1> QED  BY <1>7, <1>10, <1>11 DEF Sums


LEMMA SumsNat ==
  ASSUME NEW ds, NEW b \in Nat, NEW N \in Nat, NEW f, Sums(ds, b, N, f),
         \A k \in 1 .. N : ds[k][2] \in Nat
  PROVE  \A k \in 0 .. N : f[k] \in Nat
  <1> DEFINE S == {k \in Nat : k <= N => f[k] \in Nat}
  <1>0. f[0] = 0 /\ \A k \in 1 .. N : f[k] = b * f[k - 1] + ds[k][2]  BY DEF Sums
  <1>1. 0 \in S  BY <1>0
  <1>2. ASSUME NEW k \in Nat, k \in S  PROVE k + 1 \in S
    <2>1. SUFFICES ASSUME k + 1 <= N  PROVE f[k + 1] \in Nat  OBVIOUS
    <2>2. PICK v : v = f[k] /\ v \in Nat  BY <1>2, <2>1
    <2>3. k + 1 \in 1 .. N /\ (k + 1) - 1 = k  BY <2>1
    <2>4. PICK d : d = ds[k + 1][2] /\ d \in Nat  BY <2>3
    <2>5. f[k + 1] = b * v + d  BY <1>0, <2>2, <2>3, <2>4
    <2>6. b * v + d \in Nat  BY <2>2, <2>4
    <2> QED  BY <2>5, <2>6
  <1> HIDE DEF S
  <1>3. \A k \in Nat : k \in S  BY <1>1, <1>2, UpTo
  <1>4. \A k \in 0 .. N : k \in Nat /\ k <= N  OBVIOUS
  <1> QED  BY <1>3, <1>4 DEF S

(* The digits e are those of ds with d before them.                         *)
Longer(e, ds, d, n) ==
  /\ n \in Nat /\ d \in Nat /\ Len(ds) = n /\ Len(e) = n + 1 /\ e[1][2] = d
  /\ \A k \in 1 .. n : e[k + 1] = ds[k] /\ ds[k][2] \in Nat

(* A digit before others counts as often as they can be written.            *)
LEMMA ValueCons ==
  ASSUME NEW ds, NEW e, NEW b \in Nat \ {0}, NEW d, NEW N, Longer(e, ds, d, N)
  PROVE  Value(e, b) = d * Pow(b, N) + Value(ds, b) /\ Value(ds, b) \in Nat
  <1> /\ N \in Nat /\ d \in Nat /\ Len(ds) = N /\ Len(e) = N + 1 /\ e[1][2] = d
      /\ \A k \in 1 .. N : e[k + 1] = ds[k] /\ ds[k][2] \in Nat
    BY DEF Longer
  <1>1. PICK f : Sums(ds, b, N, f)  BY ValueEquation
  <1>2. PICK M : M = N + 1 /\ M \in Nat  OBVIOUS
  <1>3. PICK g : Sums(e, b, M, g)  BY <1>2, ValueEquation
  <1>4. \A k \in 0 .. N : f[k] \in Nat  BY <1>1, SumsNat
  <1>5. f[0] = 0 /\ f[N] = Value(ds, b) /\ \A k \in 1 .. N : f[k] = b * f[k - 1] + ds[k][2]
    BY <1>1 DEF Sums
  <1>6. g[0] = 0 /\ g[M] = Value(e, b) /\ \A k \in 1 .. M : g[k] = b * g[k - 1] + e[k][2]
    BY <1>3 DEF Sums
  <1> DEFINE S == {k \in Nat : k <= N => g[k + 1] = d * Pow(b, k) + f[k]}
  <1>7. 0 \in S
    <2>1. 1 \in 1 .. M  BY <1>2
    <2>2. g[1] = b * g[1 - 1] + e[1][2]  BY <1>6, <2>1
    <2>3. 1 - 1 = 0 /\ b * 0 = 0 /\ 0 + d = d /\ d * 1 + 0 = d  OBVIOUS
    <2>4. g[1] = d  BY <1>6, <2>2, <2>3
    <2>5. Pow(b, 0) = 1  BY PowStep
    <2>6. g[0 + 1] = d * Pow(b, 0) + f[0]  BY <1>5, <2>3, <2>4, <2>5
    <2> QED  BY <2>6
  <1>8. ASSUME NEW k \in Nat, k \in S  PROVE k + 1 \in S
    <2>1. SUFFICES ASSUME k + 1 <= N  PROVE g[(k + 1) + 1] = d * Pow(b, k + 1) + f[k + 1]
      OBVIOUS
    <2>2. g[k + 1] = d * Pow(b, k) + f[k]  BY <1>8, <2>1
    <2>3. /\ k + 1 \in 1 .. N /\ (k + 1) + 1 \in 1 .. M /\ (k + 1) - 1 = k
          /\ ((k + 1) + 1) - 1 = k + 1 /\ k \in 0 .. N
      BY <1>2, <2>1
    <2>4. PICK p : p = Pow(b, k) /\ p \in Nat  BY PowPositive
    <2>5. PICK v : v = f[k] /\ v \in Nat  BY <1>4, <2>3
    <2>6. PICK x : x = ds[k + 1][2] /\ x \in Nat  BY <2>3
    <2>7. e[(k + 1) + 1] = ds[k + 1]  BY <2>3
    <2>8. g[(k + 1) + 1] = b * g[k + 1] + x  BY <1>6, <2>3, <2>6, <2>7
    <2>9. f[k + 1] = b * v + x  BY <1>5, <2>3, <2>5, <2>6
    <2>10. Pow(b, k + 1) = b * p  BY <2>4, PowStep
    <2>11. b * (d * p + v) + x = d * (b * p) + (b * v + x)
      <3>1. b * (d * p + v) = b * (d * p) + b * v  BY <2>4, <2>5
      <3>2. b * (d * p) = d * (b * p)  BY <2>4
      <3>3. d * (b * p) \in Nat /\ b * v \in Nat
        <4>1. b * p \in Nat  BY <2>4
        <4> QED  BY <2>5, <4>1
      <3> QED  BY <2>6, <3>1, <3>2, <3>3
    <2> QED  BY <2>2, <2>4, <2>5, <2>8, <2>9, <2>10, <2>11
  <1> HIDE DEF S
  <1>9. N \in S  BY <1>7, <1>8, UpTo
  <1>10. g[N + 1] = d * Pow(b, N) + f[N]  BY <1>9 DEF S
  <1>11. Value(e, b) = d * Pow(b, N) + Value(ds, b)  BY <1>2, <1>5, <1>6, <1>10, Zenon
  <1>12. N \in 0 .. N  OBVIOUS
  <1>13. Value(ds, b) \in Nat  BY <1>4, <1>5, <1>12, Zenon
  <1> QED  BY <1>11, <1>13

(* Dividing twice is dividing once.                                         *)
LEMMA DivDiv ==
  ASSUME NEW n \in Nat, NEW q \in Nat \ {0}
  PROVE  16 * (n \div (16 * q)) + ((n \div q) % 16) = n \div q
  <1>1. PICK x : x = n \div q /\ x \in Nat  OBVIOUS
  <1>2. PICK r : r \in 0 .. q - 1 /\ n = q * x + r
    <2>1. n % q \in 0 .. q - 1 /\ n = q * (n \div q) + (n % q)  OBVIOUS
    <2> QED  BY <1>1, <2>1
  <1>3. PICK y, s \in Nat : x = 16 * y + s /\ s < 16 /\ s = x % 16 /\ y = x \div 16
    BY <1>1
  <1>4. PICK Q : Q = 16 * q /\ Q \in Nat \ {0}  OBVIOUS
  <1>5. PICK t : t = q * s + r /\ t \in Nat
    <2>1. q * s \in Nat  BY <1>3
    <2> QED  BY <1>2, <2>1
  <1>6. n = Q * y + t
    <2>1. q * x = q * (16 * y) + q * s  BY <1>3
    <2>2. q * (16 * y) = Q * y  BY <1>3, <1>4
    <2>3. Q * y \in Nat /\ q * s \in Nat  BY <1>3, <1>4
    <2> QED  BY <1>2, <1>5, <2>1, <2>2, <2>3
  <1>7. t < Q
    <2>1. PICK c \in Nat : 15 = s + c
      <3>1. 15 - s \in Nat  BY <1>3
      <3> WITNESS 15 - s \in Nat
      <3> QED  BY <1>3
    <2>2. q * 15 = q * s + q * c  BY <1>3, <2>1
    <2>3. q * c \in Nat /\ q * s \in Nat  BY <1>3, <2>1
    <2> QED  BY <1>2, <1>4, <1>5, <2>2, <2>3
  <1>8. n \div Q = y
    <2>1. \A a, z, u \in Nat : \A k \in Nat \ {0} : a = k * z + u /\ u < k => a \div k = z
      OBVIOUS
    <2> QED  BY <1>3, <1>4, <1>5, <1>6, <1>7, <2>1
  <1> QED  BY <1>1, <1>3, <1>4, <1>8

HexDigits == LONG_BITS \div 4

LEMMA HexFacts ==
  /\ HexDigits \in Nat /\ LONG_BITS = 4 * HexDigits
  /\ Pow(2, LONG_BITS) = Pow(16, HexDigits) /\ Pow(2, LONG_BITS) \in Nat \ {0}
  <1>1. LONG_BITS \in Nat /\ LONG_BITS % 4 = 0  BY PrintfAssumption
  <1>2. HexDigits \in Nat /\ LONG_BITS = 4 * HexDigits  BY <1>1 DEF HexDigits
  <1>3. Pow(2, 4 * HexDigits) = Pow(16, HexDigits)  BY <1>2, FourBits
  <1> QED  BY <1>1, <1>2, <1>3, PowPositive

(* The digits %x prints have the value of the argument.                     *)
LEMMA HexValue ==
  ASSUME NEW n \in Nat, n < Pow(2, LONG_BITS), NEW h, h = Hex(n)
  PROVE  Len(h) = HexDigits /\ Value(h, 16) = n
  <1> DEFINE L == HexDigits
  <1>1. L \in Nat /\ n < Pow(16, L)  BY HexFacts
  <1>2. h = [k \in 1 .. L |-> Dig((n \div Pow(16, L - k)) % 16)]  BY DEF Hex, HexDigits
  <1> HIDE DEF L
  <1>3. Len(h) = L /\ \A k \in 1 .. L : h[k][2] = (n \div Pow(16, L - k)) % 16
    BY <1>1, <1>2 DEF Dig
  <1>4. PICK f : Sums(h, 16, L, f)  BY <1>1, <1>3, ValueEquation
  <1>5. f[0] = 0 /\ f[L] = Value(h, 16) /\ \A k \in 1 .. L : f[k] = 16 * f[k - 1] + h[k][2]
    BY <1>4 DEF Sums
  <1> DEFINE S == {k \in Nat : k <= L => f[k] = n \div Pow(16, L - k)}
  <1>6. 0 \in S
    <2>1. PICK p : p = Pow(16, L) /\ p \in Nat \ {0}  BY <1>1, PowPositive
    <2>2. n \div p = 0  BY <1>1, <2>1
    <2>3. L - 0 = L  BY <1>1
    <2> QED  BY <1>5, <2>1, <2>2, <2>3
  <1>7. ASSUME NEW k \in Nat, k \in S  PROVE k + 1 \in S
    <2>1. SUFFICES ASSUME k + 1 <= L  PROVE f[k + 1] = n \div Pow(16, L - (k + 1))  OBVIOUS
    <2>2. PICK m : m = L - (k + 1) /\ m \in Nat /\ m + 1 = L - k  BY <1>1, <2>1
    <2>3. PICK q : q = Pow(16, m) /\ q \in Nat \ {0}  BY <2>2, PowPositive
    <2>4. Pow(16, L - k) = 16 * q  BY <2>2, <2>3, PowStep
    <2>5. f[k] = n \div (16 * q)  BY <1>1, <1>7, <2>1, <2>4
    <2>6. k + 1 \in 1 .. L /\ (k + 1) - 1 = k  BY <1>1, <2>1
    <2>7. f[k + 1] = 16 * (n \div (16 * q)) + ((n \div q) % 16)
      BY <1>3, <1>5, <2>2, <2>3, <2>5, <2>6
    <2> QED  BY <2>2, <2>3, <2>7, DivDiv
  <1> HIDE DEF S
  <1>8. L \in S  BY <1>1, <1>6, <1>7, UpTo
  <1>9. f[L] = n \div Pow(16, L - L)  BY <1>1, <1>8 DEF S
  <1>10. L - L = 0 /\ Pow(16, 0) = 1 /\ n \div 1 = n  BY <1>1, PowStep
  <1> QED  BY <1>3, <1>5, <1>9, <1>10 DEF L

-----------------------------------------------------------------------------
(* The walk over a format.                                                  *)

Walks(fm, n, w) ==
  /\ w = Place(fm) /\ w[0] = <<FALSE, 1>>
  /\ \A k \in 1 .. n : w[k] = Beyond(w[k - 1], fm[k])

LEMMA PlaceEquation ==
  ASSUME NEW fm, NEW N \in Nat, N = Len(fm)
  PROVE  \E f : Walks(fm, N, f)
  <1> DEFINE Eq(f, k) == f = [n \in 0 .. k |-> IF n = 0 THEN <<FALSE, 1>> ELSE Beyond(f[n - 1], fm[n])]
             S == {k \in Nat : \E f : Eq(f, k)}
  <1>1. 0 \in S
    <2> DEFINE g == [n \in 0 .. 0 |-> <<FALSE, 1>>]
    <2>1. Eq(g, 0)  OBVIOUS
    <2> QED  BY <2>1
  <1>2. ASSUME NEW k \in Nat, k \in S  PROVE k + 1 \in S
    <2>1. PICK g : Eq(g, k)  BY <1>2
    <2> DEFINE f == [n \in 0 .. k + 1 |-> IF n = k + 1 THEN Beyond(g[k], fm[k + 1]) ELSE g[n]]
    <2>2. Eq(f, k + 1)
      <3>1. \A n \in 0 .. k + 1 : n # 0 => n - 1 \in 0 .. k /\ f[n - 1] = g[n - 1]  OBVIOUS
      <3>2. \A n \in 0 .. k : g[n] = IF n = 0 THEN <<FALSE, 1>> ELSE Beyond(g[n - 1], fm[n])
        BY <2>1
      <3>3. \A n \in 0 .. k : f[n] = g[n]  OBVIOUS
      <3>4. f[k + 1] = Beyond(g[k], fm[k + 1]) /\ (k + 1) - 1 = k /\ k + 1 # 0
        OBVIOUS
      <3>5. ASSUME NEW n \in 0 .. k + 1
            PROVE  f[n] = IF n = 0 THEN <<FALSE, 1>> ELSE Beyond(f[n - 1], fm[n])
        <4> HIDE DEF f
        <4>1. CASE n = k + 1  BY <3>1, <3>4, <4>1
        <4>2. CASE n # k + 1
          <5>1. n \in 0 .. k  BY <4>2
          <5> QED  BY <3>1, <3>2, <3>3, <5>1
        <4> QED  BY <4>1, <4>2
      <3> QED  BY <3>5
    <2> HIDE DEF f, Eq
    <2> QED  BY <2>2
  <1>3. N \in S
    <2> HIDE DEF S
    <2> QED  BY <1>1, <1>2, UpTo
  <1>4. \E f : Eq(f, N)  BY <1>3
  <1>5. PICK f : f = CHOOSE g : Eq(g, N)  OBVIOUS
  <1>6. Eq(f, N)
    <2> HIDE DEF Eq
    <2> QED  BY <1>4, <1>5
  <1>7. Place(fm) = f
    <2>1. Place(fm) = CHOOSE g : Eq(g, N)
      BY DEF Place
    <2> HIDE DEF Eq
    <2> QED  BY <1>5, <2>1
  <1>8. \A n \in 0 .. N : f[n] = IF n = 0 THEN <<FALSE, 1>> ELSE Beyond(f[n - 1], fm[n])  BY <1>6
  <1>9. 0 \in 0 .. N /\ \A n \in 1 .. N : n \in 0 .. N /\ n # 0  OBVIOUS
  <1>10. f[0] = <<FALSE, 1>>  BY <1>8, <1>9
  <1>11. \A n \in 1 .. N : f[n] = Beyond(f[n - 1], fm[n])  BY <1>8, <1>9
  <1> HIDE DEF Eq
  <1> QED  BY <1>7, <1>10, <1>11 DEF Walks


IsPlace(p) == p = <<p[1], p[2]>> /\ p[1] \in BOOLEAN /\ p[2] \in Nat \ {0}

LEMMA BeyondIs ==
  ASSUME NEW p, IsPlace(p), NEW c
  PROVE  /\ IsPlace(Beyond(p, c)) /\ p[2] <= Beyond(p, c)[2]
         /\ ~p[1] => Beyond(p, c) = <<c = "%", p[2]>>
         /\ p[1] => Beyond(p, c) = <<FALSE, IF c \in Takes THEN p[2] + 1 ELSE p[2]>>
  <1>1. p[1] \in BOOLEAN /\ p[2] \in Nat \ {0}  BY DEF IsPlace
  <1>2. PICK a, n : a = p[1] /\ n = p[2]  OBVIOUS
  <1>3. CASE a
    <2>1. Beyond(p, c) = <<FALSE, IF c \in Takes THEN n + 1 ELSE n>>
      BY <1>2, <1>3 DEF Beyond
    <2> QED  BY <1>1, <1>2, <1>3, <2>1 DEF IsPlace
  <1>4. CASE ~a
    <2>1. Beyond(p, c) = <<c = "%", n>>  BY <1>2, <1>4 DEF Beyond
    <2>2. PICK e : e = (c = "%") /\ e \in BOOLEAN  OBVIOUS
    <2>3. PICK q : q = <<e, n>>  OBVIOUS
    <2>4. IsPlace(q) /\ q[2] = n /\ n <= n  BY <1>1, <1>2, <2>2, <2>3 DEF IsPlace
    <2>5. Beyond(p, c) = q  BY <2>1, <2>2, <2>3
    <2> QED  BY <1>2, <1>4, <2>1, <2>4, <2>5, Zenon
  <1> QED  BY <1>3, <1>4

LEMMA PlacesTyped ==
  ASSUME NEW fm, NEW N \in Nat, NEW w, Walks(fm, N, w)
  PROVE  \A k \in 0 .. N : IsPlace(w[k])
  <1>0. w[0] = <<FALSE, 1>> /\ \A k \in 1 .. N : w[k] = Beyond(w[k - 1], fm[k])  BY DEF Walks
  <1> DEFINE S == {k \in Nat : k <= N => IsPlace(w[k])}
  <1>1. 0 \in S
    <2>1. IsPlace(<<FALSE, 1>>)  BY DEF IsPlace
    <2> QED  BY <1>0, <2>1
  <1>2. ASSUME NEW k \in Nat, k \in S  PROVE k + 1 \in S
    <2>1. SUFFICES ASSUME k + 1 <= N  PROVE IsPlace(w[k + 1])  OBVIOUS
    <2>2. IsPlace(w[k])  BY <1>2, <2>1
    <2>3. k + 1 \in 1 .. N /\ (k + 1) - 1 = k  BY <2>1
    <2>4. w[k + 1] = Beyond(w[k], fm[k + 1])  BY <1>0, <2>3
    <2>5. IsPlace(Beyond(w[k], fm[k + 1]))  BY <2>2, BeyondIs
    <2> QED  BY <2>4, <2>5
  <1> HIDE DEF S
  <1>3. \A k \in Nat : k \in S  BY <1>1, <1>2, UpTo
  <1>4. \A k \in 0 .. N : k \in Nat /\ k <= N  OBVIOUS
  <1> QED  BY <1>3, <1>4 DEF S

(* The arguments are taken in their order.                                  *)
LEMMA PlacesGrow ==
  ASSUME NEW fm, NEW N \in Nat, NEW w, Walks(fm, N, w), NEW k \in 0 .. N
  PROVE  w[k][2] <= w[N][2]
  <1>0. /\ \A m \in 1 .. N : w[m] = Beyond(w[m - 1], fm[m])
        /\ \A m \in 0 .. N : IsPlace(w[m])
    BY PlacesTyped DEF Walks
  <1> DEFINE S == {m \in Nat : k <= m /\ m <= N => w[k][2] <= w[m][2]}
  <1>1. 0 \in S
    <2>1. w[k][2] \in Nat  BY <1>0 DEF IsPlace
    <2>2. k <= 0 => k = 0  OBVIOUS
    <2> QED  BY <2>1, <2>2
  <1>2. ASSUME NEW m \in Nat, m \in S  PROVE m + 1 \in S
    <2>1. SUFFICES ASSUME k <= m + 1, m + 1 <= N  PROVE w[k][2] <= w[m + 1][2]  OBVIOUS
    <2>2. /\ m + 1 \in 1 .. N /\ (m + 1) - 1 = m /\ m \in 0 .. N /\ m + 1 \in 0 .. N
          /\ (k = m + 1 \/ k <= m)
      BY <2>1
    <2>3. PICK x, y, z : x = w[k][2] /\ y = w[m][2] /\ z = w[m + 1][2]  OBVIOUS
    <2>4. x \in Nat /\ y \in Nat /\ z \in Nat  BY <1>0, <2>2, <2>3 DEF IsPlace
    <2>5. w[m + 1] = Beyond(w[m], fm[m + 1]) /\ IsPlace(w[m])  BY <1>0, <2>2
    <2>6. y <= z  BY <2>3, <2>5, BeyondIs
    <2>7. k <= m => x <= y  BY <1>2, <2>1, <2>2, <2>3
    <2>8. k = m + 1 => x = z  BY <2>3
    <2> QED  BY <2>2, <2>3, <2>4, <2>6, <2>7, <2>8
  <1> HIDE DEF S
  <1>3. N \in S  BY <1>1, <1>2, UpTo
  <1> QED  BY <1>3 DEF S

(* Position k of a call is between two conversions, with argument a next.   *)
AtPlace(c, k, a) == k \in 1 .. Len(c[1]) + 1 /\ Place(c[1])[k - 1] = <<FALSE, a>>

LEMMA CallFacts ==
  ASSUME NEW c \in Formats
  PROVE  /\ Len(c[1]) \in Nat /\ Len(c[2]) \in Nat /\ Walks(c[1], Len(c[1]), Place(c[1]))
         /\ Place(c[1])[Len(c[1])] = <<FALSE, Len(c[2]) + 1>>
         /\ \A k \in 1 .. Len(c[1]) : Place(c[1])[k - 1][1] /\ c[1][k] \in Takes
              => c[2][Place(c[1])[k - 1][2]] \in Passed(c[1][k])
  <1>1. c[1] \in Seq(STRING) /\ Len(c[2]) \in Nat /\ Matches(c[1], c[2])
    BY PrintfAssumption
  <1>2. PICK N : N = Len(c[1]) /\ N \in Nat  BY <1>1
  <1>3. PICK w : Walks(c[1], N, w)  BY <1>2, PlaceEquation
  <1>4. Walks(c[1], N, Place(c[1]))  BY <1>3 DEF Walks
  <1> QED  BY <1>1, <1>2, <1>4 DEF Matches

LEMMA FirstPlace ==
  ASSUME NEW c \in Formats
  PROVE  AtPlace(c, 1, 1) /\ \A a : AtPlace(c, 1, a) => a = 1
  <1>1. Len(c[1]) \in Nat /\ Place(c[1])[0] = <<FALSE, 1>>  BY CallFacts DEF Walks
  <1>2. 1 - 1 = 0 /\ 1 \in 1 .. Len(c[1]) + 1  BY <1>1
  <1>3. AtPlace(c, 1, 1)  BY <1>1, <1>2 DEF AtPlace
  <1>4. ASSUME NEW a, AtPlace(c, 1, a)  PROVE a = 1
    <2>1. <<FALSE, 1>> = <<FALSE, a>>  BY <1>1, <1>2, <1>4 DEF AtPlace
    <2> QED  BY <2>1
  <1> QED  BY <1>3, <1>4

LEMMA ArgumentInRange ==
  ASSUME NEW c \in Formats, NEW k, NEW a, AtPlace(c, k, a)
  PROVE  /\ k \in Nat /\ a \in 1 .. Len(c[2]) + 1
         /\ k = Len(c[1]) + 1 => a = Len(c[2]) + 1
  <1>1. PICK N, w : N = Len(c[1]) /\ w = Place(c[1])  OBVIOUS
  <1>2. N \in Nat /\ Walks(c[1], N, w) /\ w[N] = <<FALSE, Len(c[2]) + 1>> /\ Len(c[2]) \in Nat
    BY <1>1, CallFacts
  <1>3. k \in 1 .. N + 1 /\ w[k - 1] = <<FALSE, a>>  BY <1>1 DEF AtPlace
  <1>4. PICK j : j = k - 1 /\ j \in 0 .. N  BY <1>2, <1>3
  <1>5. w[j][2] = a /\ w[N][2] = Len(c[2]) + 1  BY <1>2, <1>3, <1>4
  <1>6. IsPlace(w[j]) /\ w[j][2] <= w[N][2]  BY <1>2, <1>4, PlacesTyped, PlacesGrow
  <1>7. a \in Nat \ {0} /\ a <= Len(c[2]) + 1  BY <1>5, <1>6 DEF IsPlace
  <1>8. k = N + 1 => j = N  BY <1>2, <1>4
  <1>9. k = N + 1 => a = Len(c[2]) + 1  BY <1>5, <1>8
  <1> QED  BY <1>1, <1>2, <1>3, <1>7, <1>9

LEMMA PlainPlace ==
  ASSUME NEW c \in Formats, NEW k, NEW a, AtPlace(c, k, a), k <= Len(c[1]), c[1][k] # "%"
  PROVE  AtPlace(c, k + 1, a)
  <1>1. PICK N, w : N = Len(c[1]) /\ w = Place(c[1])  OBVIOUS
  <1>2. N \in Nat /\ Walks(c[1], N, w)  BY <1>1, CallFacts
  <1>3. k \in 1 .. N + 1 /\ w[k - 1] = <<FALSE, a>> /\ k <= N  BY <1>1 DEF AtPlace
  <1>4. k \in 1 .. N /\ k - 1 \in 0 .. N /\ (k + 1) - 1 = k /\ k + 1 \in 1 .. N + 1
    BY <1>2, <1>3
  <1>5. w[k] = Beyond(w[k - 1], c[1][k]) /\ IsPlace(w[k - 1])
    BY <1>2, <1>4, PlacesTyped DEF Walks
  <1>6. ~w[k - 1][1] /\ w[k - 1][2] = a  BY <1>3
  <1>7. w[k] = <<c[1][k] = "%", w[k - 1][2]>>  BY <1>5, <1>6, BeyondIs
  <1>8. w[k] = <<FALSE, a>>  BY <1>6, <1>7
  <1> QED  BY <1>1, <1>4, <1>8 DEF AtPlace

LEMMA ConversionPlace ==
  ASSUME NEW c \in Formats, NEW k, NEW a, AtPlace(c, k, a), k < Len(c[1]), c[1][k] = "%"
  PROVE  /\ c[1][k + 1] \notin Takes => AtPlace(c, k + 2, a)
         /\ c[1][k + 1] \in Takes => /\ AtPlace(c, k + 2, a + 1)
                                     /\ c[2][a] \in Passed(c[1][k + 1])
  <1>1. PICK N, w : N = Len(c[1]) /\ w = Place(c[1])  OBVIOUS
  <1>2. N \in Nat /\ Walks(c[1], N, w)  BY <1>1, CallFacts
  <1>3. k \in 1 .. N + 1 /\ w[k - 1] = <<FALSE, a>> /\ k < N  BY <1>1 DEF AtPlace
  <1>4. PICK m : m = k + 1 /\ m \in 1 .. N /\ m - 1 = k  BY <1>2, <1>3
  <1>5. /\ k \in 1 .. N /\ k \in 0 .. N /\ k - 1 \in 0 .. N /\ (k + 2) - 1 = m
        /\ k + 2 \in 1 .. N + 1
    BY <1>2, <1>3, <1>4
  <1>6. w[k] = Beyond(w[k - 1], c[1][k]) /\ IsPlace(w[k - 1])
    BY <1>2, <1>5, PlacesTyped DEF Walks
  <1>7. ~w[k - 1][1] /\ w[k - 1][2] = a  BY <1>3
  <1>8. w[k] = <<c[1][k] = "%", w[k - 1][2]>>  BY <1>6, <1>7, BeyondIs
  <1>9. w[k] = <<TRUE, a>>  BY <1>7, <1>8
  <1>10. w[m] = Beyond(w[k], c[1][m]) /\ IsPlace(w[k])
    BY <1>2, <1>4, <1>5, PlacesTyped DEF Walks
  <1>11. w[k][1] /\ w[k][2] = a  BY <1>9
  <1>12. w[m] = <<FALSE, IF c[1][m] \in Takes THEN w[k][2] + 1 ELSE w[k][2]>>
    BY <1>10, <1>11, BeyondIs
  <1>13. c[1][m] \notin Takes => w[m] = <<FALSE, a>>  BY <1>11, <1>12
  <1>14. c[1][m] \in Takes => w[m] = <<FALSE, a + 1>>  BY <1>11, <1>12
  <1>15. ASSUME c[1][m] \in Takes  PROVE c[2][a] \in Passed(c[1][m])
    <2>1. \A j \in 1 .. N : w[j - 1][1] /\ c[1][j] \in Takes
            => c[2][w[j - 1][2]] \in Passed(c[1][j])
      BY <1>1, CallFacts
    <2> QED  BY <1>4, <1>11, <1>15, <2>1
  <1>16. c[1][m] \notin Takes => AtPlace(c, k + 2, a)  BY <1>1, <1>5, <1>13 DEF AtPlace
  <1>17. c[1][m] \in Takes => AtPlace(c, k + 2, a + 1)  BY <1>1, <1>5, <1>14 DEF AtPlace
  <1> QED  BY <1>4, <1>15, <1>16, <1>17

(* A call of one conversion and its number.                                 *)
Single(c) == Len(c[1]) = 2 /\ Len(c[2]) = 1

LEMMA SingleIs ==
  ASSUME NEW c \in Formats, Single(c)
  PROVE  c[1][1] = "%" /\ c[1][2] \in Takes /\ c[2][1] \in Passed(c[1][2])
  <1>1. PICK w : w = Place(c[1])  OBVIOUS
  <1>2. Walks(c[1], 2, w) /\ w[2] = <<FALSE, 2>>  
    <2>1. Len(c[1]) = 2 /\ Len(c[2]) + 1 = 2  BY DEF Single
    <2> QED  BY <1>1, <2>1, CallFacts
  <1>3. w[0] = <<FALSE, 1>> /\ w[1] = Beyond(w[0], c[1][1]) /\ w[2] = Beyond(w[1], c[1][2])
    <2>1. 1 \in 1 .. 2 /\ 2 \in 1 .. 2 /\ 1 - 1 = 0 /\ 2 - 1 = 1  OBVIOUS
    <2> QED  BY <1>2, <2>1 DEF Walks
  <1>4. w[1] = <<c[1][1] = "%", 1>>  BY <1>3 DEF Beyond
  <1>5. c[1][1] = "%" /\ c[1][2] \in Takes
    <2>1. PICK p : p = w[1]  OBVIOUS
    <2>2. w[2][2] = IF p[1] /\ c[1][2] \in Takes THEN p[2] + 1 ELSE p[2]
      BY <1>3, <2>1 DEF Beyond
    <2>3. p[2] = 1 /\ w[2][2] = 2  BY <1>2, <1>4, <2>1
    <2>4. p[1] = (c[1][1] = "%")  BY <1>4, <2>1
    <2>5. p[1] /\ c[1][2] \in Takes  BY <2>2, <2>3
    <2> QED  BY <2>4, <2>5, Zenon
  <1>6. AtPlace(c, 1, 1)  BY FirstPlace
  <1>7. 1 < Len(c[1]) /\ 1 + 1 = 2  BY DEF Single
  <1>8. c[2][1] \in Passed(c[1][1 + 1])  BY <1>5, <1>6, <1>7, ConversionPlace
  <1> QED  BY <1>5, <1>7, <1>8

-----------------------------------------------------------------------------
(* The digits of a number.                                                  *)

DigitSet == {"d"} \X (0 .. 9)

LEMMA DigitIs ==
  /\ \A d \in 0 .. 9 : Dig(d) \in DigitSet /\ Dig(d)[1] = "d" /\ Dig(d)[2] = d
  /\ \A e \in DigitSet : e[1] = "d" /\ e[2] \in Nat
  BY DEF Dig, DigitSet

LEMMA ReverseIs ==
  ASSUME NEW b \in Seq(DigitSet), NEW N, N = Len(b)
  PROVE  /\ Reverse(b) \in Seq(DigitSet) /\ Len(Reverse(b)) = N /\ N \in Nat
         /\ \A k \in 1 .. N : Reverse(b)[k] = b[(N - k) + 1]
  <1>1. N \in Nat  OBVIOUS
  <1>2. Reverse(b) = [k \in 1 .. N |-> b[(N - k) + 1]]  BY DEF Reverse
  <1>3. \A k \in 1 .. N : (N - k) + 1 \in 1 .. N  BY <1>1
  <1>4. \A k \in 1 .. N : b[(N - k) + 1] \in DigitSet  BY <1>3
  <1> QED  BY <1>1, <1>2, <1>4

LEMMA Distribute ==
  ASSUME NEW x \in Nat, NEW y \in Nat, NEW z \in Nat  PROVE (x + y) * z = x * z + y * z
  OBVIOUS

(* The number q is still to convert and v is the value of the whole.        *)
Taken(v, q, c, n) ==
  /\ c \in Seq(DigitSet) /\ Len(c) = n + 1 /\ q \in Nat
  /\ v = q * Pow(10, Len(c)) + Value(Reverse(c), 10)
  /\ q = 0 => c[Len(c)] # Dig(0)

(* Every digit taken off the number is worth its place.                     *)
LEMMA DigitExact ==
  ASSUME NEW b \in Seq(DigitSet), NEW m \in Nat, m # 0, NEW v,
         v = m * Pow(10, Len(b)) + Value(Reverse(b), 10),
         NEW c, c = Append(b, Dig(m % 10)), NEW q, q = m \div 10
  PROVE  Taken(v, q, c, Len(b))
  <1>1. PICK d : d = m % 10 /\ d \in 0 .. 9 /\ m = 10 * q + d /\ q \in Nat  OBVIOUS
  <1>2. Dig(d) \in DigitSet /\ Dig(d)[2] = d  BY <1>1, DigitIs
  <1>3. PICK N : N = Len(b) /\ N \in Nat  OBVIOUS
  <1>4. /\ c \in Seq(DigitSet) /\ Len(c) = N + 1 /\ c[N + 1] = Dig(d)
        /\ \A k \in 1 .. N : c[k] = b[k]
    BY <1>1, <1>2, <1>3
  <1>5. PICK r, s : r = Reverse(b) /\ s = Reverse(c)  OBVIOUS
  <1>6. Len(r) = N /\ \A k \in 1 .. N : r[k] = b[(N - k) + 1]
    BY <1>3, <1>5, ReverseIs
  <1>7. /\ Len(s) = N + 1
        /\ \A k \in 1 .. N + 1 : s[k] = c[((N + 1) - k) + 1]
    BY <1>4, <1>5, ReverseIs
  <1>8. s[1] = Dig(d)
    <2>1. 1 \in 1 .. N + 1 /\ ((N + 1) - 1) + 1 = N + 1  BY <1>3
    <2> QED  BY <1>4, <1>7, <2>1
  <1>9. ASSUME NEW k \in 1 .. N  PROVE s[k + 1] = r[k] /\ r[k][2] \in Nat
    <2>1. k + 1 \in 1 .. N + 1 /\ ((N + 1) - (k + 1)) + 1 = (N - k) + 1 /\ (N - k) + 1 \in 1 .. N
      BY <1>3
    <2>2. s[k + 1] = c[(N - k) + 1]  BY <1>7, <2>1
    <2>3. c[(N - k) + 1] = b[(N - k) + 1]  BY <1>4, <2>1
    <2>4. b[(N - k) + 1] \in DigitSet  BY <1>3, <2>1
    <2> QED  BY <1>6, <2>2, <2>3, <2>4, DigitIs
  <1>10. PICK V : V = Value(r, 10)  OBVIOUS
  <1>11. Value(s, 10) = d * Pow(10, N) + V /\ V \in Nat
    <2>1. d \in Nat /\ s[1][2] = d  BY <1>1, <1>2, <1>8
    <2>2. Longer(s, r, d, N)  BY <1>3, <1>6, <1>7, <1>9, <2>1 DEF Longer
    <2> QED  BY <1>10, <2>2, ValueCons
  <1>12. PICK P : P = Pow(10, N) /\ P \in Nat \ {0}  BY <1>3, PowPositive
  <1>13. Pow(10, N + 1) = 10 * P  BY <1>3, <1>12, PowStep
  <1>14. m * P + V = q * (10 * P) + (d * P + V)
    <2>1. m * P = (10 * q) * P + d * P
      <3>1. 10 * q \in Nat /\ m = 10 * q + d  BY <1>1
      <3>2. d \in Nat  BY <1>1
      <3>3. P \in Nat  BY <1>12
      <3>4. (10 * q + d) * P = (10 * q) * P + d * P  BY <3>1, <3>2, <3>3, Distribute
      <3> QED  BY <3>1, <3>4
    <2>2. (10 * q) * P = q * (10 * P)  BY <1>1, <1>12
    <2>3. q * (10 * P) \in Nat /\ d * P \in Nat  BY <1>1, <1>12
    <2> QED  BY <1>11, <2>1, <2>2, <2>3
  <1>15. v = q * Pow(10, Len(c)) + Value(s, 10)
    BY <1>3, <1>4, <1>5, <1>10, <1>11, <1>12, <1>13, <1>14
  <1>16. q = 0 => d # 0  BY <1>1
  <1>17. d # 0 => Dig(d) # Dig(0)  BY <1>2 DEF Dig
  <1> QED  BY <1>1, <1>3, <1>4, <1>5, <1>15, <1>16, <1>17 DEF Taken

(* The buffer has room for the digits that are left.                        *)
LEMMA DigitFits ==
  ASSUME NEW B \in Nat, NEW n \in 0 .. B, NEW m \in Nat, m # 0, m < Pow(10, B - n)
  PROVE  n + 1 \in 0 .. B /\ m \div 10 < Pow(10, B - (n + 1))
  <1>1. n # B
    <2>1. SUFFICES ASSUME n = B  PROVE FALSE  OBVIOUS
    <2>2. B - n = 0  BY <2>1
    <2>3. Pow(10, B - n) = 1  BY <2>2, PowStep
    <2> QED  BY <2>3
  <1>2. PICK j : j = B - (n + 1) /\ j \in Nat /\ B - n = j + 1  BY <1>1
  <1>3. PICK p : p = Pow(10, j) /\ p \in Nat  BY <1>2, PowPositive
  <1>4. m < 10 * p  BY <1>2, <1>3, PowStep
  <1>5. m \div 10 < p  BY <1>3, <1>4
  <1> QED  BY <1>1, <1>2, <1>3, <1>5

-----------------------------------------------------------------------------
(* The inductive invariant of printf.                                       *)

Size(c) == IF c = "d" THEN BUF_D ELSE BUF_U

(* The digits so far and those to come fit the buffer.                      *)
DigitsOK(c, m, b) ==
  /\ m \in Int /\ b \in Seq(DigitSet) /\ Len(b) \in 0 .. Size(c)
  /\ m > 0 => m < Pow(10, Size(c) - Len(b))

Abs(n) == IF n < 0 THEN -n ELSE n

Sign(n) == IF n < 0 THEN <<Chr("-")>> ELSE <<>>

(* What the conversion c of n should have printed.                          *)
Printed(c, n, o) ==
  c # "s" =>
    IF c = "x"
    THEN /\ SubSeq(o, 1, 2) = <<Chr("0"), Chr("x")>> /\ Len(o) = 2 + LONG_BITS \div 4
         /\ Value(SubSeq(o, 3, Len(o)), 16) = n
    ELSE n # INT_MIN =>
           Shows(n, o, 10) /\ (n # 0 => o[IF n < 0 THEN 2 ELSE 1] # Dig(0))

(* The digits in the buffer and the number still to convert make up n.      *)
Pending(n, m, b) ==
  /\ m \in Nat /\ Abs(n) = m * Pow(10, Len(b)) + Value(Reverse(b), 10)
  /\ m = 0 => Len(b) > 0 /\ b[Len(b)] # Dig(0)

NumberOK(c, n, cv, k, m, b, o) ==
  /\ cv = "walk" => (k = 1 /\ o = <<>>) \/ (k = 3 /\ Printed(c, n, o))
  /\ cv = "done" => Printed(c, n, o)
  /\ cv \in {"d", "u"} => /\ c \notin {"s", "x"} /\ k = 3 /\ n # 0 /\ n \in Int /\ o = Sign(n)
                          /\ n # INT_MIN => Pending(n, m, b)

PrintfInv ==
  /\ conv \in {"idle", "walk", "d", "u", "done"}
  /\ conv = "idle" => call = <<<<>>, <<>>>> /\ i = 1 /\ next = 1 /\ out = <<>>
  /\ conv # "idle" => call \in Formats /\ AtPlace(call, i, next)
  /\ conv = "done" => i = Len(call[1]) + 1
  /\ conv \in {"d", "u"} => DigitsOK(conv, num, buf)
  /\ conv # "idle" /\ Single(call) =>
       NumberOK(call[1][2], call[2][1], conv, i, num, buf, out)

LEMMA IntMinIs ==
  INT_MIN \in Int /\ INT_MIN < 0 /\ -INT_MIN <= Pow(10, BUF_D) /\ BUF_D \in Nat /\ BUF_U \in Nat
  /\ Pow(10, BUF_D) \in Nat
  <1>1. INT_BITS - 1 \in Nat /\ Pow(2, INT_BITS - 1) <= Pow(10, BUF_D) /\ BUF_D \in Nat
        /\ BUF_U \in Nat
    BY PrintfAssumption
  <1>2. PICK p : p = Pow(2, INT_BITS - 1) /\ p \in Nat \ {0}  BY <1>1, PowPositive
  <1>3. Pow(10, BUF_D) \in Nat  BY <1>1, PowPositive
  <1>4. INT_MIN = -p  BY <1>2 DEF INT_MIN
  <1> QED  BY <1>1, <1>2, <1>3, <1>4

LEMMA PrintfStarts == PrintfInit => PrintfInv
  BY DEF PrintfInit, PrintfInv

-----------------------------------------------------------------------------
(* What is printed in the end.                                              *)

LEMMA DivNat ==
  ASSUME NEW n \in Nat, NEW q \in Nat \ {0}  PROVE n \div q \in Nat
  OBVIOUS

LEMMA HeadIs ==
  ASSUME NEW D, NEW o \in Seq(D), Len(o) > 0  PROVE Head(o) = o[1]
  OBVIOUS

(* The sequence w is u and then v.                                          *)
Joined(D, u, v, w) ==
  /\ w \in Seq(D) /\ Len(w) = Len(u) + Len(v)
  /\ \A k \in 1 .. Len(u) : w[k] = u[k]
  /\ \A k \in 1 .. Len(v) : w[k + Len(u)] = v[k]

LEMMA ConcatIs ==
  ASSUME NEW D, NEW u \in Seq(D), NEW v \in Seq(D)
  PROVE  Joined(D, u, v, u \o v)
  BY DEF Joined

LEMMA SameSeq ==
  ASSUME NEW D, NEW u \in Seq(D), NEW v \in Seq(D), Len(u) = Len(v),
         \A k \in 1 .. Len(u) : u[k] = v[k]
  PROVE  u = v
  <1>1. u = [k \in 1 .. Len(u) |-> u[k]] /\ v = [k \in 1 .. Len(u) |-> v[k]]  OBVIOUS
  <1> QED  BY <1>1

LEMMA ValueNat ==
  ASSUME NEW r \in Seq(DigitSet)  PROVE Value(r, 10) \in Nat
  <1>1. PICK N : N = Len(r) /\ N \in Nat  OBVIOUS
  <1>2. PICK f : Sums(r, 10, N, f)  BY <1>1, ValueEquation
  <1>3. \A k \in 1 .. N : r[k][2] \in Nat
    <2>1. \A k \in 1 .. N : r[k] \in DigitSet  BY <1>1
    <2> QED  BY <2>1, DigitIs
  <1>4. \A k \in 0 .. N : f[k] \in Nat  BY <1>1, <1>2, <1>3, SumsNat
  <1>5. f[N] = Value(r, 10) /\ N \in 0 .. N  BY <1>1, <1>2 DEF Sums
  <1> QED  BY <1>4, <1>5

LEMMA NumberPrinted ==
  ASSUME NEW c, c \notin {"s", "x"}, NEW n \in Int, n # 0, NEW b \in Seq(DigitSet),
         NEW m, ~(m > 0), Pending(n, m, b), NEW o, o = Sign(n) \o Reverse(b)
  PROVE  Printed(c, n, o)
  <1>1. m = 0 /\ Len(b) > 0 /\ b[Len(b)] # Dig(0)
        /\ Abs(n) = m * Pow(10, Len(b)) + Value(Reverse(b), 10)
    BY DEF Pending
  <1>2. PICK r, N : r = Reverse(b) /\ N = Len(b)  OBVIOUS
  <1>3. /\ r \in Seq(DigitSet) /\ Len(r) = N /\ N \in Nat
        /\ \A k \in 1 .. N : r[k] = b[(N - k) + 1]
    BY <1>2, ReverseIs
  <1>4. r[1] # Dig(0)
    <2>1. 1 \in 1 .. N /\ (N - 1) + 1 = N  BY <1>1, <1>2, <1>3
    <2>2. r[1] = b[N]  BY <1>3, <2>1
    <2> QED  BY <1>1, <1>2, <2>2
  <1>5. Value(r, 10) = Abs(n)
    <2>1. Value(r, 10) \in Nat  BY <1>3, ValueNat
    <2>2. PICK p : p = Pow(10, Len(b)) /\ p \in Nat  BY <1>2, <1>3, PowPositive
    <2>3. 0 * p = 0  BY <2>2
    <2> QED  BY <1>1, <1>2, <2>1, <2>2, <2>3
  <1>6. \A k \in 1 .. Len(r) : r[k][1] = "d"
    <2>1. \A k \in 1 .. Len(r) : r[k] \in DigitSet  BY <1>3
    <2> QED  BY <2>1, DigitIs
  <1>7. r # <<>>  BY <1>1, <1>2, <1>3
  <1>8. CASE n < 0
    <2>1. o = <<Chr("-")>> \o r  BY <1>2, <1>8 DEF Sign
    <2>2. PICK h : h = Chr("-")  OBVIOUS
    <2>3. PICK D : D = DigitSet \cup {h}  OBVIOUS
    <2>4. r \in Seq(D) /\ <<h>> \in Seq(D) /\ Len(<<h>>) = 1
      <3>1. r \in [1 .. Len(r) -> D] /\ Len(r) \in Nat  BY <1>3, <2>3
      <3> QED  BY <2>3, <3>1
    <2>5. o \in Seq(D) /\ Len(o) = 1 + N /\ o[1] = h /\ \A k \in 1 .. N : o[k + 1] = r[k]
      BY <1>3, <2>1, <2>2, <2>4
    <2>6. Head(o) = Chr("-")
      <3>1. Len(o) > 0  BY <1>3, <2>5
      <3> QED  BY <2>2, <2>5, <3>1, HeadIs
    <2>7. Tail(o) = r
      <3>1. Tail(o) \in Seq(D) /\ Len(Tail(o)) = N /\ \A k \in 1 .. N : Tail(o)[k] = o[k + 1]
        BY <1>3, <2>5
      <3>2. \A k \in 1 .. N : Tail(o)[k] = r[k]  BY <2>5, <3>1
      <3> QED  BY <1>3, <2>4, <3>1, <3>2, SameSeq
    <2>8. Shows(n, o, 10)
      BY <1>5, <1>6, <1>7, <1>8, <2>6, <2>7 DEF Shows, Abs
    <2>9. o[2] # Dig(0)
      <3>1. 1 \in 1 .. N /\ 1 + 1 = 2  BY <1>1, <1>2, <1>3
      <3> QED  BY <1>4, <2>5, <3>1
    <2> QED  BY <1>8, <2>8, <2>9 DEF Printed
  <1>9. CASE ~(n < 0)
    <2>1. o = r  BY <1>2, <1>3, <1>9 DEF Sign
    <2>2. Shows(n, o, 10)  BY <1>5, <1>6, <1>7, <1>9, <2>1 DEF Shows, Abs
    <2> QED  BY <1>4, <1>9, <2>1, <2>2 DEF Printed
  <1> QED  BY <1>8, <1>9

LEMMA ZeroPrinted ==
  ASSUME NEW c, c \notin {"s", "x"}, NEW o, o = Append(<<>>, Dig(0))
  PROVE  Printed(c, 0, o)
  <1>1. Len(o) = 1 /\ o[1] = Dig(0) /\ o # <<>>  OBVIOUS
  <1>2. PICK f : Sums(o, 10, 1, f)  BY <1>1, ValueEquation
  <1>3. f[0] = 0 /\ f[1] = Value(o, 10) /\ f[1] = 10 * f[1 - 1] + o[1][2]
    BY <1>2 DEF Sums
  <1>4. o[1][2] = 0 /\ o[1][1] = "d"  BY <1>1 DEF Dig
  <1>5. Value(o, 10) = 0
    <2>1. 1 - 1 = 0 /\ 10 * 0 + 0 = 0  OBVIOUS
    <2> QED  BY <1>3, <1>4, <2>1
  <1>6. \A k \in 1 .. Len(o) : o[k][1] = "d"
    <2>1. \A k \in 1 .. 1 : k = 1  OBVIOUS
    <2> QED  BY <1>1, <1>4, <2>1
  <1>7. ~(0 < 0)  OBVIOUS
  <1>8. Shows(0, o, 10)  BY <1>1, <1>5, <1>6, <1>7 DEF Shows
  <1> QED  BY <1>8 DEF Printed

LEMMA HexPrinted ==
  ASSUME NEW n \in Nat, n < Pow(2, LONG_BITS),
         NEW o, o = <<>> \o <<Chr("0"), Chr("x")>> \o Hex(n)
  PROVE  Printed("x", n, o)
  <1>1. PICK h, L : h = Hex(n) /\ L = HexDigits  OBVIOUS
  <1>2. Len(h) = L /\ Value(h, 16) = n  BY <1>1, HexValue
  <1>3. L \in Nat  BY <1>1, HexFacts
  <1>4. PICK a, b : a = Chr("0") /\ b = Chr("x")  OBVIOUS
  <1>5. PICK D : D = {"d"} \X Nat \cup {a, b}  OBVIOUS
  <1>6. h \in Seq(D)
    <2>1. h = [k \in 1 .. L |-> Dig((n \div Pow(16, L - k)) % 16)]
      BY <1>1 DEF Hex, HexDigits
    <2>2. ASSUME NEW k \in 1 .. L  PROVE Dig((n \div Pow(16, L - k)) % 16) \in D
      <3>0. L - k \in Nat  BY <1>3
      <3>p. PICK q : q = Pow(16, L - k)  OBVIOUS
      <3>q. 16 \in Nat \ {0}  OBVIOUS
      <3>r. Pow(16, L - k) \in Nat \ {0}  BY <3>0, <3>q, PowPositive, Zenon
      <3>1. q = Pow(16, L - k) /\ q \in Nat \ {0}  BY <3>p, <3>r, Zenon
      <3>2. (n \div q) \in Nat  BY <3>1, DivNat
      <3>3. (n \div q) % 16 \in Nat  BY <3>2
      <3> QED  BY <1>5, <3>1, <3>3 DEF Dig
    <2>3. h \in [1 .. L -> D]  BY <2>1, <2>2
    <2> QED  BY <1>3, <2>3
  <1>7. <<a, b>> \in Seq(D) /\ Len(<<a, b>>) = 2  BY <1>5
  <1>8. o = <<a, b>> \o h
    <2>1. <<>> \o <<a, b>> = <<a, b>>  BY <1>7
    <2> QED  BY <1>1, <1>4, <2>1
  <1>9. /\ o \in Seq(D) /\ Len(o) = 2 + L /\ o[1] = a /\ o[2] = b
        /\ \A k \in 1 .. L : o[k + 2] = h[k]
    <2>1. PICK u : u = <<a, b>>  OBVIOUS
    <2>2. u \in Seq(D) /\ Len(u) = 2 /\ u[1] = a /\ u[2] = b  BY <1>7, <2>1
    <2>3. /\ o \in Seq(D) /\ Len(o) = Len(u) + Len(h)
          /\ \A k \in 1 .. Len(u) : o[k] = u[k]
          /\ \A k \in 1 .. Len(h) : o[k + Len(u)] = h[k]
      <3>1. o = u \o h  BY <1>8, <2>1
      <3>2. u \in Seq(D) /\ h \in Seq(D)  BY <1>6, <2>2
      <3>3. Joined(D, u, h, u \o h)  BY <3>2, ConcatIs
      <3> QED  BY <3>1, <3>3 DEF Joined
    <2>4. 1 \in 1 .. 2 /\ 2 \in 1 .. 2  OBVIOUS
    <2> QED  BY <1>2, <2>2, <2>3, <2>4
  <1>10. SubSeq(o, 1, 2) = <<a, b>>
    <2>1. PICK s : s = SubSeq(o, 1, 2)  OBVIOUS
    <2>2. s \in Seq(D) /\ Len(s) = 2 /\ s[1] = a /\ s[2] = b  BY <1>3, <1>9, <2>1
    <2>3. PICK u : u = <<a, b>> /\ u[1] = a /\ u[2] = b /\ u \in Seq(D) /\ Len(u) = 2
      BY <1>7
    <2>4. \A k \in 1 .. 2 : k = 1 \/ k = 2  OBVIOUS
    <2>5. \A k \in 1 .. Len(s) : s[k] = u[k]  BY <2>2, <2>3, <2>4
    <2>6. s = u  BY <2>2, <2>3, <2>5, SameSeq
    <2> QED  BY <2>1, <2>3, <2>6
  <1>11. SubSeq(o, 3, Len(o)) = h
    <2>1. PICK s : s = SubSeq(o, 3, Len(o))  OBVIOUS
    <2>2. s \in Seq(D) /\ Len(s) = L /\ \A k \in 1 .. L : s[k] = o[k + 2]
      BY <1>3, <1>9, <2>1
    <2>3. \A k \in 1 .. L : s[k] = h[k]  BY <1>9, <2>2
    <2>4. s = [k \in 1 .. L |-> s[k]] /\ h = [k \in 1 .. L |-> h[k]]  BY <1>2, <1>6, <2>2
    <2>5. s = h  BY <2>3, <2>4
    <2> QED  BY <2>1, <2>5
  <1> QED  BY <1>1, <1>2, <1>4, <1>9, <1>10, <1>11 DEF Printed, HexDigits

-----------------------------------------------------------------------------
(* The steps of printf.                                                     *)

LEMMA WalkFacts ==
  ASSUME PrintfInv, Walking
  PROVE  /\ call \in Formats /\ AtPlace(call, i, next) /\ i <= Len(call[1])
         /\ Single(call) => i = 1 /\ next = 1 /\ out = <<>> /\ fmt[i] = "%"
  <1>1. conv = "walk" /\ i <= Len(call[1])  BY DEF Walking, fmt
  <1>2. call \in Formats /\ AtPlace(call, i, next)  BY <1>1 DEF PrintfInv
  <1>3. ASSUME Single(call)  PROVE i = 1 /\ next = 1 /\ out = <<>> /\ fmt[i] = "%"
    <2>1. NumberOK(call[1][2], call[2][1], conv, i, num, buf, out)
      BY <1>1, <1>3 DEF PrintfInv
    <2>2. i # 3  BY <1>1, <1>3 DEF Single
    <2>3. i = 1 /\ out = <<>>  BY <1>1, <2>1, <2>2 DEF NumberOK
    <2>4. next = 1  BY <1>2, <2>3, FirstPlace
    <2>5. call[1][1] = "%"  BY <1>2, <1>3, SingleIs
    <2> QED  BY <2>3, <2>4, <2>5 DEF fmt
  <1> QED  BY <1>1, <1>2, <1>3

(* A step that leaves printf between two conversions.                       *)
LEMMA WalkKeeps ==
  ASSUME NEW c \in Formats, call' = c, conv' = "walk", AtPlace(c, i', next'),
         Single(c) => \/ i' = 1 /\ out' = <<>>
                      \/ i' = 3 /\ Printed(c[1][2], c[2][1], out')
  PROVE  PrintfInv'
  <1>1. Single(c) => NumberOK(c[1][2], c[2][1], "walk", i', num', buf', out')
    BY DEF NumberOK
  <1> QED  BY <1>1 DEF PrintfInv

LEMMA CallKeeps ==
  ASSUME PrintfInv, NEW c \in Formats, printf(c)  PROVE PrintfInv'
  <1>1. call' = c /\ conv' = "walk" /\ i' = 1 /\ next' = 1 /\ out' = <<>>
    BY DEF printf, PrintfInv
  <1>2. AtPlace(c, 1, 1)  BY FirstPlace
  <1> QED  BY <1>1, <1>2, WalkKeeps

LEMMA PlainKeeps ==
  ASSUME PrintfInv, PutPlain  PROVE PrintfInv'
  <1>1. Walking /\ fmt[i] # "%" /\ call' = call /\ conv' = "walk" /\ i' = i + 1 /\ next' = next
    BY DEF PutPlain, Walking
  <1>2. /\ call \in Formats /\ AtPlace(call, i, next) /\ i <= Len(call[1]) /\ ~Single(call)
        /\ call[1][i] # "%"
    BY <1>1, WalkFacts DEF fmt
  <1>3. AtPlace(call, i + 1, next)  BY <1>2, PlainPlace
  <1>4. AtPlace(call, i', next')  BY <1>1, <1>3
  <1> QED  BY <1>1, <1>2, <1>4, WalkKeeps

(* The character behind the % and its argument.                             *)
LEMMA ConvFacts ==
  ASSUME PrintfInv, NEW t, Conv(t)
  PROVE  /\ Walking /\ call \in Formats /\ call[1][i + 1] = t
         /\ t \notin Takes => AtPlace(call, i + 2, next)
         /\ t \in Takes => AtPlace(call, i + 2, next + 1) /\ Arg \in Passed(t)
         /\ Single(call) => /\ call[1][2] = t /\ t \in Takes /\ call[2][1] = Arg /\ i + 2 = 3
                            /\ out = <<>>
  <1>1. Walking /\ call[1][i] = "%" /\ i < Len(call[1]) /\ call[1][i + 1] = t
    BY DEF Conv, fmt
  <1>2. /\ call \in Formats /\ AtPlace(call, i, next)
        /\ Single(call) => i = 1 /\ next = 1 /\ out = <<>>
    BY <1>1, WalkFacts
  <1>3. /\ t \notin Takes => AtPlace(call, i + 2, next)
        /\ t \in Takes => AtPlace(call, i + 2, next + 1) /\ call[2][next] \in Passed(t)
    <2>1. /\ call[1][i + 1] \notin Takes => AtPlace(call, i + 2, next)
          /\ call[1][i + 1] \in Takes => /\ AtPlace(call, i + 2, next + 1)
                                         /\ call[2][next] \in Passed(call[1][i + 1])
      BY <1>1, <1>2, ConversionPlace
    <2> QED  BY <1>1, <2>1
  <1>4. ASSUME Single(call)  PROVE call[1][2] = t /\ t \in Takes /\ i + 2 = 3
    <2>1. i + 1 = 2 /\ i + 2 = 3  BY <1>2, <1>4
    <2> QED  BY <1>1, <1>2, <1>4, <2>1, SingleIs
  <1> QED  BY <1>1, <1>2, <1>3, <1>4 DEF Arg

LEMMA PercentKeeps ==
  ASSUME PrintfInv, PutPercent  PROVE PrintfInv'
  <1>1. Conv("%") /\ call' = call /\ i' = i + 2 /\ next' = next /\ conv' = conv
    BY DEF PutPercent
  <1>2. "%" \notin Takes  BY DEF Takes
  <1>3. Walking /\ call \in Formats /\ AtPlace(call, i + 2, next) /\ ~Single(call)
    BY <1>1, <1>2, ConvFacts
  <1>4. conv' = "walk"  BY <1>1, <1>3 DEF Walking
  <1>5. AtPlace(call, i', next')  BY <1>1, <1>3
  <1> QED  BY <1>1, <1>3, <1>4, <1>5, WalkKeeps

LEMMA UnknownKeeps ==
  ASSUME PrintfInv, PutUnknown  PROVE PrintfInv'
  <1>1. PICK t : t = call[1][i + 1]  OBVIOUS
  <1>2. /\ Conv(t) /\ t \notin Takes /\ call' = call /\ i' = i + 2 /\ next' = next
        /\ conv' = conv
    BY <1>1 DEF PutUnknown, Conv, fmt
  <1>3. Walking /\ call \in Formats /\ AtPlace(call, i + 2, next) /\ ~Single(call)
    BY <1>2, ConvFacts
  <1>4. conv' = "walk"  BY <1>2, <1>3 DEF Walking
  <1>5. AtPlace(call, i', next')  BY <1>2, <1>3
  <1> QED  BY <1>2, <1>3, <1>4, <1>5, WalkKeeps

LEMMA ArgumentKeeps ==
  ASSUME PrintfInv, PutArgument  PROVE PrintfInv'
  <1>1. Conv("s") /\ call' = call /\ i' = i + 2 /\ next' = next + 1 /\ conv' = conv
    BY DEF PutArgument
  <1>2. "s" \in Takes  BY DEF Takes
  <1>3. /\ Walking /\ call \in Formats /\ AtPlace(call, i + 2, next + 1)
        /\ Single(call) => call[1][2] = "s" /\ i + 2 = 3
    BY <1>1, <1>2, ConvFacts
  <1>4. conv' = "walk"  BY <1>1, <1>3 DEF Walking
  <1>5. AtPlace(call, i', next')  BY <1>1, <1>3
  <1>6. Single(call) => i' = 3 /\ Printed(call[1][2], call[2][1], out')
    BY <1>1, <1>3 DEF Printed
  <1> QED  BY <1>1, <1>3, <1>4, <1>5, <1>6, WalkKeeps

LEMMA HexKeeps ==
  ASSUME PrintfInv, PutHex  PROVE PrintfInv'
  <1>1. /\ Conv("x") /\ call' = call /\ i' = i + 2 /\ next' = next + 1 /\ conv' = conv
        /\ out' = out \o <<Chr("0"), Chr("x")>> \o Hex(Arg)
    BY DEF PutHex
  <1>2. "x" \in Takes  BY DEF Takes
  <1>3. /\ Walking /\ call \in Formats /\ AtPlace(call, i + 2, next + 1) /\ Arg \in Passed("x")
        /\ Single(call) => call[1][2] = "x" /\ i + 2 = 3 /\ out = <<>> /\ call[2][1] = Arg
    BY <1>1, <1>2, ConvFacts
  <1>4. conv' = "walk"  BY <1>1, <1>3 DEF Walking
  <1>5. AtPlace(call, i', next')  BY <1>1, <1>3
  <1>6. ASSUME Single(call)  PROVE Printed(call[1][2], call[2][1], out')
    <2>1. PICK n, o : n = Arg /\ o = out'  OBVIOUS
    <2>2. n \in 0 .. Pow(2, LONG_BITS) - 1  BY <1>3, <2>1 DEF Passed
    <2>3. n \in Nat /\ n < Pow(2, LONG_BITS)  BY <2>2, HexFacts
    <2>4. o = <<>> \o <<Chr("0"), Chr("x")>> \o Hex(n)  BY <1>1, <1>3, <1>6, <2>1
    <2>5. Printed("x", n, o)  BY <2>3, <2>4, HexPrinted
    <2> QED  BY <1>3, <1>6, <2>1, <2>5
  <1>7. Single(call) => i' = 3 /\ Printed(call[1][2], call[2][1], out')
    BY <1>1, <1>3, <1>6
  <1> QED  BY <1>1, <1>3, <1>4, <1>5, <1>7, WalkKeeps

LEMMA ZeroKeeps ==
  ASSUME PrintfInv, PutZero  PROVE PrintfInv'
  <1>1. PICK t \in {"d", "u"} : Conv(t)  BY DEF PutZero
  <1>2. /\ call' = call /\ i' = i + 2 /\ next' = next + 1 /\ conv' = conv
        /\ out' = Append(out, Dig(0)) /\ Arg = 0
    BY DEF PutZero
  <1>3. t \in Takes /\ t \notin {"s", "x"}  BY <1>1 DEF Takes
  <1>4. /\ Walking /\ call \in Formats /\ AtPlace(call, i + 2, next + 1)
        /\ Single(call) => call[1][2] = t /\ i + 2 = 3 /\ out = <<>> /\ call[2][1] = Arg
    BY <1>1, <1>3, ConvFacts
  <1>5. conv' = "walk"  BY <1>2, <1>4 DEF Walking
  <1>6. AtPlace(call, i', next')  BY <1>2, <1>4
  <1>7. ASSUME Single(call)  PROVE Printed(call[1][2], call[2][1], out')
    <2>1. PICK o : o = Append(<<>>, Dig(0))  OBVIOUS
    <2>2. Printed(t, 0, o)  BY <1>3, <2>1, ZeroPrinted
    <2> QED  BY <1>2, <1>4, <1>7, <2>1, <2>2
  <1>8. Single(call) => i' = 3 /\ Printed(call[1][2], call[2][1], out')
    BY <1>2, <1>4, <1>7
  <1> QED  BY <1>2, <1>4, <1>5, <1>6, <1>8, WalkKeeps

LEMMA NothingPending ==
  ASSUME NEW n, NEW m \in Nat \ {0}, m = Abs(n)  PROVE Pending(n, m, <<>>)
  <1>1. Len(<<>>) = 0 /\ <<>> \in Seq(DigitSet)  OBVIOUS
  <1>2. PICK r : r = Reverse(<<>>)  OBVIOUS
  <1>3. Len(r) = 0  BY <1>1, <1>2, ReverseIs
  <1>p. PICK N : N = 0 /\ N \in Nat /\ N = Len(r)  BY <1>3
  <1>4. PICK f : Sums(r, 10, N, f)  BY <1>p, ValueEquation
  <1>5. Value(r, 10) = 0  BY <1>p, <1>4 DEF Sums
  <1>6. Pow(10, 0) = 1 /\ m * 1 + 0 = m  BY PowStep
  <1>7. Abs(n) = m * Pow(10, Len(<<>>)) + Value(r, 10)  BY <1>1, <1>5, <1>6
  <1> QED  BY <1>2, <1>7 DEF Pending

(* The number whose digits are collected.                                   *)
LEMMA MagnitudeIs ==
  ASSUME NEW t \in {"d", "u"}, NEW n \in Passed(t), n # 0, NEW m, m = Magnitude(n)
  PROVE  /\ n \in Int /\ DigitsOK(t, m, <<>>)
         /\ n # INT_MIN => Pending(n, m, <<>>)
  <1>1. INT_MIN \in Int /\ INT_MIN < 0 /\ -INT_MIN <= Pow(10, BUF_D) /\ BUF_D \in Nat
        /\ BUF_U \in Nat /\ Pow(10, BUF_D) \in Nat
    BY IntMinIs
  <1>2. Len(<<>>) = 0 /\ <<>> \in Seq(DigitSet)  OBVIOUS
  <1>3. CASE t = "d"
    <2>1. n \in INT_MIN .. -INT_MIN - 1  BY <1>3 DEF Passed
    <2>2. n \in Int /\ m \in Int  BY <1>1, <2>1 DEF Magnitude, Negate
    <2>3. m > 0 => m < Pow(10, BUF_D)  BY <1>1, <2>1 DEF Magnitude, Negate
    <2>4. n # INT_MIN => m \in Nat \ {0} /\ m = Abs(n)
      BY <1>1, <2>1 DEF Magnitude, Negate, Abs
    <2>5. Size(t) = BUF_D /\ BUF_D - 0 = BUF_D  BY <1>1, <1>3 DEF Size
    <2> QED  BY <1>1, <1>2, <2>2, <2>3, <2>4, <2>5, NothingPending DEF DigitsOK
  <1>4. CASE t = "u"
    <2>1. n \in 0 .. Pow(2, LONG_BITS) - 1  BY <1>4 DEF Passed
    <2>2. Pow(2, LONG_BITS) <= Pow(10, BUF_U) /\ Pow(10, BUF_U) \in Nat
      BY <1>1, PrintfAssumption, PowPositive
    <2>3. Pow(2, LONG_BITS) \in Nat  BY HexFacts
    <2>4. n \in Nat /\ m = n  BY <2>1, <2>3 DEF Magnitude
    <2>5. m > 0 => m < Pow(10, BUF_U)  BY <2>1, <2>2, <2>3, <2>4
    <2>6. m = Abs(n) /\ m \in Nat \ {0}  BY <2>4 DEF Abs
    <2>7. Size(t) = BUF_U /\ BUF_U - 0 = BUF_U  BY <1>1, <1>4 DEF Size
    <2>8. DigitsOK(t, m, <<>>)  BY <1>1, <1>2, <2>4, <2>5, <2>7 DEF DigitsOK
    <2>9. Pending(n, m, <<>>)  BY <2>6, NothingPending
    <2> QED  BY <2>4, <2>8, <2>9
  <1> QED  BY <1>3, <1>4

LEMMA BeginKeeps ==
  ASSUME PrintfInv, BeginNumber  PROVE PrintfInv'
  <1>1. PICK t \in {"d", "u"} : Conv(t)  BY DEF BeginNumber
  <1>2. PICK n, m : n = Arg /\ m = Magnitude(n)  OBVIOUS
  <1>3. /\ call' = call /\ i' = i + 2 /\ next' = next + 1 /\ conv' = call[1][i + 1]
        /\ out' = (IF n < 0 THEN Append(out, Chr("-")) ELSE out) /\ num' = m /\ buf' = <<>>
        /\ n # 0
    BY <1>2 DEF BeginNumber, fmt
  <1>4. t \in Takes /\ t \notin {"s", "x"}  BY <1>1 DEF Takes
  <1>5. /\ Walking /\ call \in Formats /\ AtPlace(call, i + 2, next + 1)
        /\ n \in Passed(t) /\ call[1][i + 1] = t
        /\ Single(call) => call[1][2] = t /\ i + 2 = 3 /\ out = <<>> /\ call[2][1] = n
    BY <1>1, <1>2, <1>4, ConvFacts
  <1>6. n \in Int /\ DigitsOK(t, m, <<>>) /\ (n # INT_MIN => Pending(n, m, <<>>))
    BY <1>2, <1>3, <1>5, MagnitudeIs
  <1>7. AtPlace(call, i', next')  BY <1>3, <1>5
  <1>8. Single(call) => out' = Sign(n)
    <2>1. Append(<<>>, Chr("-")) = <<Chr("-")>>  OBVIOUS
    <2> QED  BY <1>3, <1>5, <2>1 DEF Sign
  <1>9. ASSUME Single(call)
        PROVE  NumberOK(call[1][2], call[2][1], t, i', num', buf', out')
    <2>1. i' = 3  BY <1>3, <1>5, <1>9
    <2> QED  BY <1>1, <1>3, <1>4, <1>5, <1>6, <1>8, <1>9, <2>1 DEF NumberOK
  <1>10. DigitsOK(t, num', buf')  BY <1>3, <1>6
  <1>11. t # "idle" /\ t # "walk" /\ t # "done" /\ conv' = t  BY <1>1, <1>3, <1>5
  <1> QED  BY <1>1, <1>3, <1>5, <1>7, <1>9, <1>10, <1>11 DEF PrintfInv

LEMMA DigitKeeps ==
  ASSUME PrintfInv, NextDigit  PROVE PrintfInv'
  <1>1. PICK t, m, b, q, c : /\ t = conv /\ m = num /\ b = buf /\ q = num'
                             /\ c = buf'
    OBVIOUS
  <1>2. /\ t \in {"d", "u"} /\ m > 0 /\ c = Append(b, Dig(m % 10)) /\ q = m \div 10
        /\ call' = call /\ i' = i /\ next' = next /\ conv' = t /\ out' = out
    BY <1>1 DEF NextDigit
  <1>3. DigitsOK(t, m, b)  BY <1>1, <1>2 DEF PrintfInv
  <1>4. /\ m \in Nat /\ m # 0 /\ b \in Seq(DigitSet) /\ Len(b) \in 0 .. Size(t)
        /\ m < Pow(10, Size(t) - Len(b)) /\ Size(t) \in Nat
    BY <1>2, <1>3, IntMinIs DEF DigitsOK, Size
  <1>5. Len(b) + 1 \in 0 .. Size(t) /\ m \div 10 < Pow(10, Size(t) - (Len(b) + 1))
    BY <1>4, DigitFits
  <1>6. PICK v : v = m * Pow(10, Len(b)) + Value(Reverse(b), 10)  OBVIOUS
  <1>p. Taken(v, q, c, Len(b))  BY <1>2, <1>4, <1>6, DigitExact
  <1>7. /\ c \in Seq(DigitSet) /\ Len(c) = Len(b) + 1 /\ q \in Nat
        /\ v = q * Pow(10, Len(c)) + Value(Reverse(c), 10)
        /\ q = 0 => c[Len(c)] # Dig(0)
    BY <1>p DEF Taken
  <1>8. DigitsOK(t, q, c)
    <2>1. q \in Int  BY <1>7
    <2> QED  BY <1>2, <1>5, <1>7, <2>1 DEF DigitsOK
  <1>9. ASSUME Single(call)
        PROVE  NumberOK(call[1][2], call[2][1], t, i', q, c, out')
    <2>1. NumberOK(call[1][2], call[2][1], t, i, m, b, out)
      BY <1>1, <1>2, <1>9 DEF PrintfInv
    <2>2. PICK n : n = call[2][1]  OBVIOUS
    <2>3. /\ call[1][2] \notin {"s", "x"} /\ i = 3 /\ n # 0 /\ n \in Int /\ out = Sign(n)
          /\ n # INT_MIN => Pending(n, m, b)
      BY <1>2, <2>1, <2>2 DEF NumberOK
    <2>4. ASSUME n # INT_MIN  PROVE Pending(n, q, c)
      <3>1. Abs(n) = v  BY <1>6, <2>3, <2>4 DEF Pending
      <3>2. Len(c) > 0  BY <1>4, <1>7
      <3> QED  BY <1>7, <3>1, <3>2 DEF Pending
    <2> QED  BY <1>2, <2>2, <2>3, <2>4 DEF NumberOK
  <1>10. /\ call \in Formats /\ AtPlace(call, i, next)
    BY <1>1, <1>2 DEF PrintfInv
  <1>11. AtPlace(call, i', next')  BY <1>2, <1>10
  <1> QED  BY <1>1, <1>2, <1>8, <1>9, <1>10, <1>11 DEF PrintfInv

LEMMA EndKeeps ==
  ASSUME PrintfInv, EndNumber  PROVE PrintfInv'
  <1>1. PICK t, m, b, o : t = conv /\ m = num /\ b = buf /\ o = out'  OBVIOUS
  <1>2. /\ t \in {"d", "u"} /\ m <= 0 /\ o = out \o Reverse(b)
        /\ call' = call /\ i' = i /\ next' = next /\ conv' = "walk"
    BY <1>1 DEF EndNumber, Digits
  <1>3. m \in Int /\ b \in Seq(DigitSet)  BY <1>1, <1>2 DEF PrintfInv, DigitsOK
  <1>4. call \in Formats /\ AtPlace(call, i, next)  BY <1>1, <1>2 DEF PrintfInv
  <1>5. ASSUME Single(call)  PROVE i' = 3 /\ Printed(call[1][2], call[2][1], out')
    <2>1. NumberOK(call[1][2], call[2][1], t, i, m, b, out)
      BY <1>1, <1>2, <1>5 DEF PrintfInv
    <2>2. PICK n, c : n = call[2][1] /\ c = call[1][2]  OBVIOUS
    <2>3. /\ c \notin {"s", "x"} /\ i = 3 /\ n # 0 /\ n \in Int /\ out = Sign(n)
          /\ n # INT_MIN => Pending(n, m, b)
      BY <1>2, <2>1, <2>2 DEF NumberOK
    <2>4. CASE n = INT_MIN  BY <1>2, <2>2, <2>3, <2>4 DEF Printed
    <2>5. CASE n # INT_MIN
      <3>1. o = Sign(n) \o Reverse(b)  BY <1>2, <2>3
      <3>2. ~(m > 0)  BY <1>2, <1>3
      <3>3. Printed(c, n, o)  BY <1>3, <2>3, <2>5, <3>1, <3>2, NumberPrinted
      <3> QED  BY <1>1, <1>2, <2>2, <2>3, <3>3
    <2> QED  BY <2>4, <2>5
  <1>6. AtPlace(call, i', next')  BY <1>2, <1>4
  <1> QED  BY <1>2, <1>4, <1>5, <1>6, WalkKeeps

LEMMA ReturnKeeps ==
  ASSUME PrintfInv, PrintfReturn  PROVE PrintfInv'
  <1>1. /\ conv = "walk" /\ i > Len(call[1]) /\ conv' = "done"
        /\ call' = call /\ i' = i /\ next' = next /\ out' = out
    BY DEF PrintfReturn, fmt
  <1>2. call \in Formats /\ AtPlace(call, i, next)  BY <1>1 DEF PrintfInv
  <1>3. i = Len(call[1]) + 1
    <2>1. Len(call[1]) \in Nat  BY <1>2, CallFacts
    <2>2. i \in 1 .. Len(call[1]) + 1  BY <1>2 DEF AtPlace
    <2> QED  BY <1>1, <2>1, <2>2
  <1>4. ASSUME Single(call)
        PROVE  NumberOK(call[1][2], call[2][1], "done", i', num', buf', out')
    <2>1. NumberOK(call[1][2], call[2][1], "walk", i, num, buf, out)
      BY <1>1, <1>4 DEF PrintfInv
    <2>2. i # 1  BY <1>3, <1>4 DEF Single
    <2>3. Printed(call[1][2], call[2][1], out)  BY <2>1, <2>2 DEF NumberOK
    <2> QED  BY <1>1, <2>3 DEF NumberOK
  <1>5. AtPlace(call, i', next')  BY <1>1, <1>2
  <1> QED  BY <1>1, <1>2, <1>3, <1>4, <1>5 DEF PrintfInv

LEMMA PrintfKeeps == PrintfInv /\ [PrintfNext]_printfVars => PrintfInv'
  <1> SUFFICES ASSUME PrintfInv, [PrintfNext]_printfVars  PROVE PrintfInv'  OBVIOUS
  <1>1. CASE UNCHANGED printfVars  BY <1>1 DEF PrintfInv, printfVars
  <1>2. CASE PrintfNext
    BY <1>2, CallKeeps, PlainKeeps, PercentKeeps, ArgumentKeeps, UnknownKeeps, HexKeeps,
       ZeroKeeps, BeginKeeps, DigitKeeps, EndKeeps, ReturnKeeps
    DEF PrintfNext, PrintfStep
  <1> QED  BY <1>1, <1>2

LEMMA PrintfInvMeans == PrintfInv => PrintfTypeOK /\ NumbersExact
  <1> SUFFICES ASSUME PrintfInv  PROVE PrintfTypeOK /\ NumbersExact  OBVIOUS
  <1>1. i \in 1 .. Len(fmt) + 1 /\ next \in 1 .. Len(call[2]) + 1
    <2>1. CASE conv = "idle"
      <3>1. call[1] = <<>> /\ call[2] = <<>> /\ i = 1 /\ next = 1  BY <2>1 DEF PrintfInv
      <3> QED  BY <3>1 DEF fmt
    <2>2. CASE conv # "idle"
      <3>1. call \in Formats /\ AtPlace(call, i, next)  BY <2>2 DEF PrintfInv
      <3>2. next \in 1 .. Len(call[2]) + 1  BY <3>1, ArgumentInRange
      <3> QED  BY <3>1, <3>2 DEF AtPlace, fmt
    <2> QED  BY <2>1, <2>2
  <1>2. (conv = "d" => Len(buf) <= BUF_D) /\ (conv = "u" => Len(buf) <= BUF_U)
    <2>1. ASSUME conv \in {"d", "u"}  PROVE Len(buf) \in 0 .. Size(conv)
      BY <2>1 DEF PrintfInv, DigitsOK
    <2> QED  BY <2>1, IntMinIs DEF Size
  <1>3. PrintfTypeOK  BY <1>1, <1>2 DEF PrintfTypeOK, PrintfInv
  <1>4. NumbersExact
    <2>1. SUFFICES ASSUME conv = "done", Len(fmt) = 2, Len(call[2]) = 1, fmt[2] # "s"
                   PROVE  Printed(fmt[2], call[2][1], out)
      BY DEF NumbersExact, Printed
    <2>2. Single(call)  BY <2>1 DEF Single, fmt
    <2>3. NumberOK(call[1][2], call[2][1], "done", i, num, buf, out)
      BY <2>1, <2>2 DEF PrintfInv
    <2> QED  BY <2>3 DEF NumberOK, fmt
  <1> QED  BY <1>3, <1>4

-----------------------------------------------------------------------------
(* The output path as a whole.                                              *)

LEMMA OutputStep ==
  [Next]_vars => [ConsoleNext]_consoleVars /\ [PrintfNext]_printfVars
  BY DEF Next, vars, consoleVars, printfVars

LEMMA ConsoleCorrect == Spec => []ConsoleInv
  <1>1. Init => ConsoleInv  BY ConsoleStarts DEF Init
  <1>2. ConsoleInv /\ [Next]_vars => ConsoleInv'  BY ConsoleKeeps, OutputStep
  <1> QED  BY <1>1, <1>2, PTL DEF Spec

LEMMA PrintfCorrect == Spec => []PrintfInv
  <1>1. Init => PrintfInv  BY PrintfStarts DEF Init
  <1>2. PrintfInv /\ [Next]_vars => PrintfInv'  BY PrintfKeeps, OutputStep
  <1> QED  BY <1>1, <1>2, PTL DEF Spec

(* The cursor of putchar never leaves the screen and no store misses it,    *)
(* the position of console stays in its buffer, and the digits %d and %u    *)
(* collect fit theirs, whatever is printed and typed.                       *)
THEOREM OutputTypeCorrect == Spec => []TypeOK
  <1>1. ConsoleInv /\ PrintfInv => TypeOK  BY ConsoleInvMeans, PrintfInvMeans DEF TypeOK
  <1> QED  BY <1>1, ConsoleCorrect, PrintfCorrect, PTL

(* What strcmp and printf see after Enter is exactly the line the user      *)
(* edited, whatever older line the buffer still holds behind it.            *)
THEOREM LineAsTypedCorrect == Spec => []LineAsTyped
  <1>1. ConsoleInv => LineAsTyped  BY ConsoleInvMeans
  <1> QED  BY <1>1, ConsoleCorrect, PTL

(* scroll_screen and putchar keep the rows below the cursor blank, apart    *)
(* from those the kernel found on the screen.                               *)
THEOREM BlankAheadCorrect == Spec => []BlankAhead
  <1>1. ConsoleInv => BlankAhead  BY ConsoleInvMeans
  <1> QED  BY <1>1, ConsoleCorrect, PTL

(* While the line has not reached the right margin, letters and backspaces  *)
(* keep the screen showing the buffer, with both cursors behind it.         *)
THEOREM LineShownCorrect == Spec => []LineShown
  <1>1. ConsoleInv => LineShown  BY ConsoleInvMeans
  <1> QED  BY <1>1, ConsoleCorrect, PTL

(* %d, %u and %x print every number but the smallest int with exactly its   *)
(* value, without leading zeros in decimal, for every width of the types.   *)
THEOREM NumbersExactCorrect == Spec => []NumbersExact
  <1>1. PrintfInv => NumbersExact  BY PrintfInvMeans
  <1> QED  BY <1>1, PrintfCorrect, PTL

(* When printf returns it has taken every argument, none twice and none     *)
(* beyond the last: the safety half of ArgumentsUsed.                       *)
THEOREM ArgumentsTaken == Spec => [](conv = "done" => next = Len(call[2]) + 1)
  <1>1. PrintfInv => (conv = "done" => next = Len(call[2]) + 1)
    <2>1. SUFFICES ASSUME PrintfInv, conv = "done"  PROVE next = Len(call[2]) + 1  OBVIOUS
    <2>2. call \in Formats /\ AtPlace(call, i, next) /\ i = Len(call[1]) + 1
      BY <2>1 DEF PrintfInv
    <2> QED  BY <2>2, ArgumentInRange
  <1> QED  BY <1>1, PrintfCorrect, PTL
=============================================================================
