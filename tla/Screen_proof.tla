---------------------------- MODULE Screen_proof ----------------------------
(***************************************************************************)
(* Proofs about the cursor, for every size of the screen and of the prompt *)
(* that the assumption of Screen allows.                                   *)
(***************************************************************************)
EXTENDS Screen, TLAPS

(* A cursor where a glyph fits.                                            *)
Fits(c) ==
  /\ c = [x |-> c.x, y |-> c.y, wrapped |-> c.wrapped, outside |-> c.outside]
  /\ c.x \in 0 .. Word - 1 /\ c.y \in 0 .. Word - 1
  /\ c.wrapped \in BOOLEAN /\ c.outside \in BOOLEAN
  /\ c.x + 8 <= Width

IInv == TypeOK /\ CursorFollowsLine

-----------------------------------------------------------------------------
(* Sums of unsigned ints are unsigned ints.                                *)
LEMMA PlusType ==
  ASSUME NEW a \in 0 .. Word - 1, NEW b \in 0 .. Word
  PROVE  Plus(a, b) \in 0 .. Word - 1
BY ScreenAssumption DEF Plus

(* Sixteen more is a number in any case.                                   *)
LEMMA PlusInt ==
  ASSUME NEW a \in 0 .. Word - 1
  PROVE  Plus(a, 16) \in Int
BY ScreenAssumption DEF Plus

(* PutChar moves the cursor by one glyph or to the start of the next row,  *)
(* wherever it is: the result is a cursor again, and marks a wrap.         *)
LEMMA PutCharType ==
  ASSUME NEW c, c = [x |-> c.x, y |-> c.y, wrapped |-> c.wrapped, outside |-> c.outside],
         c.x \in 0 .. Word - 1, c.y \in 0 .. Word - 1,
         c.wrapped \in BOOLEAN, c.outside \in BOOLEAN
  PROVE  LET d == PutChar(c)
         IN  /\ d = [x |-> d.x, y |-> d.y, wrapped |-> d.wrapped, outside |-> d.outside]
             /\ d.x \in 0 .. Word - 1 /\ d.y \in 0 .. Word - 1
             /\ d.wrapped \in BOOLEAN /\ d.outside \in BOOLEAN
             /\ c.wrapped => d.wrapped
<1> DEFINE right == Plus(c.x, 8)
           out == c.outside \/ OffScreen(c.x, right, c.y)
<1>1. right \in 0 .. Word - 1 /\ Plus(c.y, 16) \in 0 .. Word - 1
  BY PlusType, ScreenAssumption
<1>2. out \in BOOLEAN
  BY DEF OffScreen
<1>3. CASE Plus(right, 8) > Width
  <2>1. PutChar(c) = [x |-> 0, y |-> Plus(c.y, 16), wrapped |-> TRUE, outside |-> out]
    BY <1>3 DEF PutChar
  <2> HIDE DEF out, right
  <2> QED
    BY <1>1, <1>2, <2>1, ScreenAssumption
<1>4. CASE ~(Plus(right, 8) > Width)
  <2>1. PutChar(c) = [x |-> right, y |-> c.y, wrapped |-> c.wrapped, outside |-> out]
    BY <1>4 DEF PutChar
  <2> HIDE DEF out, right
  <2> QED
    BY <1>1, <1>2, <2>1
<1> QED
  BY <1>3, <1>4

(* Where a glyph fits, PutChar leaves room for the next one, either to the *)
(* right or at the start of the next row, and writes no pixel off the      *)
(* screen unless the row reaches below it.                                 *)
LEMMA PutCharFits ==
  ASSUME NEW c, Fits(c)
  PROVE  LET d == PutChar(c)
         IN  /\ Fits(d)
             /\ d.y \in {c.y, Plus(c.y, 16)}
             /\ ~d.wrapped => d.x = c.x + 8
             /\ Plus(c.y, 16) <= Height => d.outside = c.outside
<1>1. Plus(c.x, 8) = c.x + 8 /\ c.x + 8 \in 0 .. Word - 1
  BY ScreenAssumption DEF Fits, Plus
<1>2. Plus(c.x + 8, 8) = c.x + 16
  BY <1>1, ScreenAssumption DEF Fits, Plus
<1>3. Plus(c.y, 16) \in 0 .. Word - 1
  BY PlusType, ScreenAssumption DEF Fits
<1> DEFINE out == c.outside \/ OffScreen(c.x, c.x + 8, c.y)
<1>4. out \in BOOLEAN
  BY DEF OffScreen
<1>5. Plus(c.y, 16) <= Height => out = c.outside
  <2>1. Plus(c.y, 16) <= Height => ~OffScreen(c.x, c.x + 8, c.y)
    BY <1>1, <1>3, ScreenAssumption DEF OffScreen, Fits
  <2> QED
    BY <2>1 DEF Fits
<1>6. CASE c.x + 16 > Width
  <2>1. PutChar(c) = [x |-> 0, y |-> Plus(c.y, 16), wrapped |-> TRUE, outside |-> out]
    BY <1>1, <1>2, <1>6 DEF PutChar
  <2> HIDE DEF out
  <2>2. 0 \in 0 .. Word - 1 /\ 8 <= Width
    BY ScreenAssumption
  <2> QED
    BY <1>3, <1>4, <1>5, <2>1, <2>2 DEF Fits
<1>7. CASE ~(c.x + 16 > Width)
  <2>1. PutChar(c) = [x |-> c.x + 8, y |-> c.y, wrapped |-> c.wrapped, outside |-> out]
    BY <1>1, <1>2, <1>7 DEF PutChar, Fits
  <2> HIDE DEF out
  <2>2. c.x + 8 + 8 <= Width
    BY <1>1, <1>7, ScreenAssumption DEF Fits
  <2> QED
    BY <1>1, <1>3, <1>4, <1>5, <2>1, <2>2 DEF Fits
<1> QED
  BY <1>6, <1>7

-----------------------------------------------------------------------------
(* The cursor in the variables is a cursor.                                *)
LEMMA CursorType ==
  ASSUME TypeOK
  PROVE  /\ Cursor = [x |-> x, y |-> y, wrapped |-> wrapped, outside |-> outside]
         /\ Cursor.x = x /\ Cursor.y = y
         /\ Cursor.wrapped = wrapped /\ Cursor.outside = outside
         /\ CursorFollowsLine /\ ~wrapped => Fits(Cursor)
BY DEF Cursor, TypeOK, CursorFollowsLine, Fits

(* The first prompt satisfies the inductive invariant.                     *)
LEMMA InitInv ==
  ASSUME Init
  PROVE  IInv
<1>1. 8 * Prompt \in Nat /\ 8 * Prompt + 8 <= Width /\ 8 * Prompt < Word
  BY ScreenAssumption
<1>2. x \in 0 .. Word - 1 /\ y \in 0 .. Word - 1
  BY <1>1, ScreenAssumption DEF Init
<1>3. x = 8 * (Prompt + shown) /\ x + 8 <= Width
  BY <1>1, ScreenAssumption DEF Init
<1>4. TypeOK
  BY <1>2 DEF Init, TypeOK
<1>5. CursorFollowsLine
  BY <1>3 DEF Init, CursorFollowsLine
<1> QED
  BY <1>4, <1>5 DEF IInv

(* A key puts one character: the cursor stays behind the line.             *)
LEMMA KeyInv ==
  ASSUME IInv, Key
  PROVE  IInv'
<1> DEFINE d == PutChar(Cursor)
<1>1. /\ x' = d.x /\ y' = d.y /\ wrapped' = d.wrapped /\ outside' = d.outside
      /\ inputLen' = inputLen + 1 /\ shown' = shown + 1 /\ keys' = keys + 1
  BY DEF Key, Move, Press
<1>2. /\ d.x \in 0 .. Word - 1 /\ d.y \in 0 .. Word - 1
      /\ d.wrapped \in BOOLEAN /\ d.outside \in BOOLEAN
      /\ wrapped => d.wrapped
  BY CursorType, PutCharType DEF IInv, TypeOK
<1>3. ~d.wrapped => d.x = x + 8 /\ d.x + 8 <= Width
  BY <1>2, CursorType, PutCharFits DEF IInv, Fits
<1> HIDE DEF d
<1>4. TypeOK'
  BY <1>1, <1>2 DEF IInv, TypeOK
<1>5. CursorFollowsLine'
  BY <1>1, <1>2, <1>3, ScreenAssumption DEF IInv, TypeOK, CursorFollowsLine
<1> QED
  BY <1>4, <1>5 DEF IInv

(* A tab puts four.                                                        *)
LEMMA TabInv ==
  ASSUME IInv, Tab
  PROVE  IInv'
<1> DEFINE a == PutChar(Cursor)
           b == PutChar(a)
           c == PutChar(b)
           d == PutChar(c)
<1>1. /\ x' = d.x /\ y' = d.y /\ wrapped' = d.wrapped /\ outside' = d.outside
      /\ inputLen' = inputLen /\ shown' = shown + 4 /\ keys' = keys + 1
  BY DEF Tab, Move, Press
<1> DEFINE Good(e) == /\ e = [x |-> e.x, y |-> e.y, wrapped |-> e.wrapped, outside |-> e.outside]
                      /\ e.x \in 0 .. Word - 1 /\ e.y \in 0 .. Word - 1
                      /\ e.wrapped \in BOOLEAN /\ e.outside \in BOOLEAN
<1>2. Good(Cursor) /\ Cursor.wrapped = wrapped /\ Cursor.x = x
  BY CursorType DEF IInv, TypeOK
<1>3. \A e : Good(e) => Good(PutChar(e)) /\ (e.wrapped => PutChar(e).wrapped)
  BY PutCharType
<1>4. \A e : Fits(e) => Fits(PutChar(e)) /\ (~PutChar(e).wrapped => PutChar(e).x = e.x + 8)
  BY PutCharFits
<1>5. Good(d) /\ (wrapped => d.wrapped)
  <2> HIDE DEF Good
  <2> QED
    BY <1>2, <1>3
<1>6. ~d.wrapped => d.x = x + 32 /\ d.x + 8 <= Width
  <2> SUFFICES ASSUME ~d.wrapped
               PROVE  d.x = x + 32 /\ d.x + 8 <= Width
    OBVIOUS
  <2>1. Good(a) /\ Good(b) /\ Good(c)
    <3> HIDE DEF Good
    <3> QED
      BY <1>2, <1>3
  <2>2. ~c.wrapped /\ ~b.wrapped /\ ~a.wrapped /\ ~wrapped
    <3> HIDE DEF Good
    <3> QED
      BY <1>2, <1>3, <2>1
  <2>3. Fits(Cursor)
    BY <2>2, CursorType DEF IInv
  <2>4. Fits(a) /\ Fits(b) /\ Fits(c) /\ Fits(d)
    BY <1>4, <2>3
  <2>5. a.x = x + 8 /\ b.x = a.x + 8 /\ c.x = b.x + 8 /\ d.x = c.x + 8
    BY <1>2, <1>4, <2>2, <2>3, <2>4
  <2> HIDE DEF a, b, c, d
  <2> QED
    BY <2>4, <2>5 DEF Fits, IInv, TypeOK
<1>7. d.x \in 0 .. Word - 1 /\ d.y \in 0 .. Word - 1 /\ d.wrapped \in BOOLEAN /\ d.outside \in BOOLEAN
  BY <1>5
<1> HIDE DEF d, Good
<1>8. TypeOK'
  BY <1>1, <1>7 DEF IInv, TypeOK
<1>9. CursorFollowsLine'
  BY <1>1, <1>5, <1>6, <1>7, ScreenAssumption DEF IInv, TypeOK, CursorFollowsLine
<1> QED
  BY <1>8, <1>9 DEF IInv

(* Backspace goes one glyph back.  It finds a glyph of the line there,     *)
(* because it removes no more than keys have put.                          *)
LEMMA BackspaceInv ==
  ASSUME IInv, Backspace
  PROVE  IInv'
<1>1. /\ x' = Minus(x, 8) /\ y' = y /\ wrapped' = wrapped
      /\ outside' = (outside \/ OffScreen(Minus(x, 8) + 1, x + 1, y))
      /\ inputLen' = inputLen - 1 /\ shown' = shown - 1 /\ keys' = keys + 1
      /\ inputLen # 0
  BY DEF Backspace, Press, Move, RemoveChar, Cursor
<1>2. outside' \in BOOLEAN
  BY <1>1 DEF OffScreen
<1>3. Minus(x, 8) \in 0 .. Word - 1
  BY ScreenAssumption DEF Minus, IInv, TypeOK
<1>4. inputLen' \in Nat /\ shown' \in Nat /\ inputLen' <= shown'
  BY <1>1 DEF IInv, TypeOK, CursorFollowsLine
<1>5. TypeOK'
  BY <1>1, <1>2, <1>3, <1>4 DEF IInv, TypeOK
<1>6. ~wrapped => x' = 8 * (Prompt + shown') /\ x' + 8 <= Width
  BY <1>1, <1>4, ScreenAssumption DEF IInv, TypeOK, CursorFollowsLine, Minus
<1>7. CursorFollowsLine'
  BY <1>1, <1>4, <1>6 DEF CursorFollowsLine
<1> QED
  BY <1>5, <1>7 DEF IInv

(* Enter begins a row that holds the prompt alone.                         *)
LEMMA EnterInv ==
  ASSUME IInv, Enter
  PROVE  IInv'
<1>1. PICK rows \in 0 .. MaxRows :
        /\ y' = Plus(Plus(y, 18), rows)
        /\ outside' = (outside \/ OffScreen(0, 8, Plus(Plus(y, 18), rows)))
  BY DEF Enter
<1>2. y' \in 0 .. Word - 1
  <2>1. rows \in 0 .. Word /\ 18 \in 0 .. Word
    BY ScreenAssumption
  <2>2. Plus(y, 18) \in 0 .. Word - 1
    BY <2>1, PlusType DEF IInv, TypeOK
  <2> QED
    BY <1>1, <2>1, <2>2, PlusType
<1>3. outside' \in BOOLEAN
  BY <1>1 DEF OffScreen
<1>4. x' = 8 * Prompt /\ inputLen' = 0 /\ shown' = 0
  BY DEF Enter
<1>5. wrapped' \in BOOLEAN
  BY DEF Enter
<1>6. keys' \in Nat
  BY DEF Enter, Press, IInv, TypeOK
<1>7. 8 * Prompt \in 0 .. Word - 1 /\ 8 * Prompt + 8 <= Width
  BY ScreenAssumption
<1>8. TypeOK'
  <2>1. x' \in 0 .. Word - 1
    BY <1>4, <1>7
  <2>2. inputLen' \in Nat /\ shown' \in Nat
    BY <1>4
  <2> QED
    BY <1>2, <1>3, <1>5, <1>6, <2>1, <2>2 DEF TypeOK
<1>9. CursorFollowsLine'
  BY <1>4, <1>7, ScreenAssumption DEF CursorFollowsLine
<1> QED
  BY <1>8, <1>9 DEF IInv

(* Every step preserves the inductive invariant.                           *)
LEMMA NextInv ==
  ASSUME IInv, [Next]_vars
  PROVE  IInv'
<1>1. CASE UNCHANGED vars
  BY <1>1 DEF IInv, TypeOK, CursorFollowsLine, vars
<1> QED
  BY <1>1, KeyInv, TabInv, BackspaceInv, EnterInv DEF Next

(* The cursor's type, and its place behind the line, hold at every moment. *)
THEOREM CursorCorrect == Spec => []TypeOK /\ []CursorFollowsLine
<1>1. IInv => TypeOK /\ CursorFollowsLine
  BY DEF IInv
<1> QED
  BY InitInv, NextInv, <1>1, PTL DEF Spec

-----------------------------------------------------------------------------
(* While rows only go down, by at most 16 each, none of them lies below    *)
(* the screen if the first and the last do not.                            *)
LEMMA RowsBetween ==
  ASSUME NEW y0 \in 0 .. Word - 1, NEW y1 \in 0 .. Word - 1,
         NEW y2 \in 0 .. Word - 1, NEW y3 \in 0 .. Word - 1, NEW y4 \in 0 .. Word - 1,
         y1 \in {y0, Plus(y0, 16)}, y2 \in {y1, Plus(y1, 16)},
         y3 \in {y2, Plus(y2, 16)}, y4 \in {y3, Plus(y3, 16)},
         Plus(y0, 16) <= Height, Plus(y4, 16) <= Height
  PROVE  Plus(y1, 16) <= Height /\ Plus(y2, 16) <= Height /\ Plus(y3, 16) <= Height
BY ScreenAssumption DEF Plus

(* A tab stays on the screen where both its first and its last row do.     *)
LEMMA TabOnScreen ==
  ASSUME IInv, Tab, ~wrapped, Plus(y, 16) <= Height, Plus(y', 16) <= Height
  PROVE  outside' = outside
<1> DEFINE a == PutChar(Cursor)
           b == PutChar(a)
           c == PutChar(b)
           d == PutChar(c)
<1>1. y' = d.y /\ outside' = d.outside
  BY DEF Tab, Move
<1>2. Fits(Cursor) /\ Cursor.y = y /\ Cursor.outside = outside
  BY CursorType DEF IInv
<1>3. \A e : Fits(e) => /\ Fits(PutChar(e))
                        /\ PutChar(e).y \in {e.y, Plus(e.y, 16)}
                        /\ Plus(e.y, 16) <= Height => PutChar(e).outside = e.outside
  BY PutCharFits
<1>4. Fits(a) /\ Fits(b) /\ Fits(c) /\ Fits(d)
  BY <1>2, <1>3
<1>5. /\ a.y \in {y, Plus(y, 16)} /\ b.y \in {a.y, Plus(a.y, 16)}
      /\ c.y \in {b.y, Plus(b.y, 16)} /\ d.y \in {c.y, Plus(c.y, 16)}
  BY <1>2, <1>3, <1>4
<1>6. /\ y \in 0 .. Word - 1 /\ a.y \in 0 .. Word - 1 /\ b.y \in 0 .. Word - 1
      /\ c.y \in 0 .. Word - 1 /\ d.y \in 0 .. Word - 1
  BY <1>2, <1>4 DEF Fits
<1>7. Plus(a.y, 16) <= Height /\ Plus(b.y, 16) <= Height /\ Plus(c.y, 16) <= Height
  <2> HIDE DEF a, b, c, d
  <2> QED
    BY <1>1, <1>5, <1>6, RowsBetween
<1>8. a.outside = outside /\ b.outside = a.outside /\ c.outside = b.outside /\ d.outside = c.outside
  BY <1>2, <1>3, <1>4, <1>7
<1> QED
  BY <1>1, <1>8

(* No step writes off the screen on a line that has not wrapped, from and  *)
(* to rows that are on the screen.                                         *)
LEMMA StepOnScreen ==
  ASSUME IInv, Next, ~wrapped, Plus(y, 16) <= Height, Plus(y', 16) <= Height
  PROVE  outside' = outside
<1>1. x = 8 * (Prompt + shown) /\ x + 8 <= Width /\ inputLen <= shown
  BY DEF IInv, CursorFollowsLine
<1>2. CASE Key
  <2>1. outside' = PutChar(Cursor).outside
    BY <1>2 DEF Key, Move
  <2>2. Fits(Cursor) /\ Cursor.y = y /\ Cursor.outside = outside
    BY CursorType DEF IInv
  <2> QED
    BY <2>1, <2>2, PutCharFits
<1>3. CASE Tab
  BY <1>3, TabOnScreen
<1>4. CASE Backspace
  <2>1. /\ y' = y /\ inputLen # 0
        /\ outside' = (outside \/ OffScreen(Minus(x, 8) + 1, x + 1, y))
    BY <1>4 DEF Backspace, Move, RemoveChar, Cursor
  <2>2. ~OffScreen(Minus(x, 8) + 1, x + 1, y)
    <3>1. ~(x + 1 > Width)
      BY <1>1, ScreenAssumption DEF IInv, TypeOK
    <3>2. ~(Plus(y, 16) > Height)
      BY PlusInt, ScreenAssumption DEF IInv, TypeOK
    <3> QED
      BY <3>1, <3>2 DEF OffScreen
  <2> QED
    BY <2>1, <2>2 DEF IInv, TypeOK
<1>5. CASE Enter
  <2>1. PICK top : y' = top /\ outside' = (outside \/ OffScreen(0, 8, top))
    BY <1>5 DEF Enter
  <2>2. y' \in 0 .. Word - 1
    BY <1>5, EnterInv DEF IInv, TypeOK
  <2>3. ~OffScreen(0, 8, top)
    <3>1. ~(8 > Width)
      BY ScreenAssumption
    <3>2. ~(Plus(top, 16) > Height)
      BY <2>1, <2>2, PlusInt, ScreenAssumption
    <3> QED
      BY <3>1, <3>2 DEF OffScreen
  <2> QED
    BY <2>1, <2>3 DEF IInv, TypeOK
<1> QED
  BY <1>2, <1>3, <1>4, <1>5 DEF Next

(* Only past an edge of the screen is a pixel off the screen written.      *)
THEOREM OnScreenCorrect == Spec => OffScreenOnlyPastEdges
<1> DEFINE Stays == outside' # outside =>
                      wrapped \/ Plus(y, 16) > Height \/ Plus(y', 16) > Height
<1>1. ASSUME IInv, IInv', [Next]_vars
      PROVE  [Stays]_vars
  <2>1. y \in 0 .. Word - 1 /\ y' \in 0 .. Word - 1
    BY <1>1 DEF IInv, TypeOK
  <2>2. Plus(y, 16) \in Int /\ Plus(y', 16) \in Int /\ Height \in Int
    BY <2>1, PlusInt, ScreenAssumption
  <2>3. CASE UNCHANGED vars
    BY <2>3
  <2>4. CASE Next
    BY <1>1, <2>2, <2>4, StepOnScreen DEF IInv, TypeOK
  <2> QED
    BY <1>1, <2>3, <2>4
<1>2. Spec => []IInv
  BY InitInv, NextInv, PTL DEF Spec
<1> QED
  BY <1>1, <1>2, PTL DEF Spec, OffScreenOnlyPastEdges
=============================================================================
