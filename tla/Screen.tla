------------------------------- MODULE Screen -------------------------------
(***************************************************************************)
(* The cursor of BasicRenderer.cpp under the calls of the prompt: a key    *)
(* puts one character, a tab four, backspace removes one, and Enter starts *)
(* a new line, prints what the command prints and shows the prompt again.  *)
(* Pixels are followed only as far as whether they are on the screen.      *)
(***************************************************************************)
EXTENDS Integers

CONSTANTS
  Width, Height,   (* Of the screen, in pixels.                            *)
  Word,            (* Values of an unsigned int; 2^32 in the code.         *)
  Prompt,          (* Characters of the prompt; 10 in the code.            *)
  MaxRows,         (* Bound on the rows that a command's output moves down *)
  MaxKeys          (* and on the keys pressed.                             *)

ASSUME ScreenAssumption ==
  /\ Width \in Nat /\ Height \in Nat /\ Word \in Nat
  /\ Prompt \in Nat /\ MaxRows \in 0 .. Word /\ MaxKeys \in Nat
  /\ 8 * Prompt + 8 <= Width /\ Width + 8 < Word
  /\ 16 <= Height /\ Height + 64 < Word

VARIABLES
  x, y,       (* CursorPosition.                                           *)
  inputLen,   (* keyboard.cpp: characters that backspace may remove.       *)
  shown,      (* Characters on the screen behind the prompt.               *)
  wrapped,    (* The line reached the right edge since the prompt.         *)
  outside,    (* A pixel off the screen was written.                       *)
  keys        (* Keys pressed so far.                                      *)

vars == <<x, y, inputLen, shown, wrapped, outside, keys>>

(* Sums and differences of unsigned ints.                                  *)
Plus(a, b) == IF a + b < Word THEN a + b ELSE a + b - Word
Minus(a, b) == IF a >= b THEN a - b ELSE a - b + Word

(* Pixels from column l on and before column r, in the 16 rows from row    *)
(* top on: both loops run upwards and may have nothing to do.              *)
OffScreen(l, r, top) ==
  /\ l < r /\ top < Plus(top, 16)
  /\ r > Width \/ Plus(top, 16) > Height

-----------------------------------------------------------------------------
(* PutChar: draw, move right and wrap when no further glyph fits.          *)
Cursor == [x |-> x, y |-> y, wrapped |-> wrapped, outside |-> outside]

(* Mutant: the row is wrapped only when the next glyph begins off screen.  *)
PutCharLate(c) ==
  LET right == Plus(c.x, 8)
      out == c.outside \/ OffScreen(c.x, right, c.y)
  IN  IF right > Width
      THEN [x |-> 0, y |-> Plus(c.y, 16), wrapped |-> TRUE, outside |-> out]
      ELSE [c EXCEPT !.x = right, !.outside = out]

PutChar(c) ==
  LET right == Plus(c.x, 8)
      out == c.outside \/ OffScreen(c.x, right, c.y)
  IN  IF Plus(right, 8) > Width
      THEN [x |-> 0, y |-> Plus(c.y, 16), wrapped |-> TRUE, outside |-> out]
      ELSE [c EXCEPT !.x = right, !.outside = out]

(* RemoveChar paints the columns from the cursor down to, and without, the *)
(* eighth to its left.                                                     *)
RemoveChar(c) ==
  LET left == Minus(c.x, 8)
  IN  [c EXCEPT !.x = left, !.outside = @ \/ OffScreen(left + 1, c.x + 1, c.y)]

Move(c) == x' = c.x /\ y' = c.y /\ wrapped' = c.wrapped /\ outside' = c.outside

Press == keys < MaxKeys /\ keys' = keys + 1

-----------------------------------------------------------------------------
(* The first prompt, somewhere below what was printed during the start.    *)
Init ==
  /\ x = 8 * Prompt /\ y \in 0 .. Height - 16
  /\ inputLen = 0 /\ shown = 0
  /\ wrapped = FALSE /\ outside = FALSE /\ keys = 0

Key ==
  /\ Press
  /\ Move(PutChar(Cursor))
  /\ inputLen' = inputLen + 1 /\ shown' = shown + 1

Tab ==
  /\ Press
  /\ Move(PutChar(PutChar(PutChar(PutChar(Cursor)))))
  /\ shown' = shown + 4
  /\ UNCHANGED inputLen

(* Mutant: backspace removes whatever stands left of the cursor.           *)
BackspaceUnguarded ==
  /\ Press
  /\ Move(RemoveChar(Cursor))
  /\ inputLen' = inputLen - 1 /\ shown' = shown - 1

Backspace ==
  /\ Press /\ inputLen # 0
  /\ Move(RemoveChar(Cursor))
  /\ inputLen' = inputLen - 1 /\ shown' = shown - 1

(* Mutant: the command's output leaves the cursor where it ended.          *)
EnterWithoutNextLine ==
  /\ Press
  /\ Move(PutChar(Cursor))
  /\ inputLen' = 0 /\ shown' = 0

(* NextLine, the output of a command, which ends with NextLine if there is *)
(* any, and the prompt.                                                    *)
Enter ==
  /\ Press
  /\ \E rows \in 0 .. MaxRows :
       LET top == Plus(Plus(y, 18), rows)
       IN  /\ y' = top
           /\ outside' = (outside \/ OffScreen(0, 8, top))
  /\ x' = 8 * Prompt
  /\ wrapped' = FALSE
  /\ inputLen' = 0 /\ shown' = 0

Next == Key \/ Tab \/ Backspace \/ Enter

Spec == Init /\ [][Next]_vars
-----------------------------------------------------------------------------
(* Types of the state: a column and a row are unsigned ints.               *)
TypeOK ==
  /\ x \in 0 .. Word - 1 /\ y \in 0 .. Word - 1
  /\ inputLen \in Nat /\ shown \in Nat /\ keys \in Nat
  /\ wrapped \in BOOLEAN /\ outside \in BOOLEAN

(* Until a line reaches the right edge, the cursor stands right behind     *)
(* what the prompt and the keys have put on the row, a whole glyph fits at *)
(* the cursor, and backspace never reaches the prompt.                     *)
CursorFollowsLine ==
  /\ ~wrapped => x = 8 * (Prompt + shown) /\ x + 8 <= Width
  /\ inputLen <= shown

(* Nothing checks the cursor against the screen but the wrap of PutChar.   *)
(* A pixel off the screen is written only on a line that wrapped, where    *)
(* backspace does not find back to the row above, or below the last row.   *)
OffScreenOnlyPastEdges ==
  [][outside' # outside =>
       wrapped \/ Plus(y, 16) > Height \/ Plus(y', 16) > Height]_vars
=============================================================================
