------------------------------ MODULE Decimal ------------------------------
(***************************************************************************)
(* to_string and atoi of cstr.cpp.  to_string fills one static buffer and  *)
(* hands out a pointer to it; a call finds it as the call before left it.  *)
(* Bytes are their ASCII codes.                                            *)
(***************************************************************************)
EXTENDS Integers, Sequences

CONSTANTS
  Numbers,    (* Arguments of to_string.                                   *)
  Unsigned,   (* Values of an unsigned int; 2^32 in the code.              *)
  Size        (* Bytes of the buffer; 50 in the code.                      *)

ASSUME DecimalAssumption ==
  /\ Numbers \subseteq Int /\ Size \in Nat \ {0}
  /\ Unsigned \in Nat \ {0} /\ Unsigned % 2 = 0

VARIABLES buffer, n, read    (* n was written last, and atoi reads read.   *)

vars == <<buffer, n, read>>

Nul == 0
Minus == 45
Zero == 48
IsDigit(c) == c \in Zero .. Zero + 9
Magnitude(k) == IF k < 0 THEN -k ELSE k

Digit(d) == d + Zero

(* Digits are produced from the lowest on.                                 *)
LowFirst[k \in Nat] ==
  IF k = 0 THEN << >> ELSE <<Digit(k % 10)>> \o LowFirst[k \div 10]

(* The buffer holds the digits of every unsigned int, a sign and the end:  *)
(* twelve bytes for the ten digits below 2^32.                             *)
ASSUME RoomForDigits == \A k \in 0 .. Unsigned - 1 : Len(LowFirst[k]) + 2 <= Size

(* The magnitude in an unsigned int; the sign comes behind its digits.     *)
Unreversed(k) ==
  LowFirst[Magnitude(k) % Unsigned] \o (IF k < 0 THEN <<Minus, Nul>> ELSE <<Nul>>)

(* The first bytes of the buffer are overwritten.                          *)
Overwrite(b, s) == [k \in DOMAIN b |-> IF k < Len(s) THEN s[k + 1] ELSE b[k]]

(* Three exclusive-ors swap two bytes, and clear a byte that is swapped    *)
(* with itself.                                                            *)
XorSwap(b, j, k) ==
  IF j = k THEN [b EXCEPT ![j] = Nul] ELSE [b EXCEPT ![j] = b[k], ![k] = b[j]]

(* Mutant: the byte in the middle is swapped, too.                         *)
SwapsWithMiddle(i) == (i + 1) \div 2
Swaps(i) == i \div 2

(* The buffer after the loop that reverses its first i bytes.              *)
Reversed(b, i) ==
  LET after[t \in 0 .. Swaps(i)] ==
        IF t = 0 THEN b ELSE XorSwap(after[t - 1], t - 1, i - t)
  IN  after[Swaps(i)]

(* Zero has no digits so far.                                              *)
Written(b, k) ==
  LET reversed == Reversed(Overwrite(b, Unreversed(k)), Len(Unreversed(k)) - 1)
  IN  IF k = 0 THEN Overwrite(reversed, <<Zero, Nul>>) ELSE reversed

(* An int of as many values: the compiler, which does not optimise, lets   *)
(* one that overflows wrap.                                                *)
ToInt(k) == ((k + (Unsigned \div 2)) % Unsigned) - (Unsigned \div 2)

(* Mutant: the digits are added.                                           *)
Add(num, c) == ToInt(num * 10 + (c - Zero))
Accumulate(num, c) == ToInt(num * 10 - (c - Zero))

(* atoi builds the negative of the number, up to the first other byte.     *)
(* Its result is an int, of which uint64_t makes a huge number if it is    *)
(* negative.                                                               *)
Atoi(b) ==
  LET num[p \in DOMAIN b] == IF p = 0 THEN 0 ELSE Accumulate(num[p - 1], b[p - 1])
      stop == CHOOSE p \in DOMAIN b : ~IsDigit(b[p]) /\ \A q \in 0 .. p - 1 : IsDigit(b[q])
  IN  ToInt(-num[stop])

-----------------------------------------------------------------------------
(* Static memory begins as zeros.                                          *)
Init == buffer = [k \in 0 .. Size - 1 |-> Nul] /\ n = 0 /\ read = 0

ToString ==
  /\ n' \in Numbers
  /\ buffer' = Written(buffer, n')
  /\ read' = Atoi(buffer')

Spec == Init /\ [][ToString]_vars
-----------------------------------------------------------------------------
(* The numeral of a natural number, as one writes it.                      *)
Numeral[k \in Nat] ==
  IF k < 10 THEN <<Zero + k>>
  ELSE Append(Numeral[k \div 10], Zero + (k % 10))

(* What to_string hands out is the numeral of its argument, with nothing   *)
(* of an earlier call behind it, as long as the magnitude fits an unsigned *)
(* int; of a larger one it is the numeral of what fits, or, if nothing     *)
(* does, only the sign.                                                    *)
HandsOutNumeral ==
  [][LET rest   == Magnitude(n') % Unsigned
         sign   == IF n' < 0 THEN <<Minus>> ELSE << >>
         digits == IF rest = 0 /\ n' # 0 THEN << >> ELSE Numeral[rest]
     IN  \E length \in 0 .. Size - 1 :
           /\ [k \in 1 .. length |-> buffer'[k - 1]] = sign \o digits
           /\ buffer'[length] = Nul]_vars

(* atoi reads back what to_string wrote of a number that fits an int and   *)
(* is not negative; of a negative one it reads nothing, and of one between *)
(* the largest int and the largest unsigned int it makes a negative one.   *)
ReadsBack ==
  /\ n < 0 => read = 0
  /\ n \in 0 .. (Unsigned \div 2) - 1 => read = n
  /\ n \in (Unsigned \div 2) .. Unsigned - 1 => read = n - Unsigned
=============================================================================
