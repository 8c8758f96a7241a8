----------------------------- MODULE MCDecimal -----------------------------
(***************************************************************************)
(* Numbers of one to three digits around every change of length, and some  *)
(* that do not fit an unsigned int of 200 values.                          *)
(***************************************************************************)
EXTENDS Decimal

MCNumbers == -21 .. 21 \cup {-401, -400, -200, -199, -101, -100, -99, 98, 99, 100, 101,
                             109, 110, 120, 199, 200, 201, 399, 400, 401}
=============================================================================
