----------------------------- MODULE MCAhciPort -----------------------------
(***************************************************************************)
(* One port with bytes of one bit: sectors below 8 fit the low three bytes *)
(* of the sector number, as they do for every caller in the repository.    *)
(***************************************************************************)
EXTENDS AhciPort

CONSTANTS a, b

MCSectors == {1, 2, 4}
MCLargeSectors == {1, 9}
MCData == {a, b}
=============================================================================
