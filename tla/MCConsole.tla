----------------------------- MODULE MCConsole -----------------------------
(***************************************************************************)
(* One key with a character and one without, and enough scancodes for a    *)
(* race at the first prompt, a line and an Enter; beside them the timer,   *)
(* which goes before the keyboard, a line of the slave and the master's    *)
(* last, and a page fault for all exceptions.                              *)
(***************************************************************************)
EXTENDS Interrupts

CONSTANTS a

MCKeys == {a, Nul}
MCJunk == {a}
MCLines == {Timer, 7, 12}
MCFaults == {14}
=============================================================================
