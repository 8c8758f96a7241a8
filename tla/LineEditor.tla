----------------------------- MODULE LineEditor -----------------------------
(***************************************************************************)
(* What the keyboard handler and the prompt promise a user: a line that    *)
(* grows and shrinks at its end by what is typed, and that Enter hands     *)
(* over from its first character on.  Whether anything stands behind it in *)
(* what is handed over is not said.                                        *)
(***************************************************************************)
EXTENDS Naturals, Sequences

VARIABLES
  offered,    (* Characters the key that waits may stand for.              *)
  line,       (* What was typed since the prompt appeared.                 *)
  submitted   (* What the last Enter handed over.                          *)

editorVars == <<offered, line, submitted>>

EditorInit == offered = {} /\ line = << >> /\ submitted = << >>

Offer == UNCHANGED <<line, submitted>>

Type ==
  /\ \E c \in offered : line' = Append(line, c)
  /\ UNCHANGED submitted

Erase ==
  /\ line # << >> /\ line' = SubSeq(line, 1, Len(line) - 1)
  /\ UNCHANGED submitted

Submit ==
  /\ line' = << >>
  /\ Len(submitted') >= Len(line) /\ SubSeq(submitted', 1, Len(line)) = line

EditorNext == Offer \/ Type \/ Erase \/ Submit

EditorSpec == EditorInit /\ [][EditorNext]_editorVars
=============================================================================
