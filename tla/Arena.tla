------------------------------- MODULE Arena -------------------------------
(***************************************************************************)
(* What a heap promises its callers: a run of words that no other caller   *)
(* holds, until it is given back.                                          *)
(***************************************************************************)
EXTENDS Integers

CONSTANTS Sizes    (* Words that callers ask for.                          *)

VARIABLES held     (* Runs of words, [first, words], that callers hold.    *)

Apart(r, s) == r.first + r.words <= s.first \/ s.first + s.words <= r.first

ArenaInit == held = {}

Allocate ==
  \E words \in Sizes \ {0} :
    \E r \in held' :
      /\ held' = held \cup {r} /\ r \notin held
      /\ r.words = words /\ r.first > 0
      /\ \A s \in held : Apart(r, s)

Free == \E r \in held : held' = held \ {r}

ArenaNext == Allocate \/ Free

ArenaSpec == ArenaInit /\ [][ArenaNext]_held
=============================================================================
