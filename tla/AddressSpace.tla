---------------------------- MODULE AddressSpace ----------------------------
(***************************************************************************)
(* What MapMemory promises its callers: the address space is a partial     *)
(* function from virtual to physical pages, and a call changes the image   *)
(* of the page it was given, to the page it was given, and no other.  The  *)
(* promise ends when the machine has no page left to build tables from.    *)
(***************************************************************************)
VARIABLES
  space,      (* The pages mapped so far, and where each one leads.        *)
  asked,      (* The call under way, if there is one: a virtual page and   *)
              (* the physical page that it is to lead to.                  *)
  exhausted   (* A page was needed and none was left.                      *)

spaceVars == <<space, asked, exhausted>>

SpaceInit ==
  /\ space = << >>
  /\ asked = {}
  /\ exhausted = FALSE

Call ==
  /\ ~exhausted /\ asked = {}
  /\ \E c \in asked' : asked' = {c}
  /\ UNCHANGED <<space, exhausted>>

Map ==
  /\ ~exhausted
  /\ \E c \in asked :
       space' = [u \in DOMAIN space \cup {c.virtual} |->
                   IF u = c.virtual THEN c.physical ELSE space[u]]
  /\ asked' = {}
  /\ UNCHANGED exhausted

GiveUp ==
  /\ ~exhausted
  /\ exhausted' = TRUE
  /\ space' = << >> /\ asked' = {}

SpaceNext == Call \/ Map \/ GiveUp

SpaceSpec == SpaceInit /\ [][SpaceNext]_spaceVars
=============================================================================
