------------------------------ MODULE PagePool ------------------------------
(***************************************************************************)
(* What the page frame allocator promises its callers, without a bitmap,   *)
(* a cursor or counters: a pool of page frames that is filled once, from   *)
(* pages that belong to nobody, and then hands frames out one at a time.   *)
(* PageFrameAllocator is shown to implement this specification.            *)
(***************************************************************************)
CONSTANTS
  Pages       (* Page frame numbers.                                       *)

VARIABLES
  opened,     (* The pool has been filled from the firmware's memory map.  *)
  protected,  (* Pages that must stay with the firmware and the kernel.    *)
  avail,      (* Pages that a request may return.                          *)
  held,       (* Pages that callers hold.                                  *)
  refused     (* The last request was turned down.                         *)

poolVars == <<opened, protected, avail, held, refused>>

PoolInit ==
  /\ opened = FALSE
  /\ protected \in SUBSET Pages
  /\ avail = {}
  /\ held = {}
  /\ refused = FALSE

(* The pool never holds a protected page, from the very first moment.      *)
Open ==
  /\ ~opened
  /\ opened' = TRUE
  /\ avail' \in SUBSET (Pages \ protected)
  /\ UNCHANGED <<protected, held, refused>>

(* A range is taken out of the pool for good: nobody will be given it.     *)
Withdraw ==
  /\ opened
  /\ avail' \in SUBSET avail
  /\ UNCHANGED <<opened, protected, held, refused>>

Request ==
  \E p \in avail :
    /\ avail' = avail \ {p}
    /\ held' = held \cup {p}
    /\ refused' = FALSE
    /\ UNCHANGED <<opened, protected>>

(* A request is turned down only when there is no page left at all.        *)
RequestFails ==
  /\ opened
  /\ avail = {}
  /\ refused' = TRUE
  /\ UNCHANGED <<opened, protected, avail, held>>

Release ==
  /\ held' \in SUBSET held
  /\ avail' = avail \cup (held \ held')
  /\ UNCHANGED <<opened, protected, refused>>

PoolNext == Open \/ Withdraw \/ Request \/ RequestFails \/ Release

PoolSpec == PoolInit /\ [][PoolNext]_poolVars

-----------------------------------------------------------------------------
(* A page is either free or held, and a protected page is neither: two     *)
(* callers never hold the same page, and nobody is given kernel memory.    *)
PoolSafe ==
  /\ avail \cap held = {}
  /\ (avail \cup held) \cap protected = {}
=============================================================================
