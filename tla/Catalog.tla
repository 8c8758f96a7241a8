------------------------------ MODULE Catalog ------------------------------
(***************************************************************************)
(* What formatting promises: a drive first gets a directory, then the      *)
(* system file that the directory names, and never loses either again,     *)
(* whatever is typed, fails or loses power later.                          *)
(***************************************************************************)
CONSTANT Volumes        (* Drives of any machine.                          *)

VARIABLE stage          (* How far each drive is.                          *)

Following == [foreign |-> "directory", directory |-> "system", system |-> "system"]

CatalogInit == stage = [v \in Volumes |-> "foreign"]

(* One drive at a time, one step at a time.                                *)
Advance == stage' \in {[stage EXCEPT ![v] = Following[@]] : v \in Volumes}

CatalogSpec == CatalogInit /\ [][Advance]_stage
=============================================================================
