---------------------------- MODULE MCPageTables ----------------------------
(***************************************************************************)
(* Machines with three entries to a table and from a handful of pages up   *)
(* to more than the tables need, so that memory runs out at every point of *)
(* the boot on one of them, and on some only afterwards.                   *)
(***************************************************************************)
EXTENDS PageTables

Desc(t, start, count) == [type |-> t, physAddr |-> start, numPages |-> count]

(* h: pages of a hole; t: type of the segment in the middle; n: pages of   *)
(* the last segment.                                                       *)
Machine(h, t, n) ==
  << Desc(2, 0, 1), Desc(7, 1, 3), Desc(t, 4 + h, 2), Desc(7, 6 + h, n) >>

MCMemoryMaps == {Machine(h, t, n) : h \in {0, 3}, t \in {4, 7}, n \in 2 .. 19}
MCKernel == [start |-> 0, pages |-> 2]
MCFrameBuffers == {[start |-> 40, pages |-> 3]}
MCDevices == {41, 43, 60}

(* What the theorems about the identity mapping assume of a machine.       *)
ASSUME MachinesWithinReach == WithinReach
=============================================================================
