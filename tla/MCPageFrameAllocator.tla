------------------------ MODULE MCPageFrameAllocator ------------------------
(***************************************************************************)
(* Small machines: a kernel in the first two pages, as the linker script   *)
(* places it, then descriptors in the order the firmware lists them.       *)
(***************************************************************************)
EXTENDS PageFrameAllocator

Desc(t, start, count) == [type |-> t, physAddr |-> start, numPages |-> count]

(* Low memory, a hole of h pages that no descriptor names, a segment of    *)
(* type t and a last conventional segment of n pages.                      *)
Machine(h, t, n) ==
  << Desc(2, 0, 1), Desc(7, 1, 4), Desc(t, 5 + h, 2), Desc(7, 7 + h, n) >>

MCMemoryMaps ==
  { Machine(0, 4, 3),   \* 10 pages: five bits past the end of memory
    Machine(0, 0, 7),   \* 14 pages: one bit past the end
    Machine(0, 4, 8),   \* 15 pages: none
    Machine(2, 4, 6),   \* 13 pages with a hole: the top is beyond them
    Machine(9, 0, 3),   \* the last segment is out of the bitmap's reach
    << Desc(2, 0, 2), Desc(7, 2, 5), Desc(7, 7, 5), Desc(11, 20, 1) >>,
    << Desc(7, 0, 2), Desc(11, 40, 2), Desc(9, 2, 1), Desc(7, 3, 6) >> }

MCKernel == [start |-> 0, pages |-> 2]
MCFrameBuffers ==
  { [start |-> 40, pages |-> 2], [start |-> 15, pages |-> 2], [start |-> 3, pages |-> 2] }
=============================================================================
