------------------------------- MODULE MCHeap -------------------------------
(***************************************************************************)
(* Requests of the callers in the repository, in words.  Boot asks for the *)
(* buffer of ReadDiskSize, of which the drive fills a sector; for a flag   *)
(* for each sector of a drive of 4 MiB, which stay; and for the command    *)
(* buffer.  Commands ask for a sector, a directory table, and the buffer   *)
(* of ReadDiskSize again.                                                  *)
(***************************************************************************)
EXTENDS Heap

Passing(words, filled) == [words |-> words, filled |-> filled, keep |-> FALSE]
Lasting(words) == [words |-> words, filled |-> words, keep |-> TRUE]

MCBoot == <<Passing(2067, 64), Lasting(1024), Lasting(32)>>
MCRequests == {Passing(64, 64), Passing(65, 65), Passing(2067, 64)}

MCNoBoot == << >>
MCSmallRequests == {Passing(2, 2), Passing(64, 64), Passing(500, 500)}

ASSUME TodaysCallers == AnyOrder \/ FilledShort
ASSUME FourMegabytes == AnyOrder \/ FlagsSuit
=============================================================================
