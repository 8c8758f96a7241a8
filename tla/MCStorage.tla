----------------------------- MODULE MCStorage -----------------------------
(* Machines and command lines for Storage.cfg.                             *)
EXTENDS Storage

Sata(n) == [implemented |-> TRUE, present |-> TRUE, active |-> TRUE, sig |-> "ATA", size |-> n]
Empty == [Sata(0) EXCEPT !.present = FALSE]
Asleep == [Sata(9) EXCEPT !.active = FALSE]
Cdrom == [Sata(0) EXCEPT !.sig = "ATAPI"]
Unimplemented == [Sata(9) EXCEPT !.implemented = FALSE]

Single(f) == [multi |-> FALSE, function |-> <<f, Absent>>]
Answering(f) == [multi |-> FALSE, function |-> <<f, f>>]
Multi(f, g) == [multi |-> TRUE, function |-> <<f, g>>]
Slot(d) == [d EXCEPT !.function = [f \in 0 .. 1 |-> d.function[f + 1]]]
Machine(devices, first, second) ==
  [devices |-> [k \in DOMAIN devices |-> Slot(devices[k])],
   ports |-> [a \in {"a1", "a2"} |-> IF a = "a1" THEN first ELSE second]]

(* The drive of the boot is the larger, the smaller one, or missing.       *)
MCMachines ==
  {Machine(<<Single(Absent), Multi(Other, "a2"), Answering("a1")>>,
           <<Sata(4), Sata(7), Cdrom>>, <<Sata(5), Sata(7)>>),
   Machine(<<Answering("a1"), Single(Other), Multi("a2", Other)>>,
           <<Sata(7), Asleep>>, <<Sata(9), Sata(7), Unimplemented>>),
   Machine(<<Single("a1"), Single(Absent)>>, <<Sata(7), Empty>>, << >>),
   Machine(<<Multi(Absent, Absent), Single(Other)>>, << >>, << >>)}

MCLines ==
  {<< >>, <<"dri", "ves">>, <<"dri", "ves", "mount", "0">>, <<"dri", "ves", "mount", "1", "2">>,
   <<"dri", "ves", "format">>, <<"dri", "ves", "size">>, <<"mem", "ory", "format">>,
   <<"fs", "list">>, <<"fs", "open">>}
=============================================================================
