---------------------------- MODULE MCBootLoader ----------------------------
(***************************************************************************)
(* Up to three configuration tables, in any order: ACPI 2.0's, others that *)
(* begin with an R, as that of ACPI 1.0, and others that do not.           *)
(***************************************************************************)
EXTENDS BootLoader, SequencesExt

MCConfigTables ==
  BoundedSeq({[acpi |-> TRUE, rsd |-> TRUE], [acpi |-> FALSE, rsd |-> TRUE],
              [acpi |-> FALSE, rsd |-> FALSE]}, 3)
=============================================================================
