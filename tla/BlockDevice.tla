---------------------------- MODULE BlockDevice ----------------------------
(***************************************************************************)
(* What Read and Write of the AHCI driver promise the file system: a call  *)
(* is answered TRUE only after the sector it names was read into its       *)
(* buffer or written from it, and no sector and no buffer changes outside  *)
(* the call that asked for it.                                             *)
(***************************************************************************)
CONSTANTS
  Sectors,   (* Sectors that callers name.                                 *)
  Data,      (* Contents of a sector.                                      *)
  Blank      (* Contents of a buffer that was not filled.                  *)

VARIABLES
  disk,      (* Contents of each sector.                                   *)
  call,      (* The call under way; kind "none" between calls.             *)
  buffer,    (* The buffer of the last Read.                               *)
  served,    (* The transfer of the call under way has taken place.        *)
  result     (* Answer to the last call.                                   *)

deviceVars == <<disk, call, buffer, served, result>>

NoCall == [kind |-> "none"]
Calls ==
  [kind : {"read"}, sector : Sectors] \cup
  [kind : {"write"}, sector : Sectors, data : Data]

DeviceInit ==
  /\ DOMAIN disk = Sectors
  /\ call = NoCall
  /\ buffer = Blank
  /\ served = FALSE
  /\ result = FALSE

Invoke ==
  /\ call = NoCall
  /\ call' \in Calls
  /\ buffer' = Blank
  /\ served' = FALSE
  /\ UNCHANGED <<disk, result>>

Serve ==
  /\ call # NoCall /\ ~served
  /\ served' = TRUE
  /\ \/ call.kind = "read" /\ buffer' = disk[call.sector] /\ UNCHANGED disk
     \/ /\ call.kind = "write"
        /\ disk' = [disk EXCEPT ![call.sector] = call.data]
        /\ UNCHANGED buffer
  /\ UNCHANGED <<call, result>>

Answer ==
  /\ call # NoCall
  /\ call' = NoCall
  /\ result' \in {FALSE, served}
  /\ UNCHANGED <<disk, buffer, served>>

DeviceNext == Invoke \/ Serve \/ Answer

DeviceSpec == DeviceInit /\ [][DeviceNext]_deviceVars
=============================================================================
