------------------------------ MODULE AhciPort ------------------------------
(***************************************************************************)
(* One port of the AHCI driver (ahci.cpp) and the host bus adapter that    *)
(* works beside it: PortRebase, ReadDiskSize, Read and Write, with the     *)
(* registers PxCMD, PxCI, PxIS and PxTFD, the command headers and the      *)
(* command tables that the two share.  The driver polls; each of its       *)
(* accesses to a register is a step.                                       *)
(***************************************************************************)
EXTENDS Integers, Sequences, FiniteSets

CONSTANTS
  Sectors,      (* Sectors that callers name.                              *)
  Data,         (* Contents of a sector.                                   *)
  Blank,        (* Contents of a buffer that was not filled.               *)
  CmdSlotCounts, (* Values of bits 8 to 11 of CAP, all that find_cmdslot   *)
                 (* looks at.                                              *)
  Byte,         (* Values of a byte; 256 in the code.                      *)
  MaxSpin,      (* Rounds of the wait for BSY; 1000000 in the code.        *)
  MaxErrors,    (* Bound on the commands that the drive fails.             *)
  ClearsBusy    (* The adapter acts on bit C of a command header.          *)

ASSUME AhciAssumption ==
  /\ Sectors \subseteq Nat
  /\ CmdSlotCounts \subseteq Nat /\ MaxErrors \in Nat
  /\ Byte \in Nat /\ Byte > 1
  /\ MaxSpin \in Nat \ {0}
  /\ ClearsBusy \in BOOLEAN

None == -1

VARIABLES
  cap,       (* Bits 8 to 11 of CAP on this adapter.                       *)
  pc,        (* Where the driver is.                                       *)
  call,      (* Arguments of the call under way.                           *)
  slot,      (* Local of Read and Write.                                   *)
  spin,      (* Local of Read and Write.                                   *)
  result,    (* What the last call returned.                               *)
  st, cr,    (* PxCMD.ST and PxCMD.FRE; PxCMD.CR and PxCMD.FR.             *)
  ci,        (* PxCI, as a set of slots.                                   *)
  tfes,      (* PxIS.TFES: the task file reported an error.                *)
  busy,      (* PxTFD: BSY or DRQ.                                         *)
  header,    (* For each slot, what matters of its command header: bit C.  *)
  table,     (* For each slot, the command its command table describes.    *)
  active,    (* The slot whose command the drive executes.                 *)
  halted,    (* The adapter stopped after an error.                        *)
  errors,    (* Commands failed so far.                                    *)
  disk,      (* Contents of the sectors.                                   *)
  buffer,    (* Buffer of the last Read.                                   *)
  served     (* The transfer of the call under way has taken place.        *)

driver == <<cap, pc, call, slot, spin, result>>
memory == <<header, table, disk, buffer, served>>
adapter == <<cr, busy, active, halted, errors>>
vars == <<driver, memory, adapter, st, ci, tfes>>

(* Bits 8 to 12 of CAP hold the number of the last slot, so an adapter has *)
(* one slot more than they say; or 17 more, where bit 12 is set.  Neither  *)
(* the driver nor the firmware uses one of those.                          *)
Slots == 0 .. cap

NoCall == [kind |-> "none"]
Left == [kind |-> "left"]
Reads == [kind : {"read"}, sector : Sectors]
Writes == [kind : {"write"}, sector : Sectors, data : Data]
Identify == [kind |-> "identify"]

-----------------------------------------------------------------------------
(* The firmware may have used the port and left a read to its own memory   *)
(* behind; its command headers and tables are where the port points.       *)
Init ==
  /\ cap \in CmdSlotCounts
  /\ pc = "stop"
  /\ call = NoCall /\ slot = None /\ spin = 0 /\ result = FALSE
  /\ st \in BOOLEAN /\ cr = st
  /\ ci \in IF st THEN {{}, {0}} ELSE {{}}
  /\ tfes \in BOOLEAN
  /\ busy \in BOOLEAN
  /\ header \in [Slots -> BOOLEAN]
  /\ table = [s \in Slots |-> Left]
  /\ active = None /\ halted = FALSE /\ errors = 0
  /\ disk \in [Sectors -> Data]
  /\ buffer = Blank /\ served = FALSE

(* stopCmd: ask the adapter to stop, then wait until it has.               *)
StopCmd ==
  /\ pc = "stop"
  /\ st' = FALSE
  /\ pc' = "drain"
  /\ UNCHANGED <<cap, call, slot, spin, result, memory, adapter, ci, tfes>>

(* Mutant: the adapter is not waited for.                                  *)
RebaseUndrained ==
  /\ pc = "drain"
  /\ header' = [s \in Slots |-> FALSE]
  /\ table' = [s \in Slots |-> NoCall]
  /\ pc' = "start"
  /\ UNCHANGED <<cap, call, slot, spin, result, disk, buffer, served, adapter, st, ci, tfes>>

(* The rest of PortRebase: new command list, FIS area and command tables,  *)
(* all cleared.                                                            *)
Rebase ==
  /\ pc = "drain" /\ ~cr
  /\ header' = [s \in Slots |-> FALSE]
  /\ table' = [s \in Slots |-> NoCall]
  /\ pc' = "start"
  /\ UNCHANGED <<cap, call, slot, spin, result, disk, buffer, served, adapter, st, ci, tfes>>

StartCmd ==
  /\ pc = "start" /\ ~cr
  /\ st' = TRUE
  /\ pc' = "identify"
  /\ UNCHANGED <<cap, call, slot, spin, result, memory, adapter, ci, tfes>>

(* ReadDiskSize uses slot 0, sets bit C of its header and issues at once.  *)
IssueIdentify ==
  /\ pc = "identify"
  /\ header' = [header EXCEPT ![0] = TRUE]
  /\ table' = [table EXCEPT ![0] = Identify]
  /\ ci' = ci \cup {0}
  /\ pc' = "identified"
  /\ UNCHANGED <<cap, call, slot, spin, result, disk, buffer, served, adapter, st, tfes>>

(* It leaves its loop when no command at all is left, errors or not.       *)
IdentifyDone ==
  /\ pc = "identified" /\ ci = {}
  /\ pc' = "idle"
  /\ UNCHANGED <<cap, call, slot, spin, result, memory, adapter, st, ci, tfes>>

(* `drives size' calls ReadDiskSize again at any later time.               *)
AskSize ==
  /\ pc = "idle"
  /\ pc' = "identify"
  /\ UNCHANGED <<cap, call, slot, spin, result, memory, adapter, st, ci, tfes>>

(* Read and Write begin by clearing PxIS.                                  *)
Invoke ==
  /\ pc = "idle"
  /\ call' \in Reads \cup Writes
  /\ buffer' = Blank /\ served' = FALSE
  /\ tfes' = FALSE
  /\ pc' = "prepare"
  /\ UNCHANGED <<cap, slot, spin, result, header, table, disk, adapter, st, ci>>

Return(answer) ==
  /\ result' = answer
  /\ pc' = "idle"
  /\ call' = NoCall

(* Mutants: slots in use are not skipped; the last slot is left out.       *)
FirstCmdSlot(used) == 0
FindCmdSlotButLast(used) ==
  LET free == {s \in 0 .. cap - 2 : s \notin used}
  IN  IF free = {} THEN None ELSE CHOOSE s \in free : \A t \in free : s <= t

(* find_cmdslot                                                            *)
FindCmdSlot(used) ==
  LET free == {s \in 0 .. cap - 1 : s \notin used}
  IN  IF free = {} THEN None ELSE CHOOSE s \in free : \A t \in free : s <= t

NoSlotForRead ==
  /\ pc = "prepare" /\ call.kind = "read"
  /\ FindCmdSlot(ci) = None
  /\ Return(FALSE)
  /\ UNCHANGED <<cap, slot, spin, memory, adapter, st, ci, tfes>>

(* Write does not look at the result and takes the header before the list. *)
NoSlotForWrite ==
  /\ pc = "prepare" /\ call.kind = "write"
  /\ FindCmdSlot(ci) = None
  /\ pc' = "stray"
  /\ UNCHANGED <<cap, call, slot, spin, result, memory, adapter, st, ci, tfes>>

(* The bytes lba0 to lba5 of the command FIS.  Read and Write are given    *)
(* the low and the high 32 bits of the sector and differ in where they put *)
(* them.                                                                   *)
Low(sector) == sector % Byte^4
High(sector) == sector \div Byte^4
ByteOf(n, i) == (n \div Byte^i) % Byte

(* Mutant: two bytes change places.                                        *)
WriteLbaSwapped(l, h) ==
  <<ByteOf(l, 1), ByteOf(l, 0), ByteOf(l, 2), ByteOf(l, 3), ByteOf(h, 0), ByteOf(h, 1)>>

ReadLba(l, h) ==
  <<ByteOf(l, 0), ByteOf(l, 1), ByteOf(l, 2), ByteOf(h, 0), ByteOf(h, 1), ByteOf(h, 2)>>
WriteLba(l, h) ==
  <<ByteOf(l, 0), ByteOf(l, 1), ByteOf(l, 2), ByteOf(l, 3), ByteOf(h, 0), ByteOf(h, 1)>>

(* The drive's reading of the FIS.                                         *)
SectorOf(lba) ==
  lba[1] + Byte * (lba[2] + Byte * (lba[3] + Byte * (lba[4] + Byte * (lba[5] + Byte * lba[6]))))

Command(c) ==
  IF c.kind = "read"
  THEN [kind |-> "read", lba |-> ReadLba(Low(c.sector), High(c.sector))]
  ELSE [kind |-> "write", lba |-> WriteLba(Low(c.sector), High(c.sector)), data |-> c.data]

(* Neither touches bit C of the header.                                    *)
Prepare ==
  /\ pc = "prepare"
  /\ FindCmdSlot(ci) # None
  /\ slot' = FindCmdSlot(ci)
  /\ table' = [table EXCEPT ![slot'] = Command(call)]
  /\ spin' = 0
  /\ pc' = "spin"
  /\ UNCHANGED <<cap, call, result, header, disk, buffer, served, adapter, st, ci, tfes>>

SpinBusy ==
  /\ pc = "spin" /\ busy /\ spin < MaxSpin
  /\ spin' = spin + 1
  /\ UNCHANGED <<cap, pc, call, slot, result, memory, adapter, st, ci, tfes>>

SpinReady ==
  /\ pc = "spin" /\ ~busy /\ spin < MaxSpin
  /\ pc' = "issue"
  /\ UNCHANGED <<cap, call, slot, spin, result, memory, adapter, st, ci, tfes>>

(* The last round may have found the drive ready: it does not count.       *)
SpinTimeout ==
  /\ pc = "spin" /\ spin = MaxSpin
  /\ Return(FALSE)
  /\ UNCHANGED <<cap, slot, spin, memory, adapter, st, ci, tfes>>

Issue ==
  /\ pc = "issue"
  /\ ci' = ci \cup {slot}
  /\ pc' = "poll"
  /\ UNCHANGED <<cap, call, slot, spin, result, memory, adapter, st, tfes>>

(* Mutant: the test of PxCI never finds the bit clear.                     *)
PollNeverClear ==
  /\ pc = "poll"
  /\ pc' = "status"
  /\ UNCHANGED <<cap, call, slot, spin, result, memory, adapter, st, ci, tfes>>

Poll ==
  /\ pc = "poll"
  /\ pc' = IF slot \in ci THEN "status" ELSE "recheck"
  /\ UNCHANGED <<cap, call, slot, spin, result, memory, adapter, st, ci, tfes>>

(* Mutant: the driver does not look at PxIS while it waits.                *)
StatusIgnored ==
  /\ pc = "status"
  /\ pc' = "poll"
  /\ UNCHANGED <<cap, call, slot, spin, result, memory, adapter, st, ci, tfes>>

(* Mutant: the command is abandoned after one look.                        *)
StatusImpatient ==
  /\ pc = "status"
  /\ Return(FALSE)
  /\ UNCHANGED <<cap, slot, spin, memory, adapter, st, ci, tfes>>

Status ==
  /\ pc = "status"
  /\ \/ tfes /\ Return(FALSE)
     \/ ~tfes /\ pc' = "poll" /\ UNCHANGED <<call, result>>
  /\ UNCHANGED <<cap, slot, spin, memory, adapter, st, ci, tfes>>

Recheck ==
  /\ pc = "recheck"
  /\ Return(~tfes)
  /\ UNCHANGED <<cap, slot, spin, memory, adapter, st, ci, tfes>>

-----------------------------------------------------------------------------
(* The adapter and the drive.                                              *)
EngineStarts ==
  /\ st /\ ~cr
  /\ cr' = TRUE
  /\ UNCHANGED <<driver, memory, busy, active, halted, errors, st, ci, tfes>>

(* When ST is cleared the adapter forgets what was issued.                 *)
EngineStops ==
  /\ ~st /\ cr
  /\ cr' = FALSE /\ ci' = {} /\ active' = None /\ halted' = FALSE
  /\ UNCHANGED <<driver, memory, busy, errors, st, tfes>>

DriveReady ==
  /\ busy /\ active = None
  /\ busy' = FALSE
  /\ UNCHANGED <<driver, memory, cr, active, halted, errors, st, ci, tfes>>

(* A command is taken up when the drive is not busy.  If bit C of its      *)
(* header is set, its bit of PxCI is cleared as soon as the drive has got  *)
(* the FIS.                                                                *)
Fetch ==
  /\ cr /\ st /\ ~halted /\ ~busy /\ active = None
  /\ active' \in ci
  /\ IF ClearsBusy /\ header[active']
     THEN ci' = ci \ {active'} /\ UNCHANGED busy
     ELSE busy' = TRUE /\ UNCHANGED ci
  /\ UNCHANGED <<driver, memory, cr, halted, errors, st, tfes>>

(* The transfer, between the memory and the sector that the table names.   *)
Transfer(c) ==
  \/ /\ c.kind = "read" /\ SectorOf(c.lba) \in Sectors
     /\ buffer' = disk[SectorOf(c.lba)]
     /\ served' = TRUE
     /\ UNCHANGED disk
  \/ /\ c.kind = "write" /\ SectorOf(c.lba) \in Sectors
     /\ disk' = [disk EXCEPT ![SectorOf(c.lba)] = c.data]
     /\ served' = TRUE
     /\ UNCHANGED buffer
  \/ /\ c.kind \in {"identify", "none", "left"}
     /\ UNCHANGED <<disk, buffer, served>>

Complete ==
  /\ active # None
  /\ Transfer(table[active])
  /\ active' = None /\ busy' = FALSE
  /\ ci' = ci \ {active}
  /\ UNCHANGED <<driver, header, table, cr, halted, errors, st, tfes>>

(* On an error the adapter stops; the command stays in PxCI until ST is    *)
(* cleared.  The drive may need some time before it leaves BSY and DRQ.    *)
Fail ==
  /\ active # None
  /\ errors < MaxErrors /\ errors' = errors + 1
  /\ tfes' = TRUE
  /\ busy' \in BOOLEAN
  /\ active' = None /\ halted' = TRUE
  /\ UNCHANGED <<driver, memory, cr, st, ci>>

DriverNext ==
  \/ StopCmd \/ Rebase \/ StartCmd \/ IssueIdentify \/ IdentifyDone
  \/ NoSlotForRead \/ NoSlotForWrite \/ Prepare
  \/ SpinBusy \/ SpinReady \/ SpinTimeout \/ Issue \/ Poll \/ Status \/ Recheck

AdapterNext == EngineStarts \/ EngineStops \/ DriveReady \/ Fetch \/ Complete \/ Fail

Next == DriverNext \/ Invoke \/ AskSize \/ AdapterNext

(* The driver's processor runs on, and an adapter does what it is asked;   *)
(* nobody has to call Read, Write or ReadDiskSize.                         *)
Spec ==
  /\ Init /\ [][Next]_vars
  /\ WF_vars(DriverNext)
  /\ WF_vars(EngineStarts) /\ WF_vars(EngineStops) /\ WF_vars(DriveReady)
  /\ WF_vars(Fetch) /\ WF_vars(Complete \/ Fail)
-----------------------------------------------------------------------------
(* The driver never rewrites or replaces the command table of a command    *)
(* that the adapter still has, neither one that the firmware left nor one  *)
(* that failed.  ReadDiskSize alone does not look whether its slot is      *)
(* free; if it is not, the adapter has stopped and reads the table no more.*)
IssuedUntouched ==
  [][\A s \in ci :
       \/ table'[s] = table[s] /\ header'[s] = header[s]
       \/ s = 0 /\ pc = "identify" /\ halted]_vars

(* When the driver waits for the next call, the adapter works on nothing   *)
(* of its buffers, and what is left in PxCI are commands that failed.      *)
IdleIsQuiet ==
  pc = "idle" => active = None /\ Cardinality(ci) <= errors

(* Write runs with slot -1 only when every slot that find_cmdslot looks at *)
(* holds a command that failed.  Where it looks at more than one this is   *)
(* never: the second command after an error hangs before a second slot can *)
(* fail.  It looks at none or one on adapters of one or two slots, and of  *)
(* 17 or 18, of whose number it drops the highest bit.                     *)
StrayOnlyWhenFull ==
  pc = "stray" => errors >= cap /\ cap <= 1

(* The command FIS names the sector the caller asked for.                  *)
FisNamesSector ==
  pc \in {"spin", "issue", "poll", "status", "recheck"} =>
    SectorOf(table[slot].lba) = call.sector

(* A call is answered TRUE only once its transfer is complete.             *)
CompletionAwaited ==
  [][call # NoCall /\ call' = NoCall /\ result' => served]_vars

(* The driver and its adapter implement a block device.                    *)
Device == INSTANCE BlockDevice

ImplementsBlockDevice == Device!DeviceSpec

(* A command that the drive fails is reported to the caller.               *)
ErrorReported ==
  (pc \in {"poll", "status"} /\ tfes) ~> (call = NoCall /\ ~result)

(* As long as no command has failed, the port is started and ReadDiskSize  *)
(* returns; and every Read and Write that finds the adapter running comes  *)
(* back, though its own command fails.  Only the first failure of IDENTIFY *)
(* and the calls after a failure may wait for ever.                        *)
AnsweredUnlessHalted ==
  /\ (pc # "idle") ~> (pc = "idle" \/ halted)
  /\ (call # NoCall /\ ~halted) ~> (call = NoCall)
=============================================================================
