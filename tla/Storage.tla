------------------------------ MODULE Storage ------------------------------
(***************************************************************************)
(* The drive of the prompt: InitializeDrive, GetFreeSector, FormatDrive    *)
(* and the class FS of storage.cpp, and ExecutePrompt of interface.cpp,    *)
(* which starts them from a command line.  Drives keep their sectors when  *)
(* the machine is switched off, which may happen at any time.              *)
(*                                                                         *)
(* Read and Write are what BlockDevice promises and AhciPort shows: TRUE   *)
(* after the transfer, FALSE before, after or half way through it.  After  *)
(* an error (wedged) the next call for the drive does not return.          *)
(***************************************************************************)
EXTENDS Enumeration, FiniteSets, SequencesExt

CONSTANTS
  BlockSize,    (* Bytes of a sector, one for each flag; 512 in the code.  *)
  Entries,      (* Entries of a directory that List looks at; 128.         *)
  Cleared,      (* Entries that FormatDrive clears; 32 in the code.        *)
  Junk,         (* What memory that nobody wrote may hold as an entry.     *)
  Byte,         (* Values of MountedDrivePort; 256 in the code.            *)
  Lines         (* Lines that are typed, as sequences of pieces.           *)

ASSUME StorageAssumption ==
  /\ BlockSize \in Nat \ {0} /\ Byte \in Nat /\ Byte > 1
  /\ Entries \in Nat /\ Cleared \in Nat \ {0}
  /\ Junk \subseteq Nat /\ Junk # {}
  /\ \A l \in Lines : l \in Seq(STRING) /\ \A c \in DOMAIN l : l[c] # "junk"

VARIABLES
  prompt,     (* The command buffer.                                       *)
  mounted,    (* MountedDrivePort.                                         *)
  count,      (* SectorCount.                                              *)
  marked,     (* Sectors: the sectors whose flag is TRUE.                  *)
  table,      (* Blocks[0] of the Table of FormatDrive.                    *)
  file,       (* What FormatDrive writes as the system file.               *)
  buf,        (* The buffer of List.                                       *)
  index,      (* The i of List.                                            *)
  listed,     (* The entries of its result that List has set.              *)
  wedged,     (* Drives whose last command failed.                         *)
  disk        (* Contents of the sectors of each drive.                    *)

shell == <<prompt, mounted>>
layout == <<count, marked>>
locals == <<table, file, buf, index, listed>>
drives == <<wedged, disk>>
vars == <<busVars, pc, shell, layout, locals, drives>>

-----------------------------------------------------------------------------
(* Contents of a sector: what is of no concern here, flags that are all    *)
(* FALSE, a directory by its first entry, metadata of a file.              *)
Foreign == [kind |-> "foreign"]
Flags == [kind |-> "flags"]
Directory(block) == [kind |-> "directory", block |-> block]
File(first, last) == [kind |-> "file", first |-> first, last |-> last]

Volumes == Adapters \X (0 .. Ports - 1)
Drives == [m \in Machines |->
             {d \in Volumes : d[2] \in PortsOf(m, d[1]) /\ IsDrive(m, d[1], d[2])}]
Size(m, d) == PortAt(m, d[1], d[2]).size
SectorsOf(d) == 0 .. Size(machine, d) - 1

FlagSectors == 0 .. (count \div BlockSize) - 1
TableSector == (count \div BlockSize) + 1

(* Mutant: the sector behind the flags is taken for the first free one.    *)
FirstBehindFlags == (count \div BlockSize) + 1
FirstCandidate == (count \div BlockSize) + 2

(* GetFreeSector may return anything if there is no free sector.           *)
FreeSectors(flags) ==
  LET free == (FirstCandidate .. count - 1) \ flags
  IN  IF free = {} THEN Junk ELSE {CHOOSE s \in free : \A t \in free : s <= t}

(* Mutant: the sector is marked.                                           *)
ClaimedMarked(flags, sector) == flags \cup {sector}
(* The flags after GetFreeSector returned the sector: it sets its flag to  *)
(* FALSE.                                                                  *)
Claimed(flags, sector) == flags \ {sector}

(* Mutant: FormatDrive starts with the flags that the boot read.           *)
KeptFlags == marked
(* The flags that FormatDrive starts with.                                 *)
ClearedFlags == {}

-----------------------------------------------------------------------------
(* The drive that a call with MountedDrivePort reaches, if there is one.   *)
Mounted == <<abar, mounted>>
Reached == Mounted \in Drives[machine] /\ rebased[abar][mounted] > 0

(* A call that transfers the given sectors and returns ok; some of them,   *)
(* from the first on, were transferred.  Behind the end of the drive it    *)
(* fails, and so it does without sectors, since a drive takes a count of 0 *)
(* for 65536, which reach behind the end of a drive that small, and since  *)
(* Write has wrapped prdtl to 0 and gives it nothing to write.  Transfers  *)
(* that one entry or one page of a command table cannot describe are not   *)
(* told apart.  On a port without a drive a call returns anything and      *)
(* transfers nothing.                                                      *)
Transfers(sectors, some, ok) ==
  IF Reached
  THEN /\ Mounted \notin wedged
       /\ some \subseteq sectors
       /\ \A s \in some : \A t \in sectors : t < s => t \in some
       /\ some # {} => sectors \subseteq SectorsOf(Mounted)
       /\ ok => some = sectors /\ some # {}
       /\ wedged' \in {wedged, IF ok THEN wedged ELSE wedged \cup {Mounted}}
  ELSE some = {} /\ UNCHANGED wedged

Reads(sectors, ok) ==
  /\ Transfers(sectors, IF ok /\ Reached THEN sectors ELSE {}, ok)
  /\ UNCHANGED disk

Writes(contents, ok) ==
  \E some \in SUBSET DOMAIN contents :
    /\ Transfers(DOMAIN contents, some, ok)
    /\ disk' = IF some = {} THEN disk ELSE
               [disk EXCEPT ![Mounted] =
                  [s \in DOMAIN @ |-> IF s \in some THEN contents[s] ELSE @[s]]]

(* A call for a drive that failed before, or for registers that are none,  *)
(* may not return: the loop never ends or the access is a page fault.      *)
MayHang == ~Reached \/ Mounted \in wedged

-----------------------------------------------------------------------------
(* The command line.  The first three pieces are the characters 0 to 2,    *)
(* 3 to 6 and 7 to 12 of the buffer, the others a character each.          *)
Cells == 1 .. 5
Digits == [d \in {"0", "1", "2", "3"} |->
             CASE d = "0" -> 0 [] d = "1" -> 1 [] d = "2" -> 2 [] d = "3" -> 3]
Untyped == [c \in Cells |-> "junk"]

(* What ExecutePrompt compares with: only as many characters as the        *)
(* command has, so whatever stands behind them plays no part.              *)
Commands ==
  {<<"mem", "ory", "info">>, <<"dri", "ves", "list">>, <<"dri", "ves", "mount">>,
   <<"dri", "ves", "format">>, <<"dri", "ves", "size">>,
   <<"fs", "list">>, <<"fs", "open">>, <<"fs", "writ", "e">>}

Command(b) ==
  IF \E w \in Commands : IsPrefix(w, b)
  THEN CHOOSE w \in Commands : IsPrefix(w, b)
  ELSE << >>

(* atoi from character 13 on, in a uint8_t.                                *)
Argument(b) ==
  IF b[4] \notin DOMAIN Digits THEN 0
  ELSE IF b[5] \notin DOMAIN Digits THEN Digits[b[4]]
  ELSE (10 * Digits[b[4]] + Digits[b[5]]) % Byte

(* How much of the buffer was ever typed.                                  *)
Reach(b) == Cardinality({c \in Cells : b[c] # "junk"})

(* Mutant: a line is stored behind the one before.                         *)
TypedBehind(b, l) ==
  [c \in Cells |-> IF c - Reach(b) \in DOMAIN l THEN l[c - Reach(b)] ELSE b[c]]
(* A line overwrites the buffer from its beginning, and nothing ends it.   *)
Typed(b, l) == [c \in Cells |-> IF c \in DOMAIN l THEN l[c] ELSE b[c]]

-----------------------------------------------------------------------------
Init ==
  /\ BusInit /\ pc = "enumerate"
  /\ prompt = Untyped /\ mounted = 1
  /\ count = 0 /\ marked = {}
  /\ table = 0 /\ file = Foreign /\ buf = Foreign /\ index = 0 /\ listed = {}
  /\ wedged = {}
  /\ disk = [d \in Drives[machine] |-> [s \in SectorsOf(d) |-> Foreign]]

(* The locals of a call that has returned are gone.                        *)
Returned ==
  table' = 0 /\ file' = Foreign /\ buf' = Foreign /\ index' = 0 /\ listed' = {}

(* The power may be switched off at any time; the kernel's memory is new   *)
(* afterwards.                                                             *)
PowerOff ==
  /\ pc # "enumerate"
  /\ UNCHANGED <<machine, disk>>
  /\ pc' = "enumerate" /\ device' = 1 /\ function' = 0
  /\ abar' = None /\ rebased' = NotRebased
  /\ prompt' = Untyped /\ mounted' = 1
  /\ count' = 0 /\ marked' = {}
  /\ Returned
  /\ wedged' = {}

Probing == Enumerate /\ UNCHANGED <<shell, layout, locals, drives>>

(* The flags are read over those that were just cleared, unless the drive  *)
(* cannot be read.  What is no flags may set any of them; all stands for   *)
(* these.  A port without a drive has size 0; without an adapter the       *)
(* registers are plain memory, and the boot waits for ever.                *)
InitializeDrive ==
  /\ pc = "drive" /\ abar # None
  /\ count' = IF Reached THEN Size(machine, Mounted) ELSE 0
  /\ \E ok \in BOOLEAN :
       /\ Reads(FlagSectors', ok)
       /\ marked' \in IF ok /\ Reached /\ \E s \in FlagSectors' : disk[Mounted][s] # Flags
                      THEN {{}, 0 .. count' - 1}
                      ELSE {{}}
  /\ pc' = "prompt"
  /\ UNCHANGED <<busVars, shell, locals>>

(* Whatever was called does not return.  Nor does ReadDiskSize if the      *)
(* drive fails its command.                                                *)
Hang ==
  /\ pc \in {"drive", "size", "flags", "table", "file", "list", "entries", "lookup"}
  /\ MayHang \/ pc \in {"drive", "size"}
  /\ pc' = "stopped"
  /\ Returned
  /\ UNCHANGED <<busVars, shell, layout, drives>>

-----------------------------------------------------------------------------
(* Enter: ExecutePrompt finds its command in the buffer.                   *)
Execute(command) ==
  CASE command = <<"dri", "ves", "mount">>  -> "prompt"
    [] command = <<"dri", "ves", "format">> -> "flags"
    [] command = <<"dri", "ves", "size">>   -> "size"
    [] command = <<"fs", "list">>           -> "list"
    [] command = <<"fs", "open">>           -> "lookup"
    [] command = <<"fs", "writ", "e">>      -> "lookup"
    [] OTHER                                -> "prompt"

Enter ==
  /\ pc = "prompt"
  /\ \E line \in Lines : prompt' = Typed(prompt, line)
  /\ pc' = Execute(Command(prompt'))
  /\ mounted' = IF Command(prompt') = <<"dri", "ves", "mount">>
                THEN Argument(prompt') ELSE mounted
  /\ UNCHANGED <<busVars, layout, locals, drives>>

(* drives size only reads.                                                 *)
Measure ==
  /\ pc = "size" /\ Mounted \notin wedged
  /\ pc' = "prompt"
  /\ UNCHANGED <<busVars, shell, layout, locals, drives>>

-----------------------------------------------------------------------------
(* FormatDrive goes on whether the flags were written or not.  Its system  *)
(* file is written from wherever an uninitialised pointer points; if that  *)
(* is no memory, the format ends there.                                    *)
FormatFlags ==
  /\ pc = "flags"
  /\ \E ok \in BOOLEAN : Writes([s \in FlagSectors |-> Flags], ok)
  /\ \E block \in FreeSectors(ClearedFlags) :
       LET one == Claimed(ClearedFlags, block)
       IN  \E first \in FreeSectors(one) :
             LET two == Claimed(one, first)
             IN  \E last \in FreeSectors(two) :
                   /\ marked' = Claimed(two, last)
                   /\ \/ pc' = "table" /\ table' = block /\ file' = File(first, last)
                      \/ pc' = "stopped" /\ UNCHANGED <<table, file>>
  /\ UNCHANGED <<busVars, shell, count, buf, index, listed>>

AfterTable(ok) == IF ok THEN "file" ELSE "prompt"

FormatTable ==
  /\ pc = "table"
  /\ \E ok \in BOOLEAN :
       /\ Writes([s \in {TableSector} |-> Directory(table)], ok)
       /\ pc' = AfterTable(ok)
  /\ IF pc' = "prompt" THEN Returned ELSE UNCHANGED locals
  /\ UNCHANGED <<busVars, shell, layout>>

FormatFile ==
  /\ pc = "file"
  /\ \E ok \in BOOLEAN : Writes([s \in {table} |-> file], ok)
  /\ pc' = "prompt"
  /\ Returned
  /\ UNCHANGED <<busVars, shell, layout>>

-----------------------------------------------------------------------------
(* Entry i of a directory, when a sector with these contents is taken for  *)
(* one: the nodes of a file lie where its first entries are.               *)
EntryAt(content, i) ==
  CASE content.kind = "flags" -> {0}
    [] content.kind = "directory" ->
         IF i = 0 THEN {content.block} ELSE IF i < Cleared THEN {0} ELSE Junk
    [] content.kind = "file" ->
         IF i = 0 THEN {content.first} ELSE IF i = 1 THEN {content.last} ELSE Junk
    [] OTHER -> Junk

(* The buffer after a Read of a sector into it.                            *)
Filled(sector, ok) == IF ok /\ Reached THEN disk[Mounted][sector] ELSE buf

(* List reads the directory and then each file into one and the same       *)
(* buffer.  If the directory cannot be read, the result is junk.           *)
ListDirectory ==
  /\ pc = "list"
  /\ \E ok \in BOOLEAN :
       /\ Reads({TableSector}, ok)
       /\ buf' = IF ok /\ Reached THEN disk[Mounted][TableSector] ELSE Foreign
       /\ pc' \in IF ok THEN {"entries"} ELSE {"prompt", "stopped"}
  /\ index' = 0 /\ listed' = {}
  /\ UNCHANGED <<busVars, shell, layout, table, file>>

ListEntry ==
  /\ pc = "entries" /\ index < Entries
  /\ \E sector \in EntryAt(buf, index) \ {0}, ok \in BOOLEAN :
       /\ Reads({sector}, ok)
       /\ buf' = Filled(sector, ok)
       /\ listed' = IF ok THEN listed \cup {index} ELSE listed
  /\ index' = index + 1
  /\ UNCHANGED <<busVars, pc, shell, layout, table, file>>

(* ExecutePrompt prints names through the pointers of the result, up to a  *)
(* zero; what lies behind those that List has set is junk.                 *)
ListEnds ==
  /\ pc = "entries"
  /\ index = Entries \/ 0 \in EntryAt(buf, index)
  /\ pc' \in {"prompt", "stopped"}
  /\ Returned
  /\ UNCHANGED <<busVars, shell, layout, drives>>

(* Open and WriteBuffer read the directory and take the numbers of sectors *)
(* in it for addresses.  Nothing in low memory is the address of the name, *)
(* so that they find nothing; behind the cleared entries they may read     *)
(* where no memory is.                                                     *)
Lookup ==
  /\ pc = "lookup"
  /\ \E ok \in BOOLEAN :
       /\ Reads({TableSector}, ok)
       /\ pc' \in IF ok THEN {"prompt", "stopped"} ELSE {"prompt"}
  /\ UNCHANGED <<busVars, shell, layout, locals>>

Next ==
  \/ Probing \/ InitializeDrive \/ Hang \/ PowerOff
  \/ Enter \/ Measure
  \/ FormatFlags \/ FormatTable \/ FormatFile
  \/ ListDirectory \/ ListEntry \/ ListEnds \/ Lookup

Spec == Init /\ [][Next]_vars

-----------------------------------------------------------------------------
(* Where formats put things: it depends on the drive that the boot         *)
(* measures, not on the one that is mounted.  On a drive that is too small *)
(* for its own layout, or without one, anything may become of sectors.     *)
BootSectors(m) ==
  LET d == <<LastAdapter[m], 1>> IN IF d \in Drives[m] THEN Size(m, d) ELSE 0
Plan == [m \in Machines |->
  LET behind == BootSectors(m) \div BlockSize
  IN  [flags |-> 0 .. behind - 1, table |-> behind + 1, data |-> behind + 2,
       fits |-> behind + 2 < BootSectors(m)]]

Holds(d, s, kind) == s \in SectorsOf(d) /\ disk[d][s].kind = kind

Stage(d) ==
  LET plan == Plan[machine]
  IN  IF ~plan.fits \/ d \notin Drives[machine] THEN "foreign"
      ELSE IF ~Holds(d, plan.table, "directory") THEN "foreign"
      ELSE IF Holds(d, disk[d][plan.table].block, "file") THEN "system"
      ELSE "directory"

(* Formatting keeps the promise of Catalog on every drive of the machine,  *)
(* through repeated formats, failures between their writes, loss of power, *)
(* and on drives that are larger or smaller than the one of the boot: each *)
(* format forgets the flags first, and so takes the same sector again.     *)
Promise == INSTANCE Catalog WITH stage <- [v \in Volumes |-> Stage(v)]
ImplementsCatalog == Promise!CatalogSpec

(* Whatever is typed, on whatever drive, and however often the power goes, *)
(* the only sectors ever written are the flags, the directory and one data *)
(* sector of the boot drive's layout.                                      *)
OnlyPlanWritten ==
  LET plan    == Plan[machine]
      written == plan.flags \cup {plan.table, plan.data}
  IN  plan.fits => \A d \in DOMAIN disk : \A s \in DOMAIN disk[d] :
                     disk[d][s] # Foreign => s \in written

(* As long as what List reads succeeds, the first two entries that it      *)
(* finds on a formatted drive are the system file, although it takes the   *)
(* second from the file that it read over the directory: the numbers of    *)
(* the first and the last node of the file are one and the same.           *)
FirstEntriesAreFiles ==
  pc = "entries" /\ Reached /\ index \in {1, 2} /\ listed = 0 .. index - 1 =>
    (Stage(Mounted) = "system" => buf.kind = "file")

(* In whatever state the lines so far have left the buffer, one that       *)
(* covers all that was ever typed runs as if it stood alone; behind a      *)
(* shorter one the rest of the buffer decides as well.                     *)
CoveringLineRunsAlone ==
  \A line \in Lines : Len(line) >= Reach(prompt) =>
    /\ Command(Typed(prompt, line)) = Command(Typed(Untyped, line))
    /\ Argument(Typed(prompt, line)) = Argument(Typed(Untyped, line))
=============================================================================
