----------------------------- MODULE BootLoader -----------------------------
(***************************************************************************)
(* efi_main of the boot loader beside the firmware that it calls.  Every   *)
(* allocation may change the firmware's memory map, and so may the         *)
(* firmware's own events, until ExitBootServices is called with the key of *)
(* the map as it then is.  The loader goes on after every error but one.   *)
(***************************************************************************)
EXTENDS Integers, Sequences

CONSTANTS
  ConfigTables,   (* Sequences of configuration tables: acpi tells whether *)
                  (* the GUID of an entry is that of ACPI 2.0, rsd whether *)
                  (* the table it points to begins with an R.              *)
  Segments,       (* PT_LOAD segments of the kernel.                       *)
  Uninitialised,  (* Map sizes that the stack may hold.                    *)
  MaxEntries,     (* Bound on the descriptors of the memory map            *)
  MaxEvents       (* and on the events of the firmware that change it.     *)

ASSUME BootAssumption ==
  /\ \A s \in ConfigTables : s \in Seq([acpi : BOOLEAN, rsd : BOOLEAN])
  /\ Segments \in Nat /\ Uninitialised \subseteq Nat
  /\ MaxEntries \in Nat \ {0} /\ MaxEvents \in Nat

VARIABLES
  (* The firmware: the number of descriptors of its memory map, the map's  *)
  (* key, its events so far and whether boot services are there.           *)
  entries, key, events, services,
  (* The loader.  Sizes are in descriptors; pool tells whether the pool    *)
  (* for the map was granted, and map is the key of the map in it.         *)
  pc, segment, tables, i, rsdp, MapSize, MapKey, pool, map,
  (* History: what happened since the size of the map was asked for.       *)
  grew, disturbed

firmware == <<entries, key, events, services>>
search == <<tables, i, rsdp>>
mapping == <<MapSize, MapKey, pool, map>>
history == <<grew, disturbed>>
vars == <<firmware, pc, segment, search, mapping, history>>

PCs == {"kernel", "segments", "gop", "font", "size", "pool", "map", "rsdp", "exit",
        "started", "lost"}
NULL == 0       (* Keys and tables are numbered from 1.                    *)

-----------------------------------------------------------------------------
(* The firmware.  An allocation is served from a free piece of a page that *)
(* the pool has, or changes the map and splits descriptors of it.          *)
Allocates ==
  /\ \/ UNCHANGED <<entries, key>>
     \/ entries' \in entries .. MaxEntries /\ key' = key + 1
  /\ UNCHANGED <<events, services>>

(* A timer or a driver of the firmware allocates or frees.                 *)
Event ==
  /\ services /\ events < MaxEvents
  /\ events' = events + 1
  /\ entries' \in 1 .. MaxEntries /\ key' = key + 1
  /\ disturbed' = TRUE
  /\ UNCHANGED <<services, pc, segment, search, mapping, grew>>

-----------------------------------------------------------------------------
Init ==
  /\ entries \in 1 .. MaxEntries /\ key = 1 /\ events = 0 /\ services = TRUE
  /\ pc = "kernel" /\ segment = 0
  /\ tables \in ConfigTables /\ i = 0 /\ rsdp = NULL
  /\ MapSize \in Uninitialised /\ MapKey = NULL /\ pool = FALSE /\ map = NULL
  /\ grew = FALSE /\ disturbed = FALSE

(* The file, its header and its program headers; without a file the loader *)
(* calls through a null pointer.                                           *)
LoadKernel ==
  /\ pc = "kernel"
  /\ \/ pc' = "lost" /\ UNCHANGED firmware
     \/ pc' = "segments" /\ Allocates
  /\ UNCHANGED <<segment, search, mapping, history>>

(* AllocatePages at the address of a segment may fail; it is read all the  *)
(* same.                                                                   *)
LoadSegment ==
  /\ pc = "segments" /\ segment < Segments
  /\ segment' = segment + 1
  /\ Allocates
  /\ UNCHANGED <<pc, search, mapping, history>>

KernelLoaded ==
  /\ pc = "segments" /\ segment = Segments
  /\ pc' = "gop"
  /\ UNCHANGED <<firmware, segment, search, mapping, history>>

(* QueryMode allocates what it returns.  The frame buffer is handed over,  *)
(* or NULL if the protocol or the mode is missing.                         *)
InitializeGOP ==
  /\ pc = "gop"
  /\ pc' = "font"
  /\ Allocates
  /\ UNCHANGED <<segment, search, mapping, history>>

(* So is the font, or NULL without the file or with a wrong magic number.  *)
LoadFont ==
  /\ pc = "font"
  /\ pc' = "size"
  /\ Allocates
  /\ UNCHANGED <<segment, search, mapping, history>>

(* GetMemoryMap without a buffer: the size is too small, or it is large    *)
(* enough and the parameter is invalid.                                    *)
AskMapSize ==
  /\ pc = "size"
  /\ pc' = "pool"
  /\ MapSize' \in IF MapSize < entries THEN {entries} ELSE {entries, MapSize}
  /\ MapKey' \in {MapKey, key}
  /\ grew' = FALSE /\ disturbed' = FALSE
  /\ UNCHANGED <<firmware, segment, search, pool, map>>

(* Mutant: room for all descriptors but the last.                          *)
AllocateShortPool ==
  /\ pc = "pool"
  /\ pc' = "map"
  /\ pool' \in BOOLEAN
  /\ MapSize' = MapSize - 1
  /\ Allocates
  /\ grew' = (entries' > entries)
  /\ UNCHANGED <<segment, search, MapKey, map, disturbed>>

AllocateMapPool ==
  /\ pc = "pool"
  /\ pc' = "map"
  /\ pool' \in BOOLEAN
  /\ Allocates
  /\ grew' = (entries' > entries)
  /\ UNCHANGED <<segment, search, MapSize, MapKey, map, disturbed>>

(* GetMemoryMap fills the buffer if there is one and the map fits.  If     *)
(* not, it reports the size; the key is reported or not.                   *)
GetMemoryMap ==
  /\ pc = "map"
  /\ pc' = "rsdp"
  /\ \/ /\ pool /\ entries <= MapSize
        /\ map' = key /\ MapKey' = key /\ MapSize' = entries
     \/ /\ ~(pool /\ entries <= MapSize)
        /\ MapSize' \in IF MapSize < entries THEN {entries} ELSE {entries, MapSize}
        /\ MapKey' \in {MapKey, key}
        /\ UNCHANGED map
  /\ UNCHANGED <<firmware, segment, search, pool, history>>

-----------------------------------------------------------------------------
(* The loop advances configTable besides indexing it: round i looks at the *)
(* GUID of entry 2i, which may lie past the last one, and at the table of  *)
(* entry i, of which strcmp compares the first byte only.                  *)
HasGuid(k) ==
  IF k < Len(tables) THEN {tables[k + 1].acpi} ELSE BOOLEAN

(* Mutant: the signature is not compared.                                  *)
AnySignature(k) == TRUE
HasSignature(k) == tables[k + 1].rsd

SearchRsdp ==
  /\ pc = "rsdp" /\ i < Len(tables)
  /\ i' = i + 1
  /\ \E guid \in HasGuid(2 * i) :
       rsdp' = IF guid /\ HasSignature(i) THEN i + 1 ELSE rsdp
  /\ UNCHANGED <<firmware, pc, segment, tables, mapping, history>>

SearchEnds ==
  /\ pc = "rsdp" /\ i = Len(tables)
  /\ pc' = "exit"
  /\ UNCHANGED <<firmware, segment, search, mapping, history>>

(* Mutant: the key is asked for again, the map is not.                     *)
ExitWithNewKey ==
  /\ pc = "exit"
  /\ pc' = "started"
  /\ services' = FALSE
  /\ MapKey' = key
  /\ UNCHANGED <<entries, key, events, segment, search, MapSize, pool, map, history>>

(* Boot services stay when the key is not that of the map; either way the  *)
(* kernel is started.                                                      *)
ExitBootServices ==
  /\ pc = "exit"
  /\ pc' = "started"
  /\ services' = (MapKey # key)
  /\ UNCHANGED <<entries, key, events, segment, search, mapping, history>>

Next ==
  \/ Event
  \/ LoadKernel \/ LoadSegment \/ KernelLoaded \/ InitializeGOP \/ LoadFont
  \/ AskMapSize \/ AllocateMapPool \/ GetMemoryMap
  \/ SearchRsdp \/ SearchEnds \/ ExitBootServices

Spec == Init /\ [][Next]_vars
-----------------------------------------------------------------------------
(* A map that the kernel is started with after boot services have ended is *)
(* the memory map of the machine, in full, and stays so; that its size and *)
(* its contents come from three calls does not matter.                     *)
MapIsFinal ==
  pc = "started" /\ ~services /\ map # NULL => map = key /\ MapSize = entries

(* The kernel is started without a map, or with boot services still there, *)
(* only if the pool was refused, if allocating it split descriptors, for   *)
(* which the loader leaves no room, or if an event of the firmware came    *)
(* between the questions.                                                  *)
HandoffRight ==
  pc = "started" /\ pool /\ ~grew /\ ~disturbed => map = key /\ ~services

(* What is handed over as RSDP is a table that begins with an R.  When one *)
(* entry alone is ACPI's and its table alone does, it is found for sure    *)
(* only as the first of all entries, and in the first half of the others   *)
(* never: round i takes the GUID of entry 2i for that of entry i.          *)
OnlyAcpi(n) ==
  \A k \in DOMAIN tables : (tables[k].acpi <=> k = n) /\ (tables[k].rsd <=> k = n)

RsdpOnlyIfFirst ==
  /\ rsdp # NULL => tables[rsdp].rsd
  /\ \A n \in DOMAIN tables : pc = "exit" /\ OnlyAcpi(n) =>
       /\ n = 1 => rsdp = n
       /\ rsdp # NULL => n = 1 \/ 2 * n - 1 > Len(tables)
=============================================================================
