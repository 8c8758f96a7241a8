-------------------------- MODULE BootLoader_proof --------------------------
(***************************************************************************)
(* Proofs about what the boot loader hands to the kernel, for any number   *)
(* of segments, descriptors, events and configuration tables.              *)
(***************************************************************************)
EXTENDS BootLoader, TLAPS

(* Numbers are numbers, and the key of a map is not yet in use.            *)
Types ==
  /\ pc \in PCs
  /\ entries \in Nat /\ key \in Nat /\ key > 0 /\ events \in Nat
  /\ services \in BOOLEAN /\ pool \in BOOLEAN /\ grew \in BOOLEAN /\ disturbed \in BOOLEAN
  /\ MapSize \in Nat /\ MapKey \in 0 .. key /\ map \in 0 .. key
  /\ tables \in Seq([acpi : BOOLEAN, rsd : BOOLEAN])
  /\ i \in 0 .. Len(tables)

(* A map in the pool is described by the key and, unless the firmware's    *)
(* map has changed, by the size that the loader holds.                     *)
MapDescribed ==
  /\ map # NULL => MapKey = map /\ pc \in {"rsdp", "exit", "started"}
  /\ map # NULL /\ map = key => MapSize = entries
  /\ ~services => MapKey = key /\ pc = "started"

(* What an undisturbed handoff has reached at each step.                   *)
OnCourse ==
  /\ pc = "pool" /\ ~disturbed => entries <= MapSize
  /\ pc = "map" /\ ~grew /\ ~disturbed => entries <= MapSize
  /\ pc \in {"rsdp", "exit"} /\ pool /\ ~grew /\ ~disturbed => map = key
  /\ pc = "pool" => ~grew

(* The first table, if it is the right one, is found in the first round.   *)
FirstIsRight ==
  tables # << >> /\ tables[1].acpi /\ \A k \in DOMAIN tables : tables[k].rsd <=> k = 1

(* Whatever entry is found, the GUID was another's, or none's.             *)
Searched ==
  /\ rsdp # NULL => /\ rsdp \in DOMAIN tables /\ tables[rsdp].rsd
                    /\ 2 * rsdp - 1 > Len(tables) \/ tables[2 * rsdp - 1].acpi
  /\ FirstIsRight /\ i > 0 => rsdp # NULL
  /\ pc = "exit" => i = Len(tables)

IInv == Types /\ MapDescribed /\ OnCourse /\ HandoffRight /\ Searched

-----------------------------------------------------------------------------
(* The loader starts without a map.                                        *)
LEMMA InitIInv == Init => IInv
<1> SUFFICES ASSUME Init PROVE IInv
  OBVIOUS
<1>1. tables \in Seq([acpi : BOOLEAN, rsd : BOOLEAN]) /\ Len(tables) \in Nat
  BY BootAssumption DEF Init
<1>2. entries \in Nat /\ MapSize \in Nat
  BY BootAssumption DEF Init
<1>3. Types
  <2>1. {services, pool, grew, disturbed} \subseteq BOOLEAN
    BY Zenon DEF Init
  <2>2. pc \in PCs
    BY DEF Init, PCs
  <2>3. key > 0 /\ key \in Nat /\ events \in Nat /\ MapKey \in 0 .. key /\ map \in 0 .. key
    BY DEF Init, NULL
  <2>4. i \in 0 .. Len(tables)
    BY <1>1 DEF Init
  <2> QED
    BY <1>1, <1>2, <2>1, <2>2, <2>3, <2>4 DEF Types
<1>4. MapDescribed /\ OnCourse /\ HandoffRight
  BY DEF Init, MapDescribed, OnCourse, HandoffRight
<1>5. Searched
  BY DEF Init, Searched
<1> QED
  BY <1>3, <1>4, <1>5 DEF IInv

(* An allocation keeps the numbers and never takes descriptors away.       *)
LEMMA AllocatesGrows ==
  ASSUME Types, Allocates
  PROVE  /\ entries' \in Nat /\ entries' >= entries
         /\ key' \in Nat /\ key' >= key
         /\ events' = events /\ services' = services
BY BootAssumption DEF Types, Allocates

(* While the loader still allocates, it holds no map.                      *)
LEMMA AllocationsKeep ==
  ASSUME IInv, Allocates, pc' \in PCs,
         pc \in {"kernel", "segments", "gop", "font"},
         pc' \in {"kernel", "segments", "gop", "font", "size", "lost"},
         UNCHANGED <<search, mapping, history>>
  PROVE  IInv'
<1>1. map = NULL /\ services
  BY DEF IInv, MapDescribed, Types
<1>2. Types'
  BY AllocatesGrows DEF IInv, Types, search, mapping, history
<1>3. MapDescribed'
  BY <1>1, AllocatesGrows DEF IInv, MapDescribed, search, mapping, NULL
<1>4. OnCourse' /\ HandoffRight'
  BY DEF OnCourse, HandoffRight
<1>5. Searched'
  BY DEF IInv, Searched, search, FirstIsRight
<1> QED
  BY <1>2, <1>3, <1>4, <1>5 DEF IInv

(* An event changes the map under the loader's feet: its key is new.       *)
LEMMA EventKeeps == ASSUME IInv, Event PROVE IInv'
<1> USE DEF Event, search, mapping
<1>1. Types'
  <2>1. entries' \in Nat /\ events' \in Nat
    BY BootAssumption DEF IInv, Types
  <2>2. key' \in Nat /\ key' > 0 /\ MapKey' \in 0 .. key' /\ map' \in 0 .. key'
    BY DEF IInv, Types
  <2> QED
    BY <2>1, <2>2 DEF IInv, Types
<1>2. MapDescribed'
  <2>1. key' = key + 1 /\ map \in 0 .. key /\ key \in Nat
    BY DEF IInv, Types
  <2> QED
    BY <2>1 DEF IInv, MapDescribed
<1>3. OnCourse' /\ HandoffRight'
  BY DEF IInv, OnCourse, HandoffRight
<1>4. Searched'
  BY DEF IInv, Searched, FirstIsRight
<1> QED
  BY <1>1, <1>2, <1>3, <1>4 DEF IInv

(* The first GetMemoryMap tells the size that the pool needs.              *)
LEMMA AskMapSizeKeeps == ASSUME IInv, AskMapSize PROVE IInv'
<1> USE DEF AskMapSize, firmware, search
<1>1. Types'
  <2>1. grew' \in BOOLEAN /\ disturbed' \in BOOLEAN
    BY Zenon
  <2>2. MapSize' \in Nat /\ MapKey' \in 0 .. key' /\ pc' \in PCs
    BY DEF IInv, Types, PCs
  <2>3. UNCHANGED <<entries, key, events, services, pool, map, tables, i>>
    OBVIOUS
  <2> HIDE DEF AskMapSize
  <2> QED
    BY <2>1, <2>2, <2>3 DEF IInv, Types
<1>2. MapDescribed'
  BY DEF IInv, Types, MapDescribed
<1>3. OnCourse' /\ HandoffRight'
  <2>1. entries' <= MapSize'
    BY DEF IInv, Types
  <2> QED
    BY <2>1 DEF OnCourse, HandoffRight
<1>4. Searched'
  BY DEF IInv, Searched, FirstIsRight
<1> QED
  BY <1>1, <1>2, <1>3, <1>4 DEF IInv

(* The allocation may change the map whose size was just asked for.        *)
LEMMA AllocateMapPoolKeeps == ASSUME IInv, AllocateMapPool PROVE IInv'
<1> USE DEF AllocateMapPool, search
<1>1. Types'
  BY AllocatesGrows DEF IInv, Types, PCs
<1>2. MapDescribed'
  <2>1. map = NULL /\ services
    BY DEF IInv, MapDescribed, Types
  <2> QED
    BY <2>1, AllocatesGrows DEF IInv, MapDescribed, NULL
<1>3. OnCourse' /\ HandoffRight'
  <2>1. ~grew' => ~(entries' > entries)
    BY Zenon
  <2>2. ~grew' /\ ~disturbed' => entries' <= MapSize'
    BY <2>1, AllocatesGrows DEF IInv, Types, OnCourse
  <2> QED
    BY <2>2 DEF OnCourse, HandoffRight
<1>4. Searched'
  BY DEF IInv, Searched, FirstIsRight
<1> QED
  BY <1>1, <1>2, <1>3, <1>4 DEF IInv

(* The second GetMemoryMap fills the pool with the present map, or fails.  *)
LEMMA GetMemoryMapKeeps == ASSUME IInv, GetMemoryMap PROVE IInv'
<1> USE DEF GetMemoryMap, firmware, search, history
<1>1. Types'
  BY DEF IInv, Types, PCs
<1>2. MapDescribed'
  BY DEF IInv, Types, MapDescribed
<1>3. OnCourse' /\ HandoffRight'
  BY DEF IInv, Types, OnCourse, HandoffRight
<1>4. Searched'
  BY DEF IInv, Searched, FirstIsRight
<1> QED
  BY <1>1, <1>2, <1>3, <1>4 DEF IInv

(* A round of the search hands over a table only if it begins with an R,   *)
(* and the first round finds the first entry.                              *)
LEMMA SearchRsdpKeeps == ASSUME IInv, SearchRsdp PROVE IInv'
<1> USE DEF SearchRsdp, firmware, mapping, history
<1>1. Types'
  BY DEF IInv, Types
<1>2. MapDescribed' /\ OnCourse' /\ HandoffRight'
  BY DEF IInv, MapDescribed, OnCourse, HandoffRight
<1>3. Searched'
  <2>1. PICK guid \in HasGuid(2 * i) : rsdp' = IF guid /\ HasSignature(i) THEN i + 1 ELSE rsdp
    OBVIOUS
  <2>2. i \in Nat /\ i + 1 \in DOMAIN tables /\ Len(tables) \in Nat
    BY DEF IInv, Types
  <2>3. rsdp' # NULL => /\ rsdp' \in DOMAIN tables /\ tables[rsdp'].rsd
                        /\ 2 * rsdp' - 1 > Len(tables) \/ tables[2 * rsdp' - 1].acpi
    <3>1. CASE guid = TRUE /\ HasSignature(i)
      <4>1. rsdp' = i + 1
        BY <2>1, <3>1, Zenon
      <4>2. 2 * i < Len(tables) => tables[2 * i + 1].acpi = TRUE
        BY <2>1, <2>2, <3>1 DEF HasGuid
      <4>3. tables[i + 1].rsd
        BY <3>1 DEF HasSignature
      <4>4. 2 * (i + 1) - 1 = 2 * i + 1
        BY <2>2
      <4> QED
        BY <2>2, <4>1, <4>2, <4>3, <4>4
    <3>2. CASE ~(guid = TRUE /\ HasSignature(i))
      <4>1. rsdp' = rsdp
        BY <2>1, <3>2 DEF HasGuid, IInv, Types
      <4> QED
        BY <4>1 DEF IInv, Searched
    <3> QED
      BY <3>1, <3>2
  <2>4. ASSUME FirstIsRight PROVE rsdp' # NULL
    <3>1. CASE i = 0
      <4>1. guid = TRUE
        BY <2>1, <2>2, <2>4, <3>1 DEF HasGuid, FirstIsRight
      <4>2. HasSignature(i)
        BY <2>2, <2>4, <3>1 DEF HasSignature, FirstIsRight
      <4> QED
        BY <2>1, <2>2, <4>1, <4>2 DEF NULL
    <3>2. CASE i > 0
      BY <2>1, <2>2, <2>4, <3>2 DEF IInv, Searched, NULL
    <3> QED
      BY <2>2, <3>1, <3>2
  <2> QED
    BY <2>3, <2>4 DEF Searched, FirstIsRight
<1> QED
  BY <1>1, <1>2, <1>3 DEF IInv

(* The loop ends at the last table, with or without an RSDP.               *)
LEMMA SearchEndsKeeps == ASSUME IInv, SearchEnds PROVE IInv'
<1> USE DEF SearchEnds, firmware, search, mapping, history
<1>1. Types' /\ MapDescribed'
  BY DEF IInv, Types, MapDescribed, PCs
<1>2. OnCourse' /\ HandoffRight'
  BY DEF IInv, OnCourse, HandoffRight
<1>3. Searched'
  BY DEF IInv, Searched, FirstIsRight
<1> QED
  BY <1>1, <1>2, <1>3 DEF IInv

(* Boot services end only with the key of the present map.                 *)
LEMMA ExitKeeps == ASSUME IInv, ExitBootServices PROVE IInv'
<1> USE DEF ExitBootServices, search, mapping, history
<1>1. Types'
  BY DEF IInv, Types, PCs
<1>2. MapDescribed'
  BY DEF IInv, MapDescribed
<1>3. OnCourse' /\ HandoffRight'
  BY DEF IInv, Types, MapDescribed, OnCourse, HandoffRight, NULL
<1>4. Searched'
  BY DEF IInv, Searched, FirstIsRight
<1> QED
  BY <1>1, <1>2, <1>3, <1>4 DEF IInv

(* Every step of the loader and of the firmware keeps the invariant.       *)
LEMMA StepIInv == IInv /\ [Next]_vars => IInv'
<1> SUFFICES ASSUME IInv, [Next]_vars PROVE IInv'
  OBVIOUS
<1>1. CASE LoadKernel
  <2>1. CASE Allocates
    BY <1>1, <2>1, AllocationsKeep DEF LoadKernel, PCs
  <2>2. CASE UNCHANGED firmware
    <3>1. Allocates
      BY <2>2 DEF firmware, Allocates
    <3> QED
      BY <1>1, <3>1, AllocationsKeep DEF LoadKernel, PCs
  <2> QED
    BY <1>1, <2>1, <2>2 DEF LoadKernel
<1>2. CASE LoadSegment
  BY <1>2, AllocationsKeep DEF LoadSegment, PCs
<1>3. CASE KernelLoaded
  <2>1. Allocates
    BY <1>3 DEF KernelLoaded, firmware, Allocates
  <2> QED
    BY <1>3, <2>1, AllocationsKeep DEF KernelLoaded, PCs
<1>4. CASE InitializeGOP
  BY <1>4, AllocationsKeep DEF InitializeGOP, PCs
<1>5. CASE LoadFont
  BY <1>5, AllocationsKeep DEF LoadFont, PCs
<1>6. CASE UNCHANGED vars
  BY <1>6 DEF IInv, Types, MapDescribed, OnCourse, HandoffRight, Searched, FirstIsRight,
              vars, firmware, search, mapping, history
<1> QED
  BY <1>1, <1>2, <1>3, <1>4, <1>5, <1>6, EventKeeps, AskMapSizeKeeps, AllocateMapPoolKeeps,
     GetMemoryMapKeeps, SearchRsdpKeeps, SearchEndsKeeps, ExitKeeps DEF Next

-----------------------------------------------------------------------------
(* The handoff: a kernel that runs without boot services and with a map    *)
(* has the final map, and it gets there whenever nothing came between the  *)
(* loader's questions.                                                     *)
THEOREM HandoffCorrect == Spec => []MapIsFinal /\ []HandoffRight
<1>1. IInv => MapIsFinal /\ HandoffRight
  BY DEF IInv, MapDescribed, MapIsFinal
<1> QED
  BY InitIInv, StepIInv, <1>1, PTL DEF Spec

(* A kernel that runs after boot services has the final map, if it has one *)
(* at all (efi_main of main.c).                                            *)
THEOREM MapFinalCorrect == Spec => []MapIsFinal
BY HandoffCorrect, PTL

(* The RSDP that is handed over begins with an R.  If one entry alone is    *)
(* ACPI's and its table alone begins so, it is found as the first entry,   *)
(* and otherwise only where its round reads past the last one.             *)
THEOREM RsdpCorrect == Spec => []RsdpOnlyIfFirst
<1>1. IInv => RsdpOnlyIfFirst
  <2> SUFFICES ASSUME IInv PROVE RsdpOnlyIfFirst
    OBVIOUS
  <2>1. rsdp # NULL => /\ rsdp \in DOMAIN tables /\ tables[rsdp].rsd
                       /\ 2 * rsdp - 1 > Len(tables) \/ tables[2 * rsdp - 1].acpi
    BY DEF IInv, Searched
  <2>2. DOMAIN tables = 1 .. Len(tables) /\ Len(tables) \in Nat
    BY DEF IInv, Types
  <2>3. ASSUME NEW n \in DOMAIN tables, OnlyAcpi(n), pc = "exit", n = 1
        PROVE  rsdp = n
    <3>1. FirstIsRight /\ i > 0
      BY <2>2, <2>3 DEF OnlyAcpi, FirstIsRight, IInv, Searched
    <3> QED
      BY <2>1, <2>3, <3>1 DEF IInv, Searched, FirstIsRight
  <2>4. ASSUME NEW n \in DOMAIN tables, OnlyAcpi(n), rsdp # NULL
        PROVE  n = 1 \/ 2 * n - 1 > Len(tables)
    <3>1. rsdp = n
      BY <2>1, <2>4 DEF OnlyAcpi
    <3>2. SUFFICES ASSUME 2 * n - 1 <= Len(tables) PROVE n = 1
      BY <2>2
    <3>3. 2 * n - 1 \in DOMAIN tables
      BY <2>2, <3>2
    <3>4. tables[2 * n - 1].acpi
      BY <2>1, <2>2, <2>4, <3>1, <3>2
    <3>5. 2 * n - 1 = n
      BY <2>4, <3>3, <3>4 DEF OnlyAcpi
    <3> QED
      BY <2>2, <3>5
  <2> QED
    BY <2>1, <2>3, <2>4 DEF RsdpOnlyIfFirst
<1> QED
  BY InitIInv, StepIInv, <1>1, PTL DEF Spec
=============================================================================
