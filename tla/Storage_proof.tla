--------------------------- MODULE Storage_proof ---------------------------
(***************************************************************************)
(* Proofs about the drives, for all machines, sizes of drives and sectors, *)
(* and lines: the walk over the bus finds the last adapter and takes each  *)
(* drive over once, and formats keep to the layout of the boot drive and   *)
(* to the promise of Catalog.                                              *)
(***************************************************************************)
EXTENDS Storage, FiniteSetTheorems, TLAPS

(* The walk has come to a function that exists, or to the end of the bus.  *)
CursorType ==
  /\ device \in 1 .. Len(machine.devices) + 1
  /\ function \in 0 .. Functions - 1
  /\ device <= Len(machine.devices) => function < FuncCount(device)
  /\ device > Len(machine.devices) => function = 0

RebasedType ==
  /\ DOMAIN rebased = Adapters
  /\ \A a \in Adapters : DOMAIN rebased[a] = PortsOf(machine, a)

Cursor == <<device, function>>
Places == DOMAIN OnBus[machine]

(* The adapter in use is the last one that the walk has passed.            *)
LastPassed ==
  \/ abar = None /\ \A q \in Places : ~Before(q, Cursor)
  \/ \E q \in Places :
       /\ abar = OnBus[machine][q] /\ Before(q, Cursor)
       /\ \A r \in Places : Before(r, Cursor) => ~Before(q, r)

(* The drives of the adapters that were passed, and no others, were taken  *)
(* over, each once.                                                        *)
RebasedPassed ==
  \A a \in Adapters : \A p \in PortsOf(machine, a) :
    rebased[a][p] = IF IsDrive(machine, a, p) /\ \E q \in Places :
                         OnBus[machine][q] = a /\ Before(q, Cursor)
                    THEN 1 ELSE 0

(* The adapter in use was found on the bus.                                *)
AdapterFound == abar # None => \E q \in Places : OnBus[machine][q] = abar

WalkInv ==
  /\ AdapterFound
  /\ machine \in Machines /\ RebasedType
  /\ pc = "enumerate" => CursorType /\ LastPassed /\ RebasedPassed
  /\ ProbedOnce

-----------------------------------------------------------------------------
(* What the assumption says of a machine.                                  *)
LEMMA MachineType ==
  ASSUME NEW m \in Machines
  PROVE  /\ Len(m.devices) \in Nat /\ DOMAIN m.devices = 1 .. Len(m.devices)
         /\ \A k \in 1 .. Len(m.devices) :
              /\ m.devices[k].multi \in BOOLEAN
              /\ m.devices[k].function[0] = Absent =>
                   \A f \in 0 .. Functions - 1 : m.devices[k].function[f] = Absent
         /\ \A a \in Adapters : \A p \in PortsOf(m, a) : PortAt(m, a, p).size \in Nat
<1>1. m.devices \in Seq(Device) /\ \A a \in Adapters : m.ports[a] \in Seq(Port)
  BY MachinesAssumption
<1>2. \A k \in 1 .. Len(m.devices) : m.devices[k] \in Device
  BY <1>1
<1>3. \A k \in 1 .. Len(m.devices) : m.devices[k].multi \in BOOLEAN
  BY <1>2 DEF Device
<1>4. \A a \in Adapters : \A p \in PortsOf(m, a) : PortAt(m, a, p) \in Port
  BY <1>1 DEF PortsOf, PortAt
<1>5. \A a \in Adapters : \A p \in PortsOf(m, a) : PortAt(m, a, p).size \in Nat
  BY <1>4 DEF Port
<1> QED
  BY <1>1, <1>3, <1>5, MachinesAssumption

(* The places on the bus are ordered.                                      *)
LEMMA PlacesOnBus ==
  ASSUME NEW m \in Machines
  PROVE  /\ DOMAIN OnBus[m] =
              {q \in (DOMAIN m.devices) \X (0 .. Functions - 1) :
                 /\ q[2] = 0 \/ m.devices[q[1]].multi
                 /\ m.devices[q[1]].function[q[2]] \in Adapters}
         /\ \A q \in DOMAIN OnBus[m] :
              /\ q = <<q[1], q[2]>> /\ q[1] \in 1 .. Len(m.devices) /\ q[2] \in 0 .. Functions - 1
              /\ OnBus[m][q] = m.devices[q[1]].function[q[2]] /\ OnBus[m][q] \in Adapters
<1>1. DOMAIN OnBus[m] =
        {q \in (DOMAIN m.devices) \X (0 .. Functions - 1) :
           /\ q[2] = 0 \/ m.devices[q[1]].multi
           /\ m.devices[q[1]].function[q[2]] \in Adapters}
  BY DEF OnBus
<1>2. \A q \in DOMAIN OnBus[m] : OnBus[m][q] = m.devices[q[1]].function[q[2]]
  BY DEF OnBus
<1> QED
  BY <1>1, <1>2, MachineType

(* The walk goes from function to function: what lies before its next stop *)
(* is what lay before the last one, and the last one itself.               *)
LEMMA StepForward ==
  ASSUME machine \in Machines, CursorType, Walking, NextFunction, UNCHANGED machine
  PROVE  /\ CursorType'
         /\ \A q \in Places : Before(q, Cursor') <=> Before(q, Cursor) \/ q = Cursor
<1>1. /\ device \in 1 .. Len(machine.devices) /\ function \in 0 .. Functions - 1
      /\ function < FuncCount(device) /\ Len(machine.devices) \in Nat
  BY MachineType DEF Walking, CursorType
<1>2. FuncCount(device) \in {1, Functions} /\ Functions \in Nat \ {0}
  BY MachinesAssumption DEF FuncCount
<1>3. \A k \in 1 .. Len(machine.devices) : FuncCount(k) \in {1, Functions} /\ FuncCount(k)' = FuncCount(k)
  BY DEF FuncCount, IsMulti
<1>4. CursorType'
  BY <1>1, <1>2, <1>3 DEF NextFunction, CursorType
<1>5. ASSUME NEW q \in Places
      PROVE  Before(q, Cursor') <=> Before(q, Cursor) \/ q = Cursor
  <2>1. /\ q = <<q[1], q[2]>> /\ q[1] \in 1 .. Len(machine.devices) /\ q[2] \in 0 .. Functions - 1
        /\ q[2] = 0 \/ machine.devices[q[1]].multi
    BY PlacesOnBus DEF Places
  <2>2. q[1] = device => q[2] < FuncCount(device)
    BY <1>2, <2>1 DEF FuncCount, IsMulti
  <2>3. q = Cursor <=> q[1] = device /\ q[2] = function
    BY <2>1 DEF Cursor
  <2>4. Cursor[1] = device /\ Cursor[2] = function /\ Cursor'[1] = device' /\ Cursor'[2] = function'
    BY DEF Cursor
  <2> QED
    BY <1>1, <1>2, <2>1, <2>2, <2>3, <2>4 DEF Before, NextFunction
<1> QED
  BY <1>4, <1>5

(* No place on the bus is passed without an adapter that is taken over.    *)
LEMMA SkipKeeps ==
  ASSUME WalkInv, PciVisitSkips
  PROVE  WalkInv'
<1>1. /\ machine' = machine /\ pc = "enumerate" /\ pc' = "enumerate"
      /\ abar' = abar /\ rebased' = rebased
      /\ CursorType /\ LastPassed /\ RebasedPassed /\ machine \in Machines /\ RebasedType
  BY DEF WalkInv, PciVisitSkips, Walking
<1>2. CursorType' /\ \A q \in Places : Before(q, Cursor') <=> Before(q, Cursor) \/ q = Cursor
  BY <1>1, StepForward DEF PciVisitSkips
<1>3. Cursor \notin Places
  <2>1. Cursor[1] = device /\ Cursor[2] = function
    BY DEF Cursor
  <2>2. Cursor \in Places => machine.devices[device].function[function] \in Adapters
    BY <1>1, <2>1, PlacesOnBus DEF Places
  <2> QED
    BY <2>2 DEF PciVisitSkips, Visited
<1>4. Places' = Places /\ \A q \in Places : Before(q, Cursor') <=> Before(q, Cursor)
  BY <1>1, <1>2, <1>3 DEF Places
<1>5. LastPassed'
  <2>1. CASE abar = None /\ \A q \in Places : ~Before(q, Cursor)
    BY <1>1, <1>4, <2>1 DEF LastPassed
  <2>2. CASE \E q \in Places : /\ abar = OnBus[machine][q] /\ Before(q, Cursor)
                               /\ \A r \in Places : Before(r, Cursor) => ~Before(q, r)
    BY <1>1, <1>4, <2>2 DEF LastPassed
  <2> QED
    BY <1>1, <2>1, <2>2 DEF LastPassed
<1>6. RebasedPassed'
  BY <1>1, <1>4 DEF RebasedPassed
<1>7. RebasedType' /\ AdapterFound'
  BY <1>1, <1>4 DEF RebasedType, AdapterFound, WalkInv
<1> QED
  BY <1>1, <1>2, <1>5, <1>6, <1>7 DEF WalkInv, ProbedOnce

(* The adapter that is taken over is the last one so far, and none of its  *)
(* drives was taken over before.                                           *)
LEMMA ProbeKeeps ==
  ASSUME WalkInv, PciVisitProbes
  PROVE  WalkInv'
<1>1. /\ machine' = machine /\ pc = "enumerate" /\ pc' = "enumerate"
      /\ CursorType /\ RebasedPassed /\ machine \in Machines /\ RebasedType
      /\ Walking /\ Visited \in Adapters /\ ProbePort(Visited)
  BY DEF WalkInv, PciVisitProbes, Walking
<1>2. CursorType' /\ \A q \in Places : Before(q, Cursor') <=> Before(q, Cursor) \/ q = Cursor
  BY <1>1, StepForward DEF PciVisitProbes
<1>3. Cursor \in Places /\ OnBus[machine][Cursor] = Visited
  <2>1. /\ device \in 1 .. Len(machine.devices) /\ function \in 0 .. Functions - 1
        /\ function < FuncCount(device)
    BY <1>1, MachineType DEF CursorType, Walking
  <2>2. function = 0 \/ machine.devices[device].multi
    <3>1. CASE machine.devices[device].function[0] = Absent
      <4>1. Visited = Absent
        BY <1>1, <2>1, <3>1, MachineType DEF Visited
      <4> QED
        BY <1>1, <4>1, MachinesAssumption
    <3>2. CASE machine.devices[device].function[0] # Absent
      BY <2>1, <3>2 DEF FuncCount, IsMulti
    <3> QED
      BY <3>1, <3>2
  <2>3. Cursor = <<device, function>> /\ Cursor[1] = device /\ Cursor[2] = function
    BY DEF Cursor
  <2>4. Cursor \in (DOMAIN machine.devices) \X (0 .. Functions - 1)
    BY <1>1, <2>1, <2>3, MachineType
  <2>5. Cursor \in Places
    BY <1>1, <2>2, <2>3, <2>4, PlacesOnBus DEF Places, Visited
  <2> QED
    BY <1>1, <2>3, <2>5, PlacesOnBus DEF Places, Visited
<1>4. Places' = Places /\ OnBus[machine]' = OnBus[machine]
  BY <1>1 DEF Places
<1>5. \A q \in Places : Before(q, Cursor) => ~Before(Cursor, q) /\ q # Cursor
  <2>1. \A q \in Places : q[1] \in Int /\ q[2] \in Int
    BY <1>1, PlacesOnBus, MachineType DEF Places
  <2> QED
    BY <1>3, <2>1 DEF Before
<1>6. LastPassed'
  <2>1. abar' = OnBus[machine][Cursor]
    BY <1>1, <1>3 DEF ProbePort
  <2>2. ~Before(Cursor, Cursor)
    <3>1. Cursor[1] \in Int /\ Cursor[2] \in Int
      BY <1>1, <1>3, PlacesOnBus, MachineType DEF Places
    <3> QED
      BY <3>1 DEF Before
  <2>3. /\ Cursor \in Places' /\ abar' = OnBus[machine'][Cursor] /\ Before(Cursor, Cursor')
        /\ \A r \in Places' : Before(r, Cursor') => ~Before(Cursor, r)
    BY <1>1, <1>2, <1>3, <1>4, <1>5, <2>1, <2>2
  <2> QED
    BY <2>3 DEF LastPassed
<1>7. RebasedType'
  BY <1>1 DEF RebasedType, ProbePort, PortsOf
<1>9. AdapterFound'
  BY <1>1, <1>3, <1>4 DEF AdapterFound, ProbePort
<1>8. RebasedPassed'
  <2> SUFFICES ASSUME NEW a \in Adapters, NEW p \in PortsOf(machine, a)
               PROVE  rebased'[a][p] = IF IsDrive(machine, a, p) /\ \E q \in Places :
                                            OnBus[machine][q] = a /\ Before(q, Cursor')
                                       THEN 1 ELSE 0
    BY <1>1, <1>4 DEF RebasedPassed
  <2>1. rebased[a][p] = IF IsDrive(machine, a, p) /\ \E q \in Places :
                             OnBus[machine][q] = a /\ Before(q, Cursor)
                        THEN 1 ELSE 0
    BY <1>1 DEF RebasedPassed
  <2>2. CASE a = Visited
    <3>1. \A q \in Places : OnBus[machine][q] = a => q = Cursor
      BY <1>1, <1>3, <2>2, PlacesAssumption DEF Places
    <3>2. ~\E q \in Places : OnBus[machine][q] = a /\ Before(q, Cursor)
      BY <1>5, <3>1
    <3>3. \E q \in Places : OnBus[machine][q] = a /\ Before(q, Cursor')
      BY <1>2, <1>3, <2>2
    <3>4. rebased'[a][p] = IF IsDrive(machine, a, p) THEN rebased[a][p] + 1 ELSE rebased[a][p]
      BY <1>1, <2>2 DEF ProbePort, RebasedType
    <3>5. rebased[a][p] = 0
      BY <2>1, <3>2
    <3> QED
      BY <3>3, <3>4, <3>5
  <2>3. CASE a # Visited
    <3>1. rebased'[a] = rebased[a]
      BY <1>1, <2>3 DEF ProbePort, RebasedType
    <3>2. \A q \in Places : OnBus[machine][q] = a => (Before(q, Cursor') <=> Before(q, Cursor))
      BY <1>2, <1>3, <2>3
    <3> QED
      BY <2>1, <3>1, <3>2
  <2> QED
    BY <2>2, <2>3
<1> QED
  BY <1>1, <1>2, <1>6, <1>7, <1>8, <1>9 DEF WalkInv, ProbedOnce

(* At the end of the bus every place was passed.                           *)
LEMMA EndsKeeps ==
  ASSUME WalkInv, EnumerateEnds
  PROVE  WalkInv'
<1>1. /\ pc = "enumerate" /\ pc' = "drive" /\ device > Len(machine.devices)
      /\ UNCHANGED <<machine, device, function, abar, rebased>>
      /\ CursorType /\ LastPassed /\ RebasedPassed /\ machine \in Machines /\ RebasedType
  BY DEF WalkInv, EnumerateEnds, busVars
<1>2. \A q \in Places : Before(q, Cursor) /\ q[1] \in Int /\ q[2] \in Int /\ q = <<q[1], q[2]>>
  <2>1. Cursor[1] = device /\ Cursor[2] = function /\ device \in Int /\ Len(machine.devices) \in Nat
    BY <1>1, MachineType DEF Cursor, CursorType
  <2> QED
    BY <1>1, <2>1, PlacesOnBus DEF Places, Before
<1>3. abar = LastAdapter[machine]
  <2>1. CASE abar = None /\ \A q \in Places : ~Before(q, Cursor)
    <3>1. Places = {}
      BY <1>2, <2>1
    <3> QED
      BY <1>1, <2>1, <3>1 DEF LastAdapter, Places
  <2>2. CASE \E q \in Places : /\ abar = OnBus[machine][q] /\ Before(q, Cursor)
                               /\ \A r \in Places : Before(r, Cursor) => ~Before(q, r)
    <3> DEFINE last == CHOOSE q \in Places : \A r \in Places : ~Before(q, r)
    <3>1. PICK q \in Places : abar = OnBus[machine][q] /\ \A r \in Places : ~Before(q, r)
      BY <1>2, <2>2
    <3>2. last \in Places /\ \A r \in Places : ~Before(last, r)
      BY <3>1
    <3>3. LastAdapter[machine] = OnBus[machine][last]
      BY <1>1, <3>1 DEF LastAdapter, Places
    <3> HIDE DEF last
    <3>4. ~Before(last, q) /\ ~Before(q, last)
      BY <3>1, <3>2
    <3>5. last[1] = q[1] /\ last[2] = q[2]
      BY <1>2, <3>1, <3>2, <3>4 DEF Before
    <3>6. last = q
      BY <1>2, <3>1, <3>2, <3>5
    <3> QED
      BY <3>1, <3>3, <3>6
  <2> QED
    BY <1>1, <2>1, <2>2 DEF LastPassed
<1>4. ProbedOnce'
  BY <1>1, <1>2, <1>3 DEF ProbedOnce, RebasedPassed, Places
<1>5. RebasedType' /\ AdapterFound'
  BY <1>1 DEF RebasedType, WalkInv, AdapterFound, Places
<1> QED
  BY <1>1, <1>4, <1>5 DEF WalkInv

(* The walk starts before every place.                                     *)
LEMMA StartOfWalk ==
  ASSUME machine \in Machines, device = 1, function = 0, abar = None, rebased = NotRebased,
         pc = "enumerate"
  PROVE  WalkInv
<1>1. Cursor[1] = 1 /\ Cursor[2] = 0
  BY DEF Cursor
<1>2. \A q \in Places : ~Before(q, Cursor)
  BY <1>1, PlacesOnBus, MachineType DEF Places, Before
<1>3. RebasedType /\ \A a \in Adapters : \A p \in PortsOf(machine, a) : rebased[a][p] = 0
  BY DEF RebasedType, NotRebased
<1>4. CursorType
  BY MachineType, MachinesAssumption DEF CursorType, FuncCount
<1> QED
  BY <1>2, <1>3, <1>4 DEF WalkInv, AdapterFound, LastPassed, RebasedPassed, ProbedOnce

(* Off the walk nothing moves, unless the power goes.                      *)
LEMMA WalkStands ==
  ASSUME WalkInv, UNCHANGED busVars,
         pc' = pc \/ (pc # "enumerate" /\ pc' # "enumerate" /\ pc # "stopped") \/ pc' = "stopped"
  PROVE  WalkInv'
  BY DEF WalkInv, AdapterFound, busVars, RebasedType, ProbedOnce, CursorType, LastPassed, RebasedPassed,
         Cursor, Places, FuncCount, IsMulti

(* Only calls that have returned or hang leave the bus alone.              *)
LEMMA CallsLeaveBus ==
  ASSUME InitializeDrive \/ Hang \/ Enter \/ Measure \/ FormatFlags \/ FormatTable \/ FormatFile
           \/ ListDirectory \/ ListEntry \/ ListEnds \/ Lookup
  PROVE  UNCHANGED busVars /\ pc \notin {"enumerate", "stopped"} /\ pc' # "enumerate"
<1>1. \A c : Execute(c) \in {"prompt", "flags", "size", "list", "lookup"}
  BY Zenon DEF Execute
<1>2. CASE Enter
  BY <1>1, <1>2 DEF Enter
<1>3. CASE InitializeDrive \/ Hang \/ Measure
  BY <1>3 DEF InitializeDrive, Hang, Measure
<1>4. CASE FormatFlags \/ FormatTable \/ FormatFile
  BY <1>4 DEF FormatFlags, FormatTable, FormatFile, AfterTable
<1>5. CASE ListDirectory \/ ListEntry \/ ListEnds \/ Lookup
  BY <1>5 DEF ListDirectory, ListEntry, ListEnds, Lookup
<1> QED
  BY <1>2, <1>3, <1>4, <1>5

(* The walk keeps to its invariant, from every switching on to the next.    *)
LEMMA WalkInvariant == Spec => []WalkInv
<1>1. Init => WalkInv
  BY StartOfWalk DEF Init, BusInit
<1>2. ASSUME WalkInv, [Next]_vars
      PROVE  WalkInv'
  <2>1. CASE PciVisitSkips \/ PciVisitProbes \/ EnumerateEnds
    BY <1>2, <2>1, SkipKeeps, ProbeKeeps, EndsKeeps
  <2>2. CASE ProbeFaults
    BY <1>2, <2>2, WalkStands DEF ProbeFaults
  <2>3. CASE PowerOff
    <3>1. (machine \in Machines /\ device = 1 /\ function = 0 /\ abar = None
             /\ rebased = NotRebased /\ pc = "enumerate")'
      BY <1>2, <2>3 DEF PowerOff, WalkInv, NotRebased, PortsOf
    <3> QED
      BY <3>1, StartOfWalk, PTL
  <2>4. CASE UNCHANGED vars
    BY <1>2, <2>4, WalkStands DEF vars
  <2>5. CASE InitializeDrive \/ Hang \/ Enter \/ Measure \/ FormatFlags \/ FormatTable \/ FormatFile
               \/ ListDirectory \/ ListEntry \/ ListEnds \/ Lookup
    BY <1>2, <2>5, CallsLeaveBus, WalkStands
  <2> QED
    BY <1>2, <2>1, <2>2, <2>3, <2>4, <2>5 DEF Next, Probing, Enumerate
<1> QED
  BY <1>1, <1>2, PTL DEF Spec

(* The walk over the bus leaves the last adapter in use and each drive     *)
(* taken over once (ProbePort of ahci.cpp, PciVisit of pci.cpp).           *)
THEOREM ProbedOnceCorrect == Spec => []ProbedOnce
<1>1. WalkInv => ProbedOnce
  BY DEF WalkInv
<1> QED
  BY <1>1, WalkInvariant, PTL

-----------------------------------------------------------------------------
Fits == Plan[machine].fits
TableAt == Plan[machine].table
DataAt == Plan[machine].data

DiskType ==
  /\ DOMAIN disk = Drives[machine]
  /\ \A d \in Drives[machine] : DOMAIN disk[d] = SectorsOf(d)

(* Once the boot has measured its drive, formats use that drive's layout.  *)
LayoutInv ==
  /\ pc \in {"enumerate", "drive"} => mounted = 1
  /\ Fits /\ pc \notin {"enumerate", "drive", "stopped"} => count = BootSectors(machine)
  /\ Fits /\ pc \in {"table", "file"} => table = DataAt /\ file = File(DataAt, DataAt)

(* Sectors hold what formats write there, or what they held before.        *)
Contents ==
  Fits => \A d \in Drives[machine] : \A s \in SectorsOf(d) :
    \/ disk[d][s] = Foreign
    \/ disk[d][s] = Flags /\ s \in Plan[machine].flags
    \/ disk[d][s] = Directory(DataAt) /\ s = TableAt
    \/ disk[d][s] = File(DataAt, DataAt) /\ s = DataAt

(* The directory is on a drive before the file.                            *)
DirectoryFirst ==
  Fits =>
    /\ \A d \in Drives[machine] : Holds(d, DataAt, "file") => Holds(d, TableAt, "directory")
    /\ pc = "file" /\ Reached => Holds(Mounted, TableAt, "directory")

DriveInv == WalkInv /\ DiskType /\ LayoutInv /\ Contents /\ DirectoryFirst

(* The layout of a boot drive that is large enough for it.                 *)
LEMMA PlanValues ==
  ASSUME machine \in Machines
  PROVE  /\ BootSectors(machine) \in Nat /\ BootSectors(machine) \div BlockSize \in Nat
         /\ Plan[machine].flags = 0 .. (BootSectors(machine) \div BlockSize) - 1
         /\ TableAt = (BootSectors(machine) \div BlockSize) + 1
         /\ DataAt = (BootSectors(machine) \div BlockSize) + 2
         /\ Fits => /\ DataAt < BootSectors(machine)
                    /\ <<LastAdapter[machine], 1>> \in Drives[machine]
                    /\ BootSectors(machine) = Size(machine, <<LastAdapter[machine], 1>>)
<1> DEFINE boot == <<LastAdapter[machine], 1>>
<1>1. boot \in Drives[machine] => boot[1] \in Adapters /\ boot[2] \in PortsOf(machine, boot[1])
  BY DEF Drives, Volumes
<1>2. boot \in Drives[machine] => Size(machine, boot) \in Nat
  <2> HIDE DEF boot
  <2> QED
    BY <1>1, MachineType DEF Size
<1>3. /\ boot \in Drives[machine] => BootSectors(machine) = Size(machine, boot)
      /\ boot \notin Drives[machine] => BootSectors(machine) = 0
  BY DEF BootSectors
<1> HIDE DEF boot
<1>4. BootSectors(machine) \in Nat
  BY <1>2, <1>3
<1>5. BootSectors(machine) \div BlockSize \in Nat
  BY <1>4, StorageAssumption
<1> DEFINE behind == BootSectors(machine) \div BlockSize
<1>6. Plan[machine] = [flags |-> 0 .. behind - 1, table |-> behind + 1, data |-> behind + 2,
                       fits |-> behind + 2 < BootSectors(machine)]
  BY DEF Plan
<1>7. /\ Plan[machine].flags = 0 .. behind - 1
      /\ TableAt = behind + 1
      /\ DataAt = behind + 2
      /\ Fits <=> behind + 2 < BootSectors(machine)
  <2> HIDE DEF behind
  <2>1. /\ Plan[machine].flags = 0 .. behind - 1
        /\ TableAt = behind + 1
        /\ DataAt = behind + 2
    BY <1>6 DEF TableAt, DataAt
  <2>2. Fits <=> behind + 2 < BootSectors(machine)
    <3> DEFINE less == behind + 2 < BootSectors(machine)
    <3>1. Plan[machine] = [flags |-> 0 .. behind - 1, table |-> behind + 1, data |-> behind + 2,
                           fits |-> less]
      BY <1>6
    <3> HIDE DEF less
    <3>3. Plan[machine].fits = less
      BY <3>1
    <3>4. Fits <=> less
      BY <3>3 DEF Fits
    <3> QED
      BY <3>4 DEF less
  <2> QED
    BY <2>1, <2>2
<1> QED
  BY <1>3, <1>4, <1>5, <1>7 DEF boot

(* What a Write leaves on the drives: of what it was given it may have     *)
(* transferred nothing, a part or everything.                              *)
LEMMA WritesEffect ==
  ASSUME DiskType, NEW contents, NEW ok, Writes(contents, ok), UNCHANGED machine
  PROVE  /\ DiskType'
         /\ \A d \in Drives[machine] : \A s \in SectorsOf(d) :
              \/ disk'[d][s] = disk[d][s]
              \/ d = Mounted /\ Reached /\ s \in DOMAIN contents /\ disk'[d][s] = contents[s]
         /\ ok /\ Reached => \A s \in DOMAIN contents :
                              s \in SectorsOf(Mounted) /\ disk'[Mounted][s] = contents[s]
<1>1. PICK some \in SUBSET DOMAIN contents :
        /\ Transfers(DOMAIN contents, some, ok)
        /\ disk' = IF some = {} THEN disk ELSE
                   [disk EXCEPT ![Mounted] =
                      [s \in DOMAIN @ |-> IF s \in some THEN contents[s] ELSE @[s]]]
  BY DEF Writes
<1>2. some # {} => Reached /\ Mounted \in Drives[machine]
  BY <1>1 DEF Transfers, Reached
<1>3. Drives[machine]' = Drives[machine] /\ \A d : SectorsOf(d)' = SectorsOf(d)
  BY DEF SectorsOf
<1>4. CASE some = {}
  BY <1>1, <1>3, <1>4 DEF Transfers, DiskType
<1>5. CASE some # {}
  <2>1. disk' = [disk EXCEPT ![Mounted] =
                   [s \in DOMAIN disk[Mounted] |-> IF s \in some THEN contents[s] ELSE disk[Mounted][s]]]
    BY <1>1, <1>5
  <2>2. \A d \in Drives[machine] : d # Mounted => disk'[d] = disk[d]
    BY <2>1 DEF DiskType
  <2>3. disk'[Mounted] = [s \in SectorsOf(Mounted) |-> IF s \in some THEN contents[s] ELSE disk[Mounted][s]]
    BY <1>2, <1>5, <2>1 DEF DiskType
  <2>4. DiskType'
    BY <1>3, <2>1, <2>2, <2>3 DEF DiskType
  <2>5. ok => some = DOMAIN contents /\ DOMAIN contents \subseteq SectorsOf(Mounted)
    BY <1>1, <1>2, <1>5 DEF Transfers
  <2> QED
    BY <1>2, <1>5, <2>2, <2>3, <2>4, <2>5
<1> QED
  BY <1>4, <1>5

(* With the flags cleared, formats take the first sector behind the        *)
(* directory, each of the three times.                                     *)
LEMMA FormatTakesData ==
  ASSUME machine \in Machines, Fits, count = BootSectors(machine)
  PROVE  FreeSectors(ClearedFlags) = {DataAt} /\ FirstCandidate = DataAt
           /\ \A s : Claimed(ClearedFlags, s) = ClearedFlags
<1>1. FirstCandidate = DataAt /\ DataAt \in Nat /\ DataAt < count /\ count \in Nat
  BY PlanValues DEF FirstCandidate
<1> DEFINE free == (FirstCandidate .. count - 1) \ ClearedFlags
<1>2. free = DataAt .. count - 1 /\ DataAt \in free
  BY <1>1 DEF ClearedFlags
<1>3. (CHOOSE s \in free : \A t \in free : s <= t) = DataAt
  BY <1>1, <1>2
<1>4. FreeSectors(ClearedFlags) = {DataAt}
  BY <1>2, <1>3 DEF FreeSectors
<1> QED
  BY <1>1, <1>4 DEF Claimed, ClearedFlags

(* Steps that write nothing keep the drives as they are.                   *)
LEMMA QuietKeeps ==
  ASSUME DriveInv, WalkInv', LayoutInv', UNCHANGED <<machine, disk>>,
         pc' = "file" => pc = "file" /\ UNCHANGED <<abar, mounted, rebased>>
  PROVE  DriveInv' /\ \A v \in Volumes : Stage(v)' = Stage(v)
<1>1. /\ machine' = machine /\ disk' = disk
      /\ \A d, s, kind : Holds(d, s, kind)' = Holds(d, s, kind)
  BY DEF Holds, SectorsOf
<1>2. DiskType' /\ Contents'
  BY <1>1 DEF DriveInv, DiskType, Contents, SectorsOf, Fits, TableAt, DataAt
<1>3. DirectoryFirst'
  <2>1. pc' = "file" => pc = "file" /\ Reached' = Reached /\ Mounted' = Mounted
    BY <1>1 DEF Reached, Mounted
  <2>2. Fits' = Fits /\ TableAt' = TableAt /\ DataAt' = DataAt
    BY <1>1 DEF Fits, TableAt, DataAt
  <2>3. \A d : /\ Holds(d, DataAt, "file")' <=> Holds(d, DataAt, "file")
              /\ Holds(d, TableAt, "directory")' <=> Holds(d, TableAt, "directory")
    BY <1>1, <2>2 DEF Holds, SectorsOf
  <2>4. pc' = "file" => (Holds(Mounted, TableAt, "directory")' <=> Holds(Mounted, TableAt, "directory"))
    BY <1>1, <2>1, <2>2 DEF Holds, SectorsOf
  <2> QED
    BY <1>1, <2>1, <2>2, <2>3, <2>4 DEF DriveInv, DirectoryFirst
<1>4. \A v \in Volumes : Stage(v)' = Stage(v)
  BY <1>1 DEF Stage, Holds, SectorsOf
<1> QED
  BY <1>2, <1>3, <1>4 DEF DriveInv

(* Every call but the writes of a format leaves the layout correct.        *)
LEMMA LayoutStands ==
  ASSUME DriveInv,
         \/ Probing \/ InitializeDrive \/ Hang \/ PowerOff \/ Enter \/ Measure
         \/ ListDirectory \/ ListEntry \/ ListEnds \/ Lookup \/ UNCHANGED vars
  PROVE  /\ LayoutInv' /\ UNCHANGED <<machine, disk>>
         /\ pc' = "file" => pc = "file" /\ UNCHANGED <<abar, mounted, rebased>>
<1>1. \A c : Execute(c) \in {"prompt", "flags", "size", "list", "lookup"}
  BY Zenon DEF Execute
<1>2. /\ pc \in {"enumerate", "drive"} => mounted = 1
      /\ Fits /\ pc \notin {"enumerate", "drive", "stopped"} => count = BootSectors(machine)
      /\ Fits /\ pc \in {"table", "file"} => table = DataAt /\ file = File(DataAt, DataAt)
      /\ machine \in Machines /\ WalkInv
  BY DEF DriveInv, LayoutInv, WalkInv
<1>3. machine' = machine =>
        /\ Fits' = Fits /\ DataAt' = DataAt /\ BootSectors(machine)' = BootSectors(machine)
        /\ File(DataAt, DataAt)' = File(DataAt, DataAt)
  BY DEF Fits, DataAt, BootSectors
<1>4. CASE Probing
  <2>1. mounted' = mounted /\ pc = "enumerate" /\ pc' \in {"enumerate", "drive", "stopped"}
          /\ UNCHANGED <<machine, disk>>
    BY <1>4 DEF Probing, Enumerate, PciVisitSkips, PciVisitProbes, ProbeFaults, EnumerateEnds,
                Walking, shell, drives, busVars
  <2> QED
    BY <1>2, <2>1 DEF LayoutInv
<1>5. CASE PowerOff
  BY <1>5 DEF PowerOff, LayoutInv
<1>6. CASE InitializeDrive
  <2>1. pc = "drive" /\ pc' = "prompt" /\ UNCHANGED <<machine, disk>> /\ abar # None
          /\ count' = IF Reached THEN Size(machine, Mounted) ELSE 0
    BY <1>6 DEF InitializeDrive, Reads, busVars
  <2>2. ASSUME Fits PROVE count' = BootSectors(machine)
    <3>1. Mounted = <<LastAdapter[machine], 1>>
      BY <1>2, <2>1 DEF WalkInv, ProbedOnce, Mounted
    <3>2. Mounted \in Drives[machine] /\ BootSectors(machine) = Size(machine, Mounted)
      BY <1>2, <2>2, <3>1, PlanValues
    <3>3. mounted = Mounted[2] /\ abar = Mounted[1]
      BY DEF Mounted
    <3>4. abar \in Adapters /\ mounted \in PortsOf(machine, abar) /\ IsDrive(machine, abar, mounted)
      <4>1. /\ Mounted[1] \in Adapters /\ Mounted[2] \in PortsOf(machine, Mounted[1])
            /\ IsDrive(machine, Mounted[1], Mounted[2])
        BY <1>2, <3>2 DEF Drives, Volumes
      <4> QED
        BY <3>3, <4>1
    <3>5. rebased[abar][mounted] = 1
      BY <1>2, <2>1, <3>4 DEF WalkInv, ProbedOnce, AdapterFound, Places
    <3> QED
      BY <2>1, <3>2, <3>5 DEF Reached
  <2> QED
    BY <1>3, <2>1, <2>2 DEF LayoutInv
<1>7. CASE Enter
  <2>1. pc' \in {"prompt", "flags", "size", "list", "lookup"} /\ pc = "prompt"
          /\ UNCHANGED <<machine, disk, count>>
    BY <1>1, <1>7 DEF Enter, busVars, layout, drives
  <2> QED
    BY <1>2, <1>3, <2>1 DEF LayoutInv
<1>8. CASE Hang \/ Measure \/ ListDirectory \/ ListEntry \/ ListEnds \/ Lookup
  <2>1. pc \notin {"enumerate", "drive", "stopped"} \/ pc' = "stopped"
    BY <1>8 DEF Hang, Measure, ListDirectory, ListEntry, ListEnds, Lookup
  <2>2. pc' \in {"prompt", "stopped", "entries"}
    BY <1>8 DEF Hang, Measure, ListDirectory, ListEntry, ListEnds, Lookup
  <2>3. UNCHANGED <<machine, disk, count>>
    BY <1>8 DEF Hang, Measure, ListDirectory, ListEntry, ListEnds, Lookup, Reads, busVars, layout, drives
  <2> QED
    BY <1>2, <1>3, <2>1, <2>2, <2>3 DEF LayoutInv
<1>9. CASE UNCHANGED vars
  BY <1>2, <1>3, <1>9 DEF LayoutInv, vars, busVars, shell, layout, locals, drives
<1> QED
  BY <1>4, <1>5, <1>6, <1>7, <1>8, <1>9

(* The flags lie in front of the directory and the file.                   *)
LEMMA FlagsKeep ==
  ASSUME DriveInv, WalkInv', FormatFlags
  PROVE  DriveInv' /\ \A v \in Volumes : Stage(v)' = Stage(v)
<1>1. /\ UNCHANGED <<machine, abar, rebased, mounted, count>>
      /\ pc = "flags" /\ pc' \in {"table", "stopped"} /\ machine \in Machines
  BY DEF FormatFlags, busVars, shell, DriveInv, WalkInv
<1>2. PICK ok \in BOOLEAN : Writes([s \in FlagSectors |-> Flags], ok)
  BY DEF FormatFlags
<1>3. /\ DiskType'
      /\ \A d \in Drives[machine] : \A s \in SectorsOf(d) :
           disk'[d][s] = disk[d][s] \/ (s \in FlagSectors /\ disk'[d][s] = Flags)
  BY <1>1, <1>2, WritesEffect DEF DriveInv
<1>4. /\ Fits' = Fits /\ TableAt' = TableAt /\ DataAt' = DataAt
      /\ \A d : SectorsOf(d)' = SectorsOf(d)
  BY <1>1 DEF Fits, TableAt, DataAt, SectorsOf
<1>5. Fits => /\ count = BootSectors(machine) /\ FlagSectors = Plan[machine].flags
              /\ TableAt \notin FlagSectors /\ DataAt \notin FlagSectors
  BY <1>1, PlanValues DEF DriveInv, LayoutInv, FlagSectors
<1>6. LayoutInv'
  <2>1. ASSUME Fits, pc' = "table" PROVE table' = DataAt /\ file' = File(DataAt, DataAt)
    <3>1. FreeSectors(ClearedFlags) = {DataAt} /\ \A s : Claimed(ClearedFlags, s) = ClearedFlags
      BY <1>1, <1>5, <2>1, FormatTakesData
    <3> QED
      BY <2>1, <3>1 DEF FormatFlags
  <2> QED
    BY <1>1, <1>4, <1>5, <2>1 DEF LayoutInv, File, BootSectors
<1>7. Contents'
  BY <1>1, <1>3, <1>4, <1>5 DEF Contents, DriveInv
<1>8. ASSUME Fits PROVE \A d \in Drives[machine] :
        /\ Holds(d, DataAt, "file")' <=> Holds(d, DataAt, "file")
        /\ Holds(d, TableAt, "directory")' <=> Holds(d, TableAt, "directory")
        /\ TableAt \in SectorsOf(d) => disk'[d][TableAt] = disk[d][TableAt]
  BY <1>3, <1>4, <1>5, <1>8 DEF Holds
<1>9. DirectoryFirst'
  BY <1>1, <1>4, <1>8 DEF DirectoryFirst, DriveInv
<1>10. ASSUME NEW v \in Volumes PROVE Stage(v)' = Stage(v)
  <2>1. ASSUME Fits, v \in Drives[machine], Holds(v, TableAt, "directory")
        PROVE  disk'[v][TableAt].block = DataAt /\ disk[v][TableAt].block = DataAt
    <3>1. TableAt \in SectorsOf(v) /\ disk[v][TableAt].kind = "directory"
      BY <2>1 DEF Holds
    <3>2. disk[v][TableAt] = Directory(DataAt)
      BY <2>1, <3>1 DEF DriveInv, Contents, Foreign, Flags, File
    <3> QED
      BY <1>8, <2>1, <3>1, <3>2 DEF Directory
  <2> QED
    BY <1>1, <1>4, <1>8, <2>1 DEF Stage, Fits, TableAt, DataAt
<1> QED
  BY <1>3, <1>6, <1>7, <1>9, <1>10 DEF DriveInv

(* A drive without a directory holds no file yet, so it is at the second   *)
(* stage once the directory is written.                                    *)
LEMMA TableKeeps ==
  ASSUME DriveInv, WalkInv', FormatTable
  PROVE  /\ DriveInv'
         /\ \A v \in Volumes : Stage(v)' # Stage(v) =>
              v = Mounted /\ Stage(v) = "foreign" /\ Stage(v)' = "directory"
<1>1. /\ UNCHANGED <<machine, abar, rebased, mounted, count>>
      /\ pc = "table" /\ machine \in Machines
  BY DEF FormatTable, busVars, shell, layout, DriveInv, WalkInv
<1>2. PICK ok \in BOOLEAN :
        /\ Writes([s \in {TableSector} |-> Directory(table)], ok)
        /\ pc' = AfterTable(ok)
  BY DEF FormatTable
<1>3. /\ DiskType'
      /\ \A d \in Drives[machine] : \A s \in SectorsOf(d) :
           \/ disk'[d][s] = disk[d][s]
           \/ d = Mounted /\ s = TableSector /\ disk'[d][s] = Directory(table)
      /\ ok /\ Reached => TableSector \in SectorsOf(Mounted) /\ disk'[Mounted][TableSector] = Directory(table)
  BY <1>1, <1>2, WritesEffect DEF DriveInv
<1>4. /\ Fits' = Fits /\ TableAt' = TableAt /\ DataAt' = DataAt
      /\ \A d : SectorsOf(d)' = SectorsOf(d)
      /\ Mounted' = Mounted /\ Reached' = Reached
  BY <1>1 DEF Fits, TableAt, DataAt, SectorsOf, Mounted, Reached
<1>5. Fits => /\ TableSector = TableAt /\ TableAt # DataAt /\ table = DataAt
              /\ file = File(DataAt, DataAt) /\ count = BootSectors(machine)
  BY <1>1, PlanValues DEF DriveInv, LayoutInv, TableSector
<1>6. LayoutInv'
  <2>1. pc' = "file" => UNCHANGED <<table, file>>
    BY DEF FormatTable, locals
  <2>2. pc' \in {"file", "prompt"}
    BY <1>2 DEF AfterTable
  <2> QED
    BY <1>1, <1>4, <1>5, <2>1, <2>2 DEF LayoutInv, File, BootSectors
<1>7. Contents'
  BY <1>1, <1>3, <1>4, <1>5 DEF Contents, DriveInv, Directory
<1>8. ASSUME Fits PROVE \A d \in Drives[machine] :
        /\ Holds(d, DataAt, "file")' <=> Holds(d, DataAt, "file")
        /\ d # Mounted => (Holds(d, TableAt, "directory")' <=> Holds(d, TableAt, "directory"))
        /\ Holds(d, TableAt, "directory") => Holds(d, TableAt, "directory")'
        /\ Holds(d, TableAt, "directory")' => disk'[d][TableAt].block = DataAt
        /\ Holds(d, TableAt, "directory") => disk[d][TableAt].block = DataAt
  <2>1. ASSUME NEW d \in Drives[machine]
        PROVE  /\ DataAt \in SectorsOf(d) => disk'[d][DataAt] = disk[d][DataAt]
               /\ TableAt \in SectorsOf(d) =>
                    \/ disk'[d][TableAt] = disk[d][TableAt]
                    \/ d = Mounted /\ disk'[d][TableAt] = Directory(DataAt)
               /\ TableAt \in SectorsOf(d) /\ disk[d][TableAt].kind = "directory" =>
                    disk[d][TableAt] = Directory(DataAt)
    <3>1. TableAt \in SectorsOf(d) /\ disk[d][TableAt].kind = "directory" =>
            disk[d][TableAt] = Directory(DataAt)
      BY <1>5, <1>8 DEF DriveInv, Contents, Foreign, Flags, File
    <3> QED
      BY <1>3, <1>5, <1>8, <3>1
  <2> QED
    BY <1>4, <2>1 DEF Holds, Directory
<1>9. DirectoryFirst'
  <2>1. ASSUME Fits, pc' = "file", Reached PROVE Holds(Mounted, TableAt, "directory")'
    <3>1. ok
      BY <1>2, <2>1 DEF AfterTable
    <3> QED
      BY <1>3, <1>4, <1>5, <2>1, <3>1 DEF Holds, Directory
  <2> QED
    BY <1>1, <1>4, <1>8, <2>1 DEF DirectoryFirst, DriveInv
<1>10. ASSUME NEW v \in Volumes
       PROVE  Stage(v)' # Stage(v) => v = Mounted /\ Stage(v) = "foreign" /\ Stage(v)' = "directory"
  <2>1. CASE ~Fits \/ v \notin Drives[machine]
    BY <1>1, <1>4, <2>1 DEF Stage, Fits
  <2>2. CASE Fits /\ v \in Drives[machine]
    <3>1. Stage(v) = IF ~Holds(v, TableAt, "directory") THEN "foreign"
                     ELSE IF Holds(v, DataAt, "file") THEN "system" ELSE "directory"
      BY <1>8, <2>2 DEF Stage, Fits, TableAt
    <3>2. Stage(v)' = IF ~Holds(v, TableAt, "directory")' THEN "foreign"
                      ELSE IF Holds(v, DataAt, "file")' THEN "system" ELSE "directory"
      BY <1>1, <1>4, <1>8, <2>2 DEF Stage, Fits, TableAt, DataAt, Holds
    <3>3. Holds(v, DataAt, "file") => Holds(v, TableAt, "directory")
      BY <2>2 DEF DriveInv, DirectoryFirst
    <3> QED
      BY <1>8, <2>2, <3>1, <3>2, <3>3
  <2> QED
    BY <2>1, <2>2
<1> QED
  BY <1>3, <1>6, <1>7, <1>9, <1>10 DEF DriveInv

(* The file is written where the directory says, and only once that is     *)
(* there: it takes the drive to the last stage, or finds it there.         *)
LEMMA FileKeeps ==
  ASSUME DriveInv, WalkInv', FormatFile
  PROVE  /\ DriveInv'
         /\ \A v \in Volumes : Stage(v)' # Stage(v) =>
              v = Mounted /\ Stage(v) = "directory" /\ Stage(v)' = "system"
<1>1. /\ UNCHANGED <<machine, abar, rebased, mounted, count>>
      /\ pc = "file" /\ pc' = "prompt" /\ machine \in Machines
  BY DEF FormatFile, busVars, shell, layout, DriveInv, WalkInv
<1>2. PICK ok \in BOOLEAN : Writes([s \in {table} |-> file], ok)
  BY DEF FormatFile
<1>3. /\ DiskType'
      /\ \A d \in Drives[machine] : \A s \in SectorsOf(d) :
           \/ disk'[d][s] = disk[d][s]
           \/ d = Mounted /\ Reached /\ s = table /\ disk'[d][s] = file
  BY <1>1, <1>2, WritesEffect DEF DriveInv
<1>4. /\ Fits' = Fits /\ TableAt' = TableAt /\ DataAt' = DataAt
      /\ \A d : SectorsOf(d)' = SectorsOf(d)
  BY <1>1 DEF Fits, TableAt, DataAt, SectorsOf
<1>5. Fits => /\ TableAt # DataAt /\ table = DataAt
              /\ file = File(DataAt, DataAt) /\ count = BootSectors(machine)
  BY <1>1, PlanValues DEF DriveInv, LayoutInv
<1>6. LayoutInv'
  BY <1>1, <1>4, <1>5 DEF LayoutInv, BootSectors
<1>7. Contents'
  BY <1>1, <1>3, <1>4, <1>5 DEF Contents, DriveInv, File
<1>8. ASSUME Fits PROVE \A d \in Drives[machine] :
        /\ Holds(d, TableAt, "directory")' <=> Holds(d, TableAt, "directory")
        /\ Holds(d, TableAt, "directory") =>
             disk[d][TableAt].block = DataAt /\ disk'[d][TableAt].block = DataAt
        /\ d # Mounted \/ ~Reached => (Holds(d, DataAt, "file")' <=> Holds(d, DataAt, "file"))
        /\ Holds(d, DataAt, "file") => Holds(d, DataAt, "file")'
  <2>1. ASSUME NEW d \in Drives[machine]
        PROVE  /\ TableAt \in SectorsOf(d) => disk'[d][TableAt] = disk[d][TableAt]
               /\ DataAt \in SectorsOf(d) =>
                    \/ disk'[d][DataAt] = disk[d][DataAt]
                    \/ d = Mounted /\ Reached /\ disk'[d][DataAt] = File(DataAt, DataAt)
               /\ TableAt \in SectorsOf(d) /\ disk[d][TableAt].kind = "directory" =>
                    disk[d][TableAt] = Directory(DataAt)
    <3>1. TableAt \in SectorsOf(d) /\ disk[d][TableAt].kind = "directory" =>
            disk[d][TableAt] = Directory(DataAt)
      BY <1>5, <1>8 DEF DriveInv, Contents, Foreign, Flags, File
    <3> QED
      BY <1>3, <1>5, <1>8, <3>1
  <2> QED
    BY <1>4, <2>1 DEF Holds, Directory, File
<1>9. DirectoryFirst'
  <2>1. Fits /\ Reached => Holds(Mounted, TableAt, "directory")
    BY <1>1 DEF DriveInv, DirectoryFirst
  <2> QED
    BY <1>1, <1>4, <1>8, <2>1 DEF DirectoryFirst, DriveInv
<1>10. ASSUME NEW v \in Volumes
       PROVE  Stage(v)' # Stage(v) => v = Mounted /\ Stage(v) = "directory" /\ Stage(v)' = "system"
  <2>1. CASE ~Fits \/ v \notin Drives[machine]
    BY <1>1, <1>4, <2>1 DEF Stage, Fits
  <2>2. CASE Fits /\ v \in Drives[machine]
    <3>1. Stage(v) = IF ~Holds(v, TableAt, "directory") THEN "foreign"
                     ELSE IF Holds(v, DataAt, "file") THEN "system" ELSE "directory"
      BY <1>8, <2>2 DEF Stage, Fits, TableAt
    <3>2. Stage(v)' = IF ~Holds(v, TableAt, "directory")' THEN "foreign"
                      ELSE IF Holds(v, DataAt, "file")' THEN "system" ELSE "directory"
      BY <1>1, <1>4, <1>8, <2>2 DEF Stage, Fits, TableAt, DataAt, Holds
    <3> QED
      BY <1>8, <2>2, <3>1, <3>2
  <2> QED
    BY <2>1, <2>2
<1> QED
  BY <1>3, <1>6, <1>7, <1>9, <1>10 DEF DriveInv

(* Every step keeps the invariant, and takes at most one drive one stage   *)
(* further.                                                                *)
LEMMA DriveStep ==
  ASSUME DriveInv, [Next]_vars, WalkInv'
  PROVE  /\ DriveInv'
         /\ \/ \A v \in Volumes : Stage(v)' = Stage(v)
            \/ \E d \in Volumes :
                 /\ \A v \in Volumes : v # d => Stage(v)' = Stage(v)
                 /\ \/ Stage(d) = "foreign" /\ Stage(d)' = "directory"
                    \/ Stage(d) = "directory" /\ Stage(d)' = "system"
<1>1. CASE FormatFlags
  BY <1>1, FlagsKeep
<1>2. CASE FormatTable
  BY <1>2, TableKeeps
<1>3. CASE FormatFile
  BY <1>3, FileKeeps
<1>4. CASE \/ Probing \/ InitializeDrive \/ Hang \/ PowerOff \/ Enter \/ Measure
           \/ ListDirectory \/ ListEntry \/ ListEnds \/ Lookup \/ UNCHANGED vars
  BY <1>4, LayoutStands, QuietKeeps
<1> QED
  BY <1>1, <1>2, <1>3, <1>4 DEF Next

(* Nothing is formatted when a machine is first switched on.               *)
LEMMA InitHolds ==
  ASSUME Init
  PROVE  DriveInv /\ \A v \in Volumes : Stage(v) = "foreign"
<1>1. WalkInv
  BY StartOfWalk DEF Init, BusInit
<1>2. DiskType /\ \A d \in Drives[machine] : \A s \in SectorsOf(d) : disk[d][s] = Foreign
  BY DEF Init, DiskType
<1>3. \A d \in Drives[machine] : \A s : ~Holds(d, s, "file") /\ ~Holds(d, s, "directory")
  BY <1>2 DEF Holds, Foreign
<1>4. LayoutInv /\ pc = "enumerate"
  BY DEF Init, LayoutInv
<1>5. Contents /\ DirectoryFirst
  BY <1>2, <1>3, <1>4 DEF Contents, DirectoryFirst
<1>6. \A v \in Volumes : Stage(v) = "foreign"
  BY <1>3 DEF Stage
<1> QED
  BY <1>1, <1>2, <1>4, <1>5, <1>6 DEF DriveInv

(* The drives are as formats leave them, in every state.                   *)
LEMMA DriveInvariant == Spec => []DriveInv
<1>1. Init => DriveInv
  BY InitHolds
<1>2. DriveInv /\ [Next]_vars /\ WalkInv' => DriveInv'
  BY DriveStep
<1> QED
  BY <1>1, <1>2, WalkInvariant, PTL DEF Spec

(* Whatever is typed and whatever fails, only the flags, the directory and *)
(* one data sector of the boot drive's layout are written (FormatDrive of  *)
(* storage.cpp).                                                           *)
THEOREM OnlyPlanWrittenCorrect == Spec => []OnlyPlanWritten
<1>1. DriveInv => OnlyPlanWritten
  BY DEF DriveInv, DiskType, Contents, OnlyPlanWritten, Fits, TableAt, DataAt
<1> QED
  BY <1>1, DriveInvariant, PTL

(* Formats implement Catalog: a drive gets its directory, then the file    *)
(* that the directory names, and keeps both through later formats, errors  *)
(* and loss of power.                                                      *)
THEOREM Refinement == Spec => ImplementsCatalog
<1> DEFINE stage == [v \in Volumes |-> Stage(v)]
<1>1. Init => Promise!CatalogInit
  BY InitHolds DEF Promise!CatalogInit
<1>2. ASSUME DriveInv, [Next]_vars, WalkInv'
      PROVE  Promise!Advance \/ UNCHANGED stage
  <2>1. CASE \A v \in Volumes : Stage(v)' = Stage(v)
    <3>1. stage' = [v \in Volumes |-> Stage(v)']
      BY DEF Volumes
    <3> QED
      BY <2>1, <3>1
  <2>2. CASE \E d \in Volumes :
               /\ \A v \in Volumes : v # d => Stage(v)' = Stage(v)
               /\ \/ Stage(d) = "foreign" /\ Stage(d)' = "directory"
                  \/ Stage(d) = "directory" /\ Stage(d)' = "system"
    <3>1. PICK d \in Volumes :
            /\ \A v \in Volumes : v # d => Stage(v)' = Stage(v)
            /\ Stage(d)' = Promise!Following[Stage(d)]
      BY <2>2 DEF Promise!Following
    <3>2. [v \in Volumes |-> Stage(v)'] =
            [[v \in Volumes |-> Stage(v)] EXCEPT ![d] = Promise!Following[@]]
      BY <3>1
    <3> QED
      BY <3>2 DEF Promise!Advance
  <2> QED
    BY <1>2, <2>1, <2>2, DriveStep
<1> QED
  BY <1>1, <1>2, WalkInvariant, DriveInvariant, PTL DEF Spec, ImplementsCatalog, Promise!CatalogSpec

-----------------------------------------------------------------------------
(* The buffer was typed up to some cell, and no further.                   *)
TypedUpTo(n) == \A c \in Cells : prompt[c] # "junk" <=> c <= n
PromptInv == DOMAIN prompt = Cells /\ \E n \in 0 .. 5 : TypedUpTo(n)

(* How far the buffer was typed is how many cells are no junk.             *)
LEMMA ReachIs ==
  ASSUME DOMAIN prompt = Cells, NEW n \in 0 .. 5, TypedUpTo(n)
  PROVE  Reach(prompt) = n
<1>1. {c \in Cells : prompt[c] # "junk"} = 1 .. n
  BY DEF TypedUpTo, Cells
<1>2. Cardinality(1 .. n) = IF 1 > n THEN 0 ELSE n - 1 + 1
  BY FS_Interval
<1>3. Cardinality(1 .. n) = n
  BY <1>2
<1>4. Reach(prompt) = Cardinality({c \in Cells : prompt[c] # "junk"})
  BY DEF Reach
<1> QED
  BY <1>1, <1>3, <1>4, Zenon

(* A line makes the typed part of the buffer longer, if anything.          *)
LEMMA TypedKeeps ==
  ASSUME PromptInv, NEW line \in Lines, prompt' = Typed(prompt, line)
  PROVE  PromptInv'
<1>1. PICK n \in 0 .. 5 : TypedUpTo(n)
  BY DEF PromptInv
<1>2. Len(line) \in Nat /\ DOMAIN line = 1 .. Len(line) /\ \A c \in DOMAIN line : line[c] # "junk"
  BY StorageAssumption
<1> DEFINE longer == IF Len(line) <= n THEN n ELSE IF Len(line) <= 5 THEN Len(line) ELSE 5
<1>3. longer \in 0 .. 5 /\ \A c \in Cells : c <= longer <=> c <= n \/ c \in DOMAIN line
  BY <1>2 DEF Cells
<1> HIDE DEF longer
<1>4. \A c \in Cells : prompt'[c] # "junk" <=> c <= longer
  BY <1>1, <1>2, <1>3 DEF Typed, TypedUpTo
<1> QED
  BY <1>3, <1>4 DEF PromptInv, TypedUpTo, Typed

(* The buffer is always typed from its beginning up to some cell.          *)
LEMMA PromptInvariant == Spec => []PromptInv
<1>1. PromptInv /\ UNCHANGED prompt => PromptInv'
  BY DEF PromptInv, TypedUpTo
<1>2. DOMAIN Untyped = Cells /\ \A c \in Cells : Untyped[c] = "junk"
  BY DEF Untyped
<1>3. Init => PromptInv
  <2>1. Init => DOMAIN prompt = Cells /\ \A c \in Cells : prompt[c] # "junk" <=> c <= 0
    BY <1>2 DEF Init, Cells
  <2> QED
    BY <2>1 DEF PromptInv, TypedUpTo
<1>4. PowerOff => PromptInv'
  <2>1. PowerOff => (DOMAIN prompt)' = Cells /\ \A c \in Cells : prompt'[c] # "junk" <=> c <= 0
    BY <1>2 DEF PowerOff, Cells
  <2> QED
    BY <2>1 DEF PromptInv, TypedUpTo
<1>5. PromptInv /\ Enter => PromptInv'
  BY TypedKeeps DEF Enter
<1>6. ASSUME \/ Probing \/ InitializeDrive \/ Hang \/ Measure
             \/ FormatFlags \/ FormatTable \/ FormatFile
             \/ ListDirectory \/ ListEntry \/ ListEnds \/ Lookup \/ UNCHANGED vars
      PROVE  UNCHANGED prompt
  BY <1>6 DEF Probing, InitializeDrive, Hang, Measure, FormatFlags, FormatTable, FormatFile,
         ListDirectory, ListEntry, ListEnds, Lookup, shell, vars
<1>7. PromptInv /\ [Next]_vars => PromptInv'
  BY <1>1, <1>4, <1>5, <1>6 DEF Next
<1> QED
  BY <1>3, <1>7, PTL DEF Spec

(* A line that covers all that was ever typed runs as if it stood alone    *)
(* (ExecutePrompt of interface.cpp, whose buffer is never cleared).        *)
THEOREM CoveringLineCorrect == Spec => []CoveringLineRunsAlone
<1>1. ASSUME PromptInv, NEW line \in Lines, Len(line) >= Reach(prompt)
      PROVE  Typed(prompt, line) = Typed(Untyped, line)
  <2>1. PICK n \in 0 .. 5 : TypedUpTo(n)
    BY <1>1 DEF PromptInv
  <2>2. Reach(prompt) = n
    BY <1>1, <2>1, ReachIs DEF PromptInv
  <2>3. Len(line) \in Nat /\ DOMAIN line = 1 .. Len(line)
    BY StorageAssumption
  <2>4. \A c \in Cells : c \notin DOMAIN line => prompt[c] = Untyped[c]
    BY <1>1, <2>1, <2>2, <2>3 DEF TypedUpTo, Cells, Untyped
  <2> QED
    BY <2>4 DEF Typed
<1>2. PromptInv => CoveringLineRunsAlone
  BY <1>1 DEF CoveringLineRunsAlone
<1> QED
  BY <1>2, PromptInvariant, PTL

-----------------------------------------------------------------------------
(* What List has read, as long as it read it from a formatted drive.       *)
ListInv ==
  pc = "entries" =>
    /\ index \in Nat /\ listed \subseteq 0 .. index - 1
    /\ Reached /\ Stage(Mounted) = "system" =>
         /\ index = 0 => buf = Directory(DataAt)
         /\ index \in {1, 2} /\ listed = 0 .. index - 1 => buf = File(DataAt, DataAt)

(* A formatted drive holds the file where its directory says.              *)
LEMMA SystemDrive ==
  ASSUME DriveInv, NEW d, Stage(d) = "system"
  PROVE  /\ Fits /\ d \in Drives[machine]
         /\ disk[d][TableAt] = Directory(DataAt) /\ disk[d][DataAt] = File(DataAt, DataAt)
<1>1. /\ Fits /\ d \in Drives[machine] /\ Holds(d, TableAt, "directory")
      /\ Holds(d, disk[d][TableAt].block, "file")
  BY DEF Stage, Fits, TableAt
<1>2. TableAt \in SectorsOf(d) /\ disk[d][TableAt].kind = "directory"
  BY <1>1 DEF Holds
<1>3. disk[d][TableAt] = Directory(DataAt)
  BY <1>1, <1>2 DEF DriveInv, Contents, Foreign, Flags, File
<1>4. DataAt \in SectorsOf(d) /\ disk[d][DataAt].kind = "file"
  BY <1>1, <1>3 DEF Holds, Directory
<1>5. disk[d][DataAt] = File(DataAt, DataAt)
  BY <1>1, <1>4 DEF DriveInv, Contents, Foreign, Flags, Directory
<1> QED
  BY <1>1, <1>3, <1>5

(* Each entry that is read leaves the buffer as ListInv says.              *)
LEMMA ListKeeps ==
  ASSUME DriveInv, ListInv, [Next]_vars
  PROVE  ListInv'
<1>1. CASE ListDirectory
  <2>1. PICK ok \in BOOLEAN :
          /\ buf' = IF ok /\ Reached THEN disk[Mounted][TableSector] ELSE Foreign
          /\ pc' \in IF ok THEN {"entries"} ELSE {"prompt", "stopped"}
    BY <1>1 DEF ListDirectory
  <2>2. /\ pc = "list" /\ index' = 0 /\ listed' = {}
        /\ UNCHANGED <<machine, disk, mounted, abar, rebased, count>>
    BY <1>1 DEF ListDirectory, Reads, busVars, shell, layout
  <2>3. Reached' = Reached /\ Mounted' = Mounted /\ DataAt' = DataAt
          /\ \A d : Stage(d)' = Stage(d)
    BY <2>2 DEF Reached, Mounted, DataAt, Stage, Holds, SectorsOf
  <2>4. ASSUME pc' = "entries", Reached, Stage(Mounted) = "system"
        PROVE  buf' = Directory(DataAt)
    <3>1. Fits /\ disk[Mounted][TableAt] = Directory(DataAt)
      BY <2>4, SystemDrive
    <3>2. TableSector = TableAt
      BY <2>2, <3>1, PlanValues DEF DriveInv, WalkInv, LayoutInv, TableSector
    <3> QED
      BY <2>1, <2>4, <3>1, <3>2
  <2> QED
    BY <2>2, <2>3, <2>4 DEF ListInv, Mounted, Directory
<1>2. CASE ListEntry
  <2>1. PICK sector \in EntryAt(buf, index) \ {0}, ok \in BOOLEAN :
          /\ buf' = Filled(sector, ok)
          /\ listed' = IF ok THEN listed \cup {index} ELSE listed
    BY <1>2 DEF ListEntry
  <2>2. /\ pc = "entries" /\ index' = index + 1
        /\ UNCHANGED <<machine, disk, mounted, abar, rebased>>
    BY <1>2 DEF ListEntry, Reads, busVars, shell
  <2>3. Reached' = Reached /\ Mounted' = Mounted /\ DataAt' = DataAt
          /\ \A d : Stage(d)' = Stage(d)
    BY <2>2 DEF Reached, Mounted, DataAt, Stage, Holds, SectorsOf
  <2>4. index \in Nat /\ listed \subseteq 0 .. index - 1
    BY <2>2 DEF ListInv
  <2>5. index' \in Nat /\ listed' \subseteq 0 .. index' - 1
    BY <2>1, <2>2, <2>4
  <2>6. ASSUME Reached, Stage(Mounted) = "system", index' \in {1, 2}, listed' = 0 .. index' - 1
        PROVE  buf' = File(DataAt, DataAt)
    <3>1. disk[Mounted][DataAt] = File(DataAt, DataAt)
      BY <2>6, SystemDrive
    <3>2. ok /\ listed = 0 .. index - 1
      <4>1. listed' = 0 .. index /\ index \in listed' /\ index \notin listed
        BY <2>2, <2>4, <2>6
      <4>2. ok /\ listed' = listed \cup {index}
        BY <2>1, <4>1
      <4>3. \A i : i \in listed <=> i \in 0 .. index /\ i # index
        BY <4>1, <4>2
      <4>4. \A i : i \in 0 .. index - 1 <=> i \in 0 .. index /\ i # index
        BY <2>4
      <4> QED
        BY <4>2, <4>3, <4>4
    <3>3. EntryAt(buf, index) = {DataAt}
      <4>1. CASE index = 0
        <5>1. buf = Directory(DataAt)
          BY <2>2, <2>6, <4>1 DEF ListInv
        <5> QED
          BY <4>1, <5>1, Zenon DEF EntryAt, Directory
      <4>2. CASE index = 1
        <5>1. buf = File(DataAt, DataAt)
          BY <2>2, <2>6, <3>2, <4>2 DEF ListInv
        <5> QED
          BY <4>2, <5>1 DEF EntryAt, File
      <4> QED
        BY <2>2, <2>4, <2>6, <4>1, <4>2
    <3> QED
      BY <2>1, <2>6, <3>1, <3>2, <3>3 DEF Filled
  <2> QED
    BY <2>3, <2>5, <2>6, <2>2, <2>4 DEF ListInv
<1>3. CASE UNCHANGED vars
  <2>1. UNCHANGED <<machine, disk, mounted, abar, rebased, pc, index, listed, buf>>
    BY <1>3 DEF vars, busVars, shell, locals, drives
  <2>2. Reached' = Reached /\ Mounted' = Mounted /\ DataAt' = DataAt
          /\ \A d : Stage(d)' = Stage(d)
    BY <2>1 DEF Reached, Mounted, DataAt, Stage, Holds, SectorsOf
  <2> QED
    BY <2>1, <2>2 DEF ListInv, Directory, File
<1>4. CASE \/ Probing \/ InitializeDrive \/ Hang \/ PowerOff \/ Enter \/ Measure
           \/ FormatFlags \/ FormatTable \/ FormatFile \/ ListEnds \/ Lookup
  <2>1. \A c : Execute(c) # "entries"
    BY Zenon DEF Execute
  <2>2. pc' # "entries"
    <3>1. CASE Probing
      BY <3>1 DEF Probing, Enumerate, PciVisitSkips, PciVisitProbes, ProbeFaults, EnumerateEnds, Walking
    <3>2. CASE InitializeDrive \/ Hang \/ PowerOff \/ Enter \/ Measure
      BY <2>1, <3>2 DEF InitializeDrive, Hang, PowerOff, Enter, Measure
    <3>3. CASE FormatFlags \/ FormatTable \/ FormatFile \/ ListEnds \/ Lookup
      BY <3>3 DEF FormatFlags, FormatTable, FormatFile, ListEnds, Lookup, AfterTable
    <3> QED
      BY <1>4, <3>1, <3>2, <3>3
  <2> QED
    BY <2>2 DEF ListInv
<1> QED
  BY <1>1, <1>2, <1>3, <1>4 DEF Next

(* As long as its reads succeed, the first two entries that List finds on  *)
(* a formatted drive are the system file (FS::List of storage.cpp).        *)
THEOREM FirstEntriesCorrect == Spec => []FirstEntriesAreFiles
<1>1. Init => ListInv
  BY DEF Init, ListInv
<1>2. DriveInv /\ ListInv /\ [Next]_vars => ListInv'
  BY ListKeeps
<1>3. ListInv => FirstEntriesAreFiles
  BY DEF ListInv, FirstEntriesAreFiles, File
<1> QED
  BY <1>1, <1>2, <1>3, DriveInvariant, PTL DEF Spec
=============================================================================
