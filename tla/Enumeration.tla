---------------------------- MODULE Enumeration ----------------------------
(***************************************************************************)
(* The search for disk adapters at boot: EnumeratePIC and PciVisit of      *)
(* pci.cpp walk over the functions of the PCI bus, and ProbePort of        *)
(* ahci.cpp takes over each AHCI adapter and the SATA drives at its ports. *)
(* Nothing else runs meanwhile that touches this state.                    *)
(***************************************************************************)
EXTENDS Integers, Sequences

CONSTANTS
  Machines,      (* What may be plugged in; see MachinesAssumption.        *)
  Adapters,      (* AHCI adapters.                                         *)
  Ports,         (* Ports of an adapter; 32 in the code.                   *)
  Functions,     (* Functions of a PCI device; 8 in the code.              *)
  MappedPorts    (* Ports whose registers lie in the page that ProbePort   *)
                 (* maps; 30 in the code.                                  *)

Absent == "absent"        (* Vendor 0xffff.                                *)
Other == "other"          (* A device of another class.                    *)
None == "none"            (* GlobalABAR before the first adapter.          *)

(* A machine has devices, in the order of the bus, and for each adapter    *)
(* its ports.  A device that is no multifunction device may answer for all *)
(* its functions as for the first; where the first is missing, all are.    *)
Device == [multi : BOOLEAN, function : [0 .. Functions - 1 -> Adapters \cup {Absent, Other}]]
Signatures == {"ATA", "ATAPI", "SEMB", "PM"}
Port == [implemented : BOOLEAN, present : BOOLEAN, active : BOOLEAN,
         sig : Signatures, size : Nat]

ASSUME MachinesAssumption ==
  /\ Functions \in Nat \ {0} /\ Ports \in Nat /\ MappedPorts \in Nat
  /\ {Absent, Other, None} \cap Adapters = {}
  /\ \A m \in Machines :
       /\ m.devices \in Seq(Device)
       /\ \A k \in DOMAIN m.devices :
            m.devices[k].function[0] = Absent =>
              \A f \in 0 .. Functions - 1 : m.devices[k].function[f] = Absent
       /\ DOMAIN m.ports = Adapters
       /\ \A a \in Adapters : m.ports[a] \in Seq(Port) /\ Len(m.ports[a]) <= Ports

VARIABLES
  machine,   (* The machine; no call changes it.                           *)
  pc,        (* What the kernel is doing.                                  *)
  device, function,   (* Where the walk over the bus is.                   *)
  abar,      (* GlobalABAR: the adapter that all later calls use.          *)
  rebased    (* For each adapter and port, how often PortRebase took it.   *)

busVars == <<machine, device, function, abar, rebased>>

-----------------------------------------------------------------------------
CheckType(port) ==
  IF ~port.present \/ ~port.active THEN "NULL" ELSE
  CASE port.sig = "ATAPI" -> "SATAPI"
    [] port.sig = "SEMB"  -> "SEMB"
    [] port.sig = "PM"    -> "PM"
    [] OTHER -> "SATA"

(* Ports count from 0, sequences from 1.                                   *)
PortsOf(m, a) == 0 .. Len(m.ports[a]) - 1
PortAt(m, a, p) == m.ports[a][p + 1]

(* What ProbePort takes for a SATA drive.                                  *)
IsDrive(m, a, p) == PortAt(m, a, p).implemented /\ CheckType(PortAt(m, a, p)) = "SATA"

(* Where nothing is plugged in all bits are read as ones.                  *)
IsMulti(d) == machine.devices[d].multi \/ machine.devices[d].function[0] = Absent

(* Mutant: the header type is not looked at.                               *)
EveryFunction(d) == Functions
(* A device that is no multifunction device is visited at function 0 only. *)
FuncCount(d) == IF IsMulti(d) THEN Functions ELSE 1

NotRebased == [a \in Adapters |-> [p \in PortsOf(machine, a) |-> 0]]

BusInit ==
  /\ machine \in Machines
  /\ device = 1 /\ function = 0
  /\ abar = None /\ rebased = NotRebased

Visited == machine.devices[device].function[function]

NextFunction ==
  IF function + 1 < FuncCount(device)
  THEN function' = function + 1 /\ UNCHANGED device
  ELSE function' = 0 /\ device' = device + 1

(* Every implemented port is looked at; its drive, if there is one, gets   *)
(* new command structures.                                                 *)
ProbePort(a) ==
  /\ abar' = a
  /\ rebased' = [rebased EXCEPT ![a] =
                   [p \in DOMAIN @ |-> IF IsDrive(machine, a, p) THEN @[p] + 1 ELSE @[p]]]

Walking == pc = "enumerate" /\ device <= Len(machine.devices)

PciVisitSkips ==
  /\ Walking /\ Visited \notin Adapters
  /\ NextFunction
  /\ UNCHANGED <<pc, machine, abar, rebased>>

PciVisitProbes ==
  /\ Walking /\ Visited \in Adapters
  /\ ProbePort(Visited)
  /\ NextFunction
  /\ UNCHANGED <<pc, machine>>

(* A port behind the mapped page is looked at: a page fault, unless other  *)
(* memory happens to be mapped there.                                      *)
ProbeFaults ==
  /\ Walking /\ Visited \in Adapters
  /\ \E p \in PortsOf(machine, Visited) : p >= MappedPorts /\ PortAt(machine, Visited, p).implemented
  /\ pc' = "stopped"
  /\ UNCHANGED busVars

EnumerateEnds ==
  /\ pc = "enumerate" /\ device > Len(machine.devices)
  /\ pc' = "drive"
  /\ UNCHANGED busVars

Enumerate == PciVisitSkips \/ PciVisitProbes \/ ProbeFaults \/ EnumerateEnds

-----------------------------------------------------------------------------
(* The adapters on a bus, by their places.  All functions of a multifunction  *)
(* device exist, and the first of another.                                 *)
OnBus == [m \in Machines |->
  LET places == {q \in (DOMAIN m.devices) \X (0 .. Functions - 1) :
                   /\ q[2] = 0 \/ m.devices[q[1]].multi
                   /\ m.devices[q[1]].function[q[2]] \in Adapters}
  IN  [q \in places |-> m.devices[q[1]].function[q[2]]]]

(* An adapter is in one place.                                             *)
ASSUME PlacesAssumption ==
  \A m \in Machines : \A q, r \in DOMAIN OnBus[m] : OnBus[m][q] = OnBus[m][r] => q = r

Before(q, r) == q[1] < r[1] \/ (q[1] = r[1] /\ q[2] < r[2])

LastAdapter == [m \in Machines |->
  IF DOMAIN OnBus[m] = {} THEN None
  ELSE OnBus[m][CHOOSE q \in DOMAIN OnBus[m] : \A r \in DOMAIN OnBus[m] : ~Before(q, r)]]

(* Once the walk is over, each drive of each adapter on the bus was taken  *)
(* over exactly once and no other port was, and the adapter in use is the  *)
(* last one of the bus: drives of the others can no longer be reached.     *)
ProbedOnce ==
  pc \notin {"enumerate", "stopped"} =>
    /\ abar = LastAdapter[machine]
    /\ \A a \in Adapters : \A p \in PortsOf(machine, a) :
         rebased[a][p] = IF IsDrive(machine, a, p) /\ \E q \in DOMAIN OnBus[machine] :
                              OnBus[machine][q] = a
                         THEN 1 ELSE 0
=============================================================================
