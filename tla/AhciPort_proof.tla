--------------------------- MODULE AhciPort_proof ---------------------------
(***************************************************************************)
(* Proofs about the driver and its adapter, for adapters with any number   *)
(* of slots, any number of errors and any bound of the wait: of adapters   *)
(* that leave bit C of the command header alone, and of sectors whose      *)
(* number survives the command FIS.                                        *)
(***************************************************************************)
EXTENDS AhciPort, FiniteSetTheorems, TLAPS

(* Before the command engine is started.                                   *)
Stopped == pc \in {"stop", "drain", "start"}

(* The driver holds a call but has not given it to the adapter.            *)
Preparing == pc \in {"prepare", "spin", "issue", "stray"}

(* It has, and waits.                                                      *)
Waiting == pc \in {"poll", "status"}

Types ==
  /\ cap \in Nat /\ pc \in {"stop", "drain", "start", "identify", "identified", "idle", "prepare",
                           "spin", "issue", "stray", "poll", "status", "recheck"}
  /\ slot \in Slots \cup {None} /\ errors \in Nat
  /\ ci \subseteq Slots /\ active \in Slots \cup {None}
  /\ DOMAIN table = Slots /\ DOMAIN header = Slots

Booleans ==
  /\ st \in BOOLEAN /\ cr \in BOOLEAN /\ tfes \in BOOLEAN /\ busy \in BOOLEAN
  /\ halted \in BOOLEAN /\ served \in BOOLEAN /\ result \in BOOLEAN

(* The command engine runs from StartCmd on; what it works on is in PxCI.  *)
EngineInv ==
  /\ active # None => active \in ci /\ cr /\ ~halted /\ busy
  /\ ~cr => ~halted
  /\ Stopped /\ ~cr => ci = {}
  /\ halted => errors > 0
  /\ pc \in {"drain", "start"} => ~st
  /\ pc = "start" => ~cr
  /\ ~Stopped => st

(* An adapter that has not failed has at most the command that the driver  *)
(* waits for.                                                              *)
RunningInv ==
  ~Stopped /\ ~halted =>
    /\ Preparing \/ pc \in {"idle", "identify", "recheck"} => ci = {}
    /\ pc = "identified" => ci \subseteq {0}
    /\ Waiting => ci \subseteq {slot}
    /\ Preparing \/ Waiting \/ pc = "recheck" => ~tfes

(* One that has failed keeps the command that failed, and completes none.  *)
HaltedInv ==
  ~Stopped /\ halted =>
    /\ Preparing \/ pc \in {"idle", "identify"} => \E s \in Slots : ci = {s}
    /\ pc = "identified" => ci # {}
    /\ Waiting => slot \in ci /\ (tfes => ci = {slot})
    /\ Preparing => ~tfes
    /\ pc # "recheck"

(* Write is in trouble only if every slot but the last holds a command.    *)
StrayInv == pc = "stray" => FindCmdSlot(ci) = None

(* Without a call there are no commands but IDENTIFY and what the firmware *)
(* left; a call's transfer is over when its bit of PxCI is clear, and not  *)
(* before.                                                                 *)
CallInv ==
  /\ Preparing \/ Waiting \/ pc = "recheck" => call \in Reads \cup Writes
  /\ ~(Preparing \/ Waiting \/ pc = "recheck") => call = NoCall
  /\ Stopped => \A s \in Slots : table[s] \in {NoCall, Left}
  /\ pc = "identified" => table[0] = Identify
  /\ pc \in {"spin", "issue", "recheck"} \/ Waiting => slot \in Slots /\ table[slot] = Command(call)
  /\ Preparing => ~served
  /\ Waiting => (served <=> slot \notin ci)
  /\ pc = "recheck" => served

IInv == Types /\ Booleans /\ EngineInv /\ RunningInv /\ HaltedInv /\ StrayInv /\ CallInv

-----------------------------------------------------------------------------
(* What PxCI may hold when a call begins.                                  *)
LEMMA AtMostOne ==
  ASSUME IInv, Preparing \/ pc \in {"idle", "identify"}
  PROVE  /\ ci = {} \/ \E s \in Slots : ci = {s}
         /\ ci # {} => halted /\ errors > 0
<1>1. ~Stopped
  BY DEF Preparing, Stopped
<1> QED
  BY <1>1 DEF IInv, RunningInv, HaltedInv, EngineInv, Booleans

(* find_cmdslot finds a slot that is free, unless it looks at none, or at  *)
(* one that holds a command.                                               *)
LEMMA SlotFound ==
  ASSUME Types, ci = {} \/ \E s \in Slots : ci = {s}
  PROVE  /\ FindCmdSlot(ci) # None => FindCmdSlot(ci) \in Slots \ ci
         /\ FindCmdSlot(ci) = None => cap = 0 \/ (cap = 1 /\ ci # {})
<1> DEFINE free == {s \in 0 .. cap - 1 : s \notin ci}
           first == IF 0 \notin ci THEN 0 ELSE 1
<1>1. cap \in Nat
  BY DEF Types
<1>2. FindCmdSlot(ci) = IF free = {} THEN None ELSE CHOOSE s \in free : \A t \in free : s <= t
  BY DEF FindCmdSlot
<1>3. CASE free = {}
  <2>1. cap = 0 \/ 0 \in ci
    BY <1>1, <1>3
  <2>2. cap <= 1 \/ 1 \in ci
    BY <1>1, <1>3
  <2>3. ~(0 \in ci /\ 1 \in ci)
    OBVIOUS
  <2> QED
    BY <1>1, <1>2, <1>3, <2>1, <2>2, <2>3
<1>4. CASE free # {}
  <2>1. first \in free /\ \A t \in free : first <= t
    <3>1. \A t \in free : t \in 0 .. cap - 1 /\ t \notin ci
      OBVIOUS
    <3>2. first \notin ci
      OBVIOUS
    <3> QED
      BY <1>1, <1>4, <3>1, <3>2
  <2>2. \A s \in free : s \in Int
    BY <1>1
  <2>3. (CHOOSE s \in free : \A t \in free : s <= t) = first
    <3> HIDE DEF free, first
    <3> QED
      BY <2>1, <2>2
  <2>4. FindCmdSlot(ci) = first /\ first \in Slots \ ci /\ first # None
    BY <1>1, <1>2, <1>4, <2>1, <2>3 DEF Slots, None
  <2> QED
    BY <2>4
<1> QED
  BY <1>3, <1>4

-----------------------------------------------------------------------------
(* At the start the port may still run for the firmware.                   *)
LEMMA InitIInv == ASSUME Init PROVE IInv
<1>1. cap \in Nat /\ pc = "stop" /\ ci \subseteq {0}
  BY AhciAssumption DEF Init
<1>2. Types
  BY <1>1 DEF Init, Types, Slots, None
<1>6. Booleans
  <2>1. cr \in BOOLEAN /\ st \in BOOLEAN
    BY Zenon DEF Init
  <2> QED
    BY <2>1 DEF Init, Booleans
<1>3. EngineInv
  BY DEF Init, EngineInv, Stopped
<1>4. RunningInv /\ HaltedInv /\ StrayInv
  BY <1>1 DEF RunningInv, HaltedInv, StrayInv, Stopped
<1>5. CallInv
  BY <1>1 DEF Init, CallInv, Preparing, Waiting
<1> QED
  BY <1>2, <1>3, <1>4, <1>5, <1>6 DEF IInv

(* The start of the port.                                                  *)
LEMMA StartKeeps ==
  ASSUME IInv, StopCmd \/ Rebase \/ StartCmd
  PROVE  IInv'
<1>1. CASE StopCmd
  <2>1. Types' /\ Booleans' /\ EngineInv' /\ RunningInv' /\ HaltedInv' /\ StrayInv'
    BY <1>1 DEF StopCmd, IInv, Types, Booleans, EngineInv, RunningInv, HaltedInv, StrayInv,
                Stopped, Slots, memory, adapter
  <2>2. CallInv'
    BY <1>1 DEF StopCmd, IInv, CallInv, Stopped, Preparing, Waiting, Slots, memory, adapter
  <2> QED
    BY <2>1, <2>2 DEF IInv
<1>2. CASE Rebase
  <2>1. Types' /\ Booleans' /\ EngineInv' /\ RunningInv' /\ HaltedInv' /\ StrayInv'
    BY <1>2 DEF Rebase, IInv, Types, Booleans, EngineInv, RunningInv, HaltedInv, StrayInv,
                Stopped, Slots, memory, adapter
  <2>2. CallInv'
    BY <1>2 DEF Rebase, IInv, CallInv, Stopped, Preparing, Waiting, Slots, memory, adapter
  <2> QED
    BY <2>1, <2>2 DEF IInv
<1>3. CASE StartCmd
  <2>1. Types' /\ Booleans' /\ EngineInv' /\ RunningInv' /\ HaltedInv' /\ StrayInv'
    BY <1>3 DEF StartCmd, IInv, Types, Booleans, EngineInv, RunningInv, HaltedInv, StrayInv,
                Stopped, Preparing, Waiting, Slots, memory, adapter
  <2>2. CallInv'
    BY <1>3 DEF StartCmd, IInv, CallInv, Stopped, Preparing, Waiting, Slots, memory, adapter
  <2> QED
    BY <2>1, <2>2 DEF IInv
<1> QED
  BY <1>1, <1>2, <1>3

(* ReadDiskSize.                                                           *)
LEMMA IdentifyKeeps ==
  ASSUME IInv, IssueIdentify \/ IdentifyDone \/ AskSize
  PROVE  IInv'
<1>1. CASE IssueIdentify
  <2>1. Types' /\ Booleans' /\ EngineInv' /\ RunningInv' /\ HaltedInv' /\ StrayInv'
    BY <1>1 DEF IssueIdentify, IInv, Types, Booleans, EngineInv, RunningInv, HaltedInv, StrayInv,
                Stopped, Preparing, Waiting, Slots, memory, adapter
  <2>2. CallInv'
    BY <1>1 DEF IssueIdentify, IInv, CallInv, Types, Stopped, Preparing, Waiting, Slots, memory, adapter
  <2> QED
    BY <2>1, <2>2 DEF IInv
<1>2. CASE IdentifyDone
  <2>1. Types' /\ Booleans' /\ EngineInv' /\ RunningInv' /\ HaltedInv' /\ StrayInv'
    BY <1>2 DEF IdentifyDone, IInv, Types, Booleans, EngineInv, RunningInv, HaltedInv, StrayInv,
                Stopped, Preparing, Waiting, Slots, memory, adapter
  <2>2. CallInv'
    BY <1>2 DEF IdentifyDone, IInv, CallInv, Stopped, Preparing, Waiting, Slots, memory, adapter
  <2> QED
    BY <2>1, <2>2 DEF IInv
<1>3. CASE AskSize
  <2>1. Types' /\ Booleans' /\ EngineInv' /\ RunningInv' /\ HaltedInv' /\ StrayInv'
    BY <1>3 DEF AskSize, IInv, Types, Booleans, EngineInv, RunningInv, HaltedInv, StrayInv,
                Stopped, Preparing, Waiting, Slots, memory, adapter
  <2>2. CallInv'
    BY <1>3 DEF AskSize, IInv, CallInv, Stopped, Preparing, Waiting, Slots, memory, adapter
  <2> QED
    BY <2>1, <2>2 DEF IInv
<1> QED
  BY <1>1, <1>2, <1>3

(* Read and Write until the command is issued.                            *)
LEMMA CallBegins ==
  ASSUME IInv, Invoke \/ NoSlotForRead \/ NoSlotForWrite
  PROVE  IInv'
<1>1. CASE Invoke
  <2>1. Types' /\ Booleans' /\ EngineInv' /\ RunningInv' /\ HaltedInv' /\ StrayInv'
    BY <1>1 DEF Invoke, IInv, Types, Booleans, EngineInv, RunningInv, HaltedInv, StrayInv,
                Return, Stopped, Preparing, Waiting, Slots, memory, adapter, driver
  <2>2. CallInv'
    BY <1>1 DEF Invoke, IInv, CallInv, Types, EngineInv, RunningInv, HaltedInv, Return,
                Stopped, Preparing, Waiting, Slots, memory, adapter, driver
  <2> QED
    BY <2>1, <2>2 DEF IInv
<1>2. CASE NoSlotForRead
  <2>1. Types' /\ Booleans' /\ EngineInv' /\ RunningInv' /\ HaltedInv' /\ StrayInv'
    BY <1>2 DEF NoSlotForRead, IInv, Types, Booleans, EngineInv, RunningInv, HaltedInv, StrayInv,
                Return, Stopped, Preparing, Waiting, Slots, memory, adapter, driver
  <2>2. CallInv'
    BY <1>2 DEF NoSlotForRead, IInv, CallInv, Types, EngineInv, RunningInv, HaltedInv, Return,
                Stopped, Preparing, Waiting, Slots, memory, adapter, driver
  <2> QED
    BY <2>1, <2>2 DEF IInv
<1>3. CASE NoSlotForWrite
  <2>1. Types' /\ Booleans'
    BY <1>3 DEF NoSlotForWrite, IInv, Types, Booleans, CallInv, Slots, memory, adapter, driver
  <2>2. CallInv'
    BY <1>3 DEF NoSlotForWrite, IInv, CallInv, Types, EngineInv, RunningInv, HaltedInv, Return,
                Stopped, Preparing, Waiting, Slots, memory, adapter, driver
  <2>3. EngineInv'
    BY <1>3 DEF NoSlotForWrite, IInv, Types, Booleans, EngineInv, Stopped, Slots, memory, adapter, driver
  <2>4. RunningInv' /\ HaltedInv'
    BY <1>3 DEF NoSlotForWrite, IInv, Types, Booleans, EngineInv, RunningInv, HaltedInv, CallInv,
                Stopped, Preparing, Waiting, Slots, memory, adapter, driver
  <2>5. StrayInv'
    BY <1>3 DEF NoSlotForWrite, IInv, EngineInv, RunningInv, StrayInv, FindCmdSlot, Stopped, Preparing,
                memory, adapter, driver
  <2> QED
    BY <2>1, <2>2, <2>3, <2>4, <2>5 DEF IInv
<1> QED
  BY <1>1, <1>2, <1>3

(* The wait for BSY.                                                       *)
LEMMA CallSpins ==
  ASSUME IInv, SpinBusy \/ SpinReady \/ SpinTimeout
  PROVE  IInv'
<1>1. CASE SpinBusy
  <2>1. Types' /\ Booleans' /\ EngineInv' /\ RunningInv' /\ HaltedInv' /\ StrayInv'
    BY <1>1 DEF SpinBusy, IInv, Types, Booleans, EngineInv, RunningInv, HaltedInv, StrayInv,
                Return, Stopped, Preparing, Waiting, Slots, memory, adapter, driver
  <2>2. CallInv'
    BY <1>1 DEF SpinBusy, IInv, CallInv, Types, EngineInv, RunningInv, HaltedInv, Return,
                Stopped, Preparing, Waiting, Slots, memory, adapter, driver
  <2> QED
    BY <2>1, <2>2 DEF IInv
<1>2. CASE SpinReady
  <2>1. Types' /\ Booleans' /\ EngineInv' /\ RunningInv' /\ HaltedInv' /\ StrayInv'
    BY <1>2 DEF SpinReady, IInv, Types, Booleans, EngineInv, RunningInv, HaltedInv, StrayInv,
                Return, Stopped, Preparing, Waiting, Slots, memory, adapter, driver
  <2>2. CallInv'
    BY <1>2 DEF SpinReady, IInv, CallInv, Types, EngineInv, RunningInv, HaltedInv, Return,
                Stopped, Preparing, Waiting, Slots, memory, adapter, driver
  <2> QED
    BY <2>1, <2>2 DEF IInv
<1>3. CASE SpinTimeout
  <2>1. Types' /\ Booleans' /\ EngineInv' /\ RunningInv' /\ HaltedInv' /\ StrayInv'
    BY <1>3 DEF SpinTimeout, IInv, Types, Booleans, EngineInv, RunningInv, HaltedInv, StrayInv,
                Return, Stopped, Preparing, Waiting, Slots, memory, adapter, driver
  <2>2. CallInv'
    BY <1>3 DEF SpinTimeout, IInv, CallInv, Types, EngineInv, RunningInv, HaltedInv, Return,
                Stopped, Preparing, Waiting, Slots, memory, adapter, driver
  <2> QED
    BY <2>1, <2>2 DEF IInv
<1> QED
  BY <1>1, <1>2, <1>3

(* The command goes to a slot that is free.                                *)
LEMMA PrepareKeeps ==
  ASSUME IInv, Prepare
  PROVE  IInv'
<1>1. FindCmdSlot(ci) \in Slots \ ci
  BY AtMostOne, SlotFound DEF Prepare, Preparing, IInv
<1>2. Types' /\ Booleans' /\ EngineInv' /\ RunningInv' /\ HaltedInv' /\ StrayInv'
  BY <1>1 DEF Prepare, IInv, Types, Booleans, EngineInv, RunningInv, HaltedInv, StrayInv,
              Stopped, Preparing, Waiting, Slots, memory, adapter
<1>3. CallInv'
  BY <1>1 DEF Prepare, IInv, CallInv, Types, Stopped, Preparing, Waiting, Slots, memory, adapter
<1> QED
  BY <1>2, <1>3 DEF IInv

(* The wait for the command.                                               *)
LEMMA CallWaits ==
  ASSUME IInv, Issue \/ Poll \/ Status \/ Recheck
  PROVE  IInv'
<1>1. CASE Issue
  <2>1. Types' /\ Booleans'
    BY <1>1 DEF Issue, IInv, Types, Booleans, CallInv, Slots, memory, adapter, driver
  <2>2. CallInv'
    BY <1>1 DEF Issue, IInv, CallInv, Types, EngineInv, RunningInv, HaltedInv, Return,
                Stopped, Preparing, Waiting, Slots, memory, adapter, driver
  <2>3. EngineInv'
    BY <1>1 DEF Issue, IInv, Types, Booleans, EngineInv, Stopped, Slots, memory, adapter, driver
  <2>4. RunningInv' /\ HaltedInv'
    BY <1>1 DEF Issue, IInv, Types, Booleans, EngineInv, RunningInv, HaltedInv, CallInv,
                Stopped, Preparing, Waiting, Slots, memory, adapter, driver
  <2>5. StrayInv'
    BY <1>1 DEF Issue, IInv, EngineInv, RunningInv, StrayInv, FindCmdSlot, Stopped, Preparing,
                memory, adapter, driver
  <2> QED
    BY <2>1, <2>2, <2>3, <2>4, <2>5 DEF IInv
<1>2. CASE Poll
  <2>1. Types' /\ Booleans' /\ EngineInv' /\ RunningInv' /\ HaltedInv' /\ StrayInv'
    BY <1>2 DEF Poll, IInv, Types, Booleans, EngineInv, RunningInv, HaltedInv, StrayInv,
                Return, Stopped, Preparing, Waiting, Slots, memory, adapter, driver
  <2>2. CallInv'
    BY <1>2 DEF Poll, IInv, CallInv, Types, EngineInv, RunningInv, HaltedInv, Return,
                Stopped, Preparing, Waiting, Slots, memory, adapter, driver
  <2> QED
    BY <2>1, <2>2 DEF IInv
<1>3. CASE Status
  <2>1. Types' /\ Booleans' /\ EngineInv' /\ RunningInv' /\ HaltedInv' /\ StrayInv'
    BY <1>3 DEF Status, IInv, Types, Booleans, EngineInv, RunningInv, HaltedInv, StrayInv,
                Return, Stopped, Preparing, Waiting, Slots, memory, adapter, driver
  <2>2. CallInv'
    BY <1>3 DEF Status, IInv, CallInv, Types, EngineInv, RunningInv, HaltedInv, Return,
                Stopped, Preparing, Waiting, Slots, memory, adapter, driver
  <2> QED
    BY <2>1, <2>2 DEF IInv
<1>4. CASE Recheck
  <2>1. Types' /\ Booleans' /\ EngineInv' /\ RunningInv' /\ HaltedInv' /\ StrayInv'
    BY <1>4 DEF Recheck, IInv, Types, Booleans, EngineInv, RunningInv, HaltedInv, StrayInv,
                Return, Stopped, Preparing, Waiting, Slots, memory, adapter, driver
  <2>2. CallInv'
    BY <1>4 DEF Recheck, IInv, CallInv, Types, EngineInv, RunningInv, HaltedInv, Return,
                Stopped, Preparing, Waiting, Slots, memory, adapter, driver
  <2> QED
    BY <2>1, <2>2 DEF IInv
<1> QED
  BY <1>1, <1>2, <1>3, <1>4

(* The command engine.                                                     *)
LEMMA EngineKeeps ==
  ASSUME IInv, ~ClearsBusy, EngineStarts \/ EngineStops \/ DriveReady \/ Fetch \/ Fail
  PROVE  IInv'
<1>1. CASE EngineStarts
  <2>1. Types' /\ Booleans'
    BY <1>1 DEF EngineStarts, IInv, Types, Booleans, CallInv, Slots, memory, adapter, driver
  <2>2. CallInv'
    BY <1>1 DEF EngineStarts, IInv, CallInv, Types, EngineInv, RunningInv, HaltedInv, Return,
                Stopped, Preparing, Waiting, Slots, memory, adapter, driver
  <2>3. EngineInv'
    BY <1>1 DEF EngineStarts, IInv, Types, Booleans, EngineInv, Stopped, Slots, memory, adapter, driver
  <2>4. RunningInv' /\ HaltedInv'
    BY <1>1 DEF EngineStarts, IInv, Types, Booleans, EngineInv, RunningInv, HaltedInv, CallInv,
                Stopped, Preparing, Waiting, Slots, memory, adapter, driver
  <2>5. StrayInv'
    BY <1>1 DEF EngineStarts, IInv, EngineInv, RunningInv, StrayInv, FindCmdSlot, Stopped, Preparing,
                memory, adapter, driver
  <2> QED
    BY <2>1, <2>2, <2>3, <2>4, <2>5 DEF IInv
<1>2. CASE EngineStops
  <2>1. Types' /\ Booleans'
    BY <1>2 DEF EngineStops, IInv, Types, Booleans, CallInv, Slots, memory, adapter, driver
  <2>2. CallInv'
    BY <1>2 DEF EngineStops, IInv, CallInv, Types, EngineInv, RunningInv, HaltedInv, Return,
                Stopped, Preparing, Waiting, Slots, memory, adapter, driver
  <2>3. EngineInv'
    BY <1>2 DEF EngineStops, IInv, Types, Booleans, EngineInv, Stopped, Slots, memory, adapter, driver
  <2>4. RunningInv' /\ HaltedInv'
    BY <1>2 DEF EngineStops, IInv, Types, Booleans, EngineInv, RunningInv, HaltedInv, CallInv,
                Stopped, Preparing, Waiting, Slots, memory, adapter, driver
  <2>5. StrayInv'
    BY <1>2 DEF EngineStops, IInv, EngineInv, RunningInv, StrayInv, FindCmdSlot, Stopped, Preparing,
                memory, adapter, driver
  <2> QED
    BY <2>1, <2>2, <2>3, <2>4, <2>5 DEF IInv
<1>3. CASE DriveReady
  <2>1. Types' /\ Booleans'
    BY <1>3 DEF DriveReady, IInv, Types, Booleans, CallInv, Slots, memory, adapter, driver
  <2>2. CallInv'
    BY <1>3 DEF DriveReady, IInv, CallInv, Types, EngineInv, RunningInv, HaltedInv, Return,
                Stopped, Preparing, Waiting, Slots, memory, adapter, driver
  <2>3. EngineInv'
    BY <1>3 DEF DriveReady, IInv, Types, Booleans, EngineInv, Stopped, Slots, memory, adapter, driver
  <2>4. RunningInv' /\ HaltedInv'
    BY <1>3 DEF DriveReady, IInv, Types, Booleans, EngineInv, RunningInv, HaltedInv, CallInv,
                Stopped, Preparing, Waiting, Slots, memory, adapter, driver
  <2>5. StrayInv'
    BY <1>3 DEF DriveReady, IInv, EngineInv, RunningInv, StrayInv, FindCmdSlot, Stopped, Preparing,
                memory, adapter, driver
  <2> QED
    BY <2>1, <2>2, <2>3, <2>4, <2>5 DEF IInv
<1>4. CASE Fetch
  <2>1. Types' /\ Booleans' /\ EngineInv' /\ RunningInv' /\ HaltedInv' /\ StrayInv'
    BY <1>4 DEF Fetch, IInv, Types, Booleans, EngineInv, RunningInv, HaltedInv, StrayInv,
                Return, Stopped, Preparing, Waiting, Slots, memory, adapter, driver
  <2>2. CallInv'
    BY <1>4 DEF Fetch, IInv, CallInv, Types, EngineInv, RunningInv, HaltedInv, Return,
                Stopped, Preparing, Waiting, Slots, memory, adapter, driver
  <2> QED
    BY <2>1, <2>2 DEF IInv
<1>5. CASE Fail
  <2>1. Types' /\ Booleans'
    BY <1>5 DEF Fail, IInv, Types, Booleans, CallInv, Slots, memory, adapter, driver
  <2>2. CallInv'
    BY <1>5 DEF Fail, IInv, CallInv, Types, EngineInv, RunningInv, HaltedInv, Return,
                Stopped, Preparing, Waiting, Slots, memory, adapter, driver
  <2>3. EngineInv'
    BY <1>5 DEF Fail, IInv, Types, Booleans, EngineInv, Stopped, Slots, memory, adapter, driver
  <2>4. RunningInv' /\ HaltedInv'
    BY <1>5 DEF Fail, IInv, Types, Booleans, EngineInv, RunningInv, HaltedInv, CallInv,
                Stopped, Preparing, Waiting, Slots, memory, adapter, driver
  <2>5. StrayInv'
    BY <1>5 DEF Fail, IInv, EngineInv, RunningInv, StrayInv, FindCmdSlot, Stopped, Preparing,
                memory, adapter, driver
  <2> QED
    BY <2>1, <2>2, <2>3, <2>4, <2>5 DEF IInv
<1> QED
  BY <1>1, <1>2, <1>3, <1>4, <1>5

(* What completes is the command that the driver waits for, or the         *)
(* firmware's.                                                             *)
LEMMA CompleteKeeps ==
  ASSUME IInv, Complete
  PROVE  IInv'
<1>1. /\ active \in ci /\ ~halted /\ active \in Slots /\ ci' = ci \ {active}
      /\ UNCHANGED <<driver, header, table, cr, halted, errors, st, tfes>>
      /\ active' = None /\ busy' = FALSE /\ Transfer(table[active])
  BY DEF Complete, IInv, EngineInv, Types
<1>2. Stopped \/ pc = "identified" \/ Waiting
  BY <1>1 DEF IInv, Types, RunningInv, Stopped, Preparing, Waiting
<1>3. Waiting => active = slot /\ call \in Reads \cup Writes /\ table[active] = Command(call)
  BY <1>1 DEF IInv, RunningInv, CallInv, Stopped, Waiting
<1>4. Waiting => served' = TRUE
  <2>1. call \in Reads \cup Writes => Command(call).kind = call.kind /\ call.kind \in {"read", "write"}
    BY DEF Command, Reads, Writes
  <2> QED
    BY <1>1, <1>3, <2>1 DEF Transfer
<1>5. served' \in BOOLEAN
  BY <1>1 DEF Transfer, IInv, Booleans
<1>6. Types' /\ Booleans'
  BY <1>1, <1>5 DEF IInv, Types, Booleans, Slots, driver
<1>7. EngineInv'
  BY <1>1 DEF IInv, EngineInv, Stopped, driver
<1>8. RunningInv' /\ HaltedInv' /\ StrayInv'
  BY <1>1, <1>2 DEF IInv, RunningInv, HaltedInv, StrayInv, Stopped, Preparing, Waiting, driver
<1>9. CallInv'
  BY <1>1, <1>2, <1>3, <1>4 DEF IInv, CallInv, RunningInv, Stopped, Preparing, Waiting, Slots, driver
<1> QED
  BY <1>6, <1>7, <1>8, <1>9 DEF IInv

(* A step that changes nothing.                                            *)
LEMMA StutterKeeps ==
  ASSUME IInv, UNCHANGED vars
  PROVE  IInv'
<1>1. Types' /\ Booleans' /\ EngineInv' /\ RunningInv' /\ HaltedInv' /\ StrayInv'
  BY DEF IInv, Types, Booleans, EngineInv, RunningInv, HaltedInv, StrayInv, FindCmdSlot,
         Stopped, Preparing, Waiting, Slots, vars, driver, memory, adapter
<1>2. CallInv'
  BY DEF IInv, CallInv, Stopped, Preparing, Waiting, Slots, vars, driver, memory, adapter
<1> QED
  BY <1>1, <1>2 DEF IInv

-----------------------------------------------------------------------------
(* The invariant, on adapters that leave bit C alone.                      *)
THEOREM Invariance == ASSUME ~ClearsBusy PROVE Spec => []IInv
<1>1. Init => IInv
  BY InitIInv
<1>2. IInv /\ [Next]_vars => IInv'
  <2> SUFFICES ASSUME IInv, [Next]_vars PROVE IInv'
    OBVIOUS
  <2>1. CASE DriverNext
    BY <2>1, StartKeeps, IdentifyKeeps, CallBegins, PrepareKeeps, CallSpins, CallWaits DEF DriverNext
  <2>2. CASE AdapterNext
    BY <2>2, EngineKeeps, CompleteKeeps DEF AdapterNext
  <2>3. CASE Invoke \/ AskSize
    BY <2>3, CallBegins, IdentifyKeeps
  <2>4. CASE UNCHANGED vars
    BY <2>4, StutterKeeps
  <2> QED
    BY <2>1, <2>2, <2>3, <2>4 DEF Next
<1> QED
  BY <1>1, <1>2, PTL DEF Spec

(* Between calls the adapter works on none of the driver's buffers, and    *)
(* PxCI holds only commands that failed (Read and Write of ahci.cpp).      *)
THEOREM IdleCorrect == ASSUME ~ClearsBusy PROVE Spec => []IdleIsQuiet
<1>1. ASSUME IInv, pc = "idle" PROVE active = None /\ Cardinality(ci) <= errors
  <2>1. ci = {} \/ \E s \in Slots : ci = {s}
    BY <1>1, AtMostOne
  <2>2. errors \in Nat /\ (ci # {} => halted /\ errors > 0)
    BY <1>1, AtMostOne DEF IInv, Types
  <2>3. active = None
    BY <1>1, <2>2 DEF IInv, EngineInv
  <2>4. CASE ci = {}
    <3>1. Cardinality(ci) = 0
      BY <2>4, FS_EmptySet
    <3> QED
      BY <2>2, <2>3, <3>1
  <2>5. CASE \E s \in Slots : ci = {s}
    <3>1. Cardinality(ci) = 1
      BY <2>5, FS_Singleton
    <3> QED
      BY <2>2, <2>3, <2>5, <3>1
  <2> QED
    BY <2>1, <2>4, <2>5
<1>2. IInv => IdleIsQuiet
  BY <1>1 DEF IdleIsQuiet
<1> QED
  BY <1>2, Invariance, PTL

(* Write runs without a slot only where find_cmdslot looks at no slot or   *)
(* at one, as on adapters of one and two, and at one only after an error.  *)
THEOREM StrayCorrect == ASSUME ~ClearsBusy PROVE Spec => []StrayOnlyWhenFull
<1>1. ASSUME IInv, pc = "stray" PROVE errors >= cap /\ cap <= 1
  <2>1. (ci = {} \/ \E s \in Slots : ci = {s}) /\ (ci # {} => errors > 0)
    BY <1>1, AtMostOne DEF Preparing
  <2>2. FindCmdSlot(ci) = None /\ errors \in Nat /\ cap \in Nat /\ Types
    BY <1>1 DEF IInv, StrayInv, Types
  <2>3. cap = 0 \/ (cap = 1 /\ ci # {})
    BY <2>1, <2>2, SlotFound
  <2> QED
    BY <2>1, <2>2, <2>3
<1>2. IInv => StrayOnlyWhenFull
  BY <1>1 DEF StrayOnlyWhenFull
<1> QED
  BY <1>2, Invariance, PTL

(* No command table is rewritten while the adapter may read it.            *)
THEOREM IssuedCorrect == ASSUME ~ClearsBusy PROVE Spec => IssuedUntouched
<1>1. ASSUME IInv, [Next]_vars, NEW s \in ci
      PROVE  \/ table'[s] = table[s] /\ header'[s] = header[s]
             \/ s = 0 /\ pc = "identify" /\ halted
  <2>1. CASE Rebase
    BY <1>1, <2>1 DEF Rebase, IInv, EngineInv, Stopped
  <2>2. CASE IssueIdentify
    <3>1. halted
      BY <1>1, <2>2, AtMostOne DEF IssueIdentify
    <3> QED
      BY <1>1, <2>2, <3>1 DEF IssueIdentify, IInv, Types
  <2>3. CASE Prepare
    <3>1. FindCmdSlot(ci) \notin ci
      BY <1>1, <2>3, AtMostOne, SlotFound DEF Prepare, Preparing, IInv
    <3> QED
      BY <1>1, <2>3, <3>1 DEF Prepare
  <2>4. CASE DriverNext /\ ~Rebase /\ ~IssueIdentify /\ ~Prepare
    BY <2>4 DEF DriverNext, StopCmd, StartCmd, IdentifyDone, NoSlotForRead, NoSlotForWrite,
                SpinBusy, SpinReady, SpinTimeout, Issue, Poll, Status, Recheck, memory
  <2>5. CASE AdapterNext \/ Invoke \/ AskSize \/ UNCHANGED vars
    BY <2>5 DEF AdapterNext, EngineStarts, EngineStops, DriveReady, Fetch, Complete, Fail,
                Invoke, AskSize, vars, memory
  <2> QED
    BY <1>1, <2>1, <2>2, <2>3, <2>4, <2>5 DEF Next
<1>2. IInv /\ [Next]_vars =>
        [\A s \in ci : \/ table'[s] = table[s] /\ header'[s] = header[s]
                       \/ s = 0 /\ pc = "identify" /\ halted]_vars
  BY <1>1
<1> QED
  BY <1>2, Invariance, PTL DEF Spec, IssuedUntouched

-----------------------------------------------------------------------------
(* The command FIS carries the sector that the caller named; it does for   *)
(* sectors below 2^24.                                                     *)
FisFaithful == \A c \in Reads \cup Writes : SectorOf(Command(c).lba) = c.sector

(* What a Read or Write shows of itself to the caller.                     *)
LEMMA CompleteServes ==
  ASSUME IInv, DOMAIN disk = Sectors, FisFaithful, Complete
  PROVE  /\ [Device!DeviceNext]_Device!deviceVars /\ DOMAIN disk' = Sectors
<1>1. /\ active \in ci /\ ~halted /\ active \in Slots
      /\ UNCHANGED <<call, result, pc>> /\ Transfer(table[active])
  BY DEF Complete, IInv, EngineInv, Types, driver
<1>2. Stopped \/ pc = "identified" \/ Waiting
  BY <1>1 DEF IInv, Types, RunningInv, Stopped, Preparing, Waiting
<1>3. CASE Waiting
  <2>1. active = slot /\ call \in Reads \cup Writes /\ table[active] = Command(call) /\ ~served
    BY <1>1, <1>3 DEF IInv, RunningInv, CallInv, Stopped, Waiting
  <2>2. /\ Command(call).kind = call.kind /\ call.kind \in {"read", "write"}
        /\ call.kind = "write" => Command(call).data = call.data
        /\ call # Device!NoCall /\ SectorOf(Command(call).lba) = call.sector
    BY <2>1 DEF Command, Reads, Writes, FisFaithful, Device!NoCall
  <2>3. Device!Serve /\ DOMAIN disk' = Sectors
    BY <1>1, <2>1, <2>2 DEF Transfer, Device!Serve
  <2> QED
    BY <2>3 DEF Device!DeviceNext
<1>4. CASE Stopped \/ pc = "identified"
  <2>1. table[active] \in {NoCall, Left, Identify}
    BY <1>1, <1>4 DEF IInv, RunningInv, CallInv, Stopped
  <2>2. UNCHANGED <<disk, buffer, served>>
    BY <1>1, <2>1 DEF Transfer, NoCall, Left, Identify
  <2> QED
    BY <1>1, <2>2 DEF Device!deviceVars
<1> QED
  BY <1>2, <1>3, <1>4

(* The driver and its adapter implement BlockDevice: TRUE is answered only *)
(* after the transfer, and nothing changes outside the call.               *)
THEOREM Refinement ==
  ASSUME ~ClearsBusy, FisFaithful
  PROVE  Spec => ImplementsBlockDevice
<1>1. Init => Device!DeviceInit
  BY DEF Init, Device!DeviceInit, NoCall, Device!NoCall
<1>2. ASSUME IInv, DOMAIN disk = Sectors, [Next]_vars
      PROVE  [Device!DeviceNext]_Device!deviceVars /\ DOMAIN disk' = Sectors
  <2>1. CASE Complete
    BY <1>2, <2>1, CompleteServes
  <2>2. CASE Invoke
    <3>1. call = NoCall /\ Device!Calls = Reads \cup Writes
      BY <1>2, <2>2 DEF Invoke, IInv, CallInv, Preparing, Waiting, Device!Calls, Reads, Writes
    <3>2. Device!Invoke /\ UNCHANGED disk
      BY <2>2, <3>1 DEF Invoke, Device!Invoke, NoCall, Device!NoCall
    <3> QED
      BY <1>2, <3>2 DEF Device!DeviceNext
  <2>3. CASE NoSlotForRead \/ SpinTimeout \/ (Status /\ tfes)
    <3>1. call # NoCall
      <4>1. call \in Reads \cup Writes
        BY <1>2, <2>3 DEF NoSlotForRead, SpinTimeout, Status, IInv, CallInv, Preparing, Waiting
      <4>2. call.kind \in {"read", "write"}
        BY <4>1 DEF Reads, Writes
      <4> QED
        BY <4>1, <4>2 DEF NoCall
    <3>2. call' = NoCall /\ result' = FALSE /\ UNCHANGED <<disk, buffer, served>>
      BY <2>3 DEF NoSlotForRead, SpinTimeout, Status, Return, memory
    <3> QED
      BY <1>2, <3>1, <3>2 DEF Device!DeviceNext, Device!Answer, NoCall, Device!NoCall
  <2>4. CASE Recheck
    <3>1. call # NoCall /\ served = TRUE
      <4>1. call \in Reads \cup Writes /\ served = TRUE
        BY <1>2, <2>4 DEF Recheck, IInv, Booleans, CallInv
      <4>2. call.kind \in {"read", "write"}
        BY <4>1 DEF Reads, Writes
      <4> QED
        BY <4>1, <4>2 DEF NoCall
    <3>2. call' = NoCall /\ result' \in {FALSE, TRUE} /\ UNCHANGED <<disk, buffer, served>>
      BY <1>2, <2>4 DEF Recheck, Return, memory, IInv, Booleans
    <3> QED
      BY <1>2, <3>1, <3>2 DEF Device!DeviceNext, Device!Answer, NoCall, Device!NoCall
  <2>5. CASE \/ DriverNext /\ ~(NoSlotForRead \/ SpinTimeout \/ (Status /\ tfes) \/ Recheck)
             \/ AdapterNext /\ ~Complete
             \/ AskSize
             \/ UNCHANGED vars
    <3>1. UNCHANGED <<disk, call, buffer, served, result>>
      <4>1. CASE DriverNext /\ ~(NoSlotForRead \/ SpinTimeout \/ (Status /\ tfes) \/ Recheck)
        BY <4>1 DEF DriverNext, StopCmd, Rebase, StartCmd, IssueIdentify, IdentifyDone,
                    NoSlotForWrite, Prepare, SpinBusy, SpinReady, Issue, Poll, Status, memory
      <4>2. CASE AdapterNext /\ ~Complete
        BY <4>2 DEF AdapterNext, EngineStarts, EngineStops, DriveReady, Fetch, Fail, driver, memory
      <4>3. CASE AskSize \/ UNCHANGED vars
        BY <4>3 DEF AskSize, vars, driver, memory
      <4> QED
        BY <2>5, <4>1, <4>2, <4>3
    <3> QED
      BY <1>2, <3>1 DEF Device!deviceVars
  <2> QED
    BY <1>2, <2>1, <2>2, <2>3, <2>4, <2>5 DEF Next
<1>3. Init => DOMAIN disk = Sectors
  BY DEF Init
<1>4. IInv /\ DOMAIN disk = Sectors /\ [Next]_vars =>
        [Device!DeviceNext]_Device!deviceVars /\ (DOMAIN disk = Sectors)'
  BY <1>2
<1> QED
  BY <1>1, <1>3, <1>4, Invariance, PTL DEF Spec, ImplementsBlockDevice, Device!DeviceSpec
=============================================================================
