----------------------------- MODULE Interrupts -----------------------------
(***************************************************************************)
(* Interrupts: SetupInterrupts step by step, the gates and stubs of        *)
(* IDT.asm, isr_handler, and the two cascaded 8259 controllers that the    *)
(* lines of the machine end in.  It extends the console, whose handler is  *)
(* the one of line 1; HandleTimer only counts, and nothing reads its count.*)
(***************************************************************************)
EXTENDS Console

CONSTANTS
  Lines,      (* Lines besides the keyboard's that devices raise.          *)
  MaxRaises,  (* Bound on how often they do, or ask in vain.               *)
  Faults      (* Exceptions that the code of the kernel may raise.         *)

Timer == 0
Keyboard == 1
Cascade == 2               (* Where the slave is connected to the master.  *)
Master == 0 .. 7
Slave == 8 .. 15

ASSUME LinesAssumption ==
  /\ Lines \subseteq (Master \cup Slave) \ {Keyboard, Cascade}
  /\ MaxRaises \in Nat
  /\ Faults \subseteq 0 .. 31

VARIABLES
  setup,      (* How far SetupInterrupts has come.                         *)
  flag,       (* The processor takes interrupts.                           *)
  requested,  (* Lines but the keyboard's with a request.                  *)
  inService,  (* Lines whose interrupt the controllers consider unfinished.*)
  vector,     (* What isr_handler works on; None outside of it.            *)
  raises,     (* Requests so far.                                          *)
  stopped     (* The processor has halted for good, or is lost.            *)

control == <<setup, flag, requested, inService, vector, raises, stopped>>
allVars == <<vars, control>>

None == -1

(* Every vector has a gate, and every stub behind one pushes the number of *)
(* its own.                                                                *)
Gates == 0 .. 255
isrNumber == [v \in Gates |-> v]

(* RemapPIC: the master's lines from 32 on, the slave's from 40.           *)
Vector(line) == IF line \in Master THEN 32 + line ELSE 40 + (line - 8)

-----------------------------------------------------------------------------
(* Up to here the kernel has run without a thought for interrupts: whether *)
(* the firmware left them on is its own affair.                            *)
InterruptInit ==
  /\ Init
  /\ setup = "remap" /\ flag \in BOOLEAN
  /\ requested = {} /\ inService = {} /\ vector = None
  /\ raises = 0 /\ stopped = FALSE

Running == ~stopped /\ vector = None

(* RemapPIC starts both controllers anew and unmasks all lines; a request  *)
(* that came before is forgotten or kept.                                  *)
RemapPIC ==
  /\ Running /\ setup = "remap" /\ setup' = "load"
  /\ SetupInterrupts
  /\ requested' \in SUBSET requested
  /\ UNCHANGED <<flag, inService, vector, raises, stopped>>

(* The other gates are set and the table is loaded.                        *)
LoadIDT ==
  /\ Running /\ setup = "load" /\ setup' = "sti"
  /\ UNCHANGED <<vars, flag, requested, inService, vector, raises, stopped>>

Sti ==
  /\ Running /\ setup = "sti" /\ setup' = "done"
  /\ flag' = TRUE
  /\ UNCHANGED <<vars, requested, inService, vector, raises, stopped>>

Boot ==
  /\ Running /\ setup = "done" /\ BootNext
  /\ UNCHANGED control

-----------------------------------------------------------------------------
(* Devices and controllers, while it matters to anyone.                    *)
Raise(line) ==
  /\ ~stopped
  /\ raises < MaxRaises
  /\ raises' = raises + 1
  /\ requested' = requested \cup {line}
  /\ UNCHANGED <<vars, setup, flag, inService, vector, stopped>>

KeyPress == ~stopped /\ Press /\ UNCHANGED control
KeyArrives == ~stopped /\ Deliver /\ UNCHANGED control

Latched == requested \cup (IF irq THEN {Keyboard} ELSE {})
Via(line) == IF line \in Slave THEN Cascade ELSE line

(* A line is passed on only ahead of everything that is in service.        *)
Passes(line) ==
  /\ \A s \in inService \cap Master : Via(line) < s
  /\ line \in Slave => \A s \in inService \cap Slave : line < s

(* Lower numbers go first, on the slave as on the master.                  *)
Before(k, l) == Via(k) < Via(l) \/ (Via(k) = Via(l) /\ k < l)
Chosen(line) ==
  /\ line \in Latched /\ Passes(line)
  /\ \A k \in Latched \ {line} : Passes(k) => Before(line, k)

(* The processor enters a gate, with interrupts off, and isr_handler does  *)
(* what the number says: halt for good on an exception, look after the     *)
(* keyboard, or nothing but count the timer's.                             *)
EnterGate(v) ==
  /\ flag' = FALSE
  /\ vector' = isrNumber[v]
  /\ stopped' = (vector' < 32)
  /\ IF vector' = 33 THEN HandlerNext ELSE UNCHANGED vars
  /\ UNCHANGED setup

Interruptible == Running /\ flag /\ setup \in {"sti", "done"}

Take(line) ==
  /\ Interruptible /\ Chosen(line)
  /\ inService' = inService \cup {line, Via(line)}
  /\ requested' = requested \ {line}
  /\ EnterGate(Vector(line))
  /\ UNCHANGED raises

(* A request that is withdrawn while the processor answers it arrives as   *)
(* the controller's last line, and is not in service.                      *)
TakeSpurious(line) ==
  /\ Interruptible /\ raises < MaxRaises
  /\ raises' = raises + 1
  /\ inService' = inService \cup ({Via(line)} \ {line})
  /\ EnterGate(Vector(line))
  /\ UNCHANGED requested

(* Before lidt the gates are the firmware's, made for other segments.      *)
TakeAstray ==
  /\ Running /\ flag /\ setup \in {"remap", "load"} /\ Latched # {}
  /\ stopped' = TRUE
  /\ UNCHANGED <<vars, setup, flag, requested, inService, vector, raises>>

EndCommand == ~stopped /\ vector # None /\ CommandDone /\ UNCHANGED control

(* Mutants: only the master is told; the slave is told of its lines alone  *)
(* and the master of its own.                                              *)
Highest(chip) == {l \in inService \cap chip : \A k \in inService \cap chip : l <= k}
AfterEoiOfMaster == inService \ Highest(Master)
AfterEoiByVector ==
  inService \ Highest(IF vector >= 40 THEN Slave ELSE Master)

(* 0x20 to ports 0xA0 and 0x20: each controller ends what it put highest.  *)
AfterEoi == inService \ (Highest(Slave) \cup Highest(Master))

(* The end of isr_handler, and iretq with the flag that the entry saved.   *)
EndOfInterrupt ==
  /\ ~stopped /\ vector # None /\ handler = "none"
  /\ inService' = AfterEoi
  /\ vector' = None
  /\ flag' = TRUE
  /\ UNCHANGED <<vars, setup, requested, raises, stopped>>

(* Any code may raise an exception, a handler's too.                       *)
Exception ==
  /\ ~stopped /\ setup \in {"sti", "done"}
  /\ \E v \in Faults : EnterGate(v)
  /\ UNCHANGED <<requested, inService, raises>>

Setup == RemapPIC \/ LoadIDT \/ Sti \/ Boot

Serve ==
  \/ \E line \in Lines \cup {Keyboard} : Take(line)
  \/ EndCommand \/ EndOfInterrupt

InterruptNext ==
  \/ Setup \/ Serve \/ KeyPress \/ KeyArrives
  \/ \E line \in Lines : Raise(line)
  \/ \E line \in {7, 15} : TakeSpurious(line)
  \/ TakeAstray \/ Exception

(* The processor goes on, commands end, and the keyboard's controller      *)
(* delivers what it holds.                                                 *)
InterruptSpec ==
  /\ InterruptInit /\ [][InterruptNext]_allVars
  /\ WF_allVars(Setup) /\ WF_allVars(Serve) /\ WF_allVars(KeyArrives)

-----------------------------------------------------------------------------
(* Outside of handlers nothing is in service, on either controller, also   *)
(* after interrupts that came in vain: whatever stayed there would block   *)
(* its line and all below it for ever.  isr_handler tells both controllers *)
(* of every interrupt, and each time exactly what it handled is ended.     *)
NothingLeftInService == vector = None => inService = {}

(* Every request of every line is handled in the end, and every key, also  *)
(* those that come while a command runs, unless the processor has stopped. *)
(* The one exception is a keyboard that was silenced during boot: one that *)
(* works when the prompt is there is never silenced, by any command or     *)
(* line.                                                                   *)
LinesServed == vector = None /\ Latched = {}
KeysRead == pending = 0 /\ port = Empty

AllHandled ==
  /\ []<>(stopped \/ (LinesServed /\ (Stuck \/ KeysRead)))
  /\ <>(boot = "halt" /\ ~Stuck) => []<>(stopped \/ (LinesServed /\ KeysRead))
=============================================================================
