------------------------------ MODULE Console ------------------------------
(***************************************************************************)
(* The console: the boot processor from the moment it sets up interrupts   *)
(* to its idle loop, the keyboard interrupt with HandleKeyboard and        *)
(* ExecutePrompt, and the keyboard controller and the interrupt controller *)
(* that work beside them.                                                  *)
(*                                                                         *)
(* An interrupt handler runs with interrupts off, so to the boot processor *)
(* it is one step; only a command, which may take long, is begun and ended *)
(* in two, for the keyboard to go on in between.                           *)
(***************************************************************************)
EXTENDS Integers, Sequences, FiniteSets

CONSTANTS
  Keys,     (* Keys that have an entry in ASCIITable.                      *)
  Nul,      (* The character 0, the entry of keys without a character.     *)
  Junk,     (* What the byte after ASCIITable may be.                      *)
  MaxKeys   (* Bound on the scancodes the keyboard sends.                  *)

ASSUME ConsoleAssumption ==
  /\ Nul \in Keys /\ Junk \subseteq Keys /\ MaxKeys \in Nat \ {0}

VARIABLES
  boot,        (* What the boot processor does next.                       *)
  handler,     (* The interrupt handler: "none" or within a "command".     *)
  pending,     (* Scancodes that the keyboard holds.                       *)
  port,        (* The controller's output buffer, port 0x60.               *)
  irq,         (* The interrupt controller holds a request.                *)
  sent,        (* Scancodes sent so far.                                   *)
  isEnabled, upperCase, input, inputLen,   (* keyboard.cpp                 *)
  cells,       (* The command buffer and the bytes that follow it, as far  *)
               (* as MaxKeys keys reach.                                   *)
  submitted,   (* The buffer as the last command saw it.                   *)
  shown,       (* Characters on the screen behind the prompt.              *)
  strayWrites  (* Stores through a NULL pointer or before the buffer.      *)

keyboard == <<pending, port, irq, sent>>
editor == <<isEnabled, upperCase, input, inputLen, cells, submitted, shown, strayWrites>>
vars == <<boot, handler, keyboard, editor>>

BootSteps == {"interrupts", "terminal", "enable", "length", "pointer", "halt"}

Char(key, shift) == <<key, shift>>
Chars == {Char(k, s) : k \in Keys, s \in BOOLEAN}
Zero == Char(Nul, FALSE)

Scancodes ==
  [type : {"key"}, key : Keys] \cup
  [type : {"caps", "release", "shift", "unshift", "tab", "backspace", "enter"}]

Empty == [type |-> "empty"]     (* Nothing in the controller's buffer.     *)
NullPointer == -3 * MaxKeys     (* Far from the buffer.               *)
Buffer == 0 .. MaxKeys - 1

-----------------------------------------------------------------------------
Init ==
  /\ boot = "interrupts" /\ handler = "none"
  /\ pending = 0 /\ port = Empty /\ irq = FALSE /\ sent = 0
  /\ isEnabled = FALSE /\ upperCase = FALSE
  /\ input = NullPointer /\ inputLen = 0
  /\ cells \in {[i \in Buffer |-> c] : c \in {Zero} \cup {Char(k, FALSE) : k \in Junk}}
  /\ submitted = << >> /\ shown = 0 /\ strayWrites = 0

(* InitializeIDT, RemapPIC and sti.  A request that came before is         *)
(* forgotten or kept, as the interrupt controller has it.                  *)
SetupInterrupts ==
  /\ boot = "interrupts"
  /\ boot' = "terminal"
  /\ irq' \in {FALSE, irq}
  /\ UNCHANGED <<handler, pending, port, sent, editor>>

(* The rest of InitializeKernel, and InitializeTerminal up to TakePrompt.  *)
InitializeTerminal ==
  /\ boot = "terminal"
  /\ boot' = "enable"
  /\ UNCHANGED <<handler, keyboard, editor>>

(* TakePrompt on the boot processor: EnableKeyboard(true), then the two    *)
(* assignments of ReceiveInput.                                            *)
EnableKeyboard ==
  /\ boot = "enable"
  /\ boot' = "length"
  /\ isEnabled' = TRUE
  /\ UNCHANGED <<handler, keyboard, upperCase, input, inputLen, cells, submitted, shown, strayWrites>>

ClearLength ==
  /\ boot = "length"
  /\ boot' = "pointer"
  /\ inputLen' = 0
  /\ UNCHANGED <<handler, keyboard, isEnabled, upperCase, input, cells, submitted, shown, strayWrites>>

SetPointer ==
  /\ boot = "pointer"
  /\ boot' = "halt"
  /\ input' = 0
  /\ UNCHANGED <<handler, keyboard, isEnabled, upperCase, inputLen, cells, submitted, shown, strayWrites>>

-----------------------------------------------------------------------------
(* The keyboard and its controller.                                        *)
Press ==
  /\ sent < MaxKeys
  /\ sent' = sent + 1
  /\ pending' = pending + 1
  /\ UNCHANGED <<boot, handler, port, irq, editor>>

(* Only a buffer that fills raises the line, and only a rising line makes  *)
(* a request.                                                              *)
Deliver ==
  /\ port = Empty /\ pending # 0
  /\ port' \in Scancodes
  /\ pending' = pending - 1
  /\ irq' = TRUE
  /\ UNCHANGED <<boot, handler, sent, editor>>

-----------------------------------------------------------------------------
(* The interrupt is taken: not before sti, and not within a handler.       *)
Interrupted == irq /\ boot # "interrupts" /\ handler = "none"

(* HandleKeyboard returns without reading the port.                        *)
InterruptDisabled ==
  /\ Interrupted /\ ~isEnabled
  /\ irq' = FALSE
  /\ UNCHANGED <<boot, handler, pending, port, sent, editor>>

(* It reads the port, which makes room for the next scancode.              *)
Scancode(type) ==
  /\ Interrupted /\ isEnabled
  /\ port.type = type
  /\ port' = Empty
  /\ irq' = FALSE
  /\ UNCHANGED <<boot, pending, sent, submitted>>

(* Mutant: the character goes where the pointer points after the increment. *)
StoreAfterMoving(c) ==
  /\ shown' = shown + 1
  /\ inputLen' = inputLen + 1
  /\ input' = input + 1
  /\ IF input' \in Buffer
     THEN cells' = [cells EXCEPT ![input'] = c] /\ UNCHANGED strayWrites
     ELSE strayWrites' = strayWrites + 1 /\ UNCHANGED cells
  /\ UNCHANGED <<isEnabled, upperCase, handler>>

(* Store a character where input points and move on.                       *)
Store(c) ==
  /\ shown' = shown + 1
  /\ inputLen' = inputLen + 1
  /\ input' = input + 1
  /\ IF input \in Buffer
     THEN cells' = [cells EXCEPT ![input] = c] /\ UNCHANGED strayWrites
     ELSE strayWrites' = strayWrites + 1 /\ UNCHANGED cells
  /\ UNCHANGED <<isEnabled, upperCase, handler>>

Key == Scancode("key") /\ Store(Char(port.key, upperCase))

(* Scancode 58 passes the test and is one past the end of ASCIITable.      *)
CapsLock == Scancode("caps") /\ \E k \in Junk : Store(Char(k, upperCase))

Release ==
  /\ Scancode("release")
  /\ UNCHANGED <<handler, isEnabled, upperCase, input, inputLen, cells, shown, strayWrites>>

Shift ==
  /\ Scancode("shift") /\ upperCase' = TRUE
  /\ UNCHANGED <<handler, isEnabled, input, inputLen, cells, shown, strayWrites>>

Unshift ==
  /\ Scancode("unshift") /\ upperCase' = FALSE
  /\ UNCHANGED <<handler, isEnabled, input, inputLen, cells, shown, strayWrites>>

(* Four spaces on the screen, none in the buffer.                          *)
Tab ==
  /\ Scancode("tab") /\ shown' = shown + 4
  /\ UNCHANGED <<handler, isEnabled, upperCase, input, inputLen, cells, strayWrites>>

BackspaceAtStart ==
  /\ Scancode("backspace") /\ inputLen = 0
  /\ UNCHANGED <<handler, isEnabled, upperCase, input, inputLen, cells, shown, strayWrites>>

(* Mutant: the length is not looked at.                                     *)
BackspaceUnguarded ==
  /\ Scancode("backspace")
  /\ inputLen' = inputLen - 1
  /\ input' = input - 1
  /\ IF input' \in Buffer
     THEN cells' = [cells EXCEPT ![input'] = Zero] /\ UNCHANGED strayWrites
     ELSE strayWrites' = strayWrites + 1 /\ UNCHANGED cells
  /\ shown' = shown - 1
  /\ UNCHANGED <<handler, isEnabled, upperCase>>

(* Mutant: a tab's four spaces are taken back for every character.          *)
BackspaceOverTab ==
  /\ Scancode("backspace") /\ inputLen # 0
  /\ inputLen' = inputLen - 1
  /\ input' = input - 1
  /\ shown' = shown - 4
  /\ UNCHANGED <<handler, isEnabled, upperCase, cells, strayWrites>>

Backspace ==
  /\ Scancode("backspace") /\ inputLen # 0
  /\ inputLen' = inputLen - 1
  /\ input' = input - 1
  /\ IF input' \in Buffer
     THEN cells' = [cells EXCEPT ![input'] = Zero] /\ UNCHANGED strayWrites
     ELSE strayWrites' = strayWrites + 1 /\ UNCHANGED cells
  /\ shown' = shown - 1
  /\ UNCHANGED <<handler, isEnabled, upperCase>>

(* NextLine, then ExecutePrompt: the command reads the buffer.             *)
Enter ==
  /\ Interrupted /\ isEnabled
  /\ port.type = "enter"
  /\ port' = Empty /\ irq' = FALSE
  /\ handler' = "command"
  /\ isEnabled' = FALSE
  /\ submitted' = [i \in 1 .. MaxKeys |-> cells[i - 1]]
  /\ shown' = 0
  /\ UNCHANGED <<boot, pending, sent, upperCase, input, inputLen, cells, strayWrites>>

(* Mutant: ReceiveInput without the length.                                 *)
CommandDoneKeepsLength ==
  /\ handler = "command"
  /\ handler' = "none"
  /\ isEnabled' = TRUE
  /\ input' = 0
  /\ UNCHANGED <<boot, keyboard, upperCase, inputLen, cells, submitted, shown, strayWrites>>

(* Mutant: TakePrompt without EnableKeyboard.                               *)
CommandDoneDisabled ==
  /\ handler = "command"
  /\ handler' = "none"
  /\ inputLen' = 0
  /\ input' = 0
  /\ UNCHANGED <<boot, keyboard, isEnabled, upperCase, cells, submitted, shown, strayWrites>>

(* The command is done: TakePrompt, still within the handler.              *)
CommandDone ==
  /\ handler = "command"
  /\ handler' = "none"
  /\ isEnabled' = TRUE
  /\ inputLen' = 0
  /\ input' = 0
  /\ UNCHANGED <<boot, keyboard, upperCase, cells, submitted, shown, strayWrites>>

BootNext ==
  /\ handler = "none"
  /\ SetupInterrupts \/ InitializeTerminal \/ EnableKeyboard \/ ClearLength \/ SetPointer

HandlerNext ==
  \/ InterruptDisabled \/ Key \/ CapsLock \/ Release \/ Shift \/ Unshift \/ Tab
  \/ BackspaceAtStart \/ Backspace \/ Enter \/ CommandDone

Next == BootNext \/ HandlerNext \/ Deliver \/ Press

Spec == Init /\ [][Next]_vars

-----------------------------------------------------------------------------
(* ReceiveInput sets the length and the pointer in two assignments.  They  *)
(* come apart only if a key is handled between the two at the first        *)
(* prompt; the prompts that follow are taken within the handler, and bring *)
(* both together again.                                                    *)
Aligned == input = inputLen

PointerMatchesLength ==
  [][handler' = "none" /\ (handler = "command" \/ (boot = "halt" /\ Aligned)) => Aligned']_vars

(* While they agree, nothing is stored but into the line, at any length;   *)
(* a store through NULL needs a key handled between EnableKeyboard and the *)
(* assignment of input.                                                    *)
StraysOnlyAtFirstPrompt ==
  [][strayWrites' # strayWrites => boot \in {"length", "pointer"} \/ ~Aligned]_vars

(* Backspace never erases the prompt or what stands before it.             *)
PromptStays == handler = "none" => inputLen <= shown

(* The controller holds a scancode and will never again ask for attention. *)
Stuck == port # Empty /\ ~irq /\ handler = "none"

(* A keyboard that works when the prompt is there goes on working: only a  *)
(* key pressed earlier can silence it.                                     *)
StuckOnlyDuringBoot ==
  [][~Stuck /\ Stuck' => boot \in {"interrupts", "terminal", "enable"}]_vars

(* From the first prompt on whose pointer and length agree, the keyboard   *)
(* driver implements a line editor.                                        *)
Editor == INSTANCE LineEditor WITH
            offered <- CASE port.type = "key"  -> {port.key} \X BOOLEAN
                         [] port.type = "caps" -> Junk \X BOOLEAN
                         [] OTHER              -> {},
            line <- IF boot = "halt" /\ handler = "none" /\ Aligned
                    THEN [i \in 1 .. inputLen |-> cells[i - 1]] ELSE << >>

ImplementsLineEditor == Editor!EditorSpec

=============================================================================
