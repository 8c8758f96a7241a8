--------------------------- MODULE Console_proof ---------------------------
(***************************************************************************)
(* Proofs about the console, for every set of keys, every byte that may    *)
(* stand behind ASCIITable and any number of scancodes: what goes wrong    *)
(* with a key goes wrong only during boot, and from the first prompt in    *)
(* order on the keyboard driver is a line editor.  Then about the          *)
(* interrupts around it, for any lines of the two controllers, any         *)
(* exceptions and any number of requests: the controllers are left clean   *)
(* by every handler, and what was proved about the console holds.          *)
(***************************************************************************)
EXTENDS Interrupts, SequenceTheorems, TLAPS

(* Scancodes that wait in the controller.                                  *)
Waiting == IF port = Empty THEN 0 ELSE 1

Types ==
  /\ boot \in BootSteps /\ handler \in {"none", "command"}
  /\ port \in Scancodes \cup {Empty}
  /\ irq \in BOOLEAN /\ isEnabled \in BOOLEAN /\ upperCase \in BOOLEAN
  /\ pending \in Nat /\ sent \in 0 .. MaxKeys
  /\ input \in Int /\ inputLen \in Nat /\ shown \in Nat
  /\ cells \in [Buffer -> Chars]

(* Every character of the line was sent, so that the line fits the cells.  *)
Counted == inputLen + pending + Waiting <= sent

(* While a command runs, a scancode in the controller has its request.     *)
Requested == handler = "command" => port = Empty \/ irq

(* After TakePrompt has begun for the first time, only a command disables  *)
(* the keyboard.                                                           *)
Enabled == handler = "none" /\ boot \in {"length", "pointer", "halt"} => isEnabled

IInv == Types /\ Counted /\ PromptStays /\ Requested /\ Enabled

-----------------------------------------------------------------------------
(* No scancode is an empty buffer, and a key comes with its name.          *)
LEMMA ScancodeType ==
  ASSUME NEW p \in Scancodes
  PROVE  /\ p # Empty /\ p.type # "empty"
         /\ p.type = "key" => p.key \in Keys
BY DEF Scancodes, Empty

(* A key with a character stores one.                                      *)
LEMMA CharType ==
  ASSUME NEW k \in Keys, NEW s \in BOOLEAN
  PROVE  Char(k, s) \in Chars
<1>1. \E j \in Keys, t \in BOOLEAN : Char(k, s) = Char(j, t)
  BY Zenon
<1> QED
  BY <1>1, SMT DEF Chars

(* A scancode that is read leaves the controller empty.                    *)
LEMMA ScancodeRead ==
  ASSUME IInv, NEW type \in {"key", "caps", "release", "shift", "unshift", "tab", "backspace"},
         Scancode(type)
  PROVE  /\ port \in Scancodes /\ Waiting = 1 /\ port' = Empty /\ Waiting' = 0
         /\ handler = "none" /\ irq' = FALSE /\ isEnabled
         /\ UNCHANGED <<boot, pending, sent, submitted>>
<1>1. port.type # "empty"
  BY DEF Scancode
<1>2. port # Empty
  BY <1>1 DEF Empty
<1> QED
  BY <1>2 DEF IInv, Types, Scancode, Interrupted, Waiting

(* The key of a scancode in the controller still has a cell.               *)
LEMMA RoomForOne ==
  ASSUME IInv, NEW type \in {"key", "caps", "backspace"}, Scancode(type)
  PROVE  inputLen < MaxKeys
<1>1. Waiting = 1
  BY ScancodeRead
<1>2. inputLen \in Nat /\ pending \in Nat /\ sent \in 0 .. MaxKeys /\ inputLen + pending + 1 <= sent
  BY <1>1 DEF IInv, Types, Counted
<1> QED
  BY <1>2, ConsoleAssumption

(* A character is stored, wherever the pointer points.                     *)
LEMMA StoreKeeps ==
  ASSUME IInv, NEW type \in {"key", "caps"}, Scancode(type),
         NEW c \in Chars, Store(c)
  PROVE  IInv'
<1>1. /\ Waiting = 1 /\ port' = Empty /\ Waiting' = 0 /\ handler = "none"
      /\ UNCHANGED <<boot, pending, sent>>
  BY ScancodeRead
<1>2. irq' \in BOOLEAN /\ isEnabled' \in BOOLEAN /\ upperCase' \in BOOLEAN
  BY ScancodeRead DEF Store, IInv, Types
<1>3. cells' \in [Buffer -> Chars]
  BY DEF Store, IInv, Types
<1>4. Types'
  BY <1>1, <1>2, <1>3 DEF Store, IInv, Types
<1>5. Counted' /\ PromptStays' /\ Requested'
  BY <1>1 DEF Store, IInv, Types, Counted, PromptStays, Requested
<1>6. Enabled'
  BY <1>1 DEF Store, IInv, Enabled
<1> QED
  BY <1>4, <1>5, <1>6 DEF IInv

(* A scancode that changes nothing but the case or the screen.             *)
LEMMA OtherKeys ==
  ASSUME IInv, NEW type \in {"release", "shift", "unshift", "tab", "backspace"}, Scancode(type),
         upperCase' \in BOOLEAN, shown' \in {shown, shown + 4},
         UNCHANGED <<handler, isEnabled, input, inputLen, cells>>
  PROVE  IInv'
<1>1. /\ Waiting = 1 /\ port' = Empty /\ Waiting' = 0 /\ handler = "none"
      /\ UNCHANGED <<boot, pending, sent>>
  BY ScancodeRead
<1>2. irq' \in BOOLEAN /\ isEnabled' \in BOOLEAN
  BY ScancodeRead DEF IInv, Types
<1>3. Types'
  BY <1>1, <1>2 DEF IInv, Types
<1>4. Counted' /\ PromptStays' /\ Requested'
  BY <1>1 DEF IInv, Types, Counted, PromptStays, Requested
<1>5. Enabled'
  BY <1>1 DEF IInv, Enabled
<1> QED
  BY <1>3, <1>4, <1>5 DEF IInv

(* A backspace takes one character back from line, pointer and screen.     *)
LEMMA BackspaceKeeps ==
  ASSUME IInv, Backspace
  PROVE  IInv'
<1>1. Scancode("backspace")
  BY DEF Backspace
<1>2. /\ Waiting = 1 /\ port' = Empty /\ Waiting' = 0 /\ handler = "none"
      /\ UNCHANGED <<boot, pending, sent>>
  BY <1>1, ScancodeRead
<1>3. irq' \in BOOLEAN /\ isEnabled' \in BOOLEAN /\ upperCase' \in BOOLEAN
  BY <1>1, ScancodeRead DEF Backspace, IInv, Types
<1>4. Zero \in Chars
  BY CharType, ConsoleAssumption DEF Zero
<1>5. cells' \in [Buffer -> Chars]
  BY <1>4 DEF Backspace, IInv, Types
<1>6. inputLen > 0 /\ shown > 0
  BY <1>2 DEF Backspace, IInv, Types, PromptStays
<1>7. Types'
  BY <1>2, <1>3, <1>5, <1>6 DEF Backspace, IInv, Types
<1>8. Counted' /\ PromptStays' /\ Requested'
  BY <1>2, <1>6 DEF Backspace, IInv, Types, Counted, PromptStays, Requested
<1>9. Enabled'
  BY <1>2 DEF Backspace, IInv, Enabled
<1> QED
  BY <1>7, <1>8, <1>9 DEF IInv

(* What the boot processor, the keyboard, the controllers and a command do *)
(* without a scancode being read.                                          *)
LEMMA QuietKeeps ==
  ASSUME IInv, BootNext \/ Press \/ Deliver \/ InterruptDisabled \/ CommandDone
  PROVE  IInv'
<1> USE DEF IInv, Types
<1>1. CASE BootNext
  <2>1. irq' \in BOOLEAN /\ isEnabled' \in BOOLEAN /\ upperCase' \in BOOLEAN
    BY <1>1, Zenon DEF BootNext, SetupInterrupts, InitializeTerminal, EnableKeyboard,
       ClearLength, SetPointer, keyboard, editor
  <2>2. boot' \in BootSteps /\ UNCHANGED <<handler, port, pending, sent, cells, shown>>
    BY <1>1 DEF BootNext, SetupInterrupts, InitializeTerminal, EnableKeyboard,
       ClearLength, SetPointer, keyboard, editor, BootSteps
  <2>3. (input' = input \/ input' = 0) /\ (inputLen' = inputLen \/ inputLen' = 0)
    BY <1>1 DEF BootNext, SetupInterrupts, InitializeTerminal, EnableKeyboard,
       ClearLength, SetPointer, editor
  <2>4. Types'
    BY <2>1, <2>2, <2>3
  <2>5. Waiting' = Waiting /\ Waiting \in {0, 1}
    BY <2>2 DEF Waiting
  <2>6. Counted'
    BY <2>2, <2>3, <2>5, ConsoleAssumption DEF Counted
  <2>7. PromptStays'
    BY <2>2, <2>3 DEF PromptStays
  <2>8. Requested' /\ Enabled'
    BY <1>1, Zenon DEF BootNext, SetupInterrupts, InitializeTerminal, EnableKeyboard,
       ClearLength, SetPointer, keyboard, editor, Requested, Enabled
  <2> QED
    BY <2>4, <2>6, <2>7, <2>8
<1>2. CASE Press
  <2>1. irq' \in BOOLEAN /\ isEnabled' \in BOOLEAN /\ upperCase' \in BOOLEAN
    BY <1>2, Zenon DEF Press, editor
  <2>2. /\ sent < MaxKeys /\ sent' = sent + 1 /\ pending' = pending + 1
        /\ UNCHANGED <<boot, handler, port, input, inputLen, cells, shown>>
    BY <1>2 DEF Press, editor
  <2>3. Types'
    BY <2>1, <2>2, ConsoleAssumption
  <2>4. Counted' /\ PromptStays'
    BY <2>2 DEF Counted, Waiting, PromptStays
  <2>5. Requested' /\ Enabled'
    BY <1>2, Zenon DEF Press, editor, Requested, Enabled
  <2> QED
    BY <2>3, <2>4, <2>5
<1>3. CASE Deliver
  <2>1. Waiting = 0 /\ Waiting' = 1 /\ port' \in Scancodes /\ irq' = TRUE /\ pending > 0
    BY <1>3, ScancodeType DEF Deliver, Waiting
  <2>2. Types' /\ Counted' /\ PromptStays'
    BY <1>3, <2>1 DEF Deliver, editor, Counted, PromptStays
  <2>3. Requested' /\ Enabled'
    BY <1>3 DEF Deliver, editor, Requested, Enabled
  <2> QED
    BY <2>2, <2>3
<1>4. CASE InterruptDisabled
  <2>1. Types' /\ Counted' /\ PromptStays'
    BY <1>4 DEF InterruptDisabled, editor, Counted, Waiting, PromptStays
  <2>2. Requested' /\ Enabled'
    BY <1>4 DEF InterruptDisabled, Interrupted, editor, Requested, Enabled
  <2> QED
    BY <2>1, <2>2
<1>5. CASE CommandDone
  <2>1. Types' /\ Counted' /\ PromptStays'
    BY <1>5 DEF CommandDone, keyboard, Counted, Waiting, PromptStays
  <2>2. Requested' /\ Enabled'
    BY <1>5 DEF CommandDone, keyboard, Requested, Enabled
  <2> QED
    BY <2>1, <2>2
<1> QED
  BY <1>1, <1>2, <1>3, <1>4, <1>5

(* Enter ends the line and begins a command.                               *)
LEMMA EnterKeeps ==
  ASSUME IInv, Enter
  PROVE  IInv'
<1>1. port # Empty /\ Waiting = 1 /\ Waiting' = 0 /\ port' = Empty
  BY DEF Enter, Empty, Waiting
<1>2. irq' \in BOOLEAN /\ isEnabled' \in BOOLEAN /\ upperCase' \in BOOLEAN
  BY DEF Enter, IInv, Types
<1>3. Types' /\ Counted' /\ PromptStays'
  BY <1>1, <1>2 DEF Enter, IInv, Types, Counted, PromptStays
<1>4. Requested' /\ Enabled'
  BY <1>1 DEF Enter, Requested, Enabled
<1> QED
  BY <1>3, <1>4 DEF IInv

(* The invariant holds at the start and through every step.                *)
LEMMA InitIInv == Init => IInv
<1> SUFFICES ASSUME Init PROVE IInv
  OBVIOUS
<1>1. /\ cells \in [Buffer -> Chars]
  <2>1. \A k \in Junk : Char(k, FALSE) \in Chars
    BY CharType, ConsoleAssumption
  <2>2. Zero \in Chars
    BY CharType, ConsoleAssumption DEF Zero
  <2> QED
    BY <2>1, <2>2 DEF Init
<1>2. irq \in BOOLEAN /\ isEnabled \in BOOLEAN /\ upperCase \in BOOLEAN
  BY DEF Init
<1>3. Types
  BY <1>1, <1>2, ConsoleAssumption DEF Init, Types, BootSteps, NullPointer
<1> QED
  BY <1>3, ConsoleAssumption DEF IInv, Init, Counted, Waiting, PromptStays, Requested, Enabled

(* Every step keeps the invariant: one case for each action of Console.    *)
LEMMA NextIInv == IInv /\ [Next]_vars => IInv'
<1> SUFFICES ASSUME IInv, [Next]_vars PROVE IInv'
  OBVIOUS
<1>1. CASE BootNext \/ Press \/ Deliver \/ InterruptDisabled \/ CommandDone
  BY <1>1, QuietKeeps
<1>2. CASE Key
  <2>1. Scancode("key") /\ port \in Scancodes /\ port.type = "key"
    BY <1>2, ScancodeRead DEF Key, Scancode
  <2>2. Char(port.key, upperCase) \in Chars
    BY <2>1, ScancodeType, CharType DEF IInv, Types
  <2> QED
    BY <1>2, <2>1, <2>2, StoreKeeps DEF Key
<1>3. CASE CapsLock
  <2>1. PICK k \in Junk : Scancode("caps") /\ Store(Char(k, upperCase))
    BY <1>3 DEF CapsLock
  <2>2. Char(k, upperCase) \in Chars
    BY CharType, ConsoleAssumption DEF IInv, Types
  <2> QED
    BY <2>1, <2>2, StoreKeeps
<1>4. CASE Release
  BY <1>4, OtherKeys DEF Release, IInv, Types
<1>5. CASE Shift
  BY <1>5, OtherKeys DEF Shift
<1>6. CASE Unshift
  BY <1>6, OtherKeys DEF Unshift
<1>7. CASE Tab
  BY <1>7, OtherKeys DEF Tab, IInv, Types
<1>8. CASE BackspaceAtStart
  BY <1>8, OtherKeys DEF BackspaceAtStart, IInv, Types
<1>9. CASE Backspace
  BY <1>9, BackspaceKeeps
<1>10. CASE Enter
  BY <1>10, EnterKeeps
<1>11. CASE UNCHANGED vars
  BY <1>11 DEF vars, keyboard, editor, IInv, Types, Counted, Waiting, PromptStays, Requested, Enabled
<1> QED
  BY <1>1, <1>2, <1>3, <1>4, <1>5, <1>6, <1>7, <1>8, <1>9, <1>10, <1>11 DEF Next, HandlerNext

(* The invariant holds in every state the console reaches.                 *)
THEOREM Invariance == Spec => []IInv
BY InitIInv, NextIInv, PTL DEF Spec

(* After any keys the screen shows at least the characters of the line, so *)
(* that backspace stops before the prompt.                                 *)
THEOREM PromptStaysCorrect == Spec => []PromptStays
<1>1. IInv => PromptStays
  BY DEF IInv
<1> QED
  BY <1>1, Invariance, PTL

-----------------------------------------------------------------------------
(* The pointer and the length move together: only the boot processor's     *)
(* own assignments can part them.                                          *)
LEMMA StepsTogether ==
  ASSUME IInv, HandlerNext \/ Deliver \/ Press, handler = "none"
  PROVE  Aligned' <=> Aligned
<1> USE DEF IInv, Types, Aligned
<1>1. CASE Deliver \/ Press \/ InterruptDisabled
  BY <1>1 DEF Deliver, Press, InterruptDisabled, editor
<1>2. CASE Key \/ CapsLock
  BY <1>2 DEF Key, CapsLock, Store
<1>3. CASE Release \/ Shift \/ Unshift \/ Tab \/ BackspaceAtStart
  BY <1>3 DEF Release, Shift, Unshift, Tab, BackspaceAtStart
<1>4. CASE Backspace
  BY <1>4 DEF Backspace
<1>5. CASE Enter
  BY <1>5 DEF Enter
<1> QED
  BY <1>1, <1>2, <1>3, <1>4, <1>5 DEF HandlerNext, CommandDone

(* At every prompt but the first the pointer is at the end of the line,    *)
(* whatever key came when: a command brings both back to the beginning.    *)
THEOREM PointerCorrect == Spec => PointerMatchesLength
<1>1. IInv /\ [Next]_vars =>
        [handler' = "none" /\ (handler = "command" \/ (boot = "halt" /\ Aligned)) => Aligned']_vars
  <2> SUFFICES ASSUME IInv, Next, handler' = "none",
                      handler = "command" \/ (boot = "halt" /\ Aligned)
               PROVE  Aligned'
    OBVIOUS
  <2>1. CASE handler = "command"
    <3>1. CommandDone
      BY <2>1 DEF Next, BootNext, HandlerNext, InterruptDisabled, Interrupted, Key, CapsLock,
         Release, Shift, Unshift, Tab, BackspaceAtStart, Backspace, Enter, Scancode,
         Deliver, Press
    <3> QED
      BY <3>1 DEF CommandDone, Aligned
  <2>2. CASE handler = "none"
    <3>1. boot = "halt" /\ Aligned
      BY <2>2
    <3>2. ~BootNext
      BY <3>1 DEF BootNext, SetupInterrupts, InitializeTerminal, EnableKeyboard,
         ClearLength, SetPointer
    <3> QED
      BY <2>2, <3>1, <3>2, StepsTogether DEF Next
  <2> QED
    BY <2>1, <2>2 DEF IInv, Types
<1> QED
  BY <1>1, Invariance, PTL DEF Spec, PointerMatchesLength

(* While pointer and length agree, every character goes into the line: it  *)
(* has no more characters than scancodes were sent.                        *)
THEOREM StraysCorrect == Spec => StraysOnlyAtFirstPrompt
<1>1. IInv /\ [Next]_vars =>
        [strayWrites' # strayWrites => boot \in {"length", "pointer"} \/ ~Aligned]_vars
  <2> SUFFICES ASSUME IInv, Next, Aligned
               PROVE  strayWrites' = strayWrites
    OBVIOUS
  <2>1. inputLen >= 0 /\ inputLen \in Int /\ input = inputLen
    BY DEF Aligned, IInv, Types
  <2>2. ASSUME NEW type \in {"key", "caps", "backspace"}, Scancode(type)
        PROVE  inputLen < MaxKeys
    BY <2>2, RoomForOne
  <2>3. CASE Key \/ CapsLock
    BY <2>1, <2>2, <2>3, ConsoleAssumption DEF Key, CapsLock, Store, Buffer
  <2>4. CASE Backspace
    BY <2>1, <2>2, <2>4, ConsoleAssumption DEF Backspace, Buffer
  <2>5. CASE BootNext \/ InterruptDisabled \/ Deliver \/ Press \/ Enter \/ CommandDone
    BY <2>5 DEF BootNext, SetupInterrupts, InitializeTerminal, EnableKeyboard, ClearLength,
       SetPointer, InterruptDisabled, Deliver, Press, Enter, CommandDone, editor
  <2>6. CASE Release \/ Shift \/ Unshift \/ Tab \/ BackspaceAtStart
    BY <2>6 DEF Release, Shift, Unshift, Tab, BackspaceAtStart
  <2> QED
    BY <2>3, <2>4, <2>5, <2>6 DEF Next, HandlerNext
<1> QED
  BY <1>1, Invariance, PTL DEF Spec, StraysOnlyAtFirstPrompt

(* A scancode is left in the controller without a request only while the   *)
(* boot processor has not yet enabled the keyboard.                        *)
THEOREM StuckCorrect == Spec => StuckOnlyDuringBoot
<1>1. IInv /\ [Next]_vars =>
        [~Stuck /\ Stuck' => boot \in {"interrupts", "terminal", "enable"}]_vars
  <2> SUFFICES ASSUME IInv, Next, ~Stuck, Stuck', boot \in {"length", "pointer", "halt"}
               PROVE  FALSE
    BY DEF IInv, Types, BootSteps
  <2>1. port' # Empty /\ ~irq' /\ handler' = "none"
    BY DEF Stuck
  <2>2. CASE BootNext \/ Press
    BY <2>1, <2>2 DEF BootNext, SetupInterrupts, InitializeTerminal, EnableKeyboard,
       ClearLength, SetPointer, Press, Stuck, keyboard
  <2>3. CASE Deliver
    BY <2>1, <2>3 DEF Deliver
  <2>4. CASE InterruptDisabled
    BY <2>4 DEF InterruptDisabled, Interrupted, IInv, Enabled
  <2>5. CASE CommandDone
    BY <2>1, <2>5 DEF CommandDone, keyboard, IInv, Requested
  <2>6. CASE Enter
    BY <2>1, <2>6 DEF Enter
  <2>7. CASE Key \/ CapsLock \/ Release \/ Shift \/ Unshift \/ Tab \/ BackspaceAtStart \/ Backspace
    BY <2>1, <2>7 DEF Key, CapsLock, Release, Shift, Unshift, Tab, BackspaceAtStart, Backspace, Scancode
  <2> QED
    BY <2>2, <2>3, <2>4, <2>5, <2>6, <2>7 DEF Next, HandlerNext
<1> QED
  BY <1>1, Invariance, PTL DEF Spec, StuckOnlyDuringBoot

-----------------------------------------------------------------------------
(* The first n cells as a line.                                            *)
Text(c, n) == [i \in 1 .. n |-> c[i - 1]]

(* A line has as many characters as were asked for.                        *)
LEMMA TextType ==
  ASSUME NEW c \in [Buffer -> Chars], NEW n \in 0 .. MaxKeys
  PROVE  /\ Text(c, n) \in Seq(Chars) /\ Len(Text(c, n)) = n
         /\ \A i \in 1 .. n : Text(c, n)[i] = c[i - 1]
BY ConsoleAssumption DEF Text, Buffer

(* A character stored behind the line is appended to it.                   *)
LEMMA TextAppend ==
  ASSUME NEW c \in [Buffer -> Chars], NEW n \in Buffer, NEW x \in Chars
  PROVE  Text([c EXCEPT ![n] = x], n + 1) = Append(Text(c, n), x)
<1> DEFINE d == [c EXCEPT ![n] = x]
<1>1. d \in [Buffer -> Chars] /\ d[n] = x /\ \A j \in Buffer \ {n} : d[j] = c[j]
  OBVIOUS
<1>2. n \in 0 .. MaxKeys /\ n + 1 \in 0 .. MaxKeys /\ \A i \in 1 .. n : i - 1 \in Buffer \ {n}
  BY ConsoleAssumption DEF Buffer
<1> HIDE DEF d
<1>3. /\ Text(c, n) \in Seq(Chars) /\ Len(Text(c, n)) = n
      /\ \A i \in 1 .. n : Text(c, n)[i] = c[i - 1]
  BY <1>2, TextType
<1>4. /\ Text(d, n + 1) \in Seq(Chars) /\ Len(Text(d, n + 1)) = n + 1
      /\ \A i \in 1 .. n + 1 : Text(d, n + 1)[i] = d[i - 1]
  BY <1>1, <1>2, TextType
<1> DEFINE app == Append(Text(c, n), x)
<1>5. /\ app \in Seq(Chars) /\ Len(app) = n + 1 /\ app[n + 1] = x
      /\ \A i \in 1 .. n : app[i] = c[i - 1]
  BY <1>3, AppendProperties
<1> HIDE DEF app
<1>6. \A i \in 1 .. n + 1 : Text(d, n + 1)[i] = app[i]
  BY <1>1, <1>2, <1>4, <1>5
<1>7. Text(d, n + 1) = app
  BY <1>4, <1>5, <1>6, SeqEqual
<1> QED
  BY <1>7 DEF app, d

(* The beginning of a longer line is the shorter one, whatever becomes of  *)
(* the cells behind it.                                                    *)
LEMMA TextPrefix ==
  ASSUME NEW c \in [Buffer -> Chars], NEW d \in [Buffer -> Chars],
         NEW m \in 0 .. MaxKeys, NEW n \in 0 .. m,
         \A j \in Buffer : j < n => d[j] = c[j]
  PROVE  Text(d, n) = SubSeq(Text(c, m), 1, n)
<1>1. n \in 0 .. MaxKeys /\ \A i \in 1 .. n : i - 1 \in Buffer /\ i - 1 < n
  BY ConsoleAssumption DEF Buffer
<1>2. /\ Text(c, m) \in Seq(Chars) /\ Len(Text(c, m)) = m
      /\ \A i \in 1 .. m : Text(c, m)[i] = c[i - 1]
  BY TextType
<1>3. /\ Text(d, n) \in Seq(Chars) /\ Len(Text(d, n)) = n
      /\ \A i \in 1 .. n : Text(d, n)[i] = d[i - 1]
  BY <1>1, TextType
<1> DEFINE sub == SubSeq(Text(c, m), 1, n)
<1>4. n \in Int /\ \A i \in 1 .. n : Text(c, m)[i] \in Chars
  BY <1>1, <1>2
<1>5. /\ sub \in Seq(Chars) /\ Len(sub) = n
      /\ \A i \in 1 .. n : sub[i] = Text(c, m)[i]
  BY <1>1, <1>4, SubSeqProperties
<1> HIDE DEF sub
<1>6. \A i \in 1 .. n : Text(d, n)[i] = sub[i]
  BY <1>1, <1>2, <1>3, <1>5
<1>7. Text(d, n) = sub
  BY <1>3, <1>5, <1>6, SeqEqual
<1> QED
  BY <1>7 DEF sub

-----------------------------------------------------------------------------
(* The line and the characters on offer, as Console maps them.             *)
Line == IF boot = "halt" /\ handler = "none" /\ Aligned
        THEN [i \in 1 .. inputLen |-> cells[i - 1]] ELSE << >>
Offered == CASE port.type = "key"  -> {port.key} \X BOOLEAN
             [] port.type = "caps" -> Junk \X BOOLEAN
             [] OTHER              -> {}

(* While a prompt waits, the line is what was typed since it opened.        *)
LEMMA LineType == Line = IF boot = "halt" /\ handler = "none" /\ Aligned
                         THEN Text(cells, inputLen) ELSE << >>
BY DEF Line, Text

(* The line fits the cells, and starts empty.                              *)
LEMMA LineLength ==
  ASSUME IInv
  PROVE  inputLen \in 0 .. MaxKeys /\ Text(cells, 0) = << >>
<1>1. inputLen \in 0 .. MaxKeys
  BY ConsoleAssumption DEF IInv, Types, Counted, Waiting
<1>2. Text(cells, 0) = << >>
  BY DEF Text
<1> QED
  BY <1>1, <1>2

(* A stored character, if the line is in order, is one that was offered.   *)
LEMMA StoreTypes ==
  ASSUME IInv, NEW type \in {"key", "caps"}, Scancode(type),
         NEW c \in Chars, c \in Offered, Store(c)
  PROVE  Editor!Offer \/ Editor!Type
<1>1. submitted' = submitted /\ boot' = boot /\ handler' = handler
  BY ScancodeRead DEF Store
<1>2. Aligned' <=> Aligned
  BY DEF Store, Aligned, IInv, Types
<1>3. CASE boot = "halt" /\ handler = "none" /\ Aligned
  <2>1. inputLen \in Buffer /\ input = inputLen
    BY <1>3, RoomForOne, ConsoleAssumption DEF Aligned, Buffer, IInv, Types
  <2>2. cells' = [cells EXCEPT ![inputLen] = c] /\ inputLen' = inputLen + 1
    BY <2>1 DEF Store
  <2>3. Text(cells', inputLen') = Append(Text(cells, inputLen), c)
    BY <2>1, <2>2, TextAppend DEF IInv, Types
  <2>4. Line = Text(cells, inputLen) /\ Line' = Text(cells', inputLen')
    BY <1>1, <1>2, <1>3 DEF Line, Text
  <2>5. Line' = Append(Line, c)
    BY <2>3, <2>4
  <2> QED
    BY <1>1, <2>5 DEF Editor!Type, Line, Offered
<1>4. CASE ~(boot = "halt" /\ handler = "none" /\ Aligned)
  <2>1. Line = << >> /\ Line' = << >>
    BY <1>1, <1>2, <1>4 DEF Line
  <2> QED
    BY <1>1, <2>1 DEF Editor!Offer, Line
<1> QED
  BY <1>3, <1>4

(* A backspace takes the last character of the line.                       *)
LEMMA BackspaceErases ==
  ASSUME IInv, Backspace
  PROVE  Editor!Offer \/ Editor!Erase
<1>1. submitted' = submitted /\ boot' = boot /\ handler' = handler /\ Scancode("backspace")
  BY ScancodeRead DEF Backspace
<1>2. (Aligned' <=> Aligned) /\ inputLen # 0 /\ inputLen' = inputLen - 1
  BY DEF Backspace, Aligned, IInv, Types
<1>3. CASE boot = "halt" /\ handler = "none" /\ Aligned
  <2>1. inputLen \in 1 .. MaxKeys /\ inputLen - 1 \in Buffer /\ input = inputLen
    BY <1>1, <1>2, <1>3, RoomForOne, ConsoleAssumption DEF Aligned, Buffer, IInv, Types
  <2>2. cells' = [cells EXCEPT ![inputLen - 1] = Zero]
    BY <2>1 DEF Backspace
  <2>3. cells \in [Buffer -> Chars] /\ cells' \in [Buffer -> Chars]
    BY BackspaceKeeps DEF IInv, Types
  <2>4. \A j \in Buffer : j < inputLen - 1 => cells'[j] = cells[j]
    BY <2>1, <2>2, <2>3, ConsoleAssumption DEF Buffer
  <2>5. Text(cells', inputLen - 1) = SubSeq(Text(cells, inputLen), 1, inputLen - 1)
    BY <2>1, <2>3, <2>4, TextPrefix
  <2>6. Line = Text(cells, inputLen) /\ Line' = Text(cells', inputLen - 1)
    BY <1>1, <1>2, <1>3 DEF Line, Text
  <2>7. Len(Line) = inputLen /\ Line # << >>
    <3>1. Text(cells, inputLen) \in Seq(Chars) /\ Len(Text(cells, inputLen)) = inputLen
      BY <2>1, <2>3, TextType
    <3> QED
      BY <2>1, <2>6, <3>1, EmptySeq
  <2>8. Line' = SubSeq(Line, 1, Len(Line) - 1)
    BY <2>5, <2>6, <2>7
  <2> QED
    BY <1>1, <2>7, <2>8 DEF Editor!Erase, Line
<1>4. CASE ~(boot = "halt" /\ handler = "none" /\ Aligned)
  <2>1. Line = << >> /\ Line' = << >>
    BY <1>1, <1>2, <1>4 DEF Line
  <2> QED
    BY <1>1, <2>1 DEF Editor!Offer, Line
<1> QED
  BY <1>3, <1>4

(* Enter hands over the line and starts a new one.                         *)
LEMMA EnterSubmits ==
  ASSUME IInv, Enter
  PROVE  Editor!Submit
<1>1. Line' = << >>
  BY DEF Enter, Line
<1>2. submitted' = Text(cells, MaxKeys)
  BY DEF Enter, Text
<1>3. cells \in [Buffer -> Chars] /\ inputLen \in 0 .. MaxKeys
  BY LineLength DEF IInv, Types
<1>4. Len(submitted') = MaxKeys
  BY <1>2, <1>3, TextType, ConsoleAssumption
<1>5. \A n \in 0 .. MaxKeys : SubSeq(submitted', 1, n) = Text(cells, n)
  BY <1>2, <1>3, TextPrefix, ConsoleAssumption
<1>6. Len(Text(cells, inputLen)) = inputLen /\ Len(<< >>) = 0
  BY <1>3, TextType, EmptySeq
<1>7. Len(Line) \in 0 .. MaxKeys /\ Line = Text(cells, Len(Line))
  BY <1>3, <1>6, LineType, LineLength, ConsoleAssumption
<1>8. Len(submitted') >= Len(Line) /\ SubSeq(submitted', 1, Len(Line)) = Line
  BY <1>4, <1>5, <1>7, ConsoleAssumption
<1> QED
  BY <1>1, <1>8 DEF Editor!Submit, Line

(* Any other step leaves the line as it is.                                *)
LEMMA QuietOffers ==
  ASSUME IInv,
         BootNext \/ Press \/ Deliver \/ InterruptDisabled \/ CommandDone \/ Release
           \/ Shift \/ Unshift \/ Tab \/ BackspaceAtStart
  PROVE  Editor!Offer
<1>1. CASE BootNext
  <2>1. boot # "halt" /\ submitted' = submitted
    BY <1>1 DEF BootNext, SetupInterrupts, InitializeTerminal, EnableKeyboard, ClearLength,
       SetPointer, editor
  <2>2. Line' = << >>
    <3>1. CASE SetPointer
      <4>1. Aligned' => inputLen' = 0
        BY <3>1 DEF SetPointer, Aligned
      <4>2. [i \in 1 .. 0 |-> cells'[i - 1]] = << >>
        OBVIOUS
      <4> QED
        BY <4>1, <4>2 DEF Line
    <3>2. CASE ~SetPointer
      BY <1>1, <3>2 DEF BootNext, SetupInterrupts, InitializeTerminal, EnableKeyboard,
         ClearLength, Line
    <3> QED
      BY <3>1, <3>2
  <2> QED
    BY <2>1, <2>2 DEF Editor!Offer, Line
<1>2. CASE Press \/ Deliver \/ InterruptDisabled
  BY <1>2 DEF Press, Deliver, InterruptDisabled, editor, Aligned, Editor!Offer
<1>3. CASE CommandDone
  <2>1. Line = << >> /\ inputLen' = 0 /\ submitted' = submitted
    BY <1>3 DEF CommandDone, Line
  <2>2. [i \in 1 .. 0 |-> cells'[i - 1]] = << >>
    OBVIOUS
  <2>3. Line' = << >>
    BY <2>1, <2>2 DEF Line
  <2> QED
    BY <2>1, <2>3 DEF Editor!Offer, Line
<1>4. CASE Release \/ Shift \/ Unshift \/ Tab \/ BackspaceAtStart
  BY <1>4 DEF Release, Shift, Unshift, Tab, BackspaceAtStart, Scancode, Aligned, Editor!Offer
<1> QED
  BY <1>1, <1>2, <1>3, <1>4

(* The keyboard driver implements a line editor from the first prompt on   *)
(* at which the pointer and the length agree.                              *)
THEOREM Refinement == Spec => ImplementsLineEditor
<1>1. Init => Editor!EditorInit
  BY DEF Init, Editor!EditorInit, Empty
<1>2. IInv /\ [Next]_vars => [Editor!EditorNext]_Editor!editorVars
  <2> SUFFICES ASSUME IInv, [Next]_vars
               PROVE  [Editor!EditorNext]_Editor!editorVars
    OBVIOUS
  <2>1. CASE Key
    <3>1. Scancode("key") /\ Store(Char(port.key, upperCase))
      BY <2>1 DEF Key
    <3>2. port.type = "key" /\ port.key \in Keys /\ upperCase \in BOOLEAN
      BY <3>1, ScancodeRead, ScancodeType DEF Scancode, IInv, Types
    <3>3. Char(port.key, upperCase) \in Chars
      BY <3>2, CharType
    <3>4. Offered = {port.key} \X BOOLEAN
      BY <3>2 DEF Offered
    <3>5. Char(port.key, upperCase) \in Offered
      BY <3>2, <3>4 DEF Char
    <3> QED
      BY <3>1, <3>3, <3>5, StoreTypes DEF Editor!EditorNext
  <2>2. CASE CapsLock
    <3>1. PICK k \in Junk : Scancode("caps") /\ Store(Char(k, upperCase))
      BY <2>2 DEF CapsLock
    <3>2. port.type = "caps" /\ k \in Keys /\ upperCase \in BOOLEAN
      BY <3>1, ConsoleAssumption DEF Scancode, IInv, Types
    <3>3. Char(k, upperCase) \in Chars
      BY <3>2, CharType
    <3>4. Offered = Junk \X BOOLEAN
      BY <3>2 DEF Offered
    <3>5. Char(k, upperCase) \in Offered
      BY <3>2, <3>4 DEF Char
    <3> QED
      BY <3>1, <3>3, <3>5, StoreTypes DEF Editor!EditorNext
  <2>3. CASE Backspace
    BY <2>3, BackspaceErases DEF Editor!EditorNext
  <2>4. CASE Enter
    BY <2>4, EnterSubmits DEF Editor!EditorNext
  <2>5. CASE BootNext \/ Press \/ Deliver \/ InterruptDisabled \/ CommandDone \/ Release
               \/ Shift \/ Unshift \/ Tab \/ BackspaceAtStart
    BY <2>5, QuietOffers DEF Editor!EditorNext
  <2>6. CASE UNCHANGED vars
    BY <2>6 DEF vars, keyboard, editor, Aligned, Editor!editorVars
  <2> QED
    BY <2>1, <2>2, <2>3, <2>4, <2>5, <2>6 DEF Next, HandlerNext
<1> QED
  BY <1>1, <1>2, Invariance, PTL DEF Spec, ImplementsLineEditor, Editor!EditorSpec

-----------------------------------------------------------------------------
(* A command is part of a handler.                                         *)
CommandInHandler == vector = None => handler = "none"

(* What one handler finds in service: its line and, if that is the slave's,*)
(* the line of the slave; of an interrupt in vain at most the latter.      *)
OneInService ==
  \/ inService \in {{}, {Cascade}}
  \/ \E line \in Lines \cup {Keyboard} : inService = {line, Via(line)}

LinesInv == CommandInHandler /\ OneInService /\ NothingLeftInService

-----------------------------------------------------------------------------
(* The line of every device is one of the sixteen.                         *)
LEMMA LineOfChip ==
  ASSUME NEW line \in Lines \cup {Keyboard}
  PROVE  line \in Master \/ line \in Slave
BY LinesAssumption DEF Master, Slave, Keyboard, Cascade

(* A gate hands isr_handler a number, whatever happens next.               *)
LEMMA GateHasNumber ==
  ASSUME NEW v \in Gates, EnterGate(v)
  PROVE  vector' # None
BY DEF EnterGate, isrNumber, Gates, None

(* Every line has a gate.                                                  *)
LEMMA VectorIsGate ==
  ASSUME NEW line \in Master \cup Slave
  PROVE  Vector(line) \in Gates
BY DEF Vector, Gates, Master, Slave

(* What is alone in service on a controller is the highest there.          *)
LEMMA HighestOfOne ==
  ASSUME NEW line \in Int, NEW chip, inService \cap chip = {line}
  PROVE  line \in Highest(chip)
<1>1. \A l \in inService \cap chip : line <= l
  OBVIOUS
<1> QED BY <1>1 DEF Highest

(* Telling both controllers ends all that one handler finds in service.    *)
LEMMA EoiEndsOne ==
  ASSUME OneInService
  PROVE  AfterEoi = {}
<1>1. CASE inService \in {{}, {Cascade}}
  BY <1>1 DEF AfterEoi, Highest, Master, Slave, Cascade
<1>2. ASSUME NEW line \in Lines \cup {Keyboard}, inService = {line, Via(line)}
      PROVE  AfterEoi = {}
  <2>1. CASE line \in Master
    <3>1. inService = {line} /\ line \in 0 .. 7
      BY <1>2, <2>1 DEF Via, Master, Slave
    <3>2. inService \cap Master = {line}
      BY <2>1, <3>1, Zenon
    <3>3. line \in Highest(Master)
      BY <3>1, <3>2, HighestOfOne
    <3> QED BY <3>1, <3>3 DEF AfterEoi
  <2>2. CASE line \in Slave
    <3>1. inService = {line, 2} /\ line \in 8 .. 15
      BY <1>2, <2>2 DEF Via, Slave, Cascade
    <3>2. line \in Slave /\ 2 \notin Slave
      BY <2>2 DEF Slave
    <3>3. inService \cap Slave = {line}
      BY <3>1, <3>2, Zenon
    <3>4. line \in Highest(Slave)
      BY <3>1, <3>3, HighestOfOne
    <3>5. 2 \in Highest(Master)
      BY <3>1 DEF Highest, Master
    <3> QED BY <3>1, <3>4, <3>5 DEF AfterEoi
  <2> QED BY LineOfChip, <2>1, <2>2
<1> QED BY <1>1, <1>2 DEF OneInService

-----------------------------------------------------------------------------
(* The invariant holds before the controllers are set up.                  *)
LEMMA InitLines == InterruptInit => LinesInv
BY DEF InterruptInit, Init, LinesInv, CommandInHandler, OneInService, NothingLeftInService

(* Setting up and booting touch neither handler nor controllers in service.*)
LEMMA SetupInv ==
  ASSUME LinesInv, Setup
  PROVE  LinesInv'
<1>1. UNCHANGED <<handler, vector, inService>>
  BY DEF Setup, RemapPIC, SetupInterrupts, LoadIDT, Sti, Boot, BootNext, SetupInterrupts,
         InitializeTerminal, EnableKeyboard, ClearLength, SetPointer, vars, control
<1> QED BY <1>1 DEF LinesInv, CommandInHandler, OneInService, NothingLeftInService

(* An interrupt is taken only outside of handlers, where nothing is in     *)
(* service, and leaves its own line there.                                 *)
LEMMA TakeInv ==
  ASSUME LinesInv, NEW line \in Lines \cup {Keyboard}, Take(line)
  PROVE  LinesInv'
<1>1. vector' # None
  BY LineOfChip, VectorIsGate, GateHasNumber DEF Take
<1>2. inService' = {line, Via(line)}
  BY DEF Take, Interruptible, Running, LinesInv, NothingLeftInService
<1>3. OneInService'
  BY <1>2 DEF OneInService, Via
<1> QED BY <1>1, <1>3 DEF LinesInv, CommandInHandler, NothingLeftInService

(* One in vain leaves at most the line of the slave.                       *)
LEMMA SpuriousInv ==
  ASSUME LinesInv, NEW line \in {7, 15}, TakeSpurious(line)
  PROVE  LinesInv'
<1>1. vector' # None
  BY VectorIsGate, GateHasNumber DEF TakeSpurious, Master, Slave
<1>2. inService' \in {{}, {Cascade}}
  BY DEF TakeSpurious, Interruptible, Running, LinesInv, NothingLeftInService, Via, Slave, Cascade
<1> QED BY <1>1, <1>2 DEF LinesInv, CommandInHandler, NothingLeftInService, OneInService

(* Every step keeps the invariant.                                         *)
LEMMA NextLines ==
  ASSUME LinesInv, [InterruptNext]_allVars
  PROVE  LinesInv'
<1> USE DEF LinesInv, CommandInHandler, OneInService, NothingLeftInService
<1>1. CASE Setup
  BY <1>1, SetupInv
<1>2. CASE \E line \in Lines \cup {Keyboard} : Take(line)
  BY <1>2, TakeInv
<1>3. CASE EndCommand
  BY <1>3 DEF EndCommand, control
<1>4. CASE EndOfInterrupt
  <2>1. inService' = {} /\ handler' = "none"
    BY <1>4, EoiEndsOne DEF EndOfInterrupt, vars
  <2> QED BY <2>1
<1>5. CASE KeyPress \/ KeyArrives
  BY <1>5 DEF KeyPress, KeyArrives, Press, Deliver, control
<1>6. CASE \E line \in Lines : Raise(line)
  BY <1>6 DEF Raise, vars
<1>7. CASE \E line \in {7, 15} : TakeSpurious(line)
  BY <1>7, SpuriousInv
<1>8. CASE TakeAstray
  BY <1>8 DEF TakeAstray, vars
<1>9. CASE Exception
  <2>1. vector' # None
    BY <1>9, GateHasNumber, LinesAssumption DEF Exception, Gates
  <2> QED BY <1>9, <2>1 DEF Exception
<1>10. CASE UNCHANGED allVars
  BY <1>10 DEF allVars, vars, control
<1> QED
  BY <1>1, <1>2, <1>3, <1>4, <1>5, <1>6, <1>7, <1>8, <1>9, <1>10
  DEF InterruptNext, Serve

(* The invariant holds in every reachable state.                           *)
THEOREM InterruptInvariance == InterruptSpec => []LinesInv
<1>1. LinesInv /\ [InterruptNext]_allVars => LinesInv'
  BY NextLines
<1> QED BY InitLines, <1>1, PTL DEF InterruptSpec

(* Whatever interrupts came, in vain or not, from the master or the slave: *)
(* outside of handlers neither controller holds a line in service.         *)
THEOREM NothingLeftCorrect == InterruptSpec => []NothingLeftInService
<1>1. LinesInv => NothingLeftInService
  BY DEF LinesInv
<1> QED BY InterruptInvariance, <1>1, PTL

-----------------------------------------------------------------------------
(* Entering a gate does what the keyboard's handler does, or nothing, to   *)
(* the console.                                                            *)
LEMMA GateStep ==
  ASSUME NEW v, EnterGate(v)
  PROVE  [Next]_vars
BY DEF EnterGate, Next

(* Every step is one of the console or leaves it alone.                    *)
LEMMA ConsoleStep ==
  ASSUME LinesInv, [InterruptNext]_allVars
  PROVE  [Next]_vars
<1>1. CASE RemapPIC
  BY <1>1 DEF RemapPIC, Running, LinesInv, CommandInHandler, Next, BootNext
<1>2. CASE LoadIDT \/ Sti \/ EndOfInterrupt \/ TakeAstray \/ \E line \in Lines : Raise(line)
  BY <1>2 DEF LoadIDT, Sti, EndOfInterrupt, TakeAstray, Raise
<1>3. CASE Boot \/ EndCommand \/ KeyPress \/ KeyArrives
  BY <1>3 DEF Boot, EndCommand, KeyPress, KeyArrives, Next, HandlerNext
<1>4. CASE \E line \in Lines \cup {Keyboard} : Take(line)
  BY <1>4, GateStep DEF Take
<1>5. CASE \E line \in {7, 15} : TakeSpurious(line)
  BY <1>5, GateStep DEF TakeSpurious
<1>6. CASE Exception
  BY <1>6, GateStep DEF Exception
<1>7. CASE UNCHANGED allVars
  BY <1>7 DEF allVars
<1> QED
  BY <1>1, <1>2, <1>3, <1>4, <1>5, <1>6, <1>7 DEF InterruptNext, Setup, Serve

(* With the controllers, the gates and the other lines around it the       *)
(* console does nothing that module Console does not allow: what is proved *)
(* there holds under all interrupts and exceptions.                        *)
THEOREM ImplementsConsole == InterruptSpec => Spec
<1>1. InterruptInit => Init
  BY DEF InterruptInit
<1>2. LinesInv /\ [InterruptNext]_allVars => [Next]_vars
  BY ConsoleStep
<1> QED BY <1>1, <1>2, InterruptInvariance, PTL DEF InterruptSpec, Spec

(* So all of it holds under any lines, interrupts in vain and exceptions.  *)
THEOREM ConsoleUnderInterrupts ==
  InterruptSpec => /\ []PromptStays
                   /\ PointerMatchesLength /\ StraysOnlyAtFirstPrompt
                   /\ StuckOnlyDuringBoot
                   /\ ImplementsLineEditor
BY ImplementsConsole, PromptStaysCorrect, PointerCorrect, StraysCorrect, StuckCorrect, Refinement, PTL
=============================================================================
