
----------------------------- MODULE Heap_proof -----------------------------
(***************************************************************************)
(* Proofs about the heap under today's callers, who free at most the last  *)
(* allocation.  The list is then the blocks that callers hold, one behind  *)
(* the other, and one free block behind them: so it is for any requests,   *)
(* any page size and any number of pages and allocations, for as long as   *)
(* Expand gets pages that lie apart.  The second part is that it does, for *)
(* every drive and every set of requests that FlagsSuit describes.         *)
(***************************************************************************)
EXTENDS Heap, SequenceTheorems, FiniteSetTheorems, WellFoundedInduction, TLAPS

-----------------------------------------------------------------------------
(* The smaller numbers, as a relation: what induction over data rests on.  *)
Smaller == OpToRel(<, Nat)

(* A set of numbers that is not empty has a least one.                     *)
LEMMA LeastNat ==
  ASSUME NEW T \in SUBSET Nat, T # {}
  PROVE  \E m \in T : \A n \in T : m <= n
<1>1. IsWellFoundedOn(Smaller, Nat)
  BY NatLessThanWellFounded DEF Smaller
<1>2. PICK m \in T : \A n \in T : ~(<<n, m>> \in Smaller)
  BY <1>1, WFMin
<1>3. \A a, b \in Nat : a < b => <<a, b>> \in Smaller
  BY DEF Smaller, OpToRel
<1>4. ASSUME NEW n \in T PROVE ~(n < m)
  <2>1. n \in Nat /\ m \in Nat
    OBVIOUS
  <2> QED BY <1>2, <1>3, <2>1, Zenon
<1> QED BY <1>4

(* Walk is the only function that starts with heapStart and follows the    *)
(* links.                                                                  *)
LEMMA WalkIs ==
  ASSUME NEW g, g = [i \in Nat |-> IF i = 0 THEN heapStart ELSE Follow[g[i - 1]]]
  PROVE  \A i \in Nat : Walk[i] = g[i]
<1> DEFINE Walks(w) ==
             w = [i \in Nat |-> IF i = 0 THEN heapStart ELSE Follow[w[i - 1]]]
<1>1. Walk = CHOOSE w : Walks(w)
  BY Zenon DEF Walk
<1>2. Walks(g)
  OBVIOUS
<1>3. Walks(Walk)
  <2> HIDE DEF Walks
  <2> QED BY <1>1, <1>2, Zenon
<1>4. Walk[0] = heapStart /\ \A i \in Nat \ {0} : Walk[i] = Follow[Walk[i - 1]]
  BY <1>3
<1>5. g[0] = heapStart /\ \A i \in Nat \ {0} : g[i] = Follow[g[i - 1]]
  OBVIOUS
<1> HIDE DEF Walks
<1>6. SUFFICES ASSUME {i \in Nat : Walk[i] # g[i]} # {} PROVE FALSE
  OBVIOUS
<1>7. PICK m \in {i \in Nat : Walk[i] # g[i]} : \A n \in {i \in Nat : Walk[i] # g[i]} : m <= n
  <2>1. {i \in Nat : Walk[i] # g[i]} \in SUBSET Nat
    OBVIOUS
  <2> QED BY <1>6, <2>1, LeastNat
<1>8. m # 0 /\ m - 1 \in Nat
  BY <1>4, <1>5, <1>7
<1>9. Walk[m - 1] = g[m - 1]
  BY <1>7, <1>8
<1> QED BY <1>4, <1>5, <1>7, <1>8, <1>9

-----------------------------------------------------------------------------
(* A header in memory, of the list or not.                                 *)
HeapBlock == [size : Nat, free : BOOLEAN, prev : Nat, next : Nat]
Header(a) == At(blocks, a)

(* The block behind those that callers hold, the blocks of the list from   *)
(* the first on, and where a block ends.                                   *)
FreeBlock == IF live = << >> THEN heapStart ELSE Header(live[Len(live)].block).next
Block(k) == IF k <= Len(live) THEN live[k].block ELSE FreeBlock
Beyond(b) == PointerPlus(b, Header(b).size)
Here == 1 .. Len(live)
All == 1 .. Len(live) + 1

TypeInv ==
  /\ \A a \in DOMAIN blocks : blocks[a] \in HeapBlock
  /\ live \in Seq([block : Nat, words : {r.words : r \in Callers}])
  /\ pages \in Nat /\ kept \in Nat /\ size \in Nat /\ heapStart \in Nat
  /\ wanted \in Callers \cup {NoRequest} /\ booted \in 0 .. Len(Boot)

(* Callers keep all that they hold but for the last, and a call under way  *)
(* asks for no less than its caller does.                                  *)
CallInv ==
  /\ Len(live) \in {kept, kept + 1}
  /\ wanted # NoRequest => kept = Len(live) /\ size >= wanted.words /\ heapStart # NULL
  /\ heapStart = NULL =>
       live = << >> /\ pages = 0 /\ blockCount = 0 /\ written = {} /\ blocks = << >>

(* A header that is no block of a caller has no link: whatever is in the   *)
(* memory behind the last block reads as the end of the list.              *)
FreshInv ==
  \A a \in DOMAIN blocks : blocks[a].next # NULL => \E k \in Here : a = live[k].block

(* The blocks of the list.                                                 *)
HeldInv ==
  \A k \in Here :
    /\ ~Header(Block(k)).free
    /\ Header(Block(k)).size >= live[k].words + HeaderWords
    /\ Header(Block(k)).next = Block(k + 1)
    /\ Beyond(Block(k)) = Block(k + 1)

TailInv ==
  /\ Header(FreeBlock).free
  /\ Header(FreeBlock).next = NULL
  /\ Beyond(FreeBlock) = PointerPlus(PageWords, pages * (PageWords + HeaderWords))

LinkInv ==
  /\ heapStart = PageWords /\ Block(1) = PageWords
  /\ blockCount = Len(live) + 1
  /\ \A k \in All : Block(k) \in Nat /\ Block(k) >= PageWords
  /\ \A k \in All : Header(Block(k)).prev = IF k = 1 THEN NULL ELSE Block(k - 1)
  /\ \A j, k \in All : j < k => Beyond(Block(j)) <= Block(k)

IInv ==
  /\ TypeInv /\ CallInv /\ FreshInv
  /\ heapStart # NULL => HeldInv /\ TailInv /\ LinkInv

(* Words that callers filled end before the block that may be given back   *)
(* next, or behind the free block that took its place; or they are the     *)
(* first of it.                                                            *)
WrittenInv ==
  \A r \in written :
    /\ r.first \in Nat /\ r.words \in Nat
    /\ \/ r.first + r.words <= Block(kept + 1)
       \/ /\ r.first = Payload(Block(kept + 1))
          /\ \E q \in Callers : ~q.keep /\ r.words = q.filled

(* The pages that kmalloc has added for the call under way are in the free *)
(* block, and each of them has let it ask for four words more.             *)
AddedInv ==
  wanted # NoRequest =>
    /\ Len(live) < MaxLive
    /\ \E j \in Nat :
         /\ Needed = BlockWords(wanted.words) + 4 * j
         /\ j = 0 \/ Gain * (j - 1) < BlockWords(wanted.words)
         /\ Header(FreeBlock).size >= (PageWords + HeaderWords) * j

(* Until the flags of the sectors have their block, one caller at a time   *)
(* has the words that the heap begins with.                                *)
BootInv ==
  /\ heapStart = NULL => booted = 0
  /\ booted = 0 =>
       /\ live = << >> /\ wanted = NoRequest /\ written = {}
       /\ heapStart # NULL => pages = 1
  /\ booted = 1 =>
       /\ kept = 0 /\ pages \in 1 .. DiskSizePages
       /\ written \subseteq {Run(PageWords, Boot[1].filled)}
       /\ wanted = NoRequest => pages = DiskSizePages
       /\ wanted # NoRequest =>
            /\ wanted = Boot[1] /\ live = << >>
            /\ Needed = BlockWords(Boot[1].words) + 4 * (pages - 1)
  /\ booted >= 2 /\ live = << >> =>
       /\ wanted = Boot[2] /\ pages \in DiskSizePages .. FlagPages
       /\ written \subseteq {Run(PageWords, Boot[1].filled)}
       /\ Needed = BlockWords(Boot[2].words) + 4 * (pages - DiskSizePages)

(* From then on, what callers fill lies before the pages to come, or       *)
(* behind the block of the flags, where no page is going to be.            *)
FlagsEnd == PointerPlus(PageWords, BlockWords(Boot[2].words))
FlagsInv ==
  booted >= 2 /\ live # << >> =>
    /\ kept >= 1 /\ pages >= FlagPages /\ Block(2) >= FlagsEnd
    /\ \A r \in written :
         /\ r.first \in Nat /\ r.words \in Nat
         /\ \/ r.first + r.words <= PageWords * (FlagPages + 1)
            \/ r.first >= FlagsEnd

(* No block is longer than the longest that a request can get.             *)
LengthInv(longest) ==
  heapStart # NULL => \A k \in All : Block(k) <= PointerPlus(PageWords, (k - 1) * longest)

PagesInv(longest) == AddedInv /\ BootInv /\ FlagsInv /\ LengthInv(longest)

-----------------------------------------------------------------------------
(* What memory holds after a write, and that it holds headers.             *)
LEMMA AtPut ==
  ASSUME NEW b, NEW a, NEW h, NEW x
  PROVE  At(Put(b, a, h), x) = IF x = a THEN h ELSE At(b, x)
BY DEF At, Put

(* A header is its four fields, and what it is when some of them change.   *)
LEMMA HeaderIs ==
  ASSUME NEW h \in HeapBlock
  PROVE  h = [size |-> h.size, free |-> h.free, prev |-> h.prev, next |-> h.next]
BY DEF HeapBlock

LEMMA HeaderUsed ==
  ASSUME NEW h \in HeapBlock, NEW s \in Nat, NEW f \in BOOLEAN, NEW n \in Nat
  PROVE  [h EXCEPT !.size = s, !.free = f, !.next = n]
           = [size |-> s, free |-> f, prev |-> h.prev, next |-> n]
<1> DEFINE x == [h EXCEPT !.size = s, !.free = f, !.next = n]
<1>1. x \in HeapBlock /\ x.size = s /\ x.free = f /\ x.prev = h.prev /\ x.next = n
  BY DEF HeapBlock
<1> QED BY <1>1, HeaderIs, Zenon

LEMMA HeaderBehind ==
  ASSUME NEW h \in HeapBlock, NEW s \in Nat, NEW f \in BOOLEAN, NEW p \in Nat
  PROVE  [h EXCEPT !.size = s, !.free = f, !.prev = p]
           = [size |-> s, free |-> f, prev |-> p, next |-> h.next]
<1> DEFINE x == [h EXCEPT !.size = s, !.free = f, !.prev = p]
<1>1. x \in HeapBlock /\ x.size = s /\ x.free = f /\ x.prev = p /\ x.next = h.next
  BY DEF HeapBlock
<1> QED BY <1>1, HeaderIs, Zenon

LEMMA HeaderGrown ==
  ASSUME NEW h \in HeapBlock, NEW s \in Nat, NEW n \in Nat
  PROVE  [h EXCEPT !.size = s, !.next = n]
           = [size |-> s, free |-> h.free, prev |-> h.prev, next |-> n]
<1> DEFINE x == [h EXCEPT !.size = s, !.next = n]
<1>1. x \in HeapBlock /\ x.size = s /\ x.free = h.free /\ x.prev = h.prev /\ x.next = n
  BY DEF HeapBlock
<1> QED BY <1>1, HeaderIs, Zenon

LEMMA HeaderType ==
  ASSUME TypeInv
  PROVE  \A a : Header(a) \in HeapBlock
BY DEF TypeInv, Header, At, HeapBlock, Fresh, NULL

LEMMA FreshMemory ==
  ASSUME FreshInv, NEW a, \A k \in Here : a # live[k].block
  PROVE  Header(a).next = NULL
BY DEF FreshInv, Header, At, Fresh

LEMMA RequestType ==
  /\ \A i \in DOMAIN Boot : Boot[i] \in Callers
  /\ NoRequest \notin Callers
  /\ \A r \in Callers :
       /\ r \in Request /\ r.words \in Nat \ {0} /\ r.filled \in Nat /\ r.filled <= r.words
       /\ AnyOrder => ~r.keep
<1>1. \A i \in DOMAIN Boot : Boot[i] \in Request /\ Boot[i] \in Range(Boot) /\ Boot[i].words # 0
  BY HeapAssumption DEF Range
<1>2. Range(Boot) \subseteq Request /\ Requests \subseteq Request
  BY <1>1, HeapAssumption DEF Range
<1> QED BY <1>1, <1>2, HeapAssumption DEF Callers, Request, NoRequest

LEMMA LiveType ==
  ASSUME TypeInv
  PROVE  /\ Len(live) \in Nat
         /\ \A k \in Here : live[k].block \in Nat /\ live[k].words \in Nat \ {0}
         /\ live = << >> <=> Len(live) = 0
<1> DEFINE Claims == [block : Nat, words : {r.words : r \in Callers}]
<1>1. live \in Seq(Claims)
  BY DEF TypeInv
<1>2. (\A k \in Here : live[k] \in Claims) /\ Len(live) \in Nat
  <2> HIDE DEF Claims
  <2> QED BY <1>1 DEF Here
<1>3. Len(live) \in Nat
  BY <1>2
<1>4. ASSUME NEW k \in Here PROVE live[k].block \in Nat /\ live[k].words \in Nat \ {0}
  <2>1. live[k].block \in Nat /\ live[k].words \in {r.words : r \in Callers}
    BY <1>2
  <2> QED BY <2>1, RequestType
<1>5. live = << >> <=> Len(live) = 0
  BY <1>1, EmptySeq
<1> QED BY <1>3, <1>4, <1>5

LEMMA NeededType ==
  ASSUME size \in Nat
  PROVE  Needed \in Nat /\ Needed >= size + HeaderWords
<1>1. size % 2 \in 0 .. 1
  OBVIOUS
<1> QED BY <1>1 DEF Needed, BlockWords, HeaderWords

(* The last of the list is the free block, and only the free block is free. *)
LEMMA BlockIs ==
  /\ \A k \in Here : Block(k) = live[k].block
  /\ TypeInv => Block(Len(live) + 1) = FreeBlock
BY LiveType DEF Block, Here

LEMMA Apartness ==
  ASSUME TypeInv, HeldInv, LinkInv
  PROVE  /\ FreeBlock \in Nat /\ FreeBlock # NULL
         /\ \A k \in Here : Block(k) \in Nat /\ Block(k) # NULL /\ Block(k) < FreeBlock
         /\ \A j, k \in All : j < k => Block(j) < Block(k)
<1> USE DEF PointerPlus, HeaderWords, SizeOfHeapBlock
<1>1. Len(live) \in Nat
  BY LiveType
<1>2. PageWords \in Nat /\ PageWords > 3
  BY HeapAssumption
<1>3. Block(Len(live) + 1) = FreeBlock
  BY BlockIs
<1>4. Len(live) + 1 \in All /\ Here \subseteq All /\ \A k \in Here : k < Len(live) + 1
  BY <1>1 DEF Here, All
<1>5. \A k \in All : Block(k) \in Nat /\ Block(k) # NULL
  BY <1>2 DEF LinkInv, NULL
<1>6. ASSUME NEW j \in All, NEW k \in All, j < k PROVE Block(j) < Block(k)
  <2>1. j \in Here
    BY <1>1, <1>6 DEF All, Here
  <2>2. Header(Block(j)).size \in Nat
    BY HeaderType DEF HeapBlock
  <2>3. Header(Block(j)).size >= live[j].words + 3 /\ live[j].words \in Nat
    BY <2>1, LiveType DEF HeldInv
  <2>4. Beyond(Block(j)) <= Block(k)
    BY <1>6 DEF LinkInv
  <2>5. Block(j) \in Nat /\ Block(k) \in Nat
    BY <1>5
  <2> QED BY <2>2, <2>3, <2>4, <2>5 DEF Beyond
<1> QED BY <1>3, <1>4, <1>5, <1>6

(* What kmalloc's loop sees.                                               *)
LEMMA WalkSeen ==
  ASSUME TypeInv, HeldInv, TailInv, LinkInv
  PROVE  \A i \in Nat : Walk[i] = IF i < Len(live) THEN Block(i + 1) ELSE FreeBlock
<1> DEFINE g == [i \in Nat |-> IF i < Len(live) THEN Block(i + 1) ELSE FreeBlock]
<1>1. Len(live) \in Nat
  BY LiveType
<1>2. Block(Len(live) + 1) = FreeBlock
  BY BlockIs
<1>3. g[0] = heapStart
  <2>1. CASE Len(live) = 0
    BY <1>2, <2>1 DEF LinkInv
  <2>2. CASE Len(live) > 0
    BY <2>2 DEF LinkInv
  <2> QED BY <1>1, <2>1, <2>2
<1>4. ASSUME NEW i \in Nat \ {0} PROVE g[i] = Follow[g[i - 1]]
  <2>1. CASE i <= Len(live)
    <3>1. i \in Here /\ i - 1 \in Nat /\ i + 1 \in All
      BY <1>1, <2>1 DEF Here, All
    <3>2. g[i - 1] = Block(i)
      BY <2>1, <3>1
    <3>3. Header(Block(i)).next = Block(i + 1)
      BY <3>1 DEF HeldInv
    <3>4. Block(i + 1) # NULL
      BY <3>1, <1>2, <1>1, Apartness DEF All, Here
    <3>5. Block(i) \in Nat
      BY <3>1, Apartness
    <3>6. Follow[Block(i)] = Block(i + 1)
      BY <3>3, <3>4, <3>5 DEF Follow, Header
    <3>7. g[i] = Block(i + 1)
      BY <1>1, <1>2, <2>1
    <3> QED BY <3>2, <3>6, <3>7
  <2>2. CASE i > Len(live)
    <3>1. g[i] = FreeBlock /\ g[i - 1] = FreeBlock
      BY <1>1, <2>2
    <3>2. Follow[FreeBlock] = FreeBlock
      BY Apartness DEF TailInv, Follow, Header
    <3> QED BY <3>1, <3>2
  <2> QED BY <1>1, <2>1, <2>2
<1>5. g = [i \in Nat |-> IF i = 0 THEN heapStart ELSE Follow[g[i - 1]]]
  <2> DEFINE h == [i \in Nat |-> IF i = 0 THEN heapStart ELSE Follow[g[i - 1]]]
  <2>1. \A i \in Nat : g[i] = h[i]
    <3> HIDE DEF g
    <3> QED BY <1>3, <1>4
  <2>2. DOMAIN g = Nat /\ DOMAIN h = Nat
    OBVIOUS
  <2>3. g = [i \in Nat |-> g[i]] /\ h = [i \in Nat |-> h[i]]
    OBVIOUS
  <2> HIDE DEF g, h
  <2>4. g = h
    BY <2>1, <2>3
  <2> QED BY <2>4 DEF h
<1>6. \A i \in Nat : Walk[i] = g[i]
  <2> HIDE DEF g
  <2> QED BY <1>5, WalkIs
<1> QED BY <1>6

(* Only the free block can be selected, and Expand starts from it.         *)
LEMMA OnlyTheFreeBlock ==
  ASSUME TypeInv, HeldInv, TailInv, LinkInv
  PROVE  /\ Fitting # {} => Selected = FreeBlock /\ Fits(FreeBlock)
         /\ Walk[blockCount] = FreeBlock
<1>1. Len(live) \in Nat /\ blockCount = Len(live) + 1
  BY LiveType DEF LinkInv
<1>2. Walk[blockCount] = FreeBlock /\ Walk[Len(live)] = FreeBlock
  BY <1>1, WalkSeen
<1>3. ASSUME NEW i \in Fitting PROVE i = Len(live)
  <2>1. i \in 0 .. Len(live) /\ Fits(Walk[i])
    BY <1>1 DEF Fitting
  <2>2. CASE i < Len(live)
    <3>1. Walk[i] = Block(i + 1) /\ i + 1 \in Here
      BY <1>1, <2>1, <2>2, WalkSeen DEF Here
    <3>2. ~Header(Walk[i]).free
      BY <3>1 DEF HeldInv
    <3> QED BY <2>1, <3>2 DEF Fits, Header
  <2> QED BY <1>1, <2>1, <2>2
<1>4. ASSUME Fitting # {} PROVE Selected = FreeBlock /\ Fits(FreeBlock)
  <2>1. Fitting = {Len(live)}
    BY <1>3, <1>4
  <2>2. Min(Fitting) = Len(live)
    BY <1>1, <2>1 DEF Min
  <2>3. Selected = FreeBlock
    BY <1>2, <2>2 DEF Selected
  <2>4. Len(live) \in Fitting
    BY <2>1
  <2>5. Fits(Walk[Len(live)])
    BY <2>4 DEF Fitting
  <2> QED BY <1>2, <2>3, <2>5
<1> QED BY <1>2, <1>4

-----------------------------------------------------------------------------
(* What the three actions that change the list do to it: every header, by  *)
(* address.                                                                *)
LEMMA ListParts ==
  ASSUME IInv, heapStart # NULL
  PROVE  /\ TypeInv /\ CallInv /\ FreshInv /\ HeldInv /\ TailInv /\ LinkInv
         /\ Len(live) \in Nat /\ PageWords \in Nat /\ PageWords > 3
         /\ Block(Len(live) + 1) = FreeBlock
         /\ FreeBlock \in Nat /\ FreeBlock # NULL
         /\ Header(FreeBlock) \in HeapBlock
BY LiveType, BlockIs, Apartness, HeaderType, HeapAssumption DEF IInv

LEMMA SplitDoes ==
  ASSUME IInv, Split
  PROVE  LET rest == PointerPlus(FreeBlock, Needed)
         IN  /\ heapStart # NULL /\ kept = Len(live) /\ wanted \in Callers
             /\ Needed \in Nat /\ Needed <= Header(FreeBlock).size
             /\ Needed >= wanted.words + HeaderWords
             /\ rest \in Nat /\ rest > FreeBlock
             /\ live' = Append(live, [block |-> FreeBlock, words |-> wanted.words])
             /\ written' = written \cup {Run(FreeBlock, wanted.filled)}
             /\ \A a : At(blocks', a) =
                  IF a = rest
                  THEN [size |-> Header(FreeBlock).size - Needed, free |-> TRUE,
                        prev |-> FreeBlock, next |-> NULL]
                  ELSE IF a = FreeBlock
                  THEN [size |-> Needed, free |-> FALSE,
                        prev |-> Header(FreeBlock).prev, next |-> rest]
                  ELSE Header(a)
<1> DEFINE rest == PointerPlus(FreeBlock, Needed)
           front == [Header(FreeBlock) EXCEPT !.size = Needed, !.free = FALSE, !.next = rest]
           back == [Header(rest) EXCEPT !.size = Header(FreeBlock).size - Needed,
                                        !.free = TRUE, !.prev = FreeBlock]
<1>1. heapStart # NULL /\ kept = Len(live) /\ wanted # NoRequest /\ Fitting # {}
  BY DEF IInv, CallInv, Split
<1>2. /\ TypeInv /\ CallInv /\ FreshInv /\ HeldInv /\ TailInv /\ LinkInv
      /\ FreeBlock \in Nat /\ Header(FreeBlock) \in HeapBlock
  BY <1>1, ListParts
<1>3. Selected = FreeBlock /\ Fits(FreeBlock)
  BY <1>1, <1>2, OnlyTheFreeBlock
<1>4. wanted \in Callers /\ size \in Nat /\ size >= wanted.words
  BY <1>1, <1>2 DEF TypeInv, CallInv
<1>5. /\ Needed \in Nat /\ Needed >= size + HeaderWords
      /\ Needed <= Header(FreeBlock).size
  BY <1>3, <1>4, NeededType, <1>2 DEF Fits, Header, HeapBlock
<1>6. wanted.words \in Nat /\ Needed >= wanted.words + HeaderWords
  BY <1>4, <1>5, RequestType DEF HeaderWords
<1>7. rest \in Nat /\ rest > FreeBlock
  BY <1>2, <1>5, <1>6 DEF PointerPlus, SizeOfHeapBlock, HeaderWords
<1>8. /\ blocks' = Put(Put(blocks, FreeBlock, front), rest, back)
      /\ live' = Append(live, [block |-> FreeBlock, words |-> wanted.words])
      /\ written' = written \cup {Run(FreeBlock, wanted.filled)}
  BY <1>3 DEF Split, Header
<1>9. Header(rest).next = NULL
  <2>1. \A k \in Here : rest # live[k].block
    BY <1>2, <1>7, Apartness, BlockIs
  <2> QED BY <1>2, <2>1, FreshMemory
<1>10. Header(rest) \in HeapBlock
  BY <1>2, HeaderType
<1>11. back = [size |-> Header(FreeBlock).size - Needed, free |-> TRUE,
               prev |-> FreeBlock, next |-> NULL]
  <2>1. Header(FreeBlock).size - Needed \in Nat
    BY <1>2, <1>5 DEF HeapBlock
  <2> HIDE DEF rest
  <2>2. TRUE \in BOOLEAN
    OBVIOUS
  <2>3. back = [size |-> Header(FreeBlock).size - Needed, free |-> TRUE,
                prev |-> FreeBlock, next |-> Header(rest).next]
    <3>1. \A h \in HeapBlock, s \in Nat, p \in Nat :
            [h EXCEPT !.size = s, !.free = TRUE, !.prev = p]
              = [size |-> s, free |-> TRUE, prev |-> p, next |-> h.next]
      BY <2>2, HeaderBehind
    <3> HIDE DEF Header
    <3> QED BY <1>2, <1>10, <2>1, <3>1, Zenon
  <2> QED BY <1>9, <2>3, Zenon
<1>12. front = [size |-> Needed, free |-> FALSE,
                prev |-> Header(FreeBlock).prev, next |-> rest]
  <2> HIDE DEF rest
  <2>1. FALSE \in BOOLEAN
    OBVIOUS
  <2> QED BY <1>2, <1>5, <1>7, <2>1, HeaderUsed, Zenon
<1>13. ASSUME NEW a
       PROVE  At(blocks', a) = IF a = rest THEN back ELSE IF a = FreeBlock THEN front ELSE Header(a)
  <2>1. At(Put(Put(blocks, FreeBlock, front), rest, back), a)
          = IF a = rest THEN back ELSE IF a = FreeBlock THEN front ELSE At(blocks, a)
    <3> HIDE DEF front, back, rest
    <3> QED BY AtPut
  <2> HIDE DEF front, back, rest
  <2> QED BY <1>8, <2>1 DEF Header
<1> HIDE DEF front, back, rest
<1>14. \A a : At(blocks', a) =
         IF a = rest
         THEN [size |-> Header(FreeBlock).size - Needed, free |-> TRUE,
               prev |-> FreeBlock, next |-> NULL]
         ELSE IF a = FreeBlock
         THEN [size |-> Needed, free |-> FALSE,
               prev |-> Header(FreeBlock).prev, next |-> rest]
         ELSE Header(a)
  BY <1>11, <1>12, <1>13
<1> QED BY <1>1, <1>4, <1>5, <1>6, <1>7, <1>8, <1>14 DEF rest

(* The new page goes into the free block, which grows by what the header   *)
(* of the page says.                                                       *)
LEMMA ExpandDoes ==
  ASSUME IInv, PagesApart, Expand
  PROVE  /\ heapStart # NULL /\ pages' = pages + 1 /\ blockCount' = blockCount
         /\ RequestPage \in Nat /\ \A k \in All : RequestPage # Block(k)
         /\ Needed \in Nat /\ Needed >= size
         /\ \A a : At(blocks', a) =
              IF a = FreeBlock
              THEN [size |-> Header(FreeBlock).size + (PageWords + HeaderWords), free |-> TRUE,
                    prev |-> Header(FreeBlock).prev, next |-> NULL]
              ELSE IF a = RequestPage
              THEN [size |-> PageWords + HeaderWords, free |-> TRUE,
                    prev |-> FreeBlock, next |-> NULL]
              ELSE Header(a)
<1>1. heapStart # NULL /\ wanted # NoRequest /\ Fitting = {}
  BY DEF IInv, CallInv, Expand
<1>2. /\ TypeInv /\ CallInv /\ FreshInv /\ HeldInv /\ TailInv /\ LinkInv
      /\ Len(live) \in Nat /\ PageWords \in Nat /\ PageWords > 3
      /\ FreeBlock \in Nat /\ FreeBlock # NULL /\ Header(FreeBlock) \in HeapBlock
      /\ Block(Len(live) + 1) = FreeBlock
  BY <1>1, ListParts
<1>3. Walk[blockCount] = FreeBlock /\ blockCount = Len(live) + 1
  BY <1>2, OnlyTheFreeBlock DEF LinkInv
<1>4. /\ RequestPage # NULL
      /\ \A r \in Headers(Listed) : Apart(r, [first |-> RequestPage, words |-> HeaderWords])
  BY <1>1 DEF PagesApart
<1>5. pages' = pages + 1 /\ RequestPage \in Nat
  BY <1>2, <1>4, HeapAssumption DEF RequestPage, Expand, Take, TypeInv, NULL
<1>6. ASSUME NEW k \in All PROVE RequestPage # Block(k)
  <2>1. k - 1 \in Nat /\ k - 1 \in 0 .. blockCount
    BY <1>2, <1>3 DEF All
  <2>2. Walk[k - 1] = Block(k)
    BY <1>2, <2>1, WalkSeen DEF All
  <2>3. Block(k) \in Nat /\ Block(k) # NULL
    BY <1>2 DEF LinkInv, NULL
  <2>4. Block(k) \in Listed
    BY <2>1, <2>2, <2>3 DEF Listed
  <2>5. [first |-> Block(k), words |-> HeaderWords] \in Headers(Listed)
    BY <2>4 DEF Headers
  <2>6. Apart([first |-> Block(k), words |-> HeaderWords], [first |-> RequestPage, words |-> HeaderWords])
    BY <1>4, <2>5
  <2> QED BY <1>5, <2>3, <2>6 DEF Apart, HeaderWords
<1>7. RequestPage # FreeBlock
  <2>1. Len(live) + 1 \in All
    BY <1>2 DEF All
  <2> QED BY <1>2, <1>6, <2>1
<1> DEFINE
      new == [size |-> PageWords + HeaderWords, free |-> TRUE, prev |-> FreeBlock, next |-> NULL]
      grown == Put(blocks, RequestPage, new)
      linked == Put(grown, FreeBlock, [At(grown, FreeBlock) EXCEPT !.next = RequestPage])
      merged == MergeBlock(linked, blockCount + 1, RequestPage)
      last == [size |-> Header(FreeBlock).size + (PageWords + HeaderWords), free |-> TRUE,
               prev |-> Header(FreeBlock).prev, next |-> NULL]
<1>8. blocks' = merged.blocks /\ blockCount' = merged.count
  BY <1>3 DEF Expand
<1>9. At(linked, RequestPage) = new
  <2>1. At(grown, RequestPage) = new
    <3> HIDE DEF new
    <3> QED BY AtPut
  <2> HIDE DEF new, grown
  <2> QED BY <1>7, <2>1, AtPut
<1>10. At(linked, FreeBlock) = [Header(FreeBlock) EXCEPT !.next = RequestPage]
  <2>1. At(grown, FreeBlock) = Header(FreeBlock)
    <3> HIDE DEF new
    <3> QED BY <1>7, AtPut DEF Header
  <2> HIDE DEF new, grown
  <2> QED BY <2>1, AtPut
<1>11. MergeNext([blocks |-> linked, count |-> blockCount + 1], RequestPage)
         = [blocks |-> linked, count |-> blockCount + 1]
  <2> HIDE DEF linked
  <2> QED BY <1>9 DEF MergeNext
<1>12. /\ At(linked, FreeBlock).free
       /\ [At(linked, FreeBlock) EXCEPT !.size = @ + new.size, !.next = new.next] = last
  <2> DEFINE h == At(linked, FreeBlock)
             s == h.size + (PageWords + HeaderWords)
  <2> HIDE DEF linked
  <2>1. Header(FreeBlock).free
    BY <1>2 DEF TailInv
  <2>2. /\ h \in HeapBlock /\ h.free = TRUE
        /\ h.size = Header(FreeBlock).size /\ h.prev = Header(FreeBlock).prev
    BY <1>2, <1>5, <1>10, <2>1 DEF HeapBlock
  <2>3. s \in Nat /\ NULL \in Nat
    BY <1>2, <2>2 DEF HeapBlock, HeaderWords, NULL
  <2>4. new.size = PageWords + HeaderWords /\ new.next = NULL
    OBVIOUS
  <2> HIDE DEF h, s, new
  <2>5. [h EXCEPT !.size = s, !.next = NULL]
          = [size |-> s, free |-> TRUE, prev |-> Header(FreeBlock).prev, next |-> NULL]
    <3>1. [h EXCEPT !.size = s, !.next = NULL]
            = [size |-> s, free |-> h.free, prev |-> h.prev, next |-> NULL]
      BY <2>2, <2>3, HeaderGrown, Zenon
    <3> QED BY <2>2, <3>1
  <2>6. s = Header(FreeBlock).size + (PageWords + HeaderWords)
    BY <2>2 DEF s
  <2>7. [h EXCEPT !.size = @ + new.size, !.next = new.next] = [h EXCEPT !.size = s, !.next = NULL]
    BY <2>4 DEF s
  <2> QED BY <2>2, <2>5, <2>6, <2>7 DEF h
<1>13. merged = [blocks |-> Put(linked, FreeBlock, last), count |-> blockCount]
  <2>1. blockCount \in Nat
    BY <1>2, <1>3
  <2>2. merged = MergePrev([blocks |-> linked, count |-> blockCount + 1], RequestPage)
    <3> HIDE DEF linked
    <3> QED BY <1>11 DEF MergeBlock
  <2>3. At(linked, RequestPage).prev = FreeBlock
    BY <1>9
  <2> HIDE DEF merged, linked, last
  <2>4. MergePrev([blocks |-> linked, count |-> blockCount + 1], RequestPage)
          = [blocks |-> Put(linked, FreeBlock, last), count |-> (blockCount + 1) - 1]
    <3> HIDE DEF new
    <3> QED BY <1>2, <1>9, <1>12, <2>3 DEF MergePrev
  <2> QED BY <2>1, <2>2, <2>4
<1>14. ASSUME NEW a
       PROVE  At(blocks', a) = IF a = FreeBlock THEN last
                           ELSE IF a = RequestPage THEN new ELSE Header(a)
  <2>1. blocks' = Put(linked, FreeBlock, last)
    <3> HIDE DEF merged, linked, last
    <3> QED BY <1>8, <1>13
  <2>2. At(Put(linked, FreeBlock, last), a)
          = IF a = FreeBlock THEN last ELSE At(grown, a)
    <3> HIDE DEF grown, last
    <3> QED BY AtPut
  <2>3. At(grown, a) = IF a = RequestPage THEN new ELSE At(blocks, a)
    <3> HIDE DEF new
    <3> QED BY AtPut
  <2> HIDE DEF linked, last, grown, new
  <2> QED BY <2>1, <2>2, <2>3 DEF Header
<1>15. Needed \in Nat /\ Needed >= size
  BY <1>2, NeededType DEF TypeInv, HeaderWords
<1>16. blockCount' = blockCount
  <2> HIDE DEF merged, linked, last
  <2> QED BY <1>8, <1>13
<1> QED BY <1>1, <1>5, <1>6, <1>14, <1>15, <1>16

(* The block that is given back is the last that callers hold: it takes    *)
(* the free block in.                                                      *)
LEMMA KfreeDoes ==
  ASSUME IInv, heapStart # NULL, NEW k \in kept + 1 .. Len(live), Kfree(k)
  PROVE  LET given == Block(Len(live))
         IN  /\ k = Len(live) /\ kept + 1 = Len(live) /\ Len(live) \in Here
             /\ blockCount' = blockCount - 1
             /\ Len(live') = Len(live) - 1
             /\ \A j \in 1 .. Len(live) - 1 : live'[j] = live[j]
             /\ \A a : At(blocks', a) =
                  IF a = given
                  THEN [size |-> Header(given).size + Header(FreeBlock).size, free |-> TRUE,
                        prev |-> Header(given).prev, next |-> NULL]
                  ELSE Header(a)
<1> DEFINE given == Block(Len(live))
<1>1. /\ TypeInv /\ CallInv /\ FreshInv /\ HeldInv /\ TailInv /\ LinkInv
      /\ Len(live) \in Nat /\ PageWords \in Nat /\ PageWords > 3
      /\ FreeBlock \in Nat /\ FreeBlock # NULL /\ Header(FreeBlock) \in HeapBlock
      /\ Block(Len(live) + 1) = FreeBlock
  BY ListParts
<1>2. k = Len(live) /\ kept + 1 = Len(live) /\ Len(live) \in Here /\ Len(live) \in All
  BY <1>1 DEF CallInv, TypeInv, Here, All
<1>3. /\ given = live[k].block /\ given \in Nat /\ given # NULL /\ given # FreeBlock
      /\ Header(given) \in HeapBlock
  BY <1>1, <1>2, BlockIs, Apartness, HeaderType
<1>4. live' = SubSeq(live, 1, Len(live) - 1) \o SubSeq(live, Len(live) + 1, Len(live))
  BY <1>2 DEF Kfree
<1>5. Len(live') = Len(live) - 1 /\ \A j \in 1 .. Len(live) - 1 : live'[j] = live[j]
  <2> DEFINE Claims == [block : Nat, words : {r.words : r \in Callers}]
  <2>1. live \in Seq(Claims)
    BY <1>1 DEF TypeInv
  <2> HIDE DEF Claims
  <2>2. \A j \in 1 .. Len(live) : live[j] \in Claims
    BY <2>1
  <2>3. /\ SubSeq(live, 1, Len(live) - 1) \in Seq(Claims)
        /\ Len(SubSeq(live, 1, Len(live) - 1)) = Len(live) - 1
        /\ \A j \in 1 .. Len(live) - 1 : SubSeq(live, 1, Len(live) - 1)[j] = live[j]
    BY <1>1, <1>2, <2>1, <2>2 DEF Here
  <2>4. SubSeq(live, Len(live) + 1, Len(live)) = << >>
    BY <1>1, <2>1
  <2> QED BY <1>4, <2>3, <2>4
<1> DEFINE
      here == [Header(given) EXCEPT !.free = TRUE]
      freed == Put(blocks, given, here)
      joined == [size |-> Header(given).size + Header(FreeBlock).size, free |-> TRUE,
                 prev |-> Header(given).prev, next |-> NULL]
      merged == MergeBlock(freed, blockCount, given)
<1>6. blocks' = merged.blocks /\ blockCount' = merged.count
  BY <1>2, <1>3 DEF Kfree, Header
<1>7. At(freed, given) = here /\ \A a : a # given => At(freed, a) = Header(a)
  <2> HIDE DEF here, given
  <2> QED BY AtPut DEF Header
<1>8. here.next = FreeBlock
  <2>1. Header(given).next = FreeBlock
    BY <1>1, <1>2 DEF HeldInv
  <2> HIDE DEF given
  <2> QED BY <1>3, <2>1 DEF HeapBlock
<1>9. At(freed, FreeBlock) = Header(FreeBlock) /\ Header(FreeBlock).free
  BY <1>1, <1>3, <1>7 DEF TailInv
<1>10. [here EXCEPT !.size = @ + Header(FreeBlock).size, !.next = Header(FreeBlock).next] = joined
  <2> DEFINE s == here.size + Header(FreeBlock).size
  <2>1. Header(FreeBlock).next = NULL
    BY <1>1 DEF TailInv
  <2> HIDE DEF given
  <2>2. /\ here \in HeapBlock /\ here.free = TRUE
        /\ here.size = Header(given).size /\ here.prev = Header(given).prev
    BY <1>3 DEF HeapBlock
  <2>3. s \in Nat /\ NULL \in Nat
    BY <1>1, <2>2 DEF HeapBlock, NULL
  <2> HIDE DEF here, s
  <2>4. [here EXCEPT !.size = s, !.next = NULL]
          = [size |-> s, free |-> TRUE, prev |-> Header(given).prev, next |-> NULL]
    <3>1. [here EXCEPT !.size = s, !.next = NULL]
            = [size |-> s, free |-> here.free, prev |-> here.prev, next |-> NULL]
      BY <2>2, <2>3, HeaderGrown, Zenon
    <3> QED BY <2>2, <3>1
  <2>5. s = Header(given).size + Header(FreeBlock).size
    BY <2>2 DEF s
  <2>6. [here EXCEPT !.size = @ + Header(FreeBlock).size, !.next = Header(FreeBlock).next]
          = [here EXCEPT !.size = s, !.next = NULL]
    BY <2>1 DEF s
  <2> QED BY <2>4, <2>5, <2>6
<1>11. MergeNext([blocks |-> freed, count |-> blockCount], given)
         = [blocks |-> Put(freed, given, joined), count |-> blockCount - 1]
  <2> HIDE DEF freed, here, joined, given
  <2> QED BY <1>1, <1>7, <1>8, <1>9, <1>10 DEF MergeNext
<1>12. /\ At(Put(freed, given, joined), given) = joined
       /\ \A a : a # given => At(Put(freed, given, joined), a) = Header(a)
  <2> HIDE DEF freed, joined, given
  <2> QED BY <1>7, AtPut
<1>13. joined.prev = NULL \/ (joined.prev # given /\ ~Header(joined.prev).free)
  <2>1. joined.prev = Header(given).prev
    OBVIOUS
  <2>2. Header(given).prev = IF Len(live) = 1 THEN NULL ELSE Block(Len(live) - 1)
    BY <1>1, <1>2 DEF LinkInv
  <2>3. CASE Len(live) = 1
    BY <2>1, <2>2, <2>3
  <2>4. CASE Len(live) # 1
    <3>1. Len(live) - 1 \in Here /\ Len(live) - 1 \in All /\ Len(live) \in All
      BY <1>1, <1>2, <2>4 DEF Here, All
    <3>2. Block(Len(live) - 1) < Block(Len(live))
      BY <1>1, <3>1, Apartness
    <3>3. ~Header(Block(Len(live) - 1)).free
      BY <1>1, <3>1 DEF HeldInv
    <3>4. Block(Len(live) - 1) \in Nat
      BY <1>1, <3>1 DEF LinkInv
    <3> QED BY <1>3, <2>1, <2>2, <2>4, <3>2, <3>3, <3>4
  <2> QED BY <2>3, <2>4
<1>14. merged = [blocks |-> Put(freed, given, joined), count |-> blockCount - 1]
  <2> HIDE DEF freed, joined, given, here
  <2>1. merged = MergePrev([blocks |-> Put(freed, given, joined), count |-> blockCount - 1], given)
    BY <1>11 DEF MergeBlock
  <2> HIDE DEF merged
  <2> QED BY <1>12, <1>13, <2>1 DEF MergePrev
<1>15. ASSUME NEW a PROVE At(blocks', a) = IF a = given THEN joined ELSE Header(a)
  <2> HIDE DEF freed, joined, given, merged
  <2>1. At(blocks', a) = At(Put(freed, given, joined), a)
    BY <1>6, <1>14 DEF Header
  <2> QED BY <2>1, <1>12
<1>16. blockCount' = blockCount - 1
  <2> HIDE DEF freed, joined, given, merged
  <2> QED BY <1>6, <1>14
<1> QED BY <1>2, <1>5, <1>15, <1>16

-----------------------------------------------------------------------------
(* Every action keeps the invariant.                                       *)
LEMMA NextHeaders ==
  /\ \A k : Header(Block(k))' = At(blocks', Block(k)')
  /\ \A k : Beyond(Block(k))' = PointerPlus(Block(k)', At(blocks', Block(k)').size)
  /\ Header(FreeBlock)' = At(blocks', FreeBlock')
  /\ Beyond(FreeBlock)' = PointerPlus(FreeBlock', At(blocks', FreeBlock').size)
BY DEF Header, Beyond

LEMMA SplitKeeps ==
  ASSUME IInv, Split
  PROVE  /\ IInv' /\ \A k \in All : Block(k)' = Block(k)
         /\ \A k : k = Len(live) + 2 => Block(k)' = PointerPlus(FreeBlock, Needed)
<1> DEFINE claim == [block |-> FreeBlock, words |-> wanted.words]
           rest == PointerPlus(FreeBlock, Needed)
           front == [size |-> Needed, free |-> FALSE,
                     prev |-> Header(FreeBlock).prev, next |-> rest]
           back == [size |-> Header(FreeBlock).size - Needed, free |-> TRUE,
                    prev |-> FreeBlock, next |-> NULL]
<1>1. /\ heapStart # NULL /\ kept = Len(live) /\ wanted \in Callers
      /\ Needed \in Nat /\ Needed <= Header(FreeBlock).size
      /\ Needed >= wanted.words + HeaderWords
      /\ rest \in Nat /\ rest > FreeBlock
      /\ live' = Append(live, claim)
  BY SplitDoes
<1>2. \A a : At(blocks', a) = IF a = rest THEN back ELSE IF a = FreeBlock THEN front ELSE Header(a)
  BY SplitDoes
<1>3. /\ TypeInv /\ CallInv /\ FreshInv /\ HeldInv /\ TailInv /\ LinkInv
      /\ Len(live) \in Nat /\ PageWords \in Nat /\ PageWords > 3
      /\ Block(Len(live) + 1) = FreeBlock
      /\ FreeBlock \in Nat /\ FreeBlock # NULL /\ Header(FreeBlock) \in HeapBlock
  BY <1>1, ListParts
<1>4. /\ heapStart' = heapStart /\ pages' = pages /\ kept' \in {kept, kept + 1}
      /\ wanted' = NoRequest /\ size' = 0 /\ blockCount' = blockCount + 1
      /\ booted' = booted
  BY DEF Split
<1>5. PICK n \in Nat : n = Len(live)
  BY <1>3
<1>6. /\ live' \in Seq([block : Nat, words : {r.words : r \in Callers}])
      /\ Len(live') = n + 1
      /\ \A k \in 1 .. n : live'[k] = live[k]
      /\ live'[n + 1] = claim
  <2> DEFINE Claims == [block : Nat, words : {r.words : r \in Callers}]
  <2>1. live \in Seq(Claims)
    BY <1>3 DEF TypeInv
  <2>2. claim \in Claims
    BY <1>1, <1>3
  <2> HIDE DEF Claims, claim
  <2> QED BY <1>1, <1>5, <2>1, <2>2 DEF Claims
<1>7. /\ Header(FreeBlock).size \in Nat
      /\ At(blocks', rest) = back /\ At(blocks', FreeBlock) = front
  <2> HIDE DEF back, front, rest
  <2> QED BY <1>1, <1>2, <1>3 DEF HeapBlock
<1>8. FreeBlock' = rest
  <2>1. live' # << >> /\ live'[Len(live')].block = FreeBlock
    BY <1>6
  <2>2. FreeBlock' = At(blocks', live'[Len(live')].block).next
    BY <2>1 DEF FreeBlock, Header
  <2> QED BY <1>7, <2>1, <2>2
<1>9. /\ \A k \in 1 .. n + 1 : Block(k)' = Block(k)
      /\ Block(n + 2)' = rest
      /\ Here = 1 .. n /\ Here' = 1 .. n + 1 /\ All = 1 .. n + 1 /\ All' = 1 .. n + 2
      /\ Block(n + 1) = FreeBlock
  <2> HIDE DEF rest
  <2>1. \A k \in 1 .. n : Block(k)' = Block(k)
    BY <1>5, <1>6 DEF Block
  <2>2. Block(n + 1)' = FreeBlock
    BY <1>6 DEF Block
  <2>3. Block(n + 2)' = rest
    BY <1>6, <1>8 DEF Block
  <2> QED BY <1>3, <1>5, <1>6, <2>1, <2>2, <2>3 DEF Here, All
<1> HIDE DEF rest, front, back
<1>10. ASSUME NEW k \in 1 .. n
       PROVE  Block(k) \in Nat /\ Block(k) < FreeBlock /\ At(blocks', Block(k)) = Header(Block(k))
  <2>1. k \in Here
    BY <1>9
  <2>2. Block(k) \in Nat /\ Block(k) < FreeBlock
    BY <1>3, <2>1, Apartness
  <2> QED BY <1>1, <1>2, <1>3, <2>2
<1>11. TypeInv'
  <2>1. back \in HeapBlock /\ front \in HeapBlock
    BY <1>1, <1>3, <1>7 DEF HeapBlock, back, front, NULL
  <2>2. \A a : At(blocks', a) \in HeapBlock
    BY <1>2, <1>3, <2>1, HeaderType
  <2>3. \A a \in DOMAIN blocks' : blocks'[a] \in HeapBlock
    BY <2>2 DEF At
  <2> QED BY <1>3, <1>4, <1>6, <2>3 DEF TypeInv
<1>12. CallInv'
  BY <1>1, <1>3, <1>4, <1>5, <1>6 DEF CallInv
<1>13. FreshInv'
  <2>1. ASSUME NEW a \in DOMAIN blocks', blocks'[a].next # NULL
        PROVE  \E k \in Here' : a = live'[k].block
    <3>1. At(blocks', a).next # NULL
      BY <2>1 DEF At
    <3>2. a # rest
      BY <1>7, <3>1 DEF back
    <3>3. CASE a = FreeBlock
      BY <1>6, <1>9, <3>3
    <3>4. CASE a # FreeBlock
      <4>1. Header(a).next # NULL
        BY <1>2, <3>1, <3>2, <3>4
      <4>2. PICK k \in Here : a = live[k].block
        BY <1>3, <4>1, FreshMemory
      <4> QED BY <1>6, <1>9, <4>2
    <3> QED BY <3>3, <3>4
  <2> QED BY <2>1 DEF FreshInv
<1>14. HeldInv'
  <2> DEFINE P(k) == /\ ~Header(Block(k))'.free
                     /\ Header(Block(k))'.size >= live'[k].words + HeaderWords
                     /\ Header(Block(k))'.next = Block(k + 1)'
                     /\ Beyond(Block(k))' = Block(k + 1)'
  <2>1. ASSUME NEW k \in 1 .. n PROVE P(k)
    <3>1. Block(k)' = Block(k) /\ Block(k + 1)' = Block(k + 1) /\ live'[k] = live[k]
      BY <1>6, <1>9
    <3>2. /\ Header(Block(k))' = Header(Block(k))
          /\ Beyond(Block(k))' = PointerPlus(Block(k), Header(Block(k)).size)
      BY <1>10, <3>1, NextHeaders
    <3>3. k \in Here
      BY <1>9
    <3> QED BY <1>3, <3>1, <3>2, <3>3 DEF HeldInv, Beyond
  <2>2. P(n + 1)
    <3>1. Block(n + 1)' = FreeBlock /\ Block((n + 1) + 1)' = rest /\ live'[n + 1].words = wanted.words
      BY <1>6, <1>9
    <3>2. Header(Block(n + 1))' = front /\ Beyond(Block(n + 1))' = PointerPlus(FreeBlock, front.size)
      BY <1>7, <3>1, NextHeaders
    <3>3. ~front.free /\ front.size = Needed /\ front.next = rest
      BY DEF front
    <3>4. PointerPlus(FreeBlock, Needed) = rest
      BY DEF rest
    <3> QED BY <1>1, <3>1, <3>2, <3>3, <3>4
  <2>3. \A k \in 1 .. n + 1 : k \in 1 .. n \/ k = n + 1
    OBVIOUS
  <2>4. \A k \in 1 .. n + 1 : P(k)
    <3> HIDE DEF P
    <3> QED BY <2>1, <2>2, <2>3
  <2> QED BY <1>9, <2>4 DEF HeldInv
<1>15. TailInv'
  <2>1. Header(FreeBlock)' = back /\ Beyond(FreeBlock)' = PointerPlus(rest, back.size)
    BY <1>7, <1>8, NextHeaders
  <2>2. PointerPlus(rest, back.size) = Beyond(FreeBlock)
    BY <1>1, <1>3, <1>7 DEF Beyond, PointerPlus, rest, back, SizeOfHeapBlock
  <2>3. Beyond(FreeBlock) = PointerPlus(PageWords, pages * (PageWords + HeaderWords))
    BY <1>3 DEF TailInv
  <2> QED BY <1>4, <2>1, <2>2, <2>3 DEF TailInv, back
<1>16. LinkInv'
  <2>1. heapStart' = PageWords /\ Block(1)' = PageWords
    BY <1>3, <1>4, <1>9 DEF LinkInv
  <2>2. blockCount' = Len(live') + 1
    BY <1>3, <1>4, <1>5, <1>6 DEF LinkInv
  <2>3. \A k \in All' : Block(k)' \in Nat /\ Block(k)' >= PageWords
    <3>1. \A k \in 1 .. n + 1 : Block(k) \in Nat /\ Block(k) >= PageWords
      BY <1>3, <1>9 DEF LinkInv
    <3>2. FreeBlock >= PageWords
      BY <1>9, <3>1
    <3>3. rest \in Nat /\ rest >= PageWords
      BY <1>1, <1>3, <3>2
    <3>4. ASSUME NEW k \in 1 .. n + 2 PROVE Block(k)' \in Nat /\ Block(k)' >= PageWords
      <4>1. CASE k \in 1 .. n + 1
        BY <1>9, <3>1, <4>1
      <4>2. CASE k = n + 2
        BY <1>9, <3>3, <4>2
      <4> QED BY <4>1, <4>2
    <3> QED BY <1>9, <3>4
  <2>4. ASSUME NEW k \in All'
        PROVE  Header(Block(k))'.prev = IF k = 1 THEN NULL ELSE Block(k - 1)'
    <3>1. CASE k \in 1 .. n + 1
      <4>1. Block(k)' = Block(k) /\ (k # 1 => Block(k - 1)' = Block(k - 1))
        BY <1>9, <3>1
      <4>2. At(blocks', Block(k)).prev = Header(Block(k)).prev
        <5>1. CASE k \in 1 .. n
          BY <1>10, <5>1
        <5>2. CASE k = n + 1
          BY <1>7, <1>9, <5>2 DEF front
        <5> QED BY <3>1, <5>1, <5>2
      <4>3. Header(Block(k))' = At(blocks', Block(k))
        BY <4>1, NextHeaders
      <4>4. Header(Block(k)).prev = IF k = 1 THEN NULL ELSE Block(k - 1)
        BY <1>3, <1>9, <3>1 DEF LinkInv
      <4> QED BY <4>1, <4>2, <4>3, <4>4
    <3>2. CASE k = n + 2
      <4>1. Header(Block(n + 2))' = back
        BY <1>7, <1>9, NextHeaders
      <4>2. Block(n + 1)' = FreeBlock
        BY <1>9
      <4> QED BY <3>2, <4>1, <4>2 DEF back
    <3> QED BY <1>9, <3>1, <3>2
  <2>5. ASSUME NEW j \in All', NEW k \in All', j < k
        PROVE  Beyond(Block(j))' <= Block(k)'
    <3>1. CASE j \in 1 .. n
      <4>1. Beyond(Block(j))' = Beyond(Block(j)) /\ Beyond(Block(j)) \in Nat
        <5>1. Block(j)' = Block(j)
          BY <1>9, <3>1
        <5>2. Header(Block(j)).size \in Nat /\ Block(j) \in Nat
          BY <1>3, <1>10, <3>1, HeaderType DEF HeapBlock
        <5>3. Beyond(Block(j))' = PointerPlus(Block(j), Header(Block(j)).size)
          BY <5>1, <1>10, <3>1, NextHeaders
        <5> QED BY <5>2, <5>3 DEF Beyond, PointerPlus, SizeOfHeapBlock
      <4>2. \A i \in 1 .. n + 1 : j < i => Beyond(Block(j)) <= Block(i)
        BY <1>3, <1>9, <3>1 DEF LinkInv
      <4>3. CASE k \in 1 .. n + 1
        BY <1>9, <2>5, <4>1, <4>2, <4>3
      <4>4. CASE k = n + 2
        <5>1. Beyond(Block(j)) <= FreeBlock
          BY <1>9, <3>1, <4>2
        <5> QED BY <1>1, <1>3, <1>9, <4>1, <4>4, <5>1
      <4> QED BY <1>9, <4>3, <4>4
    <3>2. CASE j = n + 1
      <4>1. k = n + 2 /\ Block(j)' = FreeBlock /\ Block(k)' = rest
        BY <1>9, <2>5, <3>2
      <4>2. Beyond(Block(j))' = PointerPlus(FreeBlock, front.size)
        BY <1>7, <4>1, NextHeaders
      <4> QED BY <1>1, <4>1, <4>2 DEF rest, front
    <3> QED BY <1>9, <2>5, <3>1, <3>2
  <2> QED BY <2>1, <2>2, <2>3, <2>4, <2>5 DEF LinkInv
<1>17. \A k : k = Len(live) + 2 => Block(k)' = PointerPlus(FreeBlock, Needed)
  BY <1>5, <1>9 DEF rest
<1> QED BY <1>9, <1>11, <1>12, <1>13, <1>14, <1>15, <1>16, <1>17 DEF IInv

LEMMA ExpandKeeps ==
  ASSUME IInv, PagesApart, Expand
  PROVE  IInv' /\ FreeBlock' = FreeBlock /\ \A k \in All : Block(k)' = Block(k)
<1> DEFINE wide == PageWords + HeaderWords
           grown == [size |-> Header(FreeBlock).size + wide, free |-> TRUE,
                     prev |-> Header(FreeBlock).prev, next |-> NULL]
           new == [size |-> wide, free |-> TRUE, prev |-> FreeBlock, next |-> NULL]
<1>1. /\ heapStart # NULL /\ pages' = pages + 1 /\ blockCount' = blockCount
      /\ RequestPage \in Nat /\ \A k \in All : RequestPage # Block(k)
      /\ Needed \in Nat /\ Needed >= size
  BY ExpandDoes
<1>2. \A a : At(blocks', a)
               = IF a = FreeBlock THEN grown ELSE IF a = RequestPage THEN new ELSE Header(a)
  BY ExpandDoes
<1>3. /\ TypeInv /\ CallInv /\ FreshInv /\ HeldInv /\ TailInv /\ LinkInv
      /\ Len(live) \in Nat /\ PageWords \in Nat /\ PageWords > 3
      /\ Block(Len(live) + 1) = FreeBlock
      /\ FreeBlock \in Nat /\ FreeBlock # NULL /\ Header(FreeBlock) \in HeapBlock
  BY <1>1, ListParts
<1>4. /\ heapStart' = heapStart /\ kept' = kept /\ live' = live
      /\ wanted' = wanted /\ size' = Needed /\ written' = written /\ booted' = booted
  BY DEF Expand
<1>5. PICK n \in Nat : n = Len(live)
  BY <1>3
<1>6. /\ Here = 1 .. n /\ Here' = 1 .. n /\ All = 1 .. n + 1 /\ All' = 1 .. n + 1
      /\ Block(n + 1) = FreeBlock
  BY <1>3, <1>4, <1>5 DEF Here, All
<1>7. Header(FreeBlock).size \in Nat /\ wide \in Nat /\ At(blocks', FreeBlock) = grown
  <2> HIDE DEF grown, new
  <2> QED BY <1>2, <1>3 DEF HeapBlock, HeaderWords
<1> HIDE DEF grown, new
<1>8. ASSUME NEW k \in 1 .. n
      PROVE  /\ Block(k) \in Nat /\ Block(k) < FreeBlock
             /\ Block(k) = live[k].block /\ At(blocks', Block(k)) = Header(Block(k))
  <2>1. k \in Here /\ k \in All
    BY <1>6
  <2>2. Block(k) \in Nat /\ Block(k) < FreeBlock /\ Block(k) = live[k].block
    BY <1>3, <2>1, Apartness, BlockIs
  <2> QED BY <1>1, <1>2, <1>3, <2>1, <2>2
<1>9. FreeBlock' = FreeBlock
  <2>1. CASE live = << >>
    BY <1>4, <2>1 DEF FreeBlock
  <2>2. CASE live # << >>
    <3>1. n \in 1 .. n
      BY <1>3, <1>5, <2>2, LiveType
    <3>2. FreeBlock' = At(blocks', live[n].block).next
      BY <1>4, <1>5, <2>2 DEF FreeBlock, Header
    <3>3. FreeBlock = Header(live[n].block).next
      BY <1>5, <2>2 DEF FreeBlock
    <3> QED BY <1>8, <3>1, <3>2, <3>3
  <2> QED BY <2>1, <2>2
<1>10. \A k \in 1 .. n + 1 : Block(k)' = Block(k)
  BY <1>4, <1>9 DEF Block
<1>11. TypeInv'
  <2>1. grown \in HeapBlock /\ new \in HeapBlock
    BY <1>3, <1>7 DEF HeapBlock, grown, new, NULL
  <2>2. \A a : At(blocks', a) \in HeapBlock
    BY <1>2, <1>3, <2>1, HeaderType
  <2>3. \A a \in DOMAIN blocks' : blocks'[a] \in HeapBlock
    BY <2>2 DEF At
  <2> QED BY <1>1, <1>3, <1>4, <2>3 DEF TypeInv
<1>12. CallInv'
  <2>1. wanted # NoRequest => wanted.words \in Nat
    BY <1>3, RequestType DEF TypeInv
  <2> QED BY <1>1, <1>3, <1>4, <2>1 DEF CallInv, TypeInv
<1>13. FreshInv'
  <2>1. ASSUME NEW a \in DOMAIN blocks', blocks'[a].next # NULL
        PROVE  \E k \in Here' : a = live'[k].block
    <3>1. At(blocks', a).next # NULL
      BY <2>1 DEF At
    <3>2. Header(a).next # NULL
      BY <1>2, <3>1 DEF grown, new
    <3> QED BY <1>3, <1>4, <1>6, <3>2, FreshMemory
  <2> QED BY <2>1 DEF FreshInv
<1>14. HeldInv'
  <2>1. ASSUME NEW k \in 1 .. n
        PROVE  /\ ~Header(Block(k))'.free
               /\ Header(Block(k))'.size >= live'[k].words + HeaderWords
               /\ Header(Block(k))'.next = Block(k + 1)'
               /\ Beyond(Block(k))' = Block(k + 1)'
    <3>1. Block(k)' = Block(k) /\ Block(k + 1)' = Block(k + 1)
      BY <1>10
    <3>2. /\ Header(Block(k))' = Header(Block(k))
          /\ Beyond(Block(k))' = PointerPlus(Block(k), Header(Block(k)).size)
      BY <1>8, <3>1, NextHeaders
    <3>3. k \in Here
      BY <1>6
    <3> QED BY <1>3, <1>4, <3>1, <3>2, <3>3 DEF HeldInv, Beyond
  <2> QED BY <1>6, <2>1 DEF HeldInv
<1>15. TailInv'
  <2>1. Header(FreeBlock)' = grown /\ Beyond(FreeBlock)' = PointerPlus(FreeBlock, grown.size)
    BY <1>7, <1>9, NextHeaders
  <2>2. grown.free /\ grown.next = NULL /\ grown.size = Header(FreeBlock).size + wide
    BY DEF grown
  <2>3. PointerPlus(FreeBlock, Header(FreeBlock).size) = PointerPlus(PageWords, pages * wide)
    BY <1>3 DEF TailInv, Beyond
  <2>4. pages \in Nat /\ pages' * wide = pages * wide + wide /\ pages * wide \in Nat
    <3>1. pages \in Nat
      BY <1>3 DEF TypeInv
    <3>2. \A p, w \in Nat : (p + 1) * w = p * w + w /\ p * w \in Nat
      OBVIOUS
    <3> HIDE DEF wide
    <3> QED BY <1>1, <1>7, <3>1, <3>2
  <2> HIDE DEF wide
  <2>5. PointerPlus(FreeBlock, Header(FreeBlock).size + wide) = PointerPlus(PageWords, pages' * wide)
    <3>2. FreeBlock + 24 * Header(FreeBlock).size = PageWords + 24 * (pages * wide)
      BY <2>3 DEF PointerPlus, SizeOfHeapBlock
    <3>3. FreeBlock + 24 * (Header(FreeBlock).size + wide) = PageWords + 24 * (pages * wide + wide)
      <4>1. PICK q \in Nat : q = pages * wide
        BY <2>4
      <4>2. FreeBlock + 24 * Header(FreeBlock).size = PageWords + 24 * q
        BY <3>2, <4>1
      <4>3. FreeBlock + 24 * (Header(FreeBlock).size + wide) = PageWords + 24 * (q + wide)
        BY <1>3, <1>7, <4>2
      <4> QED BY <4>1, <4>3
    <3> QED BY <2>4, <3>3 DEF PointerPlus, SizeOfHeapBlock
  <2> QED BY <2>1, <2>2, <2>5 DEF TailInv, wide
<1>16. LinkInv'
  <2>1. heapStart' = PageWords /\ Block(1)' = PageWords /\ blockCount' = Len(live') + 1
    BY <1>1, <1>3, <1>4, <1>10 DEF LinkInv
  <2>2. \A k \in All' : Block(k)' \in Nat /\ Block(k)' >= PageWords
    BY <1>3, <1>6, <1>10 DEF LinkInv
  <2>3. ASSUME NEW k \in All'
        PROVE  Header(Block(k))'.prev = IF k = 1 THEN NULL ELSE Block(k - 1)'
    <3>1. Block(k)' = Block(k) /\ (k # 1 => Block(k - 1)' = Block(k - 1))
      BY <1>6, <1>10
    <3>2. At(blocks', Block(k)).prev = Header(Block(k)).prev
      <4>1. CASE k \in 1 .. n
        BY <1>8, <4>1
      <4>2. CASE k = n + 1
        BY <1>6, <1>7, <4>2 DEF grown
      <4> QED BY <1>6, <4>1, <4>2
    <3>3. Header(Block(k)).prev = IF k = 1 THEN NULL ELSE Block(k - 1)
      BY <1>3, <1>6 DEF LinkInv
    <3> QED BY <3>1, <3>2, <3>3, NextHeaders
  <2>4. ASSUME NEW j \in All', NEW k \in All', j < k
        PROVE  Beyond(Block(j))' <= Block(k)'
    <3>1. j \in 1 .. n /\ k \in 1 .. n + 1
      BY <1>6, <2>4
    <3>2. Block(j)' = Block(j) /\ Block(k)' = Block(k)
      BY <1>10, <3>1
    <3>3. Beyond(Block(j))' = Beyond(Block(j))
      BY <1>8, <3>1, <3>2, NextHeaders DEF Beyond
    <3>4. Beyond(Block(j)) <= Block(k)
      BY <1>3, <1>6, <2>4, <3>1 DEF LinkInv
    <3> QED BY <3>2, <3>3, <3>4
  <2> QED BY <2>1, <2>2, <2>3, <2>4 DEF LinkInv
<1> QED BY <1>6, <1>9, <1>10, <1>11, <1>12, <1>13, <1>14, <1>15, <1>16 DEF IInv

LEMMA KfreeKeeps ==
  ASSUME IInv, NEW k \in kept + 1 .. Len(live), Kfree(k)
  PROVE  IInv' /\ \A j \in Here : Block(j)' = Block(j)
<1>1. heapStart # NULL
  <2>1. Len(live) # 0
    BY LiveType DEF IInv, TypeInv
  <2> QED BY <2>1, LiveType DEF IInv, CallInv
<1> DEFINE given == Block(Len(live))
           joined == [size |-> Header(given).size + Header(FreeBlock).size, free |-> TRUE,
                      prev |-> Header(given).prev, next |-> NULL]
<1>2. /\ kept + 1 = Len(live) /\ Len(live) \in Here
      /\ blockCount' = blockCount - 1
      /\ Len(live') = Len(live) - 1
      /\ \A j \in 1 .. Len(live) - 1 : live'[j] = live[j]
  BY <1>1, KfreeDoes
<1>3. \A a : At(blocks', a) = IF a = given THEN joined ELSE Header(a)
  BY <1>1, KfreeDoes
<1>4. /\ TypeInv /\ CallInv /\ FreshInv /\ HeldInv /\ TailInv /\ LinkInv
      /\ Len(live) \in Nat /\ PageWords \in Nat /\ PageWords > 3
      /\ Block(Len(live) + 1) = FreeBlock
      /\ FreeBlock \in Nat /\ FreeBlock # NULL /\ Header(FreeBlock) \in HeapBlock
  BY <1>1, ListParts
<1>5. /\ heapStart' = heapStart /\ kept' = kept /\ pages' = pages /\ wanted = NoRequest
      /\ wanted' = wanted /\ size' = size /\ written' = written /\ booted' = booted
  BY DEF Kfree
<1>6. PICK n \in Nat : n + 1 = Len(live)
  BY <1>2, <1>4 DEF Here
<1>7. /\ Here = 1 .. n + 1 /\ Here' = 1 .. n /\ All = 1 .. n + 2 /\ All' = 1 .. n + 1
      /\ Block(n + 2) = FreeBlock /\ given = Block(n + 1)
      /\ \A j \in 1 .. n : live'[j] = live[j]
  BY <1>2, <1>4, <1>6 DEF Here, All
<1> HIDE DEF given
<1>8. given \in Nat /\ given # NULL /\ given = live[n + 1].block /\ Header(given) \in HeapBlock
  <2>1. n + 1 \in Here /\ n + 1 \in All
    BY <1>7
  <2> QED BY <1>4, <1>7, <2>1, Apartness, BlockIs, HeaderType
<1>9. At(blocks', given) = joined /\ joined \in HeapBlock
  <2>1. joined \in HeapBlock
    BY <1>4, <1>8 DEF HeapBlock, NULL
  <2> HIDE DEF joined
  <2> QED BY <1>3, <2>1
<1>10. ASSUME NEW j \in 1 .. n
       PROVE  /\ Block(j) \in Nat /\ Block(j) < given
              /\ Block(j) = live[j].block /\ At(blocks', Block(j)) = Header(Block(j))
  <2>1. j \in Here /\ j \in All /\ n + 1 \in All /\ j < n + 1
    BY <1>7
  <2>2. Block(j) \in Nat /\ Block(j) = live[j].block
    BY <1>4, <2>1, Apartness, BlockIs
  <2>3. Block(j) < Block(n + 1)
    BY <1>4, <2>1, Apartness
  <2> QED BY <1>3, <1>7, <1>8, <2>2, <2>3
<1> HIDE DEF joined
<1>11. live' \in Seq([block : Nat, words : {r.words : r \in Callers}])
  <2> DEFINE Claims == [block : Nat, words : {r.words : r \in Callers}]
  <2>1. live \in Seq(Claims)
    BY <1>4 DEF TypeInv
  <2> HIDE DEF Claims
  <2>2. live' = SubSeq(live, 1, k - 1) \o SubSeq(live, k + 1, Len(live))
    BY DEF Kfree
  <2>3. k = Len(live)
    BY <1>1, KfreeDoes
  <2>4. SubSeq(live, 1, k - 1) \in Seq(Claims)
    BY <1>6, <2>1, <2>3
  <2>5. SubSeq(live, k + 1, Len(live)) \in Seq(Claims)
    BY <1>6, <2>1, <2>3
  <2> QED BY <2>2, <2>4, <2>5 DEF Claims
<1>12. live' = << >> <=> n = 0
  BY <1>2, <1>6, <1>11, EmptySeq
<1>13. FreeBlock' = given
  <2>1. CASE n = 0
    BY <1>4, <1>5, <1>7, <1>12, <2>1 DEF FreeBlock, LinkInv
  <2>2. CASE n # 0
    <3>1. n \in 1 .. n /\ n \in Here
      BY <1>7, <2>2
    <3>2. Len(live') = n /\ live'[n] = live[n]
      BY <1>2, <1>6, <1>7, <3>1
    <3>3. FreeBlock' = At(blocks', live[n].block).next
      BY <1>12, <2>2, <3>2 DEF FreeBlock, Header
    <3>4. Header(Block(n)).next = Block(n + 1)
      BY <1>4, <3>1 DEF HeldInv
    <3> QED BY <1>7, <1>10, <3>1, <3>3, <3>4
  <2> QED BY <2>1, <2>2
<1>14. \A j \in 1 .. n + 1 : Block(j)' = Block(j)
  <2>1. \A j \in 1 .. n : Block(j)' = Block(j)
    BY <1>2, <1>6, <1>7 DEF Block
  <2>2. Block(n + 1)' = given
    BY <1>2, <1>6, <1>13 DEF Block
  <2> QED BY <1>7, <2>1, <2>2
<1>15. TypeInv'
  <2>1. \A a : At(blocks', a) \in HeapBlock
    BY <1>3, <1>4, <1>9, HeaderType
  <2>2. \A a \in DOMAIN blocks' : blocks'[a] \in HeapBlock
    BY <2>1 DEF At
  <2> QED BY <1>4, <1>5, <1>11, <2>2 DEF TypeInv
<1>16. CallInv'
  BY <1>1, <1>2, <1>4, <1>5 DEF CallInv, TypeInv
<1>17. FreshInv'
  <2>1. ASSUME NEW a \in DOMAIN blocks', blocks'[a].next # NULL
        PROVE  \E j \in Here' : a = live'[j].block
    <3>1. At(blocks', a).next # NULL
      BY <2>1 DEF At
    <3>2. a # given /\ Header(a).next # NULL
      BY <1>3, <1>9, <3>1 DEF joined
    <3>3. PICK j \in Here : a = live[j].block
      BY <1>4, <3>2, FreshMemory
    <3>4. j \in 1 .. n
      BY <1>7, <1>8, <3>2, <3>3
    <3> QED BY <1>7, <3>3, <3>4
  <2> QED BY <2>1 DEF FreshInv
<1>18. HeldInv'
  <2>1. ASSUME NEW j \in 1 .. n
        PROVE  /\ ~Header(Block(j))'.free
               /\ Header(Block(j))'.size >= live'[j].words + HeaderWords
               /\ Header(Block(j))'.next = Block(j + 1)'
               /\ Beyond(Block(j))' = Block(j + 1)'
    <3>1. Block(j)' = Block(j) /\ Block(j + 1)' = Block(j + 1) /\ live'[j] = live[j]
      BY <1>7, <1>14
    <3>2. /\ Header(Block(j))' = Header(Block(j))
          /\ Beyond(Block(j))' = PointerPlus(Block(j), Header(Block(j)).size)
      BY <1>10, <3>1, NextHeaders
    <3>3. j \in Here
      BY <1>7
    <3> QED BY <1>4, <3>1, <3>2, <3>3 DEF HeldInv, Beyond
  <2> QED BY <1>7, <2>1 DEF HeldInv
<1>19. TailInv'
  <2>1. Header(FreeBlock)' = joined /\ Beyond(FreeBlock)' = PointerPlus(given, joined.size)
    BY <1>9, <1>13, NextHeaders
  <2>2. joined.free /\ joined.next = NULL /\ joined.size = Header(given).size + Header(FreeBlock).size
    BY DEF joined
  <2>3. Header(given).size \in Nat /\ Header(FreeBlock).size \in Nat
    BY <1>4, <1>8 DEF HeapBlock
  <2>4. PointerPlus(given, Header(given).size) = FreeBlock
    <3>1. n + 1 \in Here /\ (n + 1) + 1 = n + 2
      BY <1>7
    <3> QED BY <1>4, <1>7, <3>1 DEF HeldInv, Beyond
  <2>5. PointerPlus(given, joined.size) = PointerPlus(FreeBlock, Header(FreeBlock).size)
    BY <1>8, <2>2, <2>3, <2>4 DEF PointerPlus, SizeOfHeapBlock
  <2> QED BY <1>4, <1>5, <2>1, <2>2, <2>5 DEF TailInv, Beyond
<1>20. LinkInv'
  <2>1. heapStart' = PageWords /\ Block(1)' = PageWords /\ blockCount' = Len(live') + 1
    BY <1>2, <1>4, <1>5, <1>6, <1>14 DEF LinkInv
  <2>2. \A j \in All' : Block(j)' \in Nat /\ Block(j)' >= PageWords
    BY <1>4, <1>7, <1>14 DEF LinkInv
  <2>3. ASSUME NEW j \in All'
        PROVE  Header(Block(j))'.prev = IF j = 1 THEN NULL ELSE Block(j - 1)'
    <3>1. Block(j)' = Block(j) /\ (j # 1 => Block(j - 1)' = Block(j - 1))
      BY <1>7, <1>14
    <3>2. At(blocks', Block(j)).prev = Header(Block(j)).prev
      <4>1. CASE j \in 1 .. n
        BY <1>10, <4>1
      <4>2. CASE j = n + 1
        BY <1>7, <1>9, <4>2 DEF joined
      <4> QED BY <1>7, <4>1, <4>2
    <3>3. Header(Block(j)).prev = IF j = 1 THEN NULL ELSE Block(j - 1)
      BY <1>4, <1>7 DEF LinkInv
    <3> QED BY <3>1, <3>2, <3>3, NextHeaders
  <2>4. ASSUME NEW i \in All', NEW j \in All', i < j
        PROVE  Beyond(Block(i))' <= Block(j)'
    <3>1. i \in 1 .. n /\ j \in 1 .. n + 1
      BY <1>7, <2>4
    <3>2. Block(i)' = Block(i) /\ Block(j)' = Block(j)
      BY <1>14, <3>1
    <3>3. Beyond(Block(i))' = Beyond(Block(i))
      BY <1>10, <3>1, <3>2, NextHeaders DEF Beyond
    <3>4. Beyond(Block(i)) <= Block(j)
      BY <1>4, <1>7, <2>4, <3>1 DEF LinkInv
    <3> QED BY <3>2, <3>3, <3>4
  <2> QED BY <2>1, <2>2, <2>3, <2>4 DEF LinkInv
<1> QED BY <1>7, <1>14, <1>15, <1>16, <1>17, <1>18, <1>19, <1>20 DEF IInv

LEMMA InitializeKeeps ==
  ASSUME IInv, InitializeHeap
  PROVE  IInv'
<1> DEFINE first == [size |-> PageWords + HeaderWords, free |-> TRUE, prev |-> NULL, next |-> NULL]
<1>1. /\ TypeInv /\ live = << >> /\ pages = 0 /\ kept = 0 /\ wanted = NoRequest
      /\ PageWords \in Nat /\ PageWords > 3
  <2>1. TypeInv /\ live = << >> /\ pages = 0
    BY DEF IInv, CallInv, InitializeHeap
  <2>2. Len(live) = 0
    BY <2>1
  <2>3. kept = 0 /\ wanted = NoRequest
    BY <2>1, <2>2 DEF IInv, CallInv, TypeInv, InitializeHeap
  <2> QED BY <2>1, <2>3, HeapAssumption
<1>2. RequestPage = PageWords /\ pages' = 1
  BY <1>1, HeapAssumption DEF RequestPage, InitializeHeap, Take
<1>3. /\ heapStart' = PageWords /\ blockCount' = 1 /\ live' = << >> /\ kept' = 0
      /\ wanted' = NoRequest /\ size' = size /\ booted' = booted
      /\ blocks' = Put(blocks, PageWords, first)
  BY <1>1, <1>2 DEF InitializeHeap
<1>4. blocks = << >>
  BY DEF IInv, CallInv, InitializeHeap
<1>5. \A a : At(blocks', a) = IF a = PageWords THEN first ELSE Fresh
  <2>1. \A a : At(blocks, a) = Fresh
    BY <1>4 DEF At
  <2> HIDE DEF first
  <2> QED BY <1>3, <2>1, AtPut
<1>6. FreeBlock' = PageWords
  BY <1>3 DEF FreeBlock
<1>7. Len(live') = 0 /\ Here' = {} /\ All' = {1} /\ Block(1)' = PageWords
  BY <1>3, <1>6 DEF Here, All, Block
<1>8. At(blocks', PageWords) = first
  <2> HIDE DEF first
  <2> QED BY <1>5
<1>9. TypeInv'
  <2>1. first \in HeapBlock /\ Fresh \in HeapBlock
    BY <1>1 DEF HeapBlock, HeaderWords, Fresh, NULL
  <2>2. \A a : At(blocks', a) \in HeapBlock
    <3> HIDE DEF first
    <3> QED BY <1>5, <2>1
  <2>3. \A a \in DOMAIN blocks' : blocks'[a] \in HeapBlock
    BY <2>2 DEF At
  <2>4. live' \in Seq([block : Nat, words : {r.words : r \in Callers}])
    BY <1>3
  <2> QED BY <1>1, <1>2, <1>3, <2>3, <2>4 DEF TypeInv
<1>10. CallInv'
  BY <1>1, <1>3, <1>7 DEF CallInv, NULL
<1>11. FreshInv'
  <2>1. \A a : At(blocks', a).next = NULL
    BY <1>5 DEF Fresh
  <2> QED BY <2>1 DEF FreshInv, At
<1>12. HeldInv'
  BY <1>7 DEF HeldInv
<1>13. TailInv'
  <2>1. Header(FreeBlock)' = first /\ Beyond(FreeBlock)' = PointerPlus(PageWords, first.size)
    BY <1>6, <1>8, NextHeaders
  <2>2. pages' * (PageWords + HeaderWords) = PageWords + HeaderWords
    BY <1>1, <1>2 DEF HeaderWords
  <2> QED BY <2>1, <2>2 DEF TailInv
<1>14. LinkInv'
  <2>1. Header(Block(1))' = first
    BY <1>7, <1>8, NextHeaders
  <2> QED BY <1>1, <1>3, <1>7, <2>1 DEF LinkInv
<1> QED BY <1>9, <1>10, <1>11, <1>12, <1>13, <1>14 DEF IInv

LEMMA KmallocKeeps ==
  ASSUME ~AnyOrder, IInv, Kmalloc
  PROVE  IInv'
<1>1. /\ TypeInv /\ CallInv /\ FreshInv /\ HeldInv /\ TailInv /\ LinkInv /\ Len(live) \in Nat
  BY ListParts DEF Kmalloc
<1>2. /\ size' = wanted'.words /\ kept' = Len(live)
      /\ heapStart # NULL
      /\ UNCHANGED <<heapStart, heapEnd, blockCount, blocks, pages, live, written>>
  BY DEF Kmalloc
<1>3. wanted' \in Callers /\ wanted'.words \in Nat /\ booted' \in 0 .. Len(Boot)
  <2>1. Boot \in Seq(Request) /\ booted \in 0 .. Len(Boot)
    BY <1>1, HeapAssumption DEF TypeInv
  <2>2. CASE booted < Len(Boot) /\ wanted' = Boot[booted + 1] /\ booted' = booted + 1
    BY <2>1, <2>2, RequestType
  <2>3. CASE wanted' \in Requests /\ wanted'.words # 0 /\ booted' = booted
    BY <2>1, <2>3, RequestType DEF Callers
  <2> QED BY <2>2, <2>3 DEF Kmalloc
<1>4. TypeInv'
  BY <1>1, <1>2, <1>3 DEF TypeInv
<1>5. CallInv'
  BY <1>1, <1>2, <1>3 DEF CallInv
<1>6. FreshInv' /\ HeldInv' /\ TailInv' /\ LinkInv'
  BY <1>1, <1>2 DEF FreshInv, HeldInv, TailInv, LinkInv, Here, All, Header, Beyond, Block, FreeBlock
<1> QED BY <1>4, <1>5, <1>6 DEF IInv

LEMMA InitHolds ==
  ASSUME Init
  PROVE  IInv
<1>1. TypeInv
  BY DEF Init, TypeInv, NULL
<1>2. CallInv
  BY DEF Init, CallInv
<1>3. FreshInv
  BY DEF Init, FreshInv
<1> QED BY <1>1, <1>2, <1>3 DEF IInv, Init

LEMMA NextKeeps ==
  ASSUME ~AnyOrder, IInv, PagesApart, [Next]_vars
  PROVE  IInv'
<1>1. CASE InitializeHeap
  BY <1>1, InitializeKeeps
<1>2. CASE Kmalloc
  BY <1>2, KmallocKeeps
<1>3. CASE Split
  BY <1>3, SplitKeeps
<1>4. CASE Expand
  BY <1>4, ExpandKeeps
<1>5. CASE \E k \in kept + 1 .. Len(live) : Kfree(k)
  BY <1>5, KfreeKeeps
<1>6. CASE UNCHANGED vars
  <2>1. /\ heapStart' = heapStart /\ blockCount' = blockCount /\ blocks' = blocks
        /\ pages' = pages /\ wanted' = wanted /\ size' = size /\ live' = live
        /\ kept' = kept /\ written' = written /\ booted' = booted
    BY <1>6 DEF vars
  <2>2. TypeInv' /\ CallInv' /\ FreshInv'
    BY <2>1 DEF IInv, TypeInv, CallInv, FreshInv, Here
  <2>3. heapStart # NULL => HeldInv' /\ TailInv' /\ LinkInv'
    BY <2>1 DEF IInv, HeldInv, TailInv, LinkInv, Here, All, Header, Beyond, Block, FreeBlock
  <2> QED BY <2>1, <2>2, <2>3 DEF IInv
<1> QED BY <1>1, <1>2, <1>3, <1>4, <1>5, <1>6 DEF Next

(* Whatever is asked for, and whatever the drive: the list is right up to  *)
(* the first page that does not lie apart.                                 *)
LEMMA ListInvariance ==
  ASSUME ~AnyOrder
  PROVE  Spec /\ []PagesApart => []IInv
<1>1. Init => IInv
  BY InitHolds
<1>2. IInv /\ PagesApart /\ [Next]_vars => IInv'
  BY NextKeeps
<1> QED BY <1>1, <1>2, PTL DEF Spec

-----------------------------------------------------------------------------
(* The numbers of the calls while the system starts.                       *)
LEMMA Ceiling ==
  \A x, p \in Int : p >= (x + 510) \div 511 <=> 511 * p >= x
OBVIOUS

(* The size that kmalloc calls itself with is a header and an even number  *)
(* of words: one word more for it to be even again, and three for another. *)
LEMMA FourMore ==
  ASSUME NEW w \in Nat, NEW j \in Nat
  PROVE  /\ BlockWords(w) \in Nat /\ BlockWords(w) >= w + 3
         /\ BlockWords(BlockWords(w) + 4 * j) = BlockWords(w) + 4 * (j + 1)
<1>1. PICK h \in Nat : w + (w % 2) = 2 * h
  <2>1. w = 2 * (w \div 2) + (w % 2) /\ w \div 2 \in Nat /\ w % 2 \in 0 .. 1
    OBVIOUS
  <2>2. w + (w % 2) = 2 * ((w \div 2) + (w % 2)) /\ (w \div 2) + (w % 2) \in Nat
    BY <2>1
  <2> QED BY <2>2
<1>2. BlockWords(w) = 2 * h + 3 /\ w % 2 \in 0 .. 1
  BY <1>1 DEF BlockWords, HeaderWords
<1>3. (2 * h + 3 + 4 * j) % 2 = 1
  OBVIOUS
<1>4. BlockWords(2 * h + 3 + 4 * j) = 2 * h + 3 + 4 * (j + 1)
  BY <1>3 DEF BlockWords, HeaderWords
<1> QED BY <1>1, <1>2, <1>4

LEMMA FlagNumbers ==
  ASSUME FlagsSuit
  PROVE  /\ PageWords = 512 /\ Gain = 511 /\ Len(Boot) \in Nat /\ Len(Boot) >= 2
         /\ Boot[1] \in Callers /\ Boot[2] \in Callers /\ ~Boot[1].keep /\ Boot[2].keep
         /\ DiskSizePages \in Nat /\ DiskSizePages >= 1
         /\ FlagPages \in Nat /\ FlagPages >= DiskSizePages
         /\ 584 + Boot[1].filled <= 1024
         /\ 584 + Boot[2].filled <= 512 * (FlagPages + 1)
         /\ \A p \in Nat : 511 * p >= BlockWords(Boot[1].words) - 4 <=> p >= DiskSizePages
         /\ \A p \in Nat : p >= DiskSizePages =>
              (511 * p >= BlockWords(Boot[2].words) - 4 * DiskSizePages <=> p >= FlagPages)
<1>1. PageWords = 512 /\ Gain = 511 /\ Len(Boot) >= 2 /\ ~Boot[1].keep /\ Boot[2].keep
  BY DEF FlagsSuit, Gain, HeaderWords
<1>2. Len(Boot) \in Nat /\ Boot[1] \in Callers /\ Boot[2] \in Callers
  <2>1. Boot \in Seq(Request)
    BY HeapAssumption
  <2>2. Len(Boot) \in Nat /\ 1 \in DOMAIN Boot /\ 2 \in DOMAIN Boot
    BY <1>1, <2>1
  <2> QED BY <2>2, RequestType
<1> DEFINE e1 == BlockWords(Boot[1].words)
           e2 == BlockWords(Boot[2].words)
<1>3. e1 \in Nat /\ e1 >= 4 /\ e2 \in Nat
  <2>1. Boot[1].words \in Nat /\ Boot[1].words >= 1 /\ Boot[2].words \in Nat
    BY <1>2, RequestType
  <2>2. \A w \in Nat : BlockWords(w) \in Nat /\ BlockWords(w) >= w + 3
    <3>1. 0 \in Nat
      OBVIOUS
    <3> QED BY <3>1, FourMore
  <2> QED BY <2>1, <2>2
<1>4. DiskSizePages = ((e1 - 4) + 510) \div 511
  <2>1. e1 - 4 + 511 - 1 = (e1 - 4) + 510
    BY <1>3
  <2> QED BY <1>1, <2>1 DEF DiskSizePages
<1> HIDE DEF e1, e2
<1>5. DiskSizePages \in Int
  BY <1>3, <1>4
<1>6. \A p \in Int : p >= DiskSizePages <=> 511 * p >= e1 - 4
  BY <1>3, <1>4, Ceiling
<1>7. DiskSizePages >= 1
  <2>1. e1 >= 5
    <3>1. Boot[1].words \in Nat /\ Boot[1].words >= 1
      BY <1>2, RequestType
    <3>2. Boot[1].words % 2 \in 0 .. 1 /\ (Boot[1].words = 1 => Boot[1].words % 2 = 1)
      BY <3>1
    <3> QED BY <3>1, <3>2 DEF e1, BlockWords, HeaderWords
  <2>2. ~(0 >= DiskSizePages)
    BY <1>3, <1>6, <2>1
  <2> QED BY <1>5, <2>2
<1> DEFINE q == ((e2 - 4 * DiskSizePages) + 510) \div 511
<1>8. FlagPages = Max({DiskSizePages, q})
  <2>1. e2 - 4 * DiskSizePages + 511 - 1 = (e2 - 4 * DiskSizePages) + 510
    BY <1>3, <1>5
  <2> QED BY <1>1, <2>1 DEF FlagPages, e2
<1>9. q \in Int /\ \A p \in Int : p >= q <=> 511 * p >= e2 - 4 * DiskSizePages
  BY <1>3, <1>5, Ceiling
<1> HIDE DEF q
<1>10. FlagPages = IF DiskSizePages >= q THEN DiskSizePages ELSE q
  BY <1>5, <1>8, <1>9 DEF Max
<1>11. /\ 584 + Boot[1].filled <= 1024
       /\ 584 + Boot[2].filled <= 512 * (FlagPages + 1)
  BY <1>1 DEF FlagsSuit, Payload, PointerPlus, HeaderWords, SizeOfHeapBlock
<1> QED BY <1>1, <1>2, <1>5, <1>6, <1>7, <1>9, <1>10, <1>11 DEF e1, e2

LEMMA FlagsEndType ==
  ASSUME FlagsSuit
  PROVE  FlagsEnd \in Nat /\ FlagsEnd >= 512
<1>1. PageWords = 512 /\ Boot[2] \in Callers
  BY FlagNumbers
<1>2. Boot[2].words \in Nat /\ 0 \in Nat
  BY <1>1, RequestType
<1>3. BlockWords(Boot[2].words) \in Nat
  BY <1>2, FourMore
<1> QED BY <1>1, <1>3 DEF FlagsEnd, PointerPlus, SizeOfHeapBlock

(* Products of numbers that grow.                                          *)
LEMMA Products ==
  \A a, b, c \in Nat : a <= b => a * c <= b * c /\ a * c \in Nat
<1>1. ASSUME NEW a \in Nat, NEW b \in Nat, NEW c \in Nat, a <= b
      PROVE  a * c <= b * c /\ a * c \in Nat
  <2>1. PICK d \in Nat : b = a + d
    <3>1. b - a \in Nat /\ b = a + (b - a)
      BY <1>1
    <3> QED BY <3>1
  <2>2. b * c = a * c + d * c /\ d * c \in Nat /\ a * c \in Nat
    BY <2>1
  <2> QED BY <2>2
<1> QED BY <1>1

(* A longest block, of which as many as callers may hold fit into so many  *)
(* pages that all of them begin before the block of the flags ends.        *)
LEMMA Reaches ==
  ASSUME FlagsSuit
  PROVE  \E reach \in 1 .. MaxPages, longest \in Nat :
           /\ 512 * reach + 3 <= FlagsEnd
           /\ MaxLive * longest <= 515 * reach
           /\ MaxLive > 0 => \A r \in Callers : MostWords(r) <= longest
<1>1. PICK reach \in 1 .. MaxPages :
        /\ 512 * reach + 3 <= FlagsEnd
        /\ \A r \in Callers : MaxLive * MostWords(r) <= 515 * reach
  BY FlagNumbers DEF FlagsSuit, FlagsEnd, HeaderWords
<1>2. MaxLive \in Nat /\ reach \in Nat /\ MaxPages \in Nat
  BY HeapAssumption
<1>3. CASE MaxLive = 0
  <2>1. MaxLive * 0 <= 515 * reach /\ 0 \in Nat
    BY <1>2
  <2> QED BY <1>1, <1>3, <2>1
<1>4. CASE MaxLive > 0
  <2> DEFINE bound == 515 * reach
             Over == {y \in Nat : MaxLive * (y + 1) > bound}
  <2>1. bound \in Nat
    BY <1>2
  <2> HIDE DEF bound
  <2>2. \A y \in Nat : y <= MaxLive * y
    <3>1. \A y \in Nat : 1 * y <= MaxLive * y
      <4>1. 1 <= MaxLive /\ 1 \in Nat
        BY <1>2, <1>4
      <4> QED BY <1>2, <4>1, Products, Zenon
    <3> QED BY <3>1
  <2>3. bound \in Over
    <3>1. bound + 1 <= MaxLive * (bound + 1)
      BY <2>1, <2>2
    <3>2. MaxLive * (bound + 1) > bound
      <4>1. PICK m \in Nat : m = MaxLive * (bound + 1)
        BY <1>2, <2>1
      <4> QED BY <2>1, <3>1, <4>1
    <3> QED BY <2>1, <3>2
  <2>4. PICK longest \in Over : \A n \in Over : longest <= n
    <3>1. Over \in SUBSET Nat /\ Over # {}
      BY <2>3
    <3> HIDE DEF Over
    <3> QED BY <3>1, LeastNat
  <2>5. longest \in Nat /\ MaxLive * (longest + 1) > bound
    BY <2>4
  <2>6. MaxLive * longest <= bound
    <3>1. CASE longest = 0
      BY <1>2, <2>1, <3>1
    <3>2. CASE longest # 0
      <4>1. longest - 1 \in Nat /\ longest - 1 \notin Over
        BY <2>4, <2>5, <3>2
      <4>2. ~(MaxLive * ((longest - 1) + 1) > bound)
        BY <4>1
      <4>3. (longest - 1) + 1 = longest
        BY <2>5
      <4>4. ~(MaxLive * longest > bound)
        BY <4>2, <4>3
      <4>5. PICK m \in Nat : m = MaxLive * longest
        BY <1>2, <2>5
      <4> QED BY <2>1, <4>4, <4>5
    <3> QED BY <3>1, <3>2
  <2>7. ASSUME NEW r \in Callers PROVE MostWords(r) <= longest
    <3> DEFINE x == MostWords(r)
    <3>1. x \in Nat
      <4>1. r.words \in Nat /\ Gain = 511
        <5>1. Gain = 511
          BY FlagNumbers
        <5>2. r.words \in Nat
          BY RequestType
        <5> QED BY <5>1, <5>2
      <4>2. BlockWords(r.words) \in Nat
        BY <4>1, FourMore
      <4>3. \A w \in Nat : w \div 511 \in Nat
        OBVIOUS
      <4> QED BY <4>1, <4>2, <4>3 DEF MostWords
    <3>2. MaxLive * x <= bound
      BY <1>1 DEF bound
    <3> HIDE DEF x
    <3>3. CASE longest + 1 <= x
      <4>1. (longest + 1) * MaxLive <= x * MaxLive
        <5>1. longest + 1 \in Nat
          BY <2>5
        <5> QED BY <1>2, <3>1, <3>3, <5>1, Products
      <4>2. MaxLive * (longest + 1) <= MaxLive * x
        BY <1>2, <2>5, <3>1, <4>1
      <4>3. PICK a, b \in Nat : a = MaxLive * (longest + 1) /\ b = MaxLive * x
        <5>1. MaxLive * (longest + 1) \in Nat /\ MaxLive * x \in Nat
          BY <1>2, <2>5, <3>1
        <5> QED BY <5>1
      <4> QED BY <2>1, <2>5, <3>2, <4>2, <4>3
    <3>4. CASE x <= longest
      BY <3>4 DEF x
    <3> QED BY <2>5, <3>1, <3>3, <3>4
  <2> QED BY <1>1, <2>5, <2>6, <2>7 DEF bound
<1> QED BY <1>2, <1>3, <1>4

-----------------------------------------------------------------------------
(* What the invariant says of the list.                                    *)
LEMMA ListedBlocks ==
  ASSUME TypeInv, HeldInv, TailInv, LinkInv
  PROVE  Listed = {Block(k) : k \in All} /\ Cardinality(Listed) = blockCount
<1>1. /\ Len(live) \in Nat /\ blockCount = Len(live) + 1
      /\ Block(Len(live) + 1) = FreeBlock
  BY LiveType, BlockIs DEF LinkInv
<1>2. \A i \in Nat : Walk[i] = IF i < Len(live) THEN Block(i + 1) ELSE FreeBlock
  BY WalkSeen
<1>3. \A k \in All : Block(k) # NULL
  BY HeapAssumption DEF LinkInv, NULL
<1>4. ASSUME NEW b \in Listed PROVE b \in {Block(k) : k \in All}
  <2>1. PICK i \in 0 .. blockCount : b = Walk[i]
    BY DEF Listed
  <2>2. CASE i < Len(live)
    <3>1. b = Block(i + 1) /\ i + 1 \in All
      BY <1>1, <1>2, <2>1, <2>2 DEF All
    <3> QED BY <3>1
  <2>3. CASE i >= Len(live)
    <3>1. b = Block(Len(live) + 1) /\ Len(live) + 1 \in All
      BY <1>1, <1>2, <2>1, <2>3 DEF All
    <3> QED BY <3>1
  <2> QED BY <1>1, <2>1, <2>2, <2>3
<1>5. ASSUME NEW k \in All PROVE Block(k) \in Listed
  <2>1. k - 1 \in 0 .. blockCount /\ k - 1 \in Nat
    BY <1>1 DEF All
  <2>2. Walk[k - 1] = Block(k)
    BY <1>1, <1>2, <2>1 DEF All
  <2> QED BY <1>3, <2>1, <2>2 DEF Listed
<1>6. Listed = {Block(k) : k \in All}
  BY <1>4, <1>5
<1> DEFINE f == [k \in All |-> Block(k)]
<1>7. f \in Bijection(All, Listed)
  <2>1. f \in [All -> Listed]
    BY <1>5
  <2>2. ASSUME NEW j \in All, NEW k \in All, f[j] = f[k] PROVE j = k
    <3>1. j \in Nat /\ k \in Nat /\ Block(j) \in Nat /\ Block(k) \in Nat
      BY <1>1 DEF All, LinkInv
    <3>2. Block(j) = Block(k)
      BY <2>2
    <3>3. ~(j < k) /\ ~(k < j)
      BY <3>1, <3>2, Apartness
    <3> QED BY <3>1, <3>3
  <2>3. \A b \in Listed : \E k \in All : f[k] = b
    BY <1>6
  <2> HIDE DEF f
  <2>4. f \in Injection(All, Listed)
    <3>1. IsInjective(f)
      BY <2>1, <2>2 DEF IsInjective
    <3> QED BY <2>1, <3>1 DEF Injection
  <2>5. f \in Surjection(All, Listed)
    BY <2>1, <2>3 DEF Surjection
  <2> QED BY <2>4, <2>5 DEF Bijection
<1>8. IsFiniteSet(All) /\ Cardinality(All) = Len(live) + 1
  <2>1. 1 \in Int /\ Len(live) + 1 \in Int
    BY <1>1
  <2> QED BY <1>1, <2>1, FS_Interval DEF All
<1>9. ExistsBijection(All, Listed)
  BY <1>7 DEF ExistsBijection
<1> QED BY <1>1, <1>6, <1>8, <1>9, FS_Bijection

-----------------------------------------------------------------------------
(* The free block has the words of the pages that the others have not.     *)
LEMMA FreeSize ==
  ASSUME IInv, heapStart # NULL, PageWords = 512
  PROVE  /\ FreeBlock + 24 * Header(FreeBlock).size = 512 + 24 * (515 * pages)
         /\ FreeBlock \in Nat /\ FreeBlock >= 512 /\ pages \in Nat
         /\ Header(FreeBlock).size \in Nat
         /\ live = << >> => FreeBlock = 512 /\ Header(FreeBlock).size = 515 * pages
<1>1. /\ TypeInv /\ TailInv /\ LinkInv /\ Len(live) \in Nat
      /\ Block(Len(live) + 1) = FreeBlock
      /\ FreeBlock \in Nat /\ Header(FreeBlock) \in HeapBlock
  BY ListParts
<1>2. pages \in Nat /\ Header(FreeBlock).size \in Nat
  BY <1>1 DEF TypeInv, HeapBlock
<1>3. FreeBlock + 24 * Header(FreeBlock).size = 512 + 24 * (pages * 515)
  BY <1>1 DEF TailInv, Beyond, PointerPlus, HeaderWords, SizeOfHeapBlock
<1>4. pages * 515 = 515 * pages
  BY <1>2
<1>5. FreeBlock >= 512
  <2>1. Len(live) + 1 \in All
    BY <1>1 DEF All
  <2> QED BY <1>1, <2>1 DEF LinkInv
<1>6. ASSUME live = << >> PROVE FreeBlock = 512
  BY <1>1, <1>6 DEF FreeBlock, LinkInv
<1>7. ASSUME live = << >> PROVE Header(FreeBlock).size = 515 * pages
  BY <1>2, <1>3, <1>6, <1>7
<1> QED BY <1>1, <1>2, <1>3, <1>4, <1>5, <1>6, <1>7

(* A call asks for no more than the longest block.                         *)
LEMMA CallIsShort ==
  ASSUME IInv, AddedInv, wanted # NoRequest, Gain = 511, MaxLive > 0,
         NEW longest \in Nat, \A r \in Callers : MostWords(r) <= longest
  PROVE  Needed \in Nat /\ Needed <= longest
<1>1. wanted \in Callers /\ wanted.words \in Nat
  <2>1. wanted \in Callers
    BY DEF IInv, TypeInv
  <2> QED BY <2>1, RequestType
<1> DEFINE e == BlockWords(wanted.words)
<1>2. PICK j \in Nat : Needed = e + 4 * j /\ (j = 0 \/ 511 * (j - 1) < e)
  BY DEF AddedInv
<1>3. e \in Nat
  BY <1>1, FourMore
<1>4. e + 4 * (e \div 511 + 1) <= longest
  BY <1>1 DEF MostWords
<1> HIDE DEF e
<1>5. PICK d \in Nat : d = e \div 511 /\ e < 511 * (d + 1)
  <2>1. e \div 511 \in Nat /\ e < 511 * (e \div 511 + 1)
    BY <1>3
  <2> QED BY <2>1
<1>6. j <= d + 1
  BY <1>2, <1>3, <1>5
<1> QED BY <1>2, <1>3, <1>4, <1>5, <1>6

(* When no block fits, the pages so far are less than those that the       *)
(* allocations can cost.                                                   *)
LEMMA PagesLeft ==
  ASSUME FlagsSuit, NEW reach \in 1 .. MaxPages, NEW longest \in Nat,
         MaxLive * longest <= 515 * reach,
         MaxLive > 0 => \A r \in Callers : MostWords(r) <= longest,
         IInv, PagesInv(longest), wanted # NoRequest, Fitting = {}
  PROVE  /\ heapStart # NULL /\ Header(FreeBlock).size < Needed
         /\ Needed \in Nat /\ pages \in Nat /\ pages + 1 <= reach
<1>1. PageWords = 512 /\ Gain = 511
  BY FlagNumbers
<1>2. heapStart # NULL /\ AddedInv /\ LengthInv(longest) /\ Len(live) < MaxLive
  BY DEF IInv, CallInv, PagesInv, AddedInv
<1>3. /\ TypeInv /\ HeldInv /\ TailInv /\ LinkInv /\ Len(live) \in Nat
      /\ Block(Len(live) + 1) = FreeBlock
  BY <1>2, ListParts
<1>4. MaxLive \in Nat /\ MaxLive > 0 /\ reach \in Nat
  BY <1>2, <1>3, HeapAssumption
<1>5. Needed \in Nat /\ Needed <= longest
  BY <1>1, <1>2, <1>4, CallIsShort
<1>6. /\ FreeBlock + 24 * Header(FreeBlock).size = 512 + 24 * (515 * pages)
      /\ FreeBlock \in Nat /\ pages \in Nat /\ Header(FreeBlock).size \in Nat
  BY <1>1, <1>2, FreeSize
<1>7. Header(FreeBlock).size < Needed
  <2>1. Len(live) \in 0 .. blockCount - 1 /\ Len(live) \notin Fitting
    BY <1>3 DEF LinkInv
  <2>2. ~Fits(Walk[Len(live)])
    BY <2>1 DEF Fitting
  <2>3. Walk[Len(live)] = FreeBlock
    BY <1>3, WalkSeen
  <2>4. ~(Header(FreeBlock).size >= Needed)
    BY <1>3, <2>2, <2>3 DEF Fits, Header, TailInv
  <2> QED BY <1>5, <1>6, <2>4
<1>8. FreeBlock <= 512 + 24 * (Len(live) * longest)
  <2>1. Len(live) + 1 \in All
    BY <1>3 DEF All
  <2>2. PICK k \in All : k = Len(live) + 1
    BY <2>1
  <2>3. Block(k) <= PointerPlus(PageWords, (k - 1) * longest) /\ k - 1 = Len(live)
    BY <1>2, <1>3, <2>2 DEF LengthInv
  <2> QED BY <1>1, <1>3, <2>2, <2>3 DEF PointerPlus, SizeOfHeapBlock
<1>9. PICK n \in Nat : n = Len(live)
  BY <1>3
<1>10. n * longest + longest <= MaxLive * longest /\ n * longest \in Nat
  <2>1. n + 1 \in Nat /\ n + 1 <= MaxLive
    BY <1>2, <1>4, <1>9
  <2>2. (n + 1) * longest <= MaxLive * longest /\ n * longest \in Nat
    BY <1>4, <2>1, Products
  <2>3. (n + 1) * longest = n * longest + longest
    OBVIOUS
  <2> QED BY <2>2, <2>3
<1>11. PICK m \in Nat : m = n * longest
  BY <1>10
<1>12. m + longest <= 515 * reach
  <2>1. PICK x \in Nat : x = MaxLive * longest
    BY <1>4
  <2> QED BY <1>4, <1>10, <1>11, <2>1
<1>13. FreeBlock <= 512 + 24 * m
  BY <1>8, <1>9, <1>11
<1>14. 515 * pages < 515 * reach
  BY <1>4, <1>5, <1>6, <1>7, <1>12, <1>13
<1>15. pages < reach
  BY <1>4, <1>6, <1>14
<1> QED BY <1>2, <1>4, <1>5, <1>6, <1>7, <1>15

(* So the page that Expand gets is another, and apart from all that is in  *)
(* use.                                                                    *)
LEMMA PagesAreApart ==
  ASSUME FlagsSuit, NEW reach \in 1 .. MaxPages, NEW longest \in Nat,
         512 * reach + 3 <= FlagsEnd, MaxLive * longest <= 515 * reach,
         MaxLive > 0 => \A r \in Callers : MostWords(r) <= longest,
         IInv, PagesInv(longest)
  PROVE  PagesApart
<1> SUFFICES ASSUME wanted # NoRequest, Fitting = {}
    PROVE  /\ RequestPage # NULL
           /\ \A r \in Headers(Listed) \cup written :
                Apart(r, [first |-> RequestPage, words |-> HeaderWords])
  BY DEF PagesApart
<1>1. heapStart # NULL /\ pages \in Nat /\ pages + 1 <= reach
  BY PagesLeft
<1>2. /\ PageWords = 512 /\ FlagPages \in Nat /\ FlagPages >= 1
      /\ 584 + Boot[1].filled <= 1024 /\ Boot[1].filled \in Nat
  <2>1. Boot[1] \in Callers
    BY FlagNumbers
  <2>2. Boot[1].filled \in Nat
    BY <2>1, RequestType
  <2>3. /\ PageWords = 512 /\ FlagPages \in Nat /\ FlagPages >= DiskSizePages
        /\ DiskSizePages \in Nat /\ DiskSizePages >= 1 /\ 584 + Boot[1].filled <= 1024
    BY FlagNumbers
  <2> QED BY <2>2, <2>3
<1>3. /\ TypeInv /\ HeldInv /\ TailInv /\ LinkInv /\ Len(live) \in Nat
      /\ Block(Len(live) + 1) = FreeBlock
  BY <1>1, ListParts
<1>4. reach \in Nat /\ MaxPages \in Nat /\ reach <= MaxPages
  BY HeapAssumption
<1>5. RequestPage = 512 * (pages + 1) /\ RequestPage # NULL
  BY <1>1, <1>2, <1>4 DEF RequestPage, NULL
<1>6. BootInv /\ FlagsInv
  BY DEF PagesInv
<1>7. booted \in Nat /\ booted # 0 /\ (booted = 1 => live = << >>)
  <2>1. booted \in 0 .. Len(Boot) /\ Len(Boot) \in Nat
    BY <1>3, FlagNumbers DEF TypeInv
  <2> QED BY <1>6, <2>1 DEF BootInv
<1>8. pages >= 1 /\ FlagsEnd \in Nat
  <2>1. DiskSizePages \in Nat /\ DiskSizePages >= 1 /\ FlagsEnd \in Nat
    BY FlagNumbers, FlagsEndType
  <2>2. CASE live = << >> /\ booted = 1
    BY <1>1, <1>6, <2>1, <2>2 DEF BootInv
  <2>3. CASE live = << >> /\ booted >= 2
    BY <1>1, <1>2, <1>6, <2>1, <2>3 DEF BootInv
  <2>4. CASE live # << >>
    BY <1>1, <1>2, <1>6, <1>7, <2>1, <2>4 DEF FlagsInv
  <2> QED BY <1>7, <2>2, <2>3, <2>4
<1>9. ASSUME NEW h, h = [first |-> RequestPage, words |-> HeaderWords], NEW r \in Headers(Listed)
      PROVE  Apart(r, h)
  <2>1. PICK k \in All : r = [first |-> Block(k), words |-> HeaderWords]
    BY <1>3, ListedBlocks DEF Headers
  <2>2. Block(k) \in Nat /\ Block(1) = 512 /\ k \in Nat /\ k >= 1
    BY <1>2, <1>3 DEF LinkInv, All
  <2>3. CASE Block(k) = 512
    BY <1>1, <1>5, <1>8, <1>9, <2>1, <2>3 DEF Apart, HeaderWords
  <2>4. CASE Block(k) # 512
    <3>1. k >= 2 /\ live # << >>
      <4>1. k # 1
        BY <2>2, <2>4
      <4>2. Len(live) # 0
        BY <1>3, <2>2, <4>1 DEF All
      <4> QED BY <2>2, <4>1, <4>2
    <3>2. Block(2) >= FlagsEnd
      BY <1>6, <1>7, <3>1 DEF FlagsInv
    <3>3. Block(2) <= Block(k) /\ Block(2) \in Nat
      <4>1. 2 \in All
        BY <1>3, <2>2, <3>1 DEF All
      <4>2. CASE k = 2
        BY <1>3, <2>2, <4>2
      <4>3. CASE k > 2
        BY <1>3, <4>1, <4>3, Apartness DEF LinkInv
      <4> QED BY <2>2, <3>1, <4>2, <4>3
    <3>4. RequestPage + 3 <= Block(k)
      BY <1>1, <1>4, <1>5, <1>8, <2>2, <3>2, <3>3
    <3> QED BY <1>9, <2>1, <3>4 DEF Apart, HeaderWords
  <2> QED BY <2>3, <2>4
<1>10. ASSUME NEW h, h = [first |-> RequestPage, words |-> HeaderWords], NEW r \in written
      PROVE  Apart(r, h)
  <2>1. CASE live = << >>
    <3>1. r = Run(PageWords, Boot[1].filled) /\ pages >= 1
      <4>1. booted = 1 \/ booted >= 2
        BY <1>7
      <4>2. DiskSizePages \in Nat /\ DiskSizePages >= 1
        BY FlagNumbers
      <4> QED BY <1>1, <1>6, <2>1, <4>1, <4>2 DEF BootInv
    <3>3. r.first = 584 /\ r.words = Boot[1].filled
      BY <1>2, <3>1 DEF Run, Payload, PointerPlus, HeaderWords, SizeOfHeapBlock
    <3> QED BY <1>1, <1>2, <1>5, <1>10, <3>1, <3>3 DEF Apart
  <2>2. CASE live # << >>
    <3>1. pages >= FlagPages
      BY <1>6, <1>7, <2>2 DEF FlagsInv
    <3>2. r.first \in Nat /\ r.words \in Nat
      BY <1>6, <1>7, <2>2 DEF FlagsInv
    <3>3. CASE r.first + r.words <= PageWords * (FlagPages + 1)
      <4>1. PageWords * (FlagPages + 1) <= RequestPage
        BY <1>1, <1>2, <1>5, <3>1
      <4>2. r.first + r.words <= RequestPage
        BY <1>1, <1>2, <1>5, <3>3, <3>2, <4>1
      <4> QED BY <1>10, <4>2 DEF Apart
    <3>4. CASE r.first >= FlagsEnd
      <4>1. RequestPage + 3 <= r.first
        BY <1>1, <1>4, <1>5, <1>8, <3>4, <3>2
      <4> QED BY <1>10, <4>1 DEF Apart, HeaderWords
    <3> QED BY <1>6, <1>7, <2>2, <3>3, <3>4 DEF FlagsInv
  <2> QED BY <2>1, <2>2
<1> QED BY <1>5, <1>9, <1>10

(* Every action keeps the numbers.                                         *)
LEMMA PagesInit ==
  ASSUME Init, NEW longest \in Nat
  PROVE  PagesInv(longest)
BY DEF Init, PagesInv, AddedInv, BootInv, FlagsInv, LengthInv

LEMMA InitializePages ==
  ASSUME IInv, IInv', InitializeHeap, NEW longest \in Nat, PagesInv(longest)
  PROVE  PagesInv(longest)'
<1>1. /\ live = << >> /\ pages = 0 /\ wanted = NoRequest /\ written = {} /\ booted = 0
  <2>1. live = << >> /\ pages = 0 /\ written = {} /\ booted = 0
    BY DEF IInv, CallInv, InitializeHeap, PagesInv, BootInv
  <2> QED BY <2>1 DEF PagesInv, BootInv
<1>2. /\ live' = << >> /\ wanted' = NoRequest /\ written' = {} /\ booted' = 0 /\ pages' = 1
  BY <1>1, HeapAssumption DEF InitializeHeap, Take
<1>3. LengthInv(longest)'
  <2>1. ASSUME heapStart' # NULL, NEW k \in All'
        PROVE  Block(k)' <= PointerPlus(PageWords, (k - 1) * longest)
    <3>1. k = 1
      BY <1>2, <2>1 DEF All
    <3>2. Block(1)' = PageWords
      BY <2>1 DEF IInv, LinkInv
    <3>3. PointerPlus(PageWords, (k - 1) * longest) = PageWords /\ PageWords \in Nat
      BY <3>1, HeapAssumption DEF PointerPlus, SizeOfHeapBlock
    <3> QED BY <3>1, <3>2, <3>3
  <2> QED BY <2>1 DEF LengthInv
<1>4. AddedInv' /\ BootInv' /\ FlagsInv'
  BY <1>2 DEF AddedInv, BootInv, FlagsInv
<1> QED BY <1>3, <1>4 DEF PagesInv

LEMMA KmallocPages ==
  ASSUME ~AnyOrder, FlagsSuit, IInv, Kmalloc, NEW longest \in Nat, PagesInv(longest)
  PROVE  PagesInv(longest)'
<1>1. /\ TypeInv /\ CallInv /\ LinkInv /\ Len(live) \in Nat
      /\ Header(FreeBlock) \in HeapBlock /\ Block(Len(live) + 1) = FreeBlock
  BY ListParts DEF Kmalloc
<1>2. /\ size' = wanted'.words /\ kept' = Len(live) /\ Len(live) < MaxLive
      /\ heapStart # NULL /\ wanted = NoRequest
      /\ UNCHANGED <<heapStart, heapEnd, blockCount, blocks, pages, live, written>>
  BY DEF Kmalloc
<1>3. Needed' = BlockWords(wanted'.words)
  BY <1>2 DEF Needed, BlockWords
<1>4. /\ Header(FreeBlock)' = Header(FreeBlock) /\ Header(FreeBlock).size \in Nat
      /\ \A k : k \in All => Block(k)' = Block(k)
      /\ All' = All
  BY <1>1, <1>2 DEF Header, FreeBlock, Block, All, HeapBlock
<1>5. /\ Boot[1] \in Callers /\ Boot[2] \in Callers /\ Len(Boot) \in Nat /\ Len(Boot) >= 2
      /\ DiskSizePages \in Nat /\ DiskSizePages >= 1
      /\ FlagPages \in Nat /\ FlagPages >= DiskSizePages
      /\ booted \in Nat /\ NoRequest \notin Callers
  <2>1. booted \in 0 .. Len(Boot)
    BY <1>1 DEF TypeInv
  <2> QED BY <2>1, FlagNumbers, RequestType
<1>6. AddedInv'
  <2>1. wanted'.words \in Nat
    <3>1. IInv'
      BY KmallocKeeps
    <3>2. wanted' \in Callers \cup {NoRequest}
      BY <3>1 DEF IInv, TypeInv
    <3>3. CASE wanted' \in Callers
      BY <3>3, RequestType
    <3>4. CASE wanted' = NoRequest
      BY <3>4 DEF NoRequest
    <3> QED BY <3>2, <3>3, <3>4
  <2>2. BlockWords(wanted'.words) \in Nat /\ 0 \in Nat
    BY <2>1, FourMore
  <2>3. (PageWords + HeaderWords) * 0 = 0
    BY HeapAssumption DEF HeaderWords
  <2>4. Needed' = BlockWords(wanted'.words) + 4 * 0
    BY <1>3, <2>2
  <2>5. Header(FreeBlock)'.size >= (PageWords + HeaderWords) * 0
    BY <1>4, <2>3
  <2>6. Len(live') < MaxLive
    BY <1>2
  <2> QED BY <2>2, <2>4, <2>5, <2>6 DEF AddedInv
<1>7. LengthInv(longest)'
  BY <1>2, <1>4 DEF PagesInv, LengthInv
<1>8. \/ /\ booted < Len(Boot) /\ Len(live) = kept
         /\ wanted' = Boot[booted + 1] /\ booted' = booted + 1
      \/ booted = Len(Boot) /\ booted' = booted
  BY DEF Kmalloc
<1>9. BootInv /\ FlagsInv
  BY DEF PagesInv
<1>10. CASE booted = 0
  <2>1. /\ booted' = 1 /\ wanted' = Boot[1] /\ live = << >> /\ written = {} /\ pages = 1
    BY <1>2, <1>5, <1>8, <1>9, <1>10 DEF BootInv
  <2>2. Len(live) = 0
    BY <2>1
  <2>3. BlockWords(Boot[1].words) \in Nat
    BY <1>5, RequestType, FourMore
  <2>4. Needed' = BlockWords(Boot[1].words) + 4 * (pages' - 1)
    BY <1>2, <1>3, <2>1, <2>3
  <2>5. BootInv'
    BY <1>2, <1>5, <2>1, <2>2, <2>4 DEF BootInv
  <2>6. FlagsInv'
    BY <1>2, <2>1 DEF FlagsInv
  <2> QED BY <1>6, <1>7, <2>5, <2>6 DEF PagesInv
<1>11. CASE booted = 1
  <2>1. /\ booted' = 2 /\ wanted' = Boot[2] /\ kept = 0 /\ Len(live) = 0
        /\ pages = DiskSizePages /\ written \subseteq {Run(PageWords, Boot[1].filled)}
    BY <1>2, <1>5, <1>8, <1>9, <1>11 DEF BootInv
  <2>2. live = << >>
    BY <1>1, <2>1, LiveType
  <2>3. BlockWords(Boot[2].words) \in Nat
    BY <1>5, RequestType, FourMore
  <2>4. Needed' = BlockWords(Boot[2].words) + 4 * (pages' - DiskSizePages)
    BY <1>2, <1>3, <1>5, <2>1, <2>3
  <2>5. BootInv'
    BY <1>2, <1>5, <2>1, <2>4 DEF BootInv
  <2>6. FlagsInv'
    BY <1>2, <2>2 DEF FlagsInv
  <2> QED BY <1>6, <1>7, <2>5, <2>6 DEF PagesInv
<1>12. CASE booted >= 2
  <2>1. live # << >>
    BY <1>2, <1>5, <1>9, <1>12 DEF BootInv
  <2>2. Len(live) >= 1 /\ 2 \in All
    BY <1>1, <2>1, LiveType DEF All
  <2>3. booted' >= 2
    BY <1>5, <1>8, <1>12
  <2>4. BootInv'
    BY <1>2, <2>1, <2>3 DEF BootInv
  <2>5. Block(2)' = Block(2)
    BY <1>4, <2>2
  <2>6. FlagsInv'
    BY <1>2, <1>9, <1>12, <2>1, <2>2, <2>5 DEF FlagsInv
  <2> QED BY <1>6, <1>7, <2>4, <2>6 DEF PagesInv
<1> QED BY <1>5, <1>10, <1>11, <1>12

LEMMA KfreePages ==
  ASSUME FlagsSuit, IInv, NEW k \in kept + 1 .. Len(live), Kfree(k),
         NEW longest \in Nat, PagesInv(longest)
  PROVE  PagesInv(longest)'
<1>1. heapStart # NULL /\ Len(live) \in Nat /\ Len(live) # 0 /\ kept \in Nat
  <2>1. TypeInv /\ Len(live) # 0 /\ Len(live) \in Nat
    BY LiveType DEF IInv, TypeInv
  <2> QED BY <2>1, LiveType DEF IInv, CallInv, TypeInv
<1>2. /\ kept + 1 = Len(live) /\ Len(live') = Len(live) - 1
      /\ \A j \in Here : Block(j)' = Block(j)
  BY <1>1, KfreeDoes, KfreeKeeps
<1>3. /\ heapStart' = heapStart /\ pages' = pages /\ wanted = NoRequest /\ wanted' = NoRequest
      /\ kept' = kept /\ booted' = booted /\ written' = written
  BY DEF Kfree
<1>4. live # << >> /\ booted \in Nat
  <2>1. booted \in 0 .. Len(Boot) /\ Len(Boot) \in Nat
    BY FlagNumbers DEF IInv, TypeInv
  <2> QED BY <1>1, <2>1
<1>5. BootInv /\ FlagsInv /\ LengthInv(longest)
  BY DEF PagesInv
<1>6. AddedInv'
  BY <1>3 DEF AddedInv
<1>7. LengthInv(longest)'
  <2>1. All' = Here /\ Here \subseteq All
    BY <1>1, <1>2 DEF All, Here
  <2> QED BY <1>1, <1>2, <1>5, <2>1 DEF LengthInv
<1>8. CASE booted <= 1
  BY <1>3, <1>4, <1>5, <1>6, <1>7, <1>8 DEF PagesInv, BootInv, FlagsInv
<1>9. CASE booted >= 2
  <2>1. kept >= 1
    BY <1>4, <1>5, <1>9 DEF FlagsInv
  <2>2. 2 \in Here /\ Len(live') >= 1
    BY <1>1, <1>2, <2>1 DEF Here
  <2>3. live' # << >>
    BY <2>2
  <2>4. Block(2)' = Block(2)
    BY <1>2, <2>2
  <2>5. BootInv'
    BY <1>1, <1>3, <1>9, <2>3 DEF BootInv
  <2>6. FlagsInv'
    BY <1>3, <1>4, <1>5, <1>9, <2>4 DEF FlagsInv
  <2> QED BY <1>6, <1>7, <2>5, <2>6 DEF PagesInv
<1> QED BY <1>4, <1>8, <1>9

LEMMA SplitPages ==
  ASSUME FlagsSuit, IInv, Split, NEW longest \in Nat,
         MaxLive > 0 => \A r \in Callers : MostWords(r) <= longest, PagesInv(longest)
  PROVE  PagesInv(longest)'
<1> DEFINE mine == Run(FreeBlock, wanted.filled)
<1>1. /\ heapStart # NULL /\ kept = Len(live) /\ wanted \in Callers /\ wanted # NoRequest
      /\ Needed \in Nat /\ Needed <= Header(FreeBlock).size
      /\ live' = Append(live, [block |-> FreeBlock, words |-> wanted.words])
      /\ written' = written \cup {mine}
  BY SplitDoes, RequestType
<1>2. /\ TypeInv /\ HeldInv /\ LinkInv /\ Len(live) \in Nat
      /\ Block(Len(live) + 1) = FreeBlock
  BY <1>1, ListParts
<1>3. /\ heapStart' = heapStart /\ pages' = pages /\ wanted' = NoRequest /\ booted' = booted
      /\ kept' = IF wanted.keep THEN kept + 1 ELSE kept
  BY DEF Split
<1>4. /\ live' # << >> /\ Len(live') = Len(live) + 1
  BY <1>1, <1>2
<1>5. /\ \A k \in All : Block(k)' = Block(k)
      /\ \A k : k = Len(live) + 2 => Block(k)' = PointerPlus(FreeBlock, Needed)
  BY SplitKeeps
<1>6. /\ PageWords = 512 /\ Gain = 511 /\ Len(Boot) \in Nat /\ Len(Boot) >= 2
      /\ Boot[1] \in Callers /\ Boot[2] \in Callers /\ ~Boot[1].keep /\ Boot[2].keep
      /\ DiskSizePages \in Nat /\ DiskSizePages >= 1
      /\ FlagPages \in Nat /\ FlagPages >= DiskSizePages
      /\ 584 + Boot[1].filled <= 1024
      /\ 584 + Boot[2].filled <= 512 * (FlagPages + 1)
  BY FlagNumbers
<1>7. /\ FreeBlock + 24 * Header(FreeBlock).size = 512 + 24 * (515 * pages)
      /\ FreeBlock \in Nat /\ FreeBlock >= 512 /\ pages \in Nat
      /\ live = << >> => FreeBlock = 512 /\ Header(FreeBlock).size = 515 * pages
  BY <1>1, <1>6, FreeSize
<1>8. booted \in Nat /\ AddedInv /\ BootInv /\ FlagsInv /\ LengthInv(longest)
  <2>1. booted \in 0 .. Len(Boot)
    BY <1>2 DEF TypeInv
  <2> QED BY <1>6, <2>1 DEF PagesInv
<1>9. /\ mine.first = FreeBlock + 72 /\ mine.words = wanted.filled /\ wanted.filled \in Nat
      /\ Boot[1].filled \in Nat
  <2>1. wanted.filled \in Nat /\ Boot[1].filled \in Nat
    BY <1>1, <1>6, RequestType
  <2> QED BY <1>7, <2>1 DEF Run, Payload, PointerPlus, HeaderWords, SizeOfHeapBlock
<1>10. AddedInv'
  BY <1>3 DEF AddedInv
<1>11. LengthInv(longest)'
  <2>1. PICK n \in Nat : n = Len(live)
    BY <1>2
  <2>2. MaxLive > 0
    BY <1>1, <1>2, <1>8, HeapAssumption DEF AddedInv
  <2>3. Needed <= longest
    BY <1>1, <1>6, <1>8, <2>2, CallIsShort
  <2>4. n * longest \in Nat /\ (n + 1) * longest = n * longest + longest
    OBVIOUS
  <2>5. FreeBlock <= 512 + 24 * (n * longest)
    <3>1. n + 1 \in All /\ Block(n + 1) = FreeBlock /\ (n + 1) - 1 = n
      BY <1>2, <2>1 DEF All
    <3>2. Block(n + 1) <= PointerPlus(PageWords, ((n + 1) - 1) * longest)
      BY <1>1, <1>8, <3>1 DEF LengthInv
    <3> QED BY <1>6, <3>1, <3>2 DEF PointerPlus, SizeOfHeapBlock
  <2>6. PointerPlus(FreeBlock, Needed) <= PointerPlus(PageWords, (n + 1) * longest)
    <3>1. PICK m \in Nat : m = n * longest
      BY <2>4
    <3>2. FreeBlock + 24 * Needed <= 512 + 24 * (m + longest)
      BY <1>1, <1>7, <2>3, <2>5, <3>1
    <3> QED BY <1>6, <2>4, <3>1, <3>2 DEF PointerPlus, SizeOfHeapBlock
  <2>7. ASSUME NEW k \in All' PROVE Block(k)' <= PointerPlus(PageWords, (k - 1) * longest)
    <3>1. k \in All \/ k = n + 2
      BY <1>4, <2>1 DEF All
    <3>2. CASE k \in All
      BY <1>1, <1>5, <1>8, <3>2 DEF LengthInv
    <3>3. CASE k = n + 2
      <4>1. k - 1 = n + 1 /\ k = Len(live) + 2
        BY <2>1, <3>3
      <4>2. Block(k)' = PointerPlus(FreeBlock, Needed)
        BY <1>5, <4>1
      <4> QED BY <2>6, <4>1, <4>2
    <3> QED BY <3>1, <3>2, <3>3
  <2> QED BY <2>7 DEF LengthInv
<1> HIDE DEF mine
<1>12. CASE booted = 0
  BY <1>1, <1>8, <1>12 DEF BootInv
<1>13. CASE booted = 1
  <2>1. /\ wanted = Boot[1] /\ live = << >> /\ kept = 0 /\ pages \in 1 .. DiskSizePages
        /\ Needed = BlockWords(Boot[1].words) + 4 * (pages - 1)
        /\ written \subseteq {Run(PageWords, Boot[1].filled)}
    BY <1>1, <1>8, <1>13 DEF BootInv
  <2>2. FreeBlock = 512 /\ Header(FreeBlock).size = 515 * pages
    BY <1>7, <2>1
  <2>3. BlockWords(Boot[1].words) \in Nat
    BY <1>6, RequestType, FourMore
  <2>4. 511 * pages >= BlockWords(Boot[1].words) - 4
    BY <1>1, <1>7, <2>1, <2>2, <2>3
  <2>5. pages >= DiskSizePages
    BY <1>7, <2>4, FlagNumbers
  <2>6. written' \subseteq {Run(PageWords, Boot[1].filled)}
    BY <1>1, <1>6, <2>1, <2>2 DEF mine
  <2>7. pages' = DiskSizePages /\ kept' = 0
    BY <1>3, <1>6, <1>7, <2>1, <2>5
  <2>8. BootInv'
    <3>1. heapStart' # NULL /\ booted' = 1 /\ wanted' = NoRequest
      BY <1>1, <1>3, <1>13
    <3>2. pages' \in 1 .. DiskSizePages
      BY <1>6, <2>7
    <3> QED BY <2>6, <2>7, <3>1, <3>2 DEF BootInv
  <2>9. FlagsInv'
    BY <1>3, <1>13 DEF FlagsInv
  <2> QED BY <1>10, <1>11, <2>8, <2>9 DEF PagesInv
<1>14. CASE booted >= 2 /\ live = << >>
  <2>1. /\ wanted = Boot[2] /\ kept = 0 /\ pages \in DiskSizePages .. FlagPages
        /\ Needed = BlockWords(Boot[2].words) + 4 * (pages - DiskSizePages)
        /\ written \subseteq {Run(PageWords, Boot[1].filled)}
    BY <1>1, <1>8, <1>14 DEF BootInv
  <2>2. FreeBlock = 512 /\ Header(FreeBlock).size = 515 * pages
    BY <1>7, <1>14
  <2>3. BlockWords(Boot[2].words) \in Nat
    BY <1>6, RequestType, FourMore
  <2> DEFINE e == BlockWords(Boot[2].words)
  <2>4. e \in Nat /\ Needed = e + 4 * (pages - DiskSizePages) /\ pages >= DiskSizePages
    BY <1>6, <2>1, <2>3
  <2>5. FlagsEnd = 512 + 24 * e
    BY <1>6 DEF FlagsEnd, PointerPlus, SizeOfHeapBlock
  <2> HIDE DEF e
  <2>6. e + 4 * (pages - DiskSizePages) <= 515 * pages
    BY <1>1, <2>2, <2>4
  <2>7. 511 * pages >= e - 4 * DiskSizePages
    BY <1>6, <1>7, <2>4, <2>6
  <2>8. 511 * pages >= BlockWords(Boot[2].words) - 4 * DiskSizePages
    BY <2>7 DEF e
  <2>9. pages' >= FlagPages /\ kept' >= 1
    <3>1. pages >= DiskSizePages
      BY <1>6, <2>1
    <3>2. pages >= FlagPages
      BY <1>7, <2>8, <3>1, FlagNumbers
    <3> QED BY <1>3, <1>6, <2>1, <3>2
  <2>10. Block(2)' >= FlagsEnd
    <3>1. Block(2)' = PointerPlus(FreeBlock, Needed)
      BY <1>1, <1>5, <2>1
    <3>2. Block(2)' = 512 + 24 * Needed
      BY <2>2, <3>1 DEF PointerPlus, SizeOfHeapBlock
    <3>3. Needed >= e
      BY <1>6, <1>7, <2>4
    <3> QED BY <1>1, <2>4, <2>5, <3>2, <3>3
  <2>11. ASSUME NEW r \in written'
        PROVE  /\ r.first \in Nat /\ r.words \in Nat
               /\ r.first + r.words <= PageWords * (FlagPages + 1)
    <3>1. CASE r = mine
      <4>1. r.first = 584 /\ r.words = Boot[2].filled /\ Boot[2].filled \in Nat
        BY <1>9, <2>1, <2>2, <3>1
      <4>2. 584 + Boot[2].filled <= 512 * (FlagPages + 1) /\ FlagPages \in Nat
        BY <1>6
      <4> QED BY <1>6, <4>1, <4>2
    <3>2. CASE r \in written
      <4>1. r.first = 584 /\ r.words = Boot[1].filled
        BY <1>6, <2>1, <3>2 DEF Run, Payload, PointerPlus, HeaderWords, SizeOfHeapBlock
      <4>2. 584 + Boot[1].filled <= 512 * (FlagPages + 1)
        BY <1>6, <1>9
      <4> QED BY <1>6, <1>9, <4>1, <4>2
    <3> QED BY <1>1, <3>1, <3>2
  <2>12. BootInv'
    BY <1>1, <1>3, <1>4, <1>14 DEF BootInv
  <2>13. FlagsInv'
    BY <2>9, <2>10, <2>11 DEF FlagsInv, FlagsEnd
  <2> QED BY <1>10, <1>11, <2>12, <2>13 DEF PagesInv
<1>15. CASE booted >= 2 /\ live # << >>
  <2>1. /\ kept >= 1 /\ pages >= FlagPages /\ Block(2) >= FlagsEnd
        /\ \A r \in written :
             /\ r.first \in Nat /\ r.words \in Nat
             /\ \/ r.first + r.words <= PageWords * (FlagPages + 1)
                \/ r.first >= FlagsEnd
    BY <1>8, <1>15 DEF FlagsInv
  <2>2. 2 \in All /\ Len(live) + 1 \in All /\ Len(live) + 1 >= 2
    BY <1>1, <1>2, <2>1 DEF All
  <2>3. Block(2)' = Block(2) /\ Block(2) \in Nat
    BY <1>2, <1>5, <2>2 DEF LinkInv
  <2>4. FreeBlock >= Block(2)
    <3>1. CASE Len(live) + 1 = 2
      BY <1>2, <1>7, <2>3, <3>1
    <3>2. CASE Len(live) + 1 > 2
      <4>1. Block(2) < Block(Len(live) + 1)
        BY <1>2, <2>2, <3>2, Apartness, <1>1, ListParts
      <4> QED BY <1>2, <1>7, <2>3, <4>1
    <3> QED BY <1>2, <2>2, <3>1, <3>2
  <2>5. mine.first \in Nat /\ mine.words \in Nat /\ mine.first >= FlagsEnd
    BY <1>7, <1>9, <2>1, <2>3, <2>4, FlagsEndType
  <2>6. \A r \in written' :
          /\ r.first \in Nat /\ r.words \in Nat
          /\ \/ r.first + r.words <= PageWords * (FlagPages + 1)
             \/ r.first >= FlagsEnd
    BY <1>1, <2>1, <2>5
  <2>7. kept' >= 1
    BY <1>1, <1>2, <1>3, <2>1
  <2>8. BootInv'
    BY <1>1, <1>3, <1>4, <1>15 DEF BootInv
  <2>9. FlagsInv'
    BY <1>3, <2>1, <2>3, <2>6, <2>7 DEF FlagsInv, FlagsEnd
  <2> QED BY <1>10, <1>11, <2>8, <2>9 DEF PagesInv
<1> QED BY <1>8, <1>12, <1>13, <1>14, <1>15

LEMMA ExpandPages ==
  ASSUME FlagsSuit, NEW reach \in 1 .. MaxPages, NEW longest \in Nat,
         MaxLive * longest <= 515 * reach,
         MaxLive > 0 => \A r \in Callers : MostWords(r) <= longest,
         IInv, PagesApart, Expand, PagesInv(longest)
  PROVE  PagesInv(longest)'
<1>1. wanted # NoRequest /\ Fitting = {}
  BY DEF Expand
<1>2. /\ heapStart # NULL /\ Header(FreeBlock).size < Needed
      /\ Needed \in Nat /\ pages \in Nat
  BY <1>1, PagesLeft
<1>3. /\ heapStart' = heapStart /\ wanted' = wanted /\ live' = live /\ kept' = kept
      /\ booted' = booted /\ written' = written /\ size' = Needed
  BY DEF Expand
<1>4. /\ FreeBlock' = FreeBlock /\ \A k \in All : Block(k)' = Block(k)
  BY ExpandKeeps
<1>5. /\ PageWords = 512 /\ Gain = 511 /\ Len(Boot) \in Nat /\ Len(Boot) >= 2
      /\ Boot[1] \in Callers /\ Boot[2] \in Callers
      /\ DiskSizePages \in Nat /\ DiskSizePages >= 1
      /\ FlagPages \in Nat /\ FlagPages >= DiskSizePages
  BY FlagNumbers
<1>6. pages' = pages + 1
  BY ExpandDoes
<1>7. /\ Header(FreeBlock).size \in Nat /\ Header(FreeBlock)'.size = Header(FreeBlock).size + 515
      /\ live = << >> => Header(FreeBlock).size = 515 * pages
  <2>1. At(blocks', FreeBlock)
          = [size |-> Header(FreeBlock).size + (PageWords + HeaderWords), free |-> TRUE,
             prev |-> Header(FreeBlock).prev, next |-> NULL]
    BY ExpandDoes
  <2>2. At(blocks', FreeBlock).size = Header(FreeBlock).size + (PageWords + HeaderWords)
    BY <2>1
  <2>3. Header(FreeBlock)' = At(blocks', FreeBlock)
    BY <1>4, NextHeaders
  <2>4. Header(FreeBlock)'.size = Header(FreeBlock).size + 515
    BY <1>5, <2>2, <2>3 DEF HeaderWords
  <2> QED BY <1>2, <1>5, <2>4, FreeSize
<1>8. wanted.words \in Nat
  <2>1. wanted \in Callers
    BY <1>1 DEF IInv, TypeInv
  <2> QED BY <2>1, RequestType
<1> DEFINE e == BlockWords(wanted.words)
<1>9. e \in Nat /\ \A j \in Nat : BlockWords(e + 4 * j) = e + 4 * (j + 1)
  BY <1>8, FourMore
<1>10. AddedInv /\ BootInv /\ FlagsInv /\ LengthInv(longest)
  BY DEF PagesInv
<1>11. PICK j \in Nat : /\ Needed = e + 4 * j
                        /\ Header(FreeBlock).size >= 515 * j
  BY <1>1, <1>5, <1>10 DEF AddedInv, HeaderWords
<1>12. Needed' = Needed + 4
  <2>1. Needed' = BlockWords(Needed)
    BY <1>3 DEF Needed, BlockWords
  <2>2. BlockWords(e + 4 * j) = e + 4 * (j + 1)
    BY <1>9
  <2> HIDE DEF e
  <2> QED BY <1>9, <1>11, <2>1, <2>2
<1>13. AddedInv'
  <2>1. Len(live') < MaxLive
    BY <1>1, <1>3, <1>10 DEF AddedInv
  <2>2. /\ Needed' = e + 4 * (j + 1)
        /\ 511 * ((j + 1) - 1) < e
        /\ Header(FreeBlock)'.size >= 515 * (j + 1)
        /\ j + 1 \in Nat
    <3> HIDE DEF e
    <3> QED BY <1>2, <1>7, <1>9, <1>11, <1>12
  <2>3. /\ Needed' = BlockWords(wanted'.words) + 4 * (j + 1)
        /\ Gain * ((j + 1) - 1) < BlockWords(wanted'.words)
        /\ Header(FreeBlock)'.size >= (PageWords + HeaderWords) * (j + 1)
    BY <1>3, <1>5, <2>2 DEF HeaderWords
  <2> QED BY <2>1, <2>2, <2>3 DEF AddedInv
<1>14. LengthInv(longest)'
  <2>1. All' = All
    BY <1>3 DEF All
  <2> QED BY <1>2, <1>4, <1>10, <2>1 DEF LengthInv
<1>15. booted \in Nat
  <2>1. booted \in 0 .. Len(Boot)
    BY DEF IInv, TypeInv
  <2> QED BY <1>5, <2>1
<1> HIDE DEF e
<1>16. CASE booted = 0
  BY <1>1, <1>10, <1>16 DEF BootInv
<1>17. CASE booted = 1
  <2>1. /\ wanted = Boot[1] /\ live = << >> /\ kept = 0 /\ pages \in 1 .. DiskSizePages
        /\ Needed = BlockWords(Boot[1].words) + 4 * (pages - 1)
        /\ written \subseteq {Run(PageWords, Boot[1].filled)}
    BY <1>1, <1>10, <1>17 DEF BootInv
  <2>2. BlockWords(Boot[1].words) \in Nat
    BY <1>9, <2>1 DEF e
  <2>3. ~(511 * pages >= BlockWords(Boot[1].words) - 4)
    BY <1>2, <1>7, <2>1, <2>2
  <2>4. ~(pages >= DiskSizePages)
    BY <1>2, <2>3, FlagNumbers
  <2>5. pages' \in 1 .. DiskSizePages
    BY <1>2, <1>5, <1>6, <2>4
  <2>6. Needed' = BlockWords(Boot[1].words) + 4 * (pages' - 1)
    BY <1>2, <1>6, <1>12, <2>1, <2>2
  <2>7. BootInv'
    BY <1>1, <1>2, <1>3, <1>17, <2>1, <2>5, <2>6 DEF BootInv
  <2>8. FlagsInv'
    BY <1>3, <1>17 DEF FlagsInv
  <2> QED BY <1>13, <1>14, <2>7, <2>8 DEF PagesInv
<1>18. CASE booted >= 2 /\ live = << >>
  <2>1. /\ wanted = Boot[2] /\ pages \in DiskSizePages .. FlagPages
        /\ Needed = BlockWords(Boot[2].words) + 4 * (pages - DiskSizePages)
        /\ written \subseteq {Run(PageWords, Boot[1].filled)}
    BY <1>1, <1>10, <1>18 DEF BootInv
  <2>2. BlockWords(Boot[2].words) \in Nat
    BY <1>9, <2>1 DEF e
  <2>3. ~(511 * pages >= BlockWords(Boot[2].words) - 4 * DiskSizePages)
    BY <1>2, <1>5, <1>7, <1>18, <2>1, <2>2
  <2>4. ~(pages >= FlagPages)
    <3>1. pages >= DiskSizePages
      BY <1>5, <2>1
    <3> QED BY <1>2, <2>3, <3>1, FlagNumbers
  <2>5. pages' \in DiskSizePages .. FlagPages
    BY <1>2, <1>5, <1>6, <2>1, <2>4
  <2>6. Needed' = BlockWords(Boot[2].words) + 4 * (pages' - DiskSizePages)
    BY <1>2, <1>5, <1>6, <1>12, <2>1, <2>2
  <2>7. BootInv'
    BY <1>2, <1>3, <1>18, <2>1, <2>5, <2>6 DEF BootInv
  <2>8. FlagsInv'
    BY <1>3, <1>18 DEF FlagsInv
  <2> QED BY <1>13, <1>14, <2>7, <2>8 DEF PagesInv
<1>19. CASE booted >= 2 /\ live # << >>
  <2>1. TypeInv /\ Len(live) \in Nat
    BY LiveType DEF IInv
  <2>2. Len(live) # 0
    BY <1>19, <2>1, LiveType
  <2>3. 2 \in All
    BY <2>1, <2>2 DEF All
  <2>4. Block(2)' = Block(2)
    BY <1>4, <2>3
  <2>5. pages >= FlagPages
    BY <1>10, <1>19 DEF FlagsInv
  <2>6. pages' >= FlagPages
    BY <1>2, <1>5, <1>6, <2>5
  <2>7. BootInv'
    BY <1>2, <1>3, <1>19 DEF BootInv
  <2>8. FlagsInv'
    BY <1>3, <1>10, <1>19, <2>4, <2>6 DEF FlagsInv
  <2> QED BY <1>13, <1>14, <2>7, <2>8 DEF PagesInv
<1> QED BY <1>15, <1>16, <1>17, <1>18, <1>19

LEMMA NextPages ==
  ASSUME ~AnyOrder, FlagsSuit, NEW reach \in 1 .. MaxPages, NEW longest \in Nat,
         MaxLive * longest <= 515 * reach,
         MaxLive > 0 => \A r \in Callers : MostWords(r) <= longest,
         IInv, PagesApart, PagesInv(longest), [Next]_vars
  PROVE  PagesInv(longest)'
<1>1. CASE InitializeHeap
  BY <1>1, InitializePages, InitializeKeeps
<1>2. CASE Kmalloc
  BY <1>2, KmallocPages
<1>3. CASE Split
  BY <1>3, SplitPages
<1>4. CASE Expand
  BY <1>4, ExpandPages
<1>5. CASE \E k \in kept + 1 .. Len(live) : Kfree(k)
  BY <1>5, KfreePages
<1>6. CASE UNCHANGED vars
  <2>1. /\ heapStart' = heapStart /\ blocks' = blocks /\ pages' = pages /\ wanted' = wanted
        /\ size' = size /\ live' = live /\ kept' = kept /\ written' = written
        /\ booted' = booted
    BY <1>6 DEF vars
  <2>2. AddedInv' /\ BootInv'
    BY <2>1 DEF PagesInv, AddedInv, BootInv, Needed, Header, FreeBlock
  <2>3. FlagsInv' /\ LengthInv(longest)'
    BY <2>1 DEF PagesInv, FlagsInv, LengthInv, Header, FreeBlock, Block, All
  <2> QED BY <2>2, <2>3 DEF PagesInv
<1> QED BY <1>1, <1>2, <1>3, <1>4, <1>5, <1>6 DEF Next

-----------------------------------------------------------------------------
LEMMA ListIsWhole ==
  ASSUME IInv
  PROVE  ListWhole
<1>1. CASE heapStart = NULL
  <2>1. live = << >> /\ blocks = << >> /\ blockCount = 0
    BY <1>1 DEF IInv, CallInv
  <2> DEFINE g == [i \in Nat |-> NULL]
  <2>2. g = [i \in Nat |-> IF i = 0 THEN heapStart ELSE Follow[g[i - 1]]]
    BY <1>1, <2>1 DEF Follow, At, Fresh, NULL
  <2>3. Walk[0] = NULL
    <3> HIDE DEF g
    <3>1. Walk[0] = g[0]
      BY <2>2, WalkIs
    <3> QED BY <3>1 DEF g
  <2>4. Listed = {}
    BY <2>1, <2>3 DEF Listed
  <2> QED BY <2>1, <2>4, FS_EmptySet DEF ListWhole
<1>2. CASE heapStart # NULL
  <2>1. /\ TypeInv /\ HeldInv /\ TailInv /\ LinkInv /\ Len(live) \in Nat
        /\ Block(Len(live) + 1) = FreeBlock /\ FreeBlock # NULL
    BY <1>2, ListParts
  <2>2. Listed = {Block(k) : k \in All} /\ Cardinality(Listed) = blockCount
    BY <2>1, ListedBlocks
  <2>3. Here \subseteq All /\ All = Here \cup {Len(live) + 1} /\ DOMAIN live = Here
    BY <2>1 DEF Here, All, TypeInv
  <2>4. ASSUME NEW k \in DOMAIN live
        PROVE  live[k].block \in Listed /\ ~At(blocks, live[k].block).free
    <3>1. k \in Here /\ k \in All /\ live[k].block = Block(k)
      BY <2>3, BlockIs
    <3> QED BY <2>1, <2>2, <3>1 DEF HeldInv, Header
  <2>5. ASSUME NEW b \in Listed
        PROVE  PointerPlus(b, At(blocks, b).size) =
                 IF At(blocks, b).next # NULL THEN At(blocks, b).next
                 ELSE PointerPlus(PageWords, pages * (PageWords + HeaderWords))
    <3>1. PICK k \in All : b = Block(k)
      BY <2>2
    <3>2. CASE k \in Here
      <4>1. /\ At(blocks, b).next = Block(k + 1)
            /\ PointerPlus(b, At(blocks, b).size) = Block(k + 1)
        BY <2>1, <3>1, <3>2 DEF HeldInv, Header, Beyond
      <4>2. Block(k + 1) # NULL
        <5>1. k + 1 \in All
          BY <2>1, <3>2 DEF Here, All
        <5> QED BY <2>1, <5>1, HeapAssumption DEF LinkInv, NULL
      <4> QED BY <4>1, <4>2
    <3>3. CASE k = Len(live) + 1
      BY <2>1, <3>1, <3>3 DEF TailInv, Header, Beyond
    <3> QED BY <2>3, <3>2, <3>3
  <2> QED BY <2>2, <2>4, <2>5 DEF ListWhole
<1> QED BY <1>1, <1>2

(* What a caller holds lies in its block, behind the header.               *)
LEMMA RunInBlock ==
  ASSUME TypeInv, HeldInv, LinkInv, NEW k \in Here
  PROVE  LET r == Run(live[k].block, live[k].words)
         IN  /\ r.first \in Nat /\ r.words \in Nat /\ r.first > 0
             /\ r.first = Payload(Block(k)) /\ r.first >= Block(k) + HeaderWords
             /\ r.first + r.words <= Block(k + 1)
             /\ \A j \in All : k < j => r.first + r.words <= Block(j)
<1> USE DEF HeaderWords, SizeOfHeapBlock, PointerPlus
<1>1. k \in All /\ live[k].block = Block(k) /\ live[k].words \in Nat /\ k + 1 \in All
  BY LiveType, BlockIs DEF Here, All
<1>2. Block(k) \in Nat /\ Header(Block(k)).size \in Nat
  BY <1>1, HeaderType DEF LinkInv, HeapBlock
<1>3. /\ Header(Block(k)).size >= live[k].words + 3
      /\ Block(k) + 24 * Header(Block(k)).size = Block(k + 1)
      /\ \A j \in All : k < j => Block(k) + 24 * Header(Block(k)).size <= Block(j)
  BY <1>1 DEF HeldInv, LinkInv, Beyond
<1> DEFINE r == Run(live[k].block, live[k].words)
<1>4. r.first = Block(k) + 72 /\ r.words = live[k].words
  BY <1>1, <1>2 DEF Run, Payload
<1>5. r.first + r.words <= Block(k) + 24 * Header(Block(k)).size
  BY <1>1, <1>2, <1>3, <1>4
<1>6. \A j \in All : Block(j) \in Nat
  BY DEF LinkInv
<1>7. r.first + r.words <= Block(k + 1)
  BY <1>3, <1>5
<1>8. ASSUME NEW j \in All, k < j PROVE r.first + r.words <= Block(j)
  <2>1. Block(j) \in Nat /\ Block(k) + 24 * Header(Block(k)).size <= Block(j)
    BY <1>3, <1>6, <1>8
  <2>2. r.first + r.words \in Nat
    BY <1>1, <1>2, <1>4
  <2> HIDE DEF r
  <2> QED BY <1>2, <1>5, <2>1, <2>2
<1>9. r.first = Payload(Block(k)) /\ r.first >= Block(k) + 3 /\ r.first \in Nat /\ r.first > 0
  BY <1>2, <1>4 DEF Payload
<1> HIDE DEF r
<1>10. r.words \in Nat
  BY <1>1, <1>4
<1> QED BY <1>7, <1>8, <1>9, <1>10 DEF r

LEMMA HeadersAreApart ==
  ASSUME IInv
  PROVE  HeadersApart
<1> SUFFICES ASSUME NEW r \in Held, NEW h \in Headers(Listed) PROVE Apart(r, h)
  BY DEF HeadersApart
<1>1. PICK k \in DOMAIN live : r = Run(live[k].block, live[k].words)
  BY DEF Held
<1>2. DOMAIN live = Here /\ heapStart # NULL
  <2>1. DOMAIN live = Here
    BY DEF IInv, TypeInv, Here
  <2>2. live # << >>
    BY <2>1
  <2> QED BY <2>1, <2>2 DEF IInv, CallInv
<1>3. TypeInv /\ HeldInv /\ TailInv /\ LinkInv /\ Len(live) \in Nat
  BY <1>2, ListParts
<1>4. PICK j \in All : h = [first |-> Block(j), words |-> HeaderWords]
  BY <1>3, ListedBlocks DEF Headers
<1>5. k \in Here /\ k \in All /\ k \in Nat /\ j \in Nat
  BY <1>2, <1>3 DEF Here, All
<1>6. /\ r.first \in Nat /\ r.words \in Nat /\ r.first >= Block(k) + HeaderWords
      /\ \A i \in All : k < i => r.first + r.words <= Block(i)
  BY <1>1, <1>3, <1>5, RunInBlock
<1>7. h.first = Block(j) /\ h.words = 3 /\ Block(j) \in Nat /\ Block(k) \in Nat
  BY <1>3, <1>4, <1>5 DEF HeaderWords, LinkInv
<1>8. CASE k < j
  BY <1>6, <1>7, <1>8 DEF Apart
<1>9. CASE j <= k
  <2>1. Block(j) <= Block(k)
    <3>1. CASE j = k
      BY <1>7, <3>1
    <3>2. CASE j < k
      BY <1>3, <1>5, <1>7, <3>2, Apartness
    <3> QED BY <1>5, <1>9, <3>1, <3>2
  <2>2. h.first + h.words <= r.first
    BY <1>6, <1>7, <2>1 DEF HeaderWords
  <2> QED BY <2>2 DEF Apart
<1> QED BY <1>5, <1>8, <1>9

-----------------------------------------------------------------------------
(* What the invariant says of the words that callers fill.                 *)
LEMMA NextKeepsWritten ==
  ASSUME ~AnyOrder, FilledShort, IInv, WrittenInv, PagesApart, [Next]_vars
  PROVE  WrittenInv'
<1> DEFINE Filled(r, b) == /\ r.first \in Nat /\ r.words \in Nat
                           /\ \/ r.first + r.words <= b
                              \/ /\ r.first = Payload(b)
                                 /\ \E q \in Callers : ~q.keep /\ r.words = q.filled
<1>1. WrittenInv <=> \A r \in written : Filled(r, Block(kept + 1))
  BY DEF WrittenInv
<1>2. WrittenInv' <=> \A r \in written' : Filled(r, Block(kept + 1)')
  BY DEF WrittenInv
<1> HIDE DEF Filled
<1>3. CASE InitializeHeap
  <2>1. written' = {}
    BY <1>3 DEF IInv, CallInv, InitializeHeap
  <2> QED BY <1>2, <2>1
<1>4. CASE Kmalloc
  <2>1. /\ TypeInv /\ CallInv /\ HeldInv /\ LinkInv /\ Len(live) \in Nat
        /\ Block(Len(live) + 1) = FreeBlock
    BY <1>4, ListParts DEF Kmalloc
  <2>2. kept' = Len(live) /\ written' = written /\ Block(kept + 1)' = Block(Len(live) + 1)
    BY <1>4, <2>1 DEF Kmalloc, Block, FreeBlock, Header
  <2>3. CASE Len(live) = kept
    BY <1>1, <1>2, <2>2, <2>3
  <2>4. CASE Len(live) = kept + 1
    <3>1. Len(live) \in Here /\ Len(live) \in All /\ Len(live) + 1 \in All
      BY <2>1, <2>4 DEF TypeInv, Here, All
    <3> DEFINE b == Block(Len(live))
    <3>2. b \in Nat /\ FreeBlock \in Nat /\ Header(b).size \in Nat
      BY <2>1, <3>1, HeaderType DEF LinkInv, HeapBlock
    <3>3. PICK s \in Callers : live[Len(live)].words = s.words
      <4> DEFINE Claims == [block : Nat, words : {r.words : r \in Callers}]
      <4>1. live \in Seq(Claims)
        BY <2>1 DEF TypeInv
      <4>2. live[Len(live)] \in Claims
        <5> HIDE DEF Claims
        <5> QED BY <4>1, <3>1 DEF Here
      <4> QED BY <4>2
    <3>4. s.words \in Nat /\ Header(b).size >= s.words + 3 /\ b + 24 * Header(b).size = FreeBlock
      BY <2>1, <3>1, <3>3, RequestType
         DEF HeldInv, Beyond, PointerPlus, HeaderWords, SizeOfHeapBlock
    <3>5. ASSUME NEW r \in written PROVE Filled(r, FreeBlock)
      <4>1. Filled(r, b)
        BY <1>1, <2>4
      <4>2. r.first \in Nat /\ r.words \in Nat
        BY <4>1 DEF Filled
      <4>3. CASE r.first + r.words <= b
        BY <3>2, <3>4, <4>2, <4>3 DEF Filled
      <4>4. CASE r.first = Payload(b) /\ \E q \in Callers : ~q.keep /\ r.words = q.filled
        <5>1. PICK q \in Callers : ~q.keep /\ r.words = q.filled
          BY <4>4
        <5>2. r.words <= 24 * s.words
          BY <3>3, <5>1 DEF FilledShort, SizeOfHeapBlock
        <5>3. r.first = b + 72
          BY <4>4 DEF Payload, PointerPlus, HeaderWords, SizeOfHeapBlock
        <5>4. r.first + r.words <= FreeBlock
          BY <3>2, <3>4, <4>2, <5>2, <5>3
        <5> QED BY <4>2, <5>4 DEF Filled
      <4> QED BY <4>1, <4>3, <4>4 DEF Filled
    <3> QED BY <1>2, <2>1, <2>2, <3>5
  <2> QED BY <2>1, <2>3, <2>4 DEF CallInv
<1>5. CASE Split
  <2>1. /\ heapStart # NULL /\ kept = Len(live) /\ wanted \in Callers
        /\ written' = written \cup {Run(FreeBlock, wanted.filled)}
    BY <1>5, SplitDoes
  <2>2. Len(live) \in Nat /\ FreeBlock \in Nat /\ Block(Len(live) + 1) = FreeBlock
    BY <2>1, ListParts
  <2>3. PICK f \in Nat : f = kept + 1
    BY <2>1, <2>2
  <2>4. wanted.filled \in Nat /\ wanted.words \in Nat \ {0} /\ wanted.filled <= wanted.words
    BY <2>1, RequestType
  <2> DEFINE mine == Run(FreeBlock, wanted.filled)
  <2>5. mine.first = FreeBlock + 72 /\ mine.words = wanted.filled
    BY <2>2 DEF Run, Payload, PointerPlus, HeaderWords, SizeOfHeapBlock
  <2>6. CASE ~wanted.keep
    <3>1. kept' = kept
      BY <1>5, <2>6 DEF Split
    <3>2. Block(f)' = Block(f)
      BY <1>5, <2>1, <2>2, <2>3, SplitKeeps DEF All
    <3>3. Block(kept + 1)' = Block(kept + 1)
      BY <2>3, <3>1, <3>2 DEF Block
    <3>4. Filled(mine, FreeBlock)
      BY <2>1, <2>2, <2>4, <2>6
         DEF Filled, Run, Payload, PointerPlus, HeaderWords, SizeOfHeapBlock
    <3> QED BY <1>1, <1>2, <2>1, <2>2, <3>3, <3>4
  <2>7. CASE wanted.keep
    <3> DEFINE rest == PointerPlus(FreeBlock, Needed)
    <3>1. kept' = kept + 1 /\ f + 1 = Len(live) + 2
      BY <1>5, <2>1, <2>2, <2>3, <2>7 DEF Split
    <3>2. PICK g : g = Len(live) + 2
      OBVIOUS
    <3>3. Block(g)' = rest
      BY <1>5, <3>2, SplitKeeps
    <3>4. Block(kept + 1)' = rest
      <4>1. kept' + 1 = g
        BY <2>3, <3>1, <3>2
      <4> QED BY <3>3, <4>1 DEF Block
    <3>5. Needed \in Nat /\ Needed >= wanted.words + 3
      BY <1>5, SplitDoes DEF HeaderWords
    <3>6. rest = FreeBlock + 24 * Needed
      BY DEF PointerPlus, SizeOfHeapBlock
    <3> HIDE DEF rest, mine
    <3>7. Filled(mine, rest)
      BY <2>2, <2>4, <2>5, <3>5, <3>6 DEF Filled
    <3>8. ASSUME NEW r \in written PROVE Filled(r, rest)
      <4>1. /\ r.first \in Nat /\ r.words \in Nat
            /\ \/ r.first + r.words <= FreeBlock
               \/ /\ r.first = Payload(FreeBlock)
                  /\ \E q \in Callers : ~q.keep /\ r.words = q.filled
        BY <2>1, <2>2 DEF WrittenInv
      <4>2. CASE r.first + r.words <= FreeBlock
        BY <2>2, <3>5, <3>6, <2>4, <4>1, <4>2 DEF Filled
      <4>3. CASE r.first = Payload(FreeBlock) /\ \E q \in Callers : ~q.keep /\ r.words = q.filled
        <5>1. PICK q \in Callers : ~q.keep /\ r.words = q.filled
          BY <4>3
        <5>2. r.words <= 24 * wanted.words
          BY <2>1, <5>1 DEF FilledShort, SizeOfHeapBlock
        <5>3. r.first = FreeBlock + 72
          BY <4>3 DEF Payload, PointerPlus, HeaderWords, SizeOfHeapBlock
        <5> QED BY <2>2, <2>4, <3>5, <3>6, <4>1, <5>2, <5>3 DEF Filled
      <4> QED BY <4>1, <4>2, <4>3
    <3> QED BY <1>2, <2>1, <3>4, <3>7, <3>8 DEF mine
  <2> QED BY <2>6, <2>7
<1>6. CASE Expand
  <2>1. heapStart # NULL
    BY <1>6, ExpandDoes
  <2>2. CallInv /\ TypeInv /\ Len(live) \in Nat
    BY <2>1, ListParts
  <2>3. PICK f \in Nat : f = kept + 1 /\ f \in All
    BY <2>2 DEF CallInv, TypeInv, All
  <2>4. kept' = kept /\ written' = written /\ Block(f)' = Block(f)
    BY <1>6, <2>3, ExpandKeeps DEF Expand
  <2>5. Block(kept + 1)' = Block(kept + 1)
    BY <2>3, <2>4 DEF Block
  <2> QED BY <1>1, <1>2, <2>4, <2>5
<1>7. ASSUME NEW k \in kept + 1 .. Len(live), Kfree(k) PROVE WrittenInv'
  <2>1. TypeInv /\ CallInv /\ Len(live) \in Nat
    BY LiveType DEF IInv
  <2>2. PICK f \in Nat : f = kept + 1 /\ f \in Here
    BY <1>7, <2>1 DEF CallInv, TypeInv, Here
  <2>3. kept' = kept /\ written' = written /\ Block(f)' = Block(f)
    BY <1>7, <2>2, KfreeKeeps DEF Kfree
  <2>4. Block(kept + 1)' = Block(kept + 1)
    BY <2>2, <2>3 DEF Block
  <2> QED BY <1>1, <1>2, <2>3, <2>4
<1>8. CASE UNCHANGED vars
  BY <1>8 DEF vars, WrittenInv, Block, FreeBlock, Header
<1> QED BY <1>3, <1>4, <1>5, <1>6, <1>7, <1>8 DEF Next

LEMMA LinksAreFresh ==
  ASSUME FilledShort, IInv, WrittenInv
  PROVE  LinksFromFreshWords
<1> SUFFICES ASSUME wanted # NoRequest, Fitting # {}, NEW r \in written
             PROVE  Apart(r, [first |-> PointerPlus(Selected, Needed), words |-> HeaderWords])
  BY DEF LinksFromFreshWords
<1>1. heapStart # NULL /\ kept = Len(live) /\ size >= wanted.words
  BY DEF IInv, CallInv
<1>2. /\ TypeInv /\ HeldInv /\ TailInv /\ LinkInv /\ Len(live) \in Nat
      /\ Block(Len(live) + 1) = FreeBlock /\ FreeBlock \in Nat
  BY <1>1, ListParts
<1>3. Selected = FreeBlock
  BY <1>2, OnlyTheFreeBlock
<1>4. /\ wanted \in Callers /\ wanted.words \in Nat
      /\ Needed \in Nat /\ Needed >= wanted.words + 3
  <2>1. wanted \in Callers /\ size \in Nat
    BY <1>2 DEF TypeInv
  <2> QED BY <1>1, <2>1, RequestType, NeededType DEF HeaderWords
<1>5. /\ r.first \in Nat /\ r.words \in Nat
      /\ \/ r.first + r.words <= FreeBlock
         \/ /\ r.first = Payload(FreeBlock)
            /\ \E q \in Callers : ~q.keep /\ r.words = q.filled
  BY <1>1, <1>2 DEF WrittenInv
<1>6. r.first + r.words <= FreeBlock + 24 * Needed
  <2>1. CASE r.first + r.words <= FreeBlock
    BY <1>2, <1>4, <1>5, <2>1
  <2>2. CASE r.first = Payload(FreeBlock) /\ \E q \in Callers : ~q.keep /\ r.words = q.filled
    <3>1. PICK q \in Callers : ~q.keep /\ r.words = q.filled
      BY <2>2
    <3>2. r.words <= 24 * wanted.words
      BY <1>4, <3>1 DEF FilledShort, SizeOfHeapBlock
    <3>3. r.first = FreeBlock + 72
      BY <2>2 DEF Payload, PointerPlus, HeaderWords, SizeOfHeapBlock
    <3> QED BY <1>2, <1>4, <1>5, <3>2, <3>3
  <2> QED BY <1>5, <2>1, <2>2
<1> QED BY <1>3, <1>6 DEF Apart, PointerPlus, SizeOfHeapBlock

-----------------------------------------------------------------------------
(* Every step is a step of the arena or changes nothing that callers hold. *)
LEMMA SplitAllocates ==
  ASSUME IInv, Split
  PROVE  HeapArena!Allocate
<1> DEFINE r == Run(FreeBlock, wanted.words)
<1>1. /\ heapStart # NULL /\ wanted \in Callers
      /\ live' = Append(live, [block |-> FreeBlock, words |-> wanted.words])
  BY SplitDoes
<1>2. /\ TypeInv /\ HeldInv /\ LinkInv /\ Len(live) \in Nat
      /\ Block(Len(live) + 1) = FreeBlock /\ FreeBlock \in Nat
  BY <1>1, ListParts
<1>3. DOMAIN live = Here /\ DOMAIN live' = Here \cup {Len(live) + 1}
  <2>1. live \in Seq([block : Nat, words : {q.words : q \in Callers}])
    BY <1>2 DEF TypeInv
  <2>2. DOMAIN live' = 1 .. Len(live) + 1
    BY <1>1, <1>2, <2>1
  <2> QED BY <1>2, <2>1, <2>2 DEF Here
<1>4. /\ \A k \in Here : live'[k] = live[k]
      /\ live'[Len(live) + 1] = [block |-> FreeBlock, words |-> wanted.words]
  BY <1>1, <1>2, <1>3 DEF Here
<1>5. Held' = Held \cup {r}
  <2>1. Held' = {Run(live'[k].block, live'[k].words) : k \in DOMAIN live'}
    BY DEF Held, Run, Payload, PointerPlus
  <2>2. Run(live'[Len(live) + 1].block, live'[Len(live) + 1].words) = r
    BY <1>4
  <2> HIDE DEF r
  <2>3. \A x : x \in Held' <=> x \in Held \/ x = r
    <3>1. ASSUME NEW x \in Held' PROVE x \in Held \/ x = r
      <4>1. PICK k \in DOMAIN live' : x = Run(live'[k].block, live'[k].words)
        BY <2>1
      <4>2. CASE k \in Here
        BY <1>3, <1>4, <4>1, <4>2 DEF Held
      <4>3. CASE k = Len(live) + 1
        BY <2>2, <4>1, <4>3
      <4> QED BY <1>3, <4>2, <4>3
    <3>2. ASSUME NEW x \in Held PROVE x \in Held'
      <4>1. PICK k \in DOMAIN live : x = Run(live[k].block, live[k].words)
        BY DEF Held
      <4>2. k \in DOMAIN live' /\ live'[k] = live[k]
        BY <1>3, <1>4
      <4> QED BY <2>1, <4>1, <4>2
    <3>3. r \in Held'
      BY <1>3, <2>1, <2>2
    <3> QED BY <3>1, <3>2, <3>3
  <2> QED BY <2>3
<1>6. r.first = FreeBlock + 72 /\ r.words = wanted.words /\ wanted.words \in Nat \ {0}
  BY <1>1, <1>2, RequestType DEF Run, Payload, PointerPlus, HeaderWords, SizeOfHeapBlock
<1> HIDE DEF r
<1>7. ASSUME NEW s \in Held
      PROVE  s # r /\ Apart(r, s)
  <2>1. PICK k \in DOMAIN live : s = Run(live[k].block, live[k].words)
    BY DEF Held
  <2>2. k \in Here /\ k < Len(live) + 1 /\ Len(live) + 1 \in All
    BY <1>2, <1>3, <2>1 DEF Here, All
  <2>3. s.first \in Nat /\ s.words \in Nat /\ s.first + s.words <= FreeBlock
    BY <1>2, <2>1, <2>2, RunInBlock
  <2> QED BY <1>2, <1>6, <2>3 DEF Apart
<1>8. wanted.words \in {q.words : q \in Callers} \ {0} /\ r \in Held' /\ r \notin Held /\ r.first > 0
  BY <1>1, <1>2, <1>5, <1>6, <1>7
<1>9. \A s \in Held : HeapArena!Apart(r, s)
  BY <1>7 DEF Apart, HeapArena!Apart
<1> QED BY <1>5, <1>6, <1>8, <1>9 DEF HeapArena!Allocate

LEMMA KfreeFrees ==
  ASSUME IInv, NEW k \in kept + 1 .. Len(live), Kfree(k)
  PROVE  HeapArena!Free
<1>1. heapStart # NULL
  <2>1. Len(live) # 0
    BY LiveType DEF IInv, TypeInv
  <2> QED BY <2>1, LiveType DEF IInv, CallInv
<1>2. /\ Len(live) \in Here /\ Len(live') = Len(live) - 1
      /\ \A j \in 1 .. Len(live) - 1 : live'[j] = live[j]
  BY <1>1, KfreeDoes
<1>3. TypeInv /\ HeldInv /\ TailInv /\ LinkInv /\ Len(live) \in Nat
  BY <1>1, ListParts
<1>4. PICK n \in Nat : n + 1 = Len(live)
  BY <1>2, <1>3 DEF Here
<1>5. /\ DOMAIN live = 1 .. n + 1 /\ Here = 1 .. n + 1 /\ All = 1 .. n + 2
      /\ DOMAIN live' = 1 .. n /\ \A j \in 1 .. n : live'[j] = live[j]
  <2>1. DOMAIN live = 1 .. n + 1 /\ Here = 1 .. n + 1 /\ All = 1 .. n + 2
    BY <1>3, <1>4 DEF TypeInv, Here, All
  <2>2. DOMAIN live' = 1 .. n
    <3>1. IInv'
      BY KfreeKeeps
    <3>2. live' \in Seq([block : Nat, words : {q.words : q \in Callers}])
      BY <3>1 DEF IInv, TypeInv
    <3>3. Len(live') = n
      BY <1>2, <1>4
    <3> QED BY <3>2, <3>3
  <2> QED BY <1>2, <1>4, <2>1, <2>2
<1> DEFINE At1(j) == Run(live[j].block, live[j].words)
<1>6. Held = {At1(j) : j \in 1 .. n + 1}
  BY <1>5 DEF Held
<1>7. Held' = {At1(j) : j \in 1 .. n}
  <2>1. Held' = {Run(live'[j].block, live'[j].words) : j \in DOMAIN live'}
    BY DEF Held, Run, Payload, PointerPlus
  <2> QED BY <1>5, <2>1
<1>8. ASSUME NEW j \in 1 .. n PROVE At1(j) # At1(n + 1)
  <2>1. /\ j \in Here /\ j \in All /\ n + 1 \in Here /\ n + 1 \in All /\ j < n + 1
    BY <1>5
  <2>2. At1(j).first = Payload(Block(j)) /\ At1(n + 1).first = Payload(Block(n + 1))
    BY <1>3, <2>1, RunInBlock
  <2>3. Block(j) < Block(n + 1) /\ Block(j) \in Nat /\ Block(n + 1) \in Nat
    BY <1>3, <2>1, Apartness DEF LinkInv
  <2>4. Payload(Block(j)) # Payload(Block(n + 1))
    BY <2>3 DEF Payload, PointerPlus, HeaderWords, SizeOfHeapBlock
  <2> HIDE DEF At1
  <2> QED BY <2>2, <2>4
<1> HIDE DEF At1
<1>9. Held' = Held \ {At1(n + 1)} /\ At1(n + 1) \in Held
  BY <1>6, <1>7, <1>8
<1> QED BY <1>9 DEF HeapArena!Free

LEMMA NextImplements ==
  ASSUME IInv, [Next]_vars
  PROVE  [HeapArena!ArenaNext]_Held
<1>1. ASSUME live' = live PROVE Held' = Held
  BY <1>1 DEF Held, Run, Payload, PointerPlus
<1>2. CASE Split
  BY <1>2, SplitAllocates DEF HeapArena!ArenaNext
<1>3. CASE \E k \in kept + 1 .. Len(live) : Kfree(k)
  BY <1>3, KfreeFrees DEF HeapArena!ArenaNext
<1>4. CASE InitializeHeap \/ Kmalloc \/ Expand \/ UNCHANGED vars
  BY <1>1, <1>4 DEF InitializeHeap, Kmalloc, Expand, vars
<1> QED BY <1>2, <1>3, <1>4 DEF Next

-----------------------------------------------------------------------------
(* heap.cpp, Expand: as long as callers free at most the last allocation,  *)
(* and the flags of the drive's sectors suit, there is a page left when no *)
(* block fits, and its header lands neither on one of the list nor on      *)
(* words that a caller ever filled.                                        *)
THEOREM PagesCorrect ==
  ASSUME ~AnyOrder, FlagsSuit
  PROVE  Spec => []PagesApart
<1>1. PICK reach \in 1 .. MaxPages, longest \in Nat :
        /\ 512 * reach + 3 <= FlagsEnd
        /\ MaxLive * longest <= 515 * reach
        /\ MaxLive > 0 => \A r \in Callers : MostWords(r) <= longest
  BY Reaches
<1> DEFINE Inv == IInv /\ PagesInv(longest)
<1>2. Init => Inv
  BY InitHolds, PagesInit
<1>3. Inv => PagesApart
  BY <1>1, PagesAreApart
<1>4. Inv /\ [Next]_vars => Inv'
  <2> SUFFICES ASSUME Inv, [Next]_vars PROVE Inv'
    OBVIOUS
  <2>1. PagesApart
    BY <1>3
  <2>2. IInv'
    BY <2>1, NextKeeps
  <2>3. PagesInv(longest)'
    BY <1>1, <2>1, NextPages
  <2> QED BY <2>2, <2>3
<1> HIDE DEF Inv
<1> QED BY <1>2, <1>3, <1>4, PTL DEF Spec

(* heap.cpp, kmalloc and kfree: as long as callers free at most the last   *)
(* allocation, and the flags of the drive's sectors suit, the list has as  *)
(* many blocks as blockCount says, all that callers hold are in it and in  *)
(* use, and the blocks lie end to end.                                     *)
THEOREM ListCorrect ==
  ASSUME ~AnyOrder, FlagsSuit
  PROVE  Spec => []ListWhole
<1>1. Spec /\ []PagesApart => []IInv
  BY ListInvariance
<1>2. Spec => []PagesApart
  BY PagesCorrect
<1>3. IInv => ListWhole
  BY ListIsWhole
<1> QED BY <1>1, <1>2, <1>3, PTL

(* The same: no caller can reach a header of the list through what it      *)
(* holds.                                                                  *)
THEOREM ApartCorrect ==
  ASSUME ~AnyOrder, FlagsSuit
  PROVE  Spec => []HeadersApart
<1>1. Spec /\ []PagesApart => []IInv
  BY ListInvariance
<1>2. Spec => []PagesApart
  BY PagesCorrect
<1>3. IInv => HeadersApart
  BY HeadersAreApart
<1> QED BY <1>1, <1>2, <1>3, PTL

(* The same: the link that kmalloc leaves in the rest of a block that it   *)
(* splits is memory that no caller ever wrote to, if none fills more words *)
(* of what it may give back than a header has bytes for each word that one *)
(* asks for.                                                               *)
THEOREM FreshCorrect ==
  ASSUME ~AnyOrder, FlagsSuit, FilledShort
  PROVE  Spec => []LinksFromFreshWords
<1>1. Spec /\ []PagesApart => []IInv
  BY ListInvariance
<1>2. Spec => []PagesApart
  BY PagesCorrect
<1>3. Init => WrittenInv
  BY DEF Init, WrittenInv
<1>4. IInv /\ WrittenInv /\ PagesApart /\ [Next]_vars => WrittenInv'
  BY NextKeepsWritten
<1>5. IInv /\ WrittenInv => LinksFromFreshWords
  BY LinksAreFresh
<1> QED BY <1>1, <1>2, <1>3, <1>4, <1>5, PTL DEF Spec

(* The same: kmalloc and kfree implement the arena, which gives a caller   *)
(* words that nobody else holds until they are given back.                 *)
THEOREM Refinement ==
  ASSUME ~AnyOrder, FlagsSuit
  PROVE  Spec => ImplementsArena
<1>1. Spec /\ []PagesApart => []IInv
  BY ListInvariance
<1>2. Spec => []PagesApart
  BY PagesCorrect
<1>3. Init => HeapArena!ArenaInit
  BY DEF Init, Held, HeapArena!ArenaInit
<1>4. IInv /\ [Next]_vars => [HeapArena!ArenaNext]_Held
  BY NextImplements
<1> QED BY <1>1, <1>2, <1>3, <1>4, PTL DEF Spec, ImplementsArena, HeapArena!ArenaSpec
=============================================================================
