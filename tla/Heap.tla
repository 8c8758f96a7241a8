-------------------------------- MODULE Heap --------------------------------
(***************************************************************************)
(* The kernel heap, heap.cpp: kmalloc, kfree, Expand and mergeBlock over   *)
(* the list of HeapBlock headers.                                          *)
(*                                                                         *)
(* Addresses and sizes are counted in words of 8 bytes; a header has one   *)
(* word for size and free, one for prev and one for next.  Only one thread *)
(* of control uses the heap, so a step is one call, except that kmalloc    *)
(* takes one for each of its recursive calls.                              *)
(***************************************************************************)
EXTENDS Integers, Sequences, FiniteSets, FiniteSetsExt

CONSTANTS
  Boot,         (* What InitializeDrive and InitializeTerminal ask for, in *)
                (* order: words, how many of them, from the first on, they *)
                (* fill with anything but zero, and whether they keep them *)
                (* for good; what they do not keep they free at once.      *)
  Requests,     (* What the commands ask for, later and in any order.      *)
  PageWords,    (* Words of a page; 512 in the code.                       *)
  MaxPages,     (* Pages that RequestPage has left.                        *)
  MaxLive,      (* Bound on the allocations that callers hold.             *)
  AnyOrder      (* Callers free in any order.  Today they free at most the *)
                (* last allocation and keep the others for good.           *)

Request == [words : Nat, filled : Nat, keep : BOOLEAN]

(* For none, kmalloc returns NULL at once.                                 *)
Callers == {r \in Requests \cup Range(Boot) : r.words # 0}

ASSUME HeapAssumption ==
  /\ Boot \in Seq(Request) /\ Requests \subseteq Request
  /\ \A i \in DOMAIN Boot : Boot[i].words # 0
  /\ \A r \in Callers : r.filled <= r.words /\ (AnyOrder => ~r.keep)
  /\ PageWords \in Nat /\ PageWords > 3
  /\ MaxPages \in Nat \ {0} /\ MaxLive \in Nat
  /\ AnyOrder \in BOOLEAN

NULL == 0
NoRequest == [words |-> 0, filled |-> 0, keep |-> FALSE]
HeaderWords == 3           (* sizeof(HeapBlock) is 24 bytes.               *)
SizeOfHeapBlock == 24

(* No caller fills more words of what it may give back than a header has   *)
(* bytes for each word that some caller asks for: they fill 65 at most, of *)
(* the 32 words that the least of them asks for to 2067.                   *)
FilledShort ==
  \A r, s \in Callers : r.keep \/ r.filled <= SizeOfHeapBlock * s.words

(* Multiples of 16 bytes, and the header.                                  *)
BlockWords(words) == words + (words % 2) + HeaderWords

(* Mutant: the header is not skipped.                                      *)
PayloadAtHeader(block) == block

(* A HeapBlock pointer plus n bytes' worth: the compiler scales n by       *)
(* sizeof(HeapBlock), words or bytes alike.                                *)
PointerPlus(block, words) == block + SizeOfHeapBlock * words
Payload(block) == PointerPlus(block, HeaderWords)

(* The pages that the heap has when the call of ReadDiskSize and the call  *)
(* for the flags of the sectors return.  Each page that is added is worth  *)
(* its words and a header, and lets kmalloc ask for four words more.       *)
Gain == PageWords + HeaderWords - 4
DiskSizePages == (BlockWords(Boot[1].words) - 4 + Gain - 1) \div Gain
FlagPages ==
  Max({DiskSizePages,
       (BlockWords(Boot[2].words) - 4 * DiskSizePages + Gain - 1) \div Gain})

(* The words of the largest block that a request can get.                  *)
MostWords(r) == BlockWords(r.words) + 4 * (BlockWords(r.words) \div Gain + 1)

(* What keeps the pages apart.  The block of the flags is 24 times as long *)
(* as the flags are: all the pages that the heap may ever need begin in it *)
(* and not before the flags end.  So it is for a drive of 4 MiB and twelve *)
(* allocations; for one of 10 MiB or of the 93750 sectors that kernel/     *)
(* Makefile gives to its image, the page after those that the flags ask    *)
(* for begins in their last words.                                         *)
FlagsSuit ==
  /\ PageWords = 512 /\ Len(Boot) >= 2 /\ ~Boot[1].keep /\ Boot[2].keep
  /\ Payload(PageWords) + Boot[1].filled <= 2 * PageWords
  /\ Payload(PageWords) + Boot[2].filled <= PageWords * (FlagPages + 1)
  /\ \E reach \in 1 .. MaxPages :
       /\ PageWords * reach + HeaderWords <= PointerPlus(PageWords, BlockWords(Boot[2].words))
       /\ \A r \in Callers : MaxLive * MostWords(r) <= (PageWords + HeaderWords) * reach

VARIABLES
  heapStart, heapEnd, blockCount,
  blocks,    (* Headers that were written, by address.                     *)
  pages,     (* Pages that RequestPage gave to the heap.                   *)
  wanted,    (* The request of a caller; NoRequest between calls.          *)
  size,      (* Argument of the recursive call of kmalloc under way.       *)
  live,      (* Allocations that callers hold, oldest first.               *)
  kept,      (* How many of them are kept for good.                        *)
  booted,    (* Calls of Boot that were made.                              *)
  written    (* Words that callers have filled, ever.                      *)

vars == <<heapStart, heapEnd, blockCount, blocks, pages, wanted, size, live, kept, booted, written>>

(* Words that were never written read as zero.                             *)
Fresh == [size |-> 0, free |-> FALSE, prev |-> NULL, next |-> NULL]
At(b, a) == IF a \in DOMAIN b THEN b[a] ELSE Fresh
Put(b, a, header) == [i \in DOMAIN b \cup {a} |-> IF i = a THEN header ELSE b[i]]

Run(block, words) == [first |-> Payload(block), words |-> words]

-----------------------------------------------------------------------------
Init ==
  /\ heapStart = NULL /\ heapEnd = NULL /\ blockCount = 0
  /\ blocks = << >> /\ pages = 0
  /\ wanted = NoRequest /\ size = 0
  /\ live = << >> /\ kept = 0 /\ booted = 0 /\ written = {}

(* Mutant: the page that was given out is not marked.                      *)
RequestFirstPage == PageWords

(* RequestPage gives the lowest free page, and nobody but the heap asks    *)
(* for pages any more: they follow each other.                             *)
RequestPage == IF pages < MaxPages THEN PageWords * (pages + 1) ELSE NULL
Take == pages' = IF pages < MaxPages THEN pages + 1 ELSE pages

InitializeHeap ==
  /\ heapStart = NULL
  /\ Take
  /\ heapStart' = RequestPage /\ heapEnd' = RequestPage
  /\ blocks' = Put(blocks, RequestPage,
                   [size |-> PageWords + HeaderWords, free |-> TRUE, prev |-> NULL, next |-> NULL])
  /\ blockCount' = 1
  /\ UNCHANGED <<wanted, size, live, kept, booted, written>>

(* The blocks that the loop of kmalloc looks at, and where it ends.        *)
Follow ==
  [block \in Nat |-> LET next == At(blocks, block).next
                     IN  IF next # NULL THEN next ELSE block]
Walk[i \in Nat] == IF i = 0 THEN heapStart ELSE Follow[Walk[i - 1]]

(* Mutant: the size of the header replaces the size, = for +=.             *)
NeededHeaderOnly == HeaderWords
Needed == BlockWords(size)

Fits(block) == At(blocks, block).free /\ At(blocks, block).size >= Needed
Fitting == {i \in 0 .. blockCount - 1 : Fits(Walk[i])}
Selected == Walk[Min(Fitting)]

Kmalloc ==
  /\ heapStart # NULL /\ wanted = NoRequest /\ Len(live) < MaxLive
  /\ \/ /\ booted < Len(Boot) /\ Len(live) = kept
        /\ wanted' = Boot[booted + 1] /\ booted' = booted + 1
     \/ /\ booted = Len(Boot)
        /\ wanted' \in Requests /\ wanted'.words # 0 /\ booted' = booted
  /\ size' = wanted'.words
  /\ kept' = IF AnyOrder THEN 0 ELSE Len(live)
  /\ UNCHANGED <<heapStart, heapEnd, blockCount, blocks, pages, live, written>>

(* Mutant: the block is not marked as used.                                *)
SplitStillFree ==
  /\ wanted # NoRequest /\ Fitting # {}
  /\ LET block  == Selected
         chosen == At(blocks, block)
         rest   == PointerPlus(block, Needed)
         front  == [chosen EXCEPT !.size = Needed, !.next = rest]
         back   == [At(blocks, rest) EXCEPT !.size = chosen.size - Needed,
                                            !.free = TRUE, !.prev = block]
     IN  /\ blocks' = Put(Put(blocks, block, front), rest, back)
         /\ live' = Append(live, [block |-> block, words |-> wanted.words])
         /\ written' = written \cup {Run(block, wanted.filled)}
  /\ blockCount' = blockCount + 1
  /\ wanted' = NoRequest /\ size' = 0
  /\ kept' = IF wanted.keep THEN kept + 1 ELSE kept
  /\ UNCHANGED <<heapStart, heapEnd, pages, booted>>

(* The block is split, however small the rest is; the rest keeps whatever  *)
(* is in memory as its link to the next block.                             *)
Split ==
  /\ wanted # NoRequest /\ Fitting # {}
  /\ LET block  == Selected
         chosen == At(blocks, block)
         rest   == PointerPlus(block, Needed)
         front  == [chosen EXCEPT !.size = Needed, !.free = FALSE, !.next = rest]
         back   == [At(blocks, rest) EXCEPT !.size = chosen.size - Needed,
                                            !.free = TRUE, !.prev = block]
     IN  /\ blocks' = Put(Put(blocks, block, front), rest, back)
         /\ live' = Append(live, [block |-> block, words |-> wanted.words])
         /\ written' = written \cup {Run(block, wanted.filled)}
  /\ blockCount' = blockCount + 1
  /\ wanted' = NoRequest /\ size' = 0
  /\ kept' = IF wanted.keep THEN kept + 1 ELSE kept
  /\ UNCHANGED <<heapStart, heapEnd, pages, booted>>

(* Mutant: the count stays.                                                *)
MergeNextUncounted(s, block) ==
  LET this == At(s.blocks, block)
      next == At(s.blocks, this.next)
  IN  IF this.next # NULL /\ next.free
      THEN [s EXCEPT !.blocks = Put(s.blocks, block,
                                    [this EXCEPT !.size = @ + next.size, !.next = next.next])]
      ELSE s

(* mergeBlock: with the next block, then with the previous one.  The block *)
(* after them keeps its link to the block that is gone.                    *)
MergeNext(s, block) ==
  LET this == At(s.blocks, block)
      next == At(s.blocks, this.next)
  IN  IF this.next # NULL /\ next.free
      THEN [blocks |-> Put(s.blocks, block,
                           [this EXCEPT !.size = @ + next.size, !.next = next.next]),
            count  |-> s.count - 1]
      ELSE s

MergePrev(s, block) ==
  LET this == At(s.blocks, block)
      prev == At(s.blocks, this.prev)
  IN  IF this.prev # NULL /\ prev.free
      THEN [blocks |-> Put(s.blocks, this.prev,
                           [prev EXCEPT !.size = @ + this.size, !.next = this.next]),
            count  |-> s.count - 1]
      ELSE s

MergeBlock(b, count, block) ==
  MergePrev(MergeNext([blocks |-> b, count |-> count], block), block)

(* Mutant: the page is neither linked nor merged, and the call starts over. *)
ExpandUnlinked ==
  /\ wanted # NoRequest /\ Fitting = {}
  /\ Take
  /\ heapEnd' = RequestPage
  /\ size' = wanted.words
  /\ UNCHANGED <<heapStart, blockCount, blocks, wanted, live, kept, booted, written>>

(* Expand and mergeBlock, then the recursive call with a size that has the *)
(* header in it already.  Nobody compares the new page with NULL.          *)
Expand ==
  /\ wanted # NoRequest /\ Fitting = {}
  /\ LET prev  == Walk[blockCount]
         new   == [size |-> PageWords + HeaderWords, free |-> TRUE, prev |-> prev, next |-> NULL]
         grown == Put(blocks, RequestPage, new)
         linked == Put(grown, prev, [At(grown, prev) EXCEPT !.next = RequestPage])
         merged == MergeBlock(linked, blockCount + 1, RequestPage)
     IN  blocks' = merged.blocks /\ blockCount' = merged.count
  /\ Take
  /\ heapEnd' = RequestPage
  /\ size' = Needed
  /\ UNCHANGED <<heapStart, wanted, live, kept, booted, written>>

Kfree(k) ==
  /\ wanted = NoRequest
  /\ LET block  == live[k].block
         freed  == Put(blocks, block, [At(blocks, block) EXCEPT !.free = TRUE])
         merged == MergeBlock(freed, blockCount, block)
     IN  blocks' = merged.blocks /\ blockCount' = merged.count
  /\ live' = SubSeq(live, 1, k - 1) \o SubSeq(live, k + 1, Len(live))
  /\ UNCHANGED <<heapStart, heapEnd, pages, wanted, size, kept, booted, written>>

Next ==
  \/ InitializeHeap \/ Kmalloc \/ Split \/ Expand
  \/ \E k \in kept + 1 .. Len(live) : Kfree(k)

(* A call of kmalloc goes on; callers do what they like.                   *)
Spec == Init /\ [][Next]_vars /\ WF_vars(Split \/ Expand)

-----------------------------------------------------------------------------
Listed == {Walk[i] : i \in 0 .. blockCount} \ {NULL}
Headers(B) == {[first |-> b, words |-> HeaderWords] : b \in B}
Apart(r, s) == r.first + r.words <= s.first \/ s.first + s.words <= r.first
Held == {Run(live[k].block, live[k].words) : k \in DOMAIN live}

(* The list holds blockCount blocks, among them every block that a caller  *)
(* holds: kmalloc's loop, which counts to blockCount, sees them all.  They *)
(* lie end to end, and end where the pages requested do, each of which     *)
(* counts as one page and one header: no word is lost or invented.         *)
ListWhole ==
  /\ Cardinality(Listed) = blockCount
  /\ \A k \in DOMAIN live : live[k].block \in Listed /\ ~At(blocks, live[k].block).free
  /\ \A b \in Listed :
       PointerPlus(b, At(blocks, b).size) =
         IF At(blocks, b).next # NULL THEN At(blocks, b).next
         ELSE PointerPlus(PageWords, pages * (PageWords + HeaderWords))

(* What a caller may write to is no part of a header in the list.          *)
HeadersApart == \A r \in Held, h \in Headers(Listed) : Apart(r, h)

(* A block that is split off takes its link from memory that no caller     *)
(* ever wrote to.                                                          *)
LinksFromFreshWords ==
  wanted # NoRequest /\ Fitting # {} =>
    LET header == [first |-> PointerPlus(Selected, Needed), words |-> HeaderWords]
    IN  \A r \in written : Apart(r, header)

(* Expand gets a page, and the header that it writes there lands neither   *)
(* on one of the list nor on words that a caller filled.  The list runs on *)
(* far past the pages that were requested, so this is not a matter of      *)
(* course.                                                                 *)
PagesApart ==
  wanted # NoRequest /\ Fitting = {} =>
    LET header == [first |-> RequestPage, words |-> HeaderWords]
    IN  RequestPage # NULL /\ \A r \in Headers(Listed) \cup written : Apart(r, header)

(* The heap implements an arena.                                           *)
HeapArena == INSTANCE Arena WITH
               Sizes <- {r.words : r \in Callers}, held <- Held

ImplementsArena == HeapArena!ArenaSpec

(* Every call of kmalloc returns: a round of its recursion adds a page,    *)
(* which is more than the header that the size grows by.                   *)
KmallocReturns == wanted # NoRequest ~> wanted = NoRequest
=============================================================================
