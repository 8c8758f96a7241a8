-------------------------- MODULE PageTables_proof --------------------------
(***************************************************************************)
(* Proofs about the page frame allocator, for every memory map, kernel     *)
(* image and frame buffer that its assumptions allow, and about            *)
(* PrepareMemory and MapMemory, for any machine, any number of entries to  *)
(* a table and any devices: while the allocator has pages, the tables are  *)
(* a tree, mapping one page changes no other, and memory is mapped when    *)
(* paging is turned on.                                                    *)
(***************************************************************************)
EXTENDS PageTables, FiniteSetTheorems, TLAPS

(* Before the memory map is read nothing is marked and nobody holds a page.*)
ColdStart == stage = "cold" => used = {} /\ owned = {} /\ bitmapIndex = 0

(* Once it is read, every page that must be kept is marked.                *)
ProtectedMarked == stage # "cold" => Protected(map) \cap AllPages \subseteq used

(* What callers hold stays clear of the protected pages.                   *)
OwnedUnprotected == owned \cap Protected(map) = {}

(* The inductive invariant.  A page is only ever unmarked if a caller held *)
(* it, so the protected pages stay marked; and a page is only ever given   *)
(* out if it was unmarked, so nobody holds a protected page.               *)
IInv ==
  /\ TypeOK
  /\ CursorInv
  /\ OwnedMarked
  /\ ColdStart
  /\ ProtectedMarked
  /\ OwnedUnprotected

-----------------------------------------------------------------------------
(* The bitmap of any memory map has a whole number of bytes, at least one, *)
(* and covers every page of memory with at most seven bits to spare.       *)
LEMMA BitmapSize ==
  ASSUME NEW m \in MemoryMaps
  PROVE  /\ GetMemorySize(m) \in Nat
         /\ BitmapBytes(m) \in Nat
         /\ BitCount(m) \in Nat
         /\ GetMemorySize(m) + 1 <= BitCount(m)
         /\ BitCount(m) <= GetMemorySize(m) + 8
<1>1. GetMemorySize(m) \in Nat
  BY MapsAssumption
<1> QED
  BY <1>1 DEF BitmapBytes, BitCount

(* A set of indexes within reach of Bitmap::Set has a cardinality.         *)
LEMMA AddressableCard ==
  ASSUME NEW m \in MemoryMaps, NEW S \in SUBSET Addressable(m)
  PROVE  /\ IsFiniteSet(S)
         /\ Cardinality(S) \in Nat
<1>1. IsFiniteSet(Addressable(m))
  BY BitmapSize, FS_Interval DEF Addressable
<1>2. IsFiniteSet(S)
  BY <1>1, FS_Subset
<1> QED
  BY <1>2, FS_CardinalityType

(* A counter of the allocator stays a machine word.                        *)
LEMMA WordRange ==
  ASSUME NEW n \in Int
  PROVE  n % Word \in 0 .. Word - 1
BY SizesAssumption

(* Protected pages are page numbers.                                       *)
LEMMA ProtectedType ==
  ASSUME NEW m \in MemoryMaps
  PROVE  Protected(m) \in SUBSET Nat
<1>1. /\ LowPages \in Nat
      /\ PageBytes \in Nat \ {0}
      /\ LargestFreeSegment(m) \in Nat
  BY SizesAssumption, MapsAssumption
<1>2. BitmapPages(m) \in SUBSET Nat
  BY <1>1, BitmapSize DEF BitmapPages, Span
<1>3. Span(0, LowPages) \in SUBSET Nat
  BY <1>1 DEF Span
<1> QED
  BY <1>2, <1>3, BitmapSize DEF Protected

(* The rounding tail has at most seven pages.                              *)
LEMMA RoundingTailSize ==
  ASSUME NEW m \in MemoryMaps
  PROVE  Cardinality(RoundingTail(m)) <= 7
<1> DEFINE lo == GetMemorySize(m) + 1
           hi == BitCount(m) - 1
<1>1. /\ lo \in Int /\ hi \in Int
      /\ hi - lo + 1 <= 7
  BY BitmapSize
<1>2. /\ IsFiniteSet(lo .. hi)
      /\ Cardinality(lo .. hi) = IF lo > hi THEN 0 ELSE hi - lo + 1
  BY <1>1, FS_Interval
<1>3. /\ RoundingTail(m) \subseteq lo .. hi
  BY DEF RoundingTail
<1>4. Cardinality(RoundingTail(m)) <= Cardinality(lo .. hi)
  BY <1>2, <1>3, FS_Subset
<1>5. Cardinality(RoundingTail(m)) \in Nat
  BY <1>2, <1>3, FS_Subset, FS_CardinalityType
<1> HIDE DEF lo, hi
<1> QED
  BY <1>1, <1>2, <1>4, <1>5
-----------------------------------------------------------------------------
(* The machine starts in the invariant.                                    *)
LEMMA InitIInv == Init => IInv
<1> SUFFICES ASSUME Init PROVE IInv
  OBVIOUS
<1>1. Bits \in Nat /\ 0 \in 0 .. Word - 1
  BY BitmapSize, SizesAssumption DEF Init, Bits
<1>2. /\ refused \in BOOLEAN /\ stage \in Stages
      /\ {allocatedMemory, reservedMemory, freeMemory} \subseteq 0 .. Word - 1
  BY <1>1, Zenon DEF Init, Stages
<1>3. TypeOK
  BY <1>1, <1>2 DEF Init, TypeOK, AllPages
<1> QED
  BY <1>3 DEF Init, IInv, CursorInv, OwnedMarked, ColdStart, ProtectedMarked,
              OwnedUnprotected

(* Reading the memory map marks every protected page.                      *)
LEMMA ReadEfiMemoryMapIInv == IInv /\ ReadEfiMemoryMap => IInv'
<1> SUFFICES ASSUME IInv, ReadEfiMemoryMap PROVE IInv'
  OBVIOUS
<1> USE DEF IInv
<1>1. PICK garbage \in SUBSET {Bits} :
        LET reserved == ReservedAtBoot(map, garbage) \cap Addressable(map)
            bitmap   == (BitmapPages(map) \cap Addressable(map)) \ reserved
        IN  /\ used' = reserved \cup bitmap
            /\ allocatedMemory' = Cardinality(bitmap) % Word
            /\ freeMemory' = (UsablePages(map) - Cardinality(bitmap)) % Word
  BY DEF ReadEfiMemoryMap
<1> DEFINE reserved == ReservedAtBoot(map, garbage) \cap Addressable(map)
           bitmap   == (BitmapPages(map) \cap Addressable(map)) \ reserved
<1>2. /\ map \in MemoryMaps /\ map' = map
      /\ bitmapIndex = 0 /\ bitmapIndex' = 0
      /\ owned = {} /\ owned' = {}
      /\ stage' = "mapped"
  BY DEF ReadEfiMemoryMap, TypeOK, ColdStart
<1>3. /\ Cardinality(bitmap) \in Nat
      /\ UsablePages(map) \in Nat
      /\ CountPages(map, ReclaimableTypes) + LowPages \in Nat
  BY <1>2, AddressableCard, MapsAssumption, SizesAssumption
<1>4. {allocatedMemory', reservedMemory', freeMemory'} \subseteq 0 .. Word - 1
  <2> HIDE DEF bitmap
  <2>1. /\ allocatedMemory' = Cardinality(bitmap) % Word
        /\ freeMemory' = (UsablePages(map) - Cardinality(bitmap)) % Word
        /\ reservedMemory' = (CountPages(map, ReclaimableTypes) + LowPages) % Word
    BY <1>1 DEF bitmap, ReadEfiMemoryMap
  <2> QED
    BY <1>3, <2>1, WordRange
<1>5. TypeOK'
  BY <1>1, <1>2, <1>4, BitmapSize DEF TypeOK, Stages, Bits, AllPages, ReadEfiMemoryMap
<1>6. ProtectedMarked'
  BY <1>1, <1>2, BitmapSize
     DEF ProtectedMarked, Protected, ReservedAtBoot, Addressable, AllPages, Bits
<1> QED
  BY <1>2, <1>5, <1>6 DEF CursorInv, OwnedMarked, ColdStart, OwnedUnprotected

(* Marking more pages, as PrepareMemory does for the kernel and the frame  *)
(* buffer, keeps the invariant.                                            *)
LEMMA AllocatePagesIInv ==
  ASSUME NEW first \in Nat, NEW count \in Nat,
         IInv, AllocatePages(first, count),
         stage # "cold", stage' \in Stages \ {"cold"}
  PROVE  IInv'
<1> USE DEF IInv
<1> DEFINE new == (Span(first, count) \cap Addressable(map)) \ used
<1>1. /\ map \in MemoryMaps /\ map' = map
      /\ used' = used \cup new
      /\ owned' = owned /\ bitmapIndex' = bitmapIndex /\ refused' = refused
  BY DEF AllocatePages, TypeOK
<1>2. Cardinality(new) \in Nat
  BY <1>1, AddressableCard
<1>3. {allocatedMemory', reservedMemory', freeMemory'} \subseteq 0 .. Word - 1
  <2> HIDE DEF new
  <2>1. /\ allocatedMemory' = (allocatedMemory + Cardinality(new)) % Word
        /\ freeMemory' = (freeMemory - Cardinality(new)) % Word
        /\ reservedMemory' = reservedMemory
        /\ allocatedMemory \in Int /\ freeMemory \in Int
    BY SizesAssumption DEF new, AllocatePages, TypeOK
  <2> QED
    BY <1>2, <2>1, WordRange DEF TypeOK
<1>4. TypeOK'
  BY <1>1, <1>3 DEF TypeOK, AllPages, Bits
<1> QED
  BY <1>1, <1>4 DEF CursorInv, OwnedMarked, ColdStart, ProtectedMarked,
                    OwnedUnprotected, AllPages, Bits
(* A page that RequestPage finds was unmarked, hence not protected.        *)
LEMMA RequestPageIInv == IInv /\ RequestPage => IInv'
<1> SUFFICES ASSUME IInv, RequestPage PROVE IInv'
  OBVIOUS
<1> USE DEF IInv
<1>1. PICK p \in FreeFrom(bitmapIndex) :
        /\ \A q \in FreeFrom(bitmapIndex) : p <= q
        /\ bitmapIndex' = p
        /\ used' = used \cup {p}
        /\ owned' = owned \cup {p}
  BY DEF RequestPage
<1>2. /\ map \in MemoryMaps /\ map' = map
      /\ stage' = stage /\ stage # "cold"
      /\ refused' = FALSE
  BY DEF RequestPage, TypeOK
<1>3. p \in AllPages /\ p \notin used /\ p \in Addressable(map) /\ p \in 0 .. Bits
  BY <1>1, <1>2, BitmapSize DEF FreeFrom, TypeOK, AllPages, Bits, Addressable
<1>4. {allocatedMemory', reservedMemory', freeMemory'} \subseteq 0 .. Word - 1
  BY WordRange, SizesAssumption DEF RequestPage, TypeOK
<1>5. TypeOK'
  BY <1>1, <1>2, <1>3, <1>4 DEF TypeOK, AllPages, Bits
<1>6. CursorInv'
  <2> SUFFICES ASSUME NEW q \in 0 .. p - 1 PROVE q \in used
    BY <1>1, <1>2 DEF CursorInv
  <2>1. CASE q < bitmapIndex
    BY <1>2, <1>3, <2>1, BitmapSize DEF CursorInv, TypeOK, AllPages, Bits
  <2>2. CASE q >= bitmapIndex
    BY <1>1, <1>2, <1>3, <2>2, BitmapSize DEF FreeFrom, TypeOK, AllPages, Bits
  <2> QED
    BY <1>2, <1>3, <2>1, <2>2, BitmapSize DEF TypeOK, AllPages, Bits
<1>7. OwnedMarked' /\ ColdStart' /\ ProtectedMarked'
  BY <1>1, <1>2 DEF OwnedMarked, ColdStart, ProtectedMarked, AllPages, Bits
<1>8. OwnedUnprotected'
  BY <1>1, <1>2, <1>3 DEF OwnedUnprotected, ProtectedMarked
<1> QED
  BY <1>5, <1>6, <1>7, <1>8

(* A request that fails leaves the cursor behind the last page.            *)
LEMMA RequestPageFailsIInv == IInv /\ RequestPageFails => IInv'
<1> SUFFICES ASSUME IInv, RequestPageFails PROVE IInv'
  OBVIOUS
<1> USE DEF IInv
<1>1. /\ map \in MemoryMaps /\ map' = map
      /\ stage' = stage /\ stage # "cold"
      /\ used' = used /\ owned' = owned
      /\ bitmapIndex' = IF bitmapIndex < Bits THEN Bits ELSE bitmapIndex
      /\ refused' = TRUE
      /\ allocatedMemory' = allocatedMemory
      /\ reservedMemory' = reservedMemory
      /\ freeMemory' = freeMemory
  BY DEF RequestPageFails, TypeOK
<1>2. Bits \in Nat /\ Bits' = Bits /\ bitmapIndex \in 0 .. Bits
  BY <1>1, BitmapSize DEF Bits, TypeOK
<1>3. TypeOK'
  BY <1>1, <1>2 DEF TypeOK, AllPages
<1>4. CursorInv'
  BY <1>1, <1>2 DEF CursorInv, FreeFrom, RequestPageFails
<1> QED
  BY <1>1, <1>2, <1>3, <1>4 DEF OwnedMarked, ColdStart, ProtectedMarked,
                                OwnedUnprotected, AllPages

(* The cursor after a release is the lower of the old one and the first    *)
(* page of the range.                                                      *)
LEMMA RewindToFirst ==
  ASSUME NEW first \in Nat, NEW count \in Nat \ {0}, bitmapIndex \in Nat
  PROVE  Rewind(Span(first, count)) = IF first < bitmapIndex THEN first ELSE bitmapIndex
<1> DEFINE S == Span(first, count) \cup {bitmapIndex}
           lowest == IF first < bitmapIndex THEN first ELSE bitmapIndex
<1>1. /\ lowest \in S /\ S \subseteq Nat
      /\ \A p \in S : lowest <= p
  BY DEF Span
<1>2. \A i \in S : (\A p \in S : i <= p) => i = lowest
  BY <1>1
<1> HIDE DEF S, lowest
<1>3. (CHOOSE i \in S : \A p \in S : i <= p) = lowest
  BY <1>1, <1>2
<1> QED
  BY <1>3 DEF S, lowest, Rewind

(* Releasing pages unmarks nothing but what a caller held.                 *)
LEMMA FreePagesIInv ==
  ASSUME NEW first \in Nat, NEW count \in Nat,
         IInv, FreePages(first, count)
  PROVE  IInv'
<1> USE DEF IInv
<1> DEFINE span == Span(first, count)
<1>1. /\ map \in MemoryMaps /\ map' = map
      /\ stage' = stage /\ refused' = refused /\ reservedMemory' = reservedMemory
      /\ count \in Nat \ {0}
      /\ span \subseteq owned /\ span \subseteq used
      /\ owned' = owned \ span
  BY DEF FreePages, TypeOK, OwnedMarked
<1>2. /\ used' = used \ span
      /\ bitmapIndex' = Rewind(span)
      /\ allocatedMemory' = (allocatedMemory - Cardinality(span)) % Word
      /\ freeMemory' = (freeMemory + Cardinality(span)) % Word
  <2>1. span \cap used = span
    BY <1>1
  <2> QED
    BY <2>1 DEF FreePages
<1>3. first \in span /\ first \in AllPages /\ bitmapIndex \in 0 .. Bits /\ Bits \in Nat
  BY <1>1, BitmapSize DEF Span, TypeOK, Bits
<1>4. bitmapIndex' = IF first < bitmapIndex THEN first ELSE bitmapIndex
  BY <1>1, <1>2, <1>3, RewindToFirst
<1>5. {allocatedMemory', reservedMemory', freeMemory'} \subseteq 0 .. Word - 1
  <2>1. Cardinality(span) \in Nat
    BY <1>1, AddressableCard DEF TypeOK
  <2> HIDE DEF span
  <2> QED
    BY <1>1, <1>2, <2>1, WordRange, SizesAssumption DEF TypeOK
<1>6. TypeOK'
  <2>1. bitmapIndex' \in 0 .. Bits
    BY <1>3, <1>4
  <2> HIDE DEF span
  <2> QED
    BY <1>1, <1>2, <1>5, <2>1 DEF TypeOK, AllPages, Bits
<1>7. CursorInv'
  BY <1>1, <1>2, <1>3, <1>4 DEF CursorInv, Span
<1>8. OwnedMarked' /\ ColdStart'
  BY <1>1, <1>2, <1>3 DEF OwnedMarked, ColdStart
<1>9. ProtectedMarked' /\ OwnedUnprotected'
  <2> HIDE DEF span
  <2> QED
    BY <1>1, <1>2 DEF ProtectedMarked, OwnedUnprotected, AllPages, Bits
<1> QED
  BY <1>6, <1>7, <1>8, <1>9
(* Every step of the allocator keeps the invariant.                        *)
LEMMA NextIInv == IInv /\ [Next]_vars => IInv'
<1> SUFFICES ASSUME IInv, [Next]_vars PROVE IInv'
  OBVIOUS
<1>1. CASE ReadEfiMemoryMap
  BY <1>1, ReadEfiMemoryMapIInv
<1>2. CASE AllocateKernel
  <2>1. /\ Kernel.start \in Nat /\ Kernel.pages \in Nat
        /\ AllocatePages(Kernel.start, Kernel.pages)
        /\ stage # "cold" /\ stage' \in Stages \ {"cold"}
    BY <1>2, SizesAssumption DEF AllocateKernel, Stages
  <2> QED
    BY <2>1, AllocatePagesIInv
<1>3. ASSUME NEW fb \in FrameBuffers, AllocateFrameBuffer(fb)
      PROVE  IInv'
  <2>1. /\ fb.start \in Nat /\ fb.pages \in Nat
        /\ AllocatePages(fb.start, fb.pages)
        /\ stage # "cold" /\ stage' \in Stages \ {"cold"}
    BY <1>3, SizesAssumption DEF AllocateFrameBuffer, Stages
  <2> QED
    BY <2>1, AllocatePagesIInv
<1>4. CASE RequestPage
  BY <1>4, RequestPageIInv
<1>5. CASE RequestPageFails
  BY <1>5, RequestPageFailsIInv
<1>6. CASE \E first \in owned, count \in 1 .. Bits : FreePages(first, count)
  <2>1. PICK first \in owned, count \in 1 .. Bits : FreePages(first, count)
    BY <1>6
  <2>2. first \in Nat /\ count \in Nat
    BY <2>1, BitmapSize DEF IInv, TypeOK, AllPages, Bits
  <2> QED
    BY <2>1, <2>2, FreePagesIInv
<1>7. CASE UNCHANGED vars
  BY <1>7 DEF vars, IInv, TypeOK, CursorInv, OwnedMarked, ColdStart, ProtectedMarked,
              OwnedUnprotected, AllPages, Bits
<1> QED
  BY <1>1, <1>2, <1>3, <1>4, <1>5, <1>6, <1>7 DEF Next

(* The inductive invariant holds in every reachable state.                 *)
THEOREM Invariance == Spec => []IInv
BY InitIInv, NextIInv, PTL DEF Spec

(* Type correctness of the allocator, on every machine.                    *)
THEOREM TypeCorrect == Spec => []TypeOK
<1>1. IInv => TypeOK
  BY DEF IInv
<1> QED
  BY <1>1, Invariance, PTL

(* RequestPage never misses a free page by starting at its cursor.         *)
THEOREM CursorCorrect == Spec => []CursorInv
<1>1. IInv => CursorInv
  BY DEF IInv
<1> QED
  BY <1>1, Invariance, PTL

(* Nobody is given the first megabyte, the bitmap or memory that the       *)
(* firmware kept; beyond conventional memory there are only the at most    *)
(* seven pages that rounding adds to the bitmap.                           *)
THEOREM OwnedCorrect == Spec => []OwnedIsBacked
<1>1. ASSUME IInv PROVE OwnedIsBacked
  <2>1. map \in MemoryMaps /\ owned \subseteq 0 .. BitCount(map) - 1
    BY <1>1 DEF IInv, TypeOK, AllPages, Bits
  <2>2. owned \cap Protected(map) = {}
    BY <1>1 DEF IInv, OwnedUnprotected
  <2>3. owned \subseteq Usable(map) \cup RoundingTail(map)
    BY <2>1, <2>2, BitmapSize DEF Protected, RoundingTail
  <2> QED
    BY <2>1, <2>2, <2>3, RoundingTailSize DEF OwnedIsBacked
<1> QED
  BY <1>1, Invariance, PTL

(* RequestPage returns the lowest page that is free.                       *)
THEOREM LowestFirstCorrect == Spec => LowestFirst
<1>1. ASSUME IInv, [Next]_vars
      PROVE  [\A p \in owned' \ owned : \A q \in 0 .. p - 1 : q \in used]_vars
  <2> SUFFICES ASSUME Next, NEW p \in owned' \ owned, NEW q \in 0 .. p - 1
               PROVE  q \in used
    BY <1>1
  <2>1. RequestPage
    BY DEF Next, ReadEfiMemoryMap, AllocateKernel, AllocateFrameBuffer, AllocatePages,
           RequestPageFails, FreePages
  <2>2. /\ p \in FreeFrom(bitmapIndex)
        /\ \A r \in FreeFrom(bitmapIndex) : p <= r
    BY <2>1 DEF RequestPage
  <2>3. stage # "cold" /\ bitmapIndex \in Nat /\ Bits \in Nat /\ p \in bitmapIndex .. Bits - 1
    BY <1>1, <2>1, <2>2, BitmapSize DEF IInv, TypeOK, RequestPage, FreeFrom, Bits
  <2>4. CASE q < bitmapIndex
    BY <1>1, <2>3, <2>4 DEF IInv, CursorInv
  <2>5. CASE q >= bitmapIndex
    BY <2>2, <2>3, <2>5 DEF FreeFrom
  <2> QED
    BY <2>3, <2>4, <2>5
<1> QED
  BY <1>1, Invariance, PTL DEF Spec, LowestFirst

-----------------------------------------------------------------------------
(* Division with remainder, by the word of the machine.                    *)
LEMMA Divides ==
  ASSUME NEW x \in Int
  PROVE  \E q \in Int : x = (Word * q) + (x % Word)
<1>1. x \div Word \in Int /\ x = (Word * (x \div Word)) + (x % Word)
  BY SizesAssumption
<1> QED
  BY <1>1

(* The remainder is the only word that far from a multiple of Word.        *)
LEMMA OneRemainder ==
  ASSUME NEW q \in Int, NEW p \in Int,
         NEW r \in 0 .. Word - 1, NEW s \in 0 .. Word - 1,
         (Word * q) + r = (Word * p) + s
  PROVE  r = s
<1>1. CASE q = p
  BY <1>1, SizesAssumption
<1>2. CASE q > p
  <2>1. Word * (q - p) = s - r
    BY SizesAssumption
  <2>2. Word * (q - p) >= Word
    BY <1>2, SizesAssumption
  <2> QED
    BY <2>1, <2>2, SizesAssumption
<1>3. CASE p > q
  <2>1. Word * (p - q) = r - s
    BY SizesAssumption
  <2>2. Word * (p - q) >= Word
    BY <1>3, SizesAssumption
  <2> QED
    BY <2>1, <2>2, SizesAssumption
<1> QED
  BY <1>1, <1>2, <1>3

(* What one counter gains and another loses leaves their sum as it was,    *)
(* wherever the counters wrap.                                             *)
LEMMA SumKept ==
  ASSUME NEW a \in Int, NEW b \in Int, NEW k \in Int
  PROVE  (((a + k) % Word) + ((b - k) % Word)) % Word = (a + b) % Word
<1> DEFINE r == (a + k) % Word
           s == (b - k) % Word
           t == (a + b) % Word
           u == (r + s) % Word
<1>1. r \in 0 .. Word - 1 /\ s \in 0 .. Word - 1 /\ t \in 0 .. Word - 1 /\ u \in 0 .. Word - 1
  BY SizesAssumption
<1>2. PICK q1 \in Int : a + k = (Word * q1) + r
  BY Divides
<1>3. PICK q2 \in Int : b - k = (Word * q2) + s
  BY Divides
<1>4. PICK q3 \in Int : a + b = (Word * q3) + t
  BY Divides
<1>5. PICK q4 \in Int : r + s = (Word * q4) + u
  BY <1>1, Divides
<1> HIDE DEF r, s, t, u
<1>6. (Word * q3) + t = (Word * (q1 + q2 + q4)) + u
  <2>1. (Word * q3) + t = (Word * q1) + (Word * q2) + (Word * q4) + u
    BY <1>1, <1>2, <1>3, <1>4, <1>5, SizesAssumption
  <2>2. Word * (q1 + q2 + q4) = (Word * q1) + (Word * q2) + (Word * q4)
    BY SizesAssumption
  <2> QED
    BY <2>1, <2>2
<1>7. q1 + q2 + q4 \in Int
  OBVIOUS
<1>8. t = u
  BY <1>1, <1>6, <1>7, OneRemainder
<1> QED
  BY <1>8 DEF r, s, t, u

-----------------------------------------------------------------------------
(* The pages marked since the boot's reservations.                         *)
Counted == (used \cap AllPages) \ ReservedAtBoot(map, {})

(* GetUsedRAM counts them, and with them the bit after the end of the      *)
(* bitmap, once it was found clear and marked.                             *)
UsedCounts ==
  /\ allocatedMemory - Cardinality(Counted) \in {0, 1}
  /\ allocatedMemory - Cardinality(Counted) = 1 => Bits \in used

SumIsUsable == (allocatedMemory + freeMemory) % Word = UsablePages(map) % Word

CountersInv == stage # "cold" => UsedCounts /\ SumIsUsable

(* The reserved pages are protected; a page that is not may be counted.    *)
LEMMA ReservedProtected == ReservedAtBoot(map, {}) \subseteq Protected(map)
BY DEF ReservedAtBoot, Protected

(* A set within reach of the bitmap has at most one member that is no page.*)
LEMMA CardOfReach ==
  ASSUME map \in MemoryMaps, NEW S \in SUBSET Addressable(map)
  PROVE  /\ Cardinality(S \cap AllPages) \in Nat
         /\ Cardinality(S \cap AllPages) <= Bits
         /\ Cardinality(S) = Cardinality(S \cap AllPages) + (IF Bits \in S THEN 1 ELSE 0)
<1> DEFINE P == S \cap AllPages
<1>1. Bits \in Nat /\ Bits \notin AllPages
  BY BitmapSize DEF Bits, AllPages
<1>2. IsFiniteSet(AllPages) /\ Cardinality(AllPages) = Bits
  BY <1>1, FS_Interval DEF AllPages
<1>3. IsFiniteSet(P) /\ Cardinality(P) \in Nat /\ Cardinality(P) <= Bits
  BY <1>2, FS_Subset, FS_CardinalityType
<1>4. Addressable(map) = AllPages \cup {Bits}
  BY BitmapSize DEF Addressable, AllPages, Bits
<1>5. CASE Bits \in S
  <2>1. S = P \cup {Bits} /\ Bits \notin P
    BY <1>1, <1>4, <1>5
  <2>2. Cardinality(P \cup {Bits}) = Cardinality(P) + 1
    BY <1>3, <2>1, FS_AddElement
  <2> QED
    BY <1>3, <1>5, <2>1, <2>2
<1>6. CASE Bits \notin S
  <2>1. S = P
    BY <1>4, <1>6
  <2> QED
    BY <1>3, <1>6, <2>1
<1> QED
  BY <1>5, <1>6

(* Marking indexes that were clear counts each of them once.               *)
LEMMA MarkingCounts ==
  ASSUME NEW new \in SUBSET Addressable(map), new \cap used = {},
         \A m \in MemoryMaps : BitCount(m) + 1 < Word,
         IInv, CountersInv, stage # "cold", map' = map,
         used' = used \cup new,
         allocatedMemory' = (allocatedMemory + Cardinality(new)) % Word,
         freeMemory' = (freeMemory - Cardinality(new)) % Word
  PROVE  CountersInv'
<1> DEFINE pages == new \cap AllPages
           extra == IF Bits \in new THEN 1 ELSE 0
<1>1. /\ map \in MemoryMaps /\ used \in SUBSET Addressable(map)
      /\ allocatedMemory \in Nat /\ freeMemory \in Nat
      /\ Bits \in Nat /\ Bits' = Bits /\ AllPages' = AllPages /\ Bits + 1 < Word
      /\ UsedCounts /\ SumIsUsable
  BY BitmapSize, SizesAssumption DEF IInv, TypeOK, Bits, AllPages, CountersInv
<1>2. Cardinality(new) = Cardinality(pages) + extra /\ Cardinality(pages) \in Nat
  BY <1>1, CardOfReach
<1>3. pages \cap ReservedAtBoot(map, {}) = {}
  BY ReservedProtected DEF IInv, ProtectedMarked
<1>4. Counted' = Counted \cup pages /\ Counted \cap pages = {}
  BY <1>1, <1>3 DEF Counted
<1>5. /\ IsFiniteSet(Counted) /\ IsFiniteSet(pages)
      /\ Cardinality(Counted) \in Nat
      /\ Counted' \in SUBSET Addressable(map) /\ Counted' \cap AllPages = Counted'
  BY <1>1, <1>4, AddressableCard DEF Counted
<1>6. Cardinality(Counted') = Cardinality(Counted) + Cardinality(pages)
  <2>1. Cardinality(Counted \cup pages)
          = Cardinality(Counted) + Cardinality(pages) - Cardinality(Counted \cap pages)
    BY <1>5, FS_Union
  <2>2. Cardinality(Counted \cap pages) = 0
    BY <1>4, FS_EmptySet
  <2> HIDE DEF pages
  <2> QED
    BY <1>2, <1>4, <1>5, <2>1, <2>2
<1>7. Cardinality(Counted') <= Bits
  BY <1>1, <1>5, CardOfReach
<1>8. Bits \in new => Bits \notin used
  OBVIOUS
<1> HIDE DEF pages, extra
<1>9. extra \in {0, 1} /\ (extra = 1 => Bits \in new)
  BY DEF extra
<1>10. (allocatedMemory - Cardinality(Counted)) + extra \in {0, 1}
  BY <1>1, <1>5, <1>8, <1>9 DEF UsedCounts
<1>11. /\ allocatedMemory + Cardinality(new) \in 0 .. Word - 1
       /\ allocatedMemory' = allocatedMemory + Cardinality(new)
  <2>1. allocatedMemory + Cardinality(new) \in 0 .. Word - 1
    <3> DEFINE c == Cardinality(Counted)
               d == Cardinality(Counted')
               n == Cardinality(new)
               m == Cardinality(pages)
    <3>1. /\ c \in Nat /\ m \in Nat /\ d = c + m /\ d <= Bits /\ n = m + extra
          /\ (allocatedMemory - c) + extra \in {0, 1}
      BY <1>2, <1>5, <1>6, <1>7, <1>10
    <3>2. Word \in Nat /\ allocatedMemory \in Nat /\ Bits \in Nat /\ Bits + 1 < Word /\ extra \in {0, 1}
      BY <1>1, <1>9, SizesAssumption
    <3> HIDE DEF c, d, n, m
    <3>3. allocatedMemory + n = d + ((allocatedMemory - c) + extra)
      BY <3>1, <3>2
    <3>4. allocatedMemory + n \in 0 .. Word - 1
      BY <3>1, <3>2, <3>3
    <3> QED
      BY <3>4 DEF n
  <2> QED
    BY <2>1, SizesAssumption
<1>12. allocatedMemory' - Cardinality(Counted') = (allocatedMemory - Cardinality(Counted)) + extra
  BY <1>1, <1>2, <1>5, <1>6, <1>9, <1>11
<1>13. UsedCounts'
  <2>1. allocatedMemory' - Cardinality(Counted') = 1 => Bits \in used'
    BY <1>1, <1>5, <1>9, <1>12 DEF UsedCounts
  <2> QED
    BY <1>1, <1>10, <1>12, <2>1 DEF UsedCounts
<1>14. SumIsUsable'
  <2> DEFINE k == Cardinality(new)
  <2>1. k \in Int /\ allocatedMemory \in Int /\ freeMemory \in Int
    BY <1>1, <1>2, <1>9
  <2>2. allocatedMemory' = (allocatedMemory + k) % Word /\ freeMemory' = (freeMemory - k) % Word
    OBVIOUS
  <2> HIDE DEF k
  <2>3. \A a, b, n \in Int : (((a + n) % Word) + ((b - n) % Word)) % Word = (a + b) % Word
    BY SumKept
  <2>4. (((allocatedMemory + k) % Word) + ((freeMemory - k) % Word)) % Word
          = (allocatedMemory + freeMemory) % Word
    BY <2>1, <2>3, Zenon
  <2> QED
    BY <1>1, <2>2, <2>4 DEF SumIsUsable
<1> QED
  BY <1>13, <1>14 DEF CountersInv

(* Reading the memory map counts the pages of the bitmap.                  *)
LEMMA ReadEfiMemoryMapCounts ==
  ASSUME \A m \in MemoryMaps : BitCount(m) + 1 < Word,
         IInv, ReadEfiMemoryMap
  PROVE  CountersInv'
<1>1. PICK garbage \in SUBSET {Bits} :
        LET reserved == ReservedAtBoot(map, garbage) \cap Addressable(map)
            bitmap   == (BitmapPages(map) \cap Addressable(map)) \ reserved
        IN  /\ used' = reserved \cup bitmap
            /\ allocatedMemory' = Cardinality(bitmap) % Word
            /\ freeMemory' = (UsablePages(map) - Cardinality(bitmap)) % Word
  BY DEF ReadEfiMemoryMap
<1> DEFINE reserved == ReservedAtBoot(map, garbage) \cap Addressable(map)
           bitmap   == (BitmapPages(map) \cap Addressable(map)) \ reserved
           extra    == IF Bits \in bitmap THEN 1 ELSE 0
<1>2. /\ map \in MemoryMaps /\ map' = map /\ Bits' = Bits /\ AllPages' = AllPages
      /\ Bits \in Nat /\ Bits + 1 < Word /\ Bits \notin AllPages
      /\ UsablePages(map) \in Nat
      /\ bitmap \in SUBSET Addressable(map)
  BY BitmapSize, MapsAssumption DEF ReadEfiMemoryMap, IInv, TypeOK, Bits, AllPages
<1>3. Counted' = bitmap \cap AllPages
  BY <1>1, <1>2 DEF Counted, ReservedAtBoot, Addressable, AllPages, Bits
<1>4. /\ Cardinality(bitmap) = Cardinality(bitmap \cap AllPages) + extra
      /\ Cardinality(bitmap \cap AllPages) \in Nat
      /\ Cardinality(bitmap \cap AllPages) <= Bits
  BY <1>2, CardOfReach
<1>5. /\ used' = reserved \cup bitmap
      /\ allocatedMemory' = Cardinality(bitmap) % Word
      /\ freeMemory' = (UsablePages(map) - Cardinality(bitmap)) % Word
  BY <1>1
<1>6. extra \in {0, 1} /\ (extra = 1 => Bits \in bitmap)
  OBVIOUS
<1> HIDE DEF reserved, bitmap, extra
<1>7. Cardinality(bitmap) \in 0 .. Word - 1
  BY <1>2, <1>4, <1>6, SizesAssumption
<1>8. allocatedMemory' = Cardinality(bitmap)
  BY <1>5, <1>7, SizesAssumption
<1>9. allocatedMemory' - Cardinality(Counted') = extra
  BY <1>3, <1>4, <1>6, <1>8
<1>10. UsedCounts'
  BY <1>2, <1>5, <1>6, <1>9 DEF UsedCounts
<1>11. SumIsUsable'
  <2> DEFINE k == Cardinality(bitmap)
  <2>1. k \in Int /\ 0 \in Int /\ UsablePages(map) \in Int /\ 0 + k = k /\ 0 + UsablePages(map) = UsablePages(map)
    BY <1>2, <1>7
  <2>2. allocatedMemory' = k % Word /\ freeMemory' = (UsablePages(map) - k) % Word
    BY <1>5
  <2> HIDE DEF k
  <2>3. \A a, b, n \in Int : (((a + n) % Word) + ((b - n) % Word)) % Word = (a + b) % Word
    BY SumKept
  <2>4. (((0 + k) % Word) + ((UsablePages(map) - k) % Word)) % Word = (0 + UsablePages(map)) % Word
    BY <2>1, <2>3, Zenon
  <2> QED
    BY <1>2, <2>1, <2>2, <2>4 DEF SumIsUsable
<1> QED
  BY <1>10, <1>11 DEF CountersInv

(* Releasing pages takes off what marking them added.                      *)
LEMMA FreePagesCounts ==
  ASSUME NEW first \in Nat, NEW count \in Nat,
         \A m \in MemoryMaps : BitCount(m) + 1 < Word,
         IInv, CountersInv, FreePages(first, count)
  PROVE  CountersInv'
<1> DEFINE freed == Span(first, count)
<1>1. /\ map \in MemoryMaps /\ used \in SUBSET Addressable(map)
      /\ allocatedMemory \in Nat /\ freeMemory \in Nat
      /\ Bits \in Nat /\ Bits \notin AllPages /\ Bits + 1 < Word
  BY BitmapSize, SizesAssumption DEF IInv, TypeOK, Bits, AllPages
<1>2. /\ map' = map /\ Bits' = Bits /\ AllPages' = AllPages
      /\ freed \subseteq owned /\ freed \cap used = freed /\ freed # {}
      /\ used' = used \ freed
      /\ allocatedMemory' = (allocatedMemory - Cardinality(freed)) % Word
      /\ freeMemory' = (freeMemory + Cardinality(freed)) % Word
  <2>1. freed \subseteq owned
    BY DEF FreePages
  <2>2. freed \cap used = freed
    BY <2>1 DEF IInv, OwnedMarked
  <2>3. freed # {} /\ map' = map
    BY DEF FreePages, Span
  <2> QED
    BY <2>1, <2>2, <2>3 DEF FreePages, Bits, AllPages
<1>3. stage # "cold" /\ UsedCounts /\ SumIsUsable
  BY <1>2 DEF IInv, ColdStart, CountersInv
<1> HIDE DEF freed
<1>4. freed \subseteq Counted
  BY <1>2, ReservedProtected DEF Counted, IInv, TypeOK, OwnedMarked, OwnedUnprotected
<1>5. Counted' = Counted \ freed
  BY <1>1, <1>2 DEF Counted
<1>6. /\ IsFiniteSet(Counted) /\ IsFiniteSet(freed)
      /\ Cardinality(Counted) \in Nat /\ Cardinality(freed) \in Nat
      /\ Cardinality(freed) <= Cardinality(Counted)
  <2>1. Counted \in SUBSET Addressable(map)
    BY <1>1 DEF Counted
  <2> QED
    BY <1>1, <1>4, <2>1, AddressableCard, FS_Subset
<1>7. Cardinality(Counted') = Cardinality(Counted) - Cardinality(freed)
  <2>1. Counted \cap freed = freed
    BY <1>4
  <2>2. Cardinality(Counted \ freed) = Cardinality(Counted) - Cardinality(Counted \cap freed)
    BY <1>6, FS_Difference
  <2> QED
    BY <1>5, <2>1, <2>2
<1>8. allocatedMemory' = allocatedMemory - Cardinality(freed)
  <2>1. allocatedMemory \in 0 .. Word - 1
    BY DEF IInv, TypeOK
  <2>2. allocatedMemory - Cardinality(freed) \in 0 .. Word - 1
    BY <1>3, <1>6, <2>1, SizesAssumption DEF UsedCounts
  <2> QED
    BY <1>2, <2>2, SizesAssumption
<1>9. UsedCounts'
  <2>1. allocatedMemory' - Cardinality(Counted') = allocatedMemory - Cardinality(Counted)
    BY <1>1, <1>6, <1>7, <1>8
  <2>2. Bits \in used => Bits \in used'
    BY <1>1, <1>2 DEF IInv, TypeOK
  <2> QED
    BY <1>2, <1>3, <2>1, <2>2 DEF UsedCounts
<1>10. SumIsUsable'
  <2> DEFINE k == Cardinality(freed)
  <2>1. k \in Int /\ allocatedMemory \in Int /\ freeMemory \in Int
    BY <1>1, <1>6
  <2>2. freeMemory' = (freeMemory + k) % Word /\ allocatedMemory' = (allocatedMemory - k) % Word
    BY <1>2
  <2> HIDE DEF k
  <2>3. \A a, b, n \in Int : (((a + n) % Word) + ((b - n) % Word)) % Word = (a + b) % Word
    BY SumKept
  <2>4. (freeMemory' + allocatedMemory') % Word = (freeMemory + allocatedMemory) % Word
    BY <2>1, <2>2, <2>3, Zenon
  <2>5. allocatedMemory' \in Int /\ freeMemory' \in Int
    BY <1>1, <2>1, <2>2, SizesAssumption
  <2>6. /\ allocatedMemory' + freeMemory' = freeMemory' + allocatedMemory'
        /\ allocatedMemory + freeMemory = freeMemory + allocatedMemory
    BY <1>1, <2>5
  <2> QED
    BY <1>2, <1>3, <2>4, <2>6 DEF SumIsUsable
<1> QED
  BY <1>9, <1>10 DEF CountersInv

(* Every step keeps the counters in step with the bitmap.                  *)
LEMMA NextCounts ==
  ASSUME \A m \in MemoryMaps : BitCount(m) + 1 < Word,
         IInv, CountersInv, [Next]_vars
  PROVE  CountersInv'
<1>1. CASE ReadEfiMemoryMap
  BY <1>1, ReadEfiMemoryMapCounts
<1>2. ASSUME NEW first, NEW count, AllocatePages(first, count), stage # "cold"
      PROVE  CountersInv'
  <2> DEFINE new == (Span(first, count) \cap Addressable(map)) \ used
  <2>1. new \in SUBSET Addressable(map) /\ new \cap used = {}
    OBVIOUS
  <2>2. /\ map' = map /\ used' = used \cup new
        /\ allocatedMemory' = (allocatedMemory + Cardinality(new)) % Word
        /\ freeMemory' = (freeMemory - Cardinality(new)) % Word
    BY <1>2 DEF AllocatePages
  <2> HIDE DEF new
  <2> QED
    BY <1>2, <2>1, <2>2, MarkingCounts
<1>3. CASE AllocateKernel
  BY <1>2, <1>3 DEF AllocateKernel
<1>4. ASSUME NEW fb \in FrameBuffers, AllocateFrameBuffer(fb)
      PROVE  CountersInv'
  BY <1>2, <1>4 DEF AllocateFrameBuffer
<1>5. CASE RequestPage
  <2>1. PICK p \in FreeFrom(bitmapIndex) : used' = used \cup {p}
    BY <1>5 DEF RequestPage
  <2>2. {p} \in SUBSET Addressable(map) /\ {p} \cap used = {}
    BY <2>1, BitmapSize DEF FreeFrom, Addressable, Bits, IInv, TypeOK
  <2>3. Cardinality({p}) = 1
    BY FS_Singleton
  <2>4. /\ map' = map /\ stage # "cold"
        /\ allocatedMemory' = (allocatedMemory + Cardinality({p})) % Word
        /\ freeMemory' = (freeMemory - Cardinality({p})) % Word
    BY <1>5, <2>3 DEF RequestPage
  <2> QED
    BY <2>1, <2>2, <2>4, MarkingCounts
<1>6. CASE RequestPageFails
  BY <1>6 DEF RequestPageFails, CountersInv, UsedCounts, SumIsUsable, Counted, AllPages, Bits
<1>7. ASSUME NEW first \in owned, NEW count \in 1 .. Bits, FreePages(first, count)
      PROVE  CountersInv'
  <2>1. first \in Nat /\ count \in Nat
    BY <1>7, BitmapSize DEF IInv, TypeOK, AllPages, Bits
  <2> QED
    BY <1>7, <2>1, FreePagesCounts
<1>8. CASE UNCHANGED vars
  BY <1>8 DEF vars, CountersInv, UsedCounts, SumIsUsable, Counted, AllPages, Bits
<1> QED
  BY <1>1, <1>3, <1>4, <1>5, <1>6, <1>7, <1>8 DEF Next

(* GetUsedRAM and GetFreeRAM tell the truth about the bitmap after any     *)
(* requests and releases, on machines whose pages fit a counter.           *)
THEOREM CountersCorrect ==
  ASSUME \A m \in MemoryMaps : BitCount(m) + 1 < Word
  PROVE  Spec => []CountersBalance
<1>1. Init => CountersInv
  BY DEF Init, CountersInv
<1>2. IInv /\ CountersInv /\ [Next]_vars => CountersInv'
  BY NextCounts
<1>3. CountersInv => CountersBalance
  BY DEF CountersInv, UsedCounts, SumIsUsable, Counted, CountersBalance
<1> QED
  BY <1>1, <1>2, <1>3, Invariance, PTL DEF Spec
-----------------------------------------------------------------------------
(* The allocator implements the page pool: a page is handed out at most    *)
(* once until it is released, and a request is turned down only when the   *)
(* pool is empty.                                                          *)
THEOREM Refinement == Spec => ImplementsPool
<1>1. Init => Pool!PoolInit
  BY ProtectedType, Zenon DEF Init, Pool!PoolInit
<1>2. ASSUME IInv, IInv', [Next]_vars
      PROVE  [Pool!PoolNext]_(Pool!poolVars)
  <2> USE DEF IInv
  <2>1. map \in MemoryMaps /\ map' = map
    BY <1>2 DEF TypeOK, vars, Next, ReadEfiMemoryMap, AllocateKernel, AllocateFrameBuffer,
                AllocatePages, RequestPage, RequestPageFails, FreePages
  <2>2. AllPages' = AllPages /\ Protected(map)' = Protected(map) /\ AllPages \subseteq Nat
    BY <2>1, BitmapSize DEF AllPages, Bits
  <2>3. CASE ReadEfiMemoryMap
    <3>1. Pool!Open
      BY <1>2, <2>1, <2>2, <2>3
         DEF Pool!Open, ReadEfiMemoryMap, ProtectedMarked, ColdStart
    <3> QED
      BY <3>1 DEF Pool!PoolNext
  <2>4. ASSUME NEW first, NEW count, AllocatePages(first, count),
               stage # "cold", stage' # "cold"
        PROVE  Pool!PoolNext
    <3>1. Pool!Withdraw
      BY <2>2, <2>4 DEF Pool!Withdraw, AllocatePages
    <3> QED
      BY <3>1 DEF Pool!PoolNext
  <2>5. CASE AllocateKernel
    BY <2>4, <2>5 DEF AllocateKernel
  <2>6. ASSUME NEW fb \in FrameBuffers, AllocateFrameBuffer(fb)
        PROVE  Pool!PoolNext
    BY <2>4, <2>6 DEF AllocateFrameBuffer
  <2>7. CASE RequestPage
    <3>1. PICK p \in FreeFrom(bitmapIndex) : used' = used \cup {p} /\ owned' = owned \cup {p}
      BY <2>7 DEF RequestPage
    <3>2. p \in AllPages \ used /\ stage # "cold" /\ stage' = stage /\ refused' = FALSE
      BY <1>2, <2>1, <2>7, <3>1, BitmapSize DEF FreeFrom, AllPages, Bits, TypeOK, RequestPage
    <3>3. Pool!Request
      BY <2>2, <3>1, <3>2 DEF Pool!Request
    <3> QED
      BY <3>3 DEF Pool!PoolNext
  <2>8. CASE RequestPageFails
    <3>1. AllPages \subseteq used /\ stage # "cold"
      BY <1>2, <2>1, <2>8, BitmapSize
         DEF RequestPageFails, FreeFrom, CursorInv, TypeOK, AllPages, Bits
    <3>2. Pool!RequestFails
      BY <2>2, <2>8, <3>1 DEF Pool!RequestFails, RequestPageFails
    <3> QED
      BY <3>2 DEF Pool!PoolNext
  <2>9. CASE \E first \in owned, count \in 1 .. Bits : FreePages(first, count)
    <3>1. PICK first \in owned, count \in 1 .. Bits : FreePages(first, count)
      BY <2>9
    <3>2. /\ Span(first, count) \subseteq owned
          /\ owned' = owned \ Span(first, count)
          /\ used' = used \ (Span(first, count) \cap used)
          /\ stage' = stage /\ refused' = refused
      BY <3>1 DEF FreePages
    <3>3. owned \subseteq used /\ owned \subseteq AllPages
      BY <1>2 DEF OwnedMarked, TypeOK
    <3>4. stage # "cold"
      BY <1>2, <3>1 DEF ColdStart
    <3>5. Pool!Release
      BY <2>2, <3>2, <3>3, <3>4 DEF Pool!Release
    <3> QED
      BY <3>5 DEF Pool!PoolNext
  <2>10. CASE UNCHANGED vars
    BY <2>2, <2>10 DEF vars, Pool!poolVars
  <2> QED
    BY <1>2, <2>3, <2>5, <2>6, <2>7, <2>8, <2>9, <2>10 DEF Next
<1> QED
  BY <1>1, <1>2, Invariance, PTL DEF Spec, ImplementsPool, Pool!PoolSpec

-----------------------------------------------------------------------------
(* The level of every table: what makes them a tree.  A table above level  *)
(* 0 leads only to tables one level below it; every table but the root is  *)
(* entered somewhere, and no table is entered twice.                       *)
Shape(t, root, lvl) ==
  /\ lvl \in [DOMAIN t -> 0 .. Root]
  /\ DOMAIN t \subseteq Nat
  /\ root \in DOMAIN t
  /\ \A p \in DOMAIN t : lvl[p] = Root <=> p = root
  /\ \A p \in DOMAIN t : lvl[p] = 0 => \A i \in DOMAIN t[p] : t[p][i] \in Nat
  /\ \A p \in DOMAIN t : lvl[p] > 0 =>
       \A i \in DOMAIN t[p] : t[p][i] \in DOMAIN t /\ lvl[t[p][i]] = lvl[p] - 1
  /\ \A q \in DOMAIN t \ {root} :
       \E p \in DOMAIN t : lvl[p] > 0 /\ \E i \in DOMAIN t[p] : t[p][i] = q
  /\ \A p, q \in DOMAIN t : lvl[p] > 0 /\ lvl[q] > 0 =>
       \A i \in DOMAIN t[p], j \in DOMAIN t[q] : t[p][i] = t[q][j] => p = q /\ i = j

(* t2 is t with the empty table new in entry i of table p.                 *)
Grown(t, t2, p, i, new) ==
  /\ DOMAIN t2 = DOMAIN t \cup {new}
  /\ DOMAIN t2[new] = {}
  /\ DOMAIN t2[p] = DOMAIN t[p] \cup {i}
  /\ t2[p][i] = new
  /\ \A j \in DOMAIN t[p] \ {i} : t2[p][j] = t[p][j]
  /\ \A q \in DOMAIN t \ {p} : t2[q] = t[q]

(* t2 is t with x in entry i of table p.                                   *)
Changed(t, t2, p, i, x) ==
  /\ DOMAIN t2 = DOMAIN t
  /\ DOMAIN t2[p] = DOMAIN t[p] \cup {i}
  /\ t2[p][i] = x
  /\ \A j \in DOMAIN t[p] \ {i} : t2[p][j] = t[p][j]
  /\ \A q \in DOMAIN t \ {p} : t2[q] = t[q]

(* The walk through tables t, with an index for each level.                *)
EntryOf(t, p, i) == IF p \in DOMAIN t /\ i \in DOMAIN t[p] THEN t[p][i] ELSE -1

(* The step of a walk that has found a table of level k, or nothing.       *)
OnLevel(t, lvl, p, k) == p = -1 \/ (p \in DOMAIN t /\ lvl[p] = k)

-----------------------------------------------------------------------------
(* One step of a walk leads one level down, or nowhere.                    *)
LEMMA EntryLevel ==
  ASSUME NEW t, NEW root, NEW lvl, Shape(t, root, lvl),
         NEW k \in 1 .. Root, NEW p, OnLevel(t, lvl, p, k), NEW i
  PROVE  OnLevel(t, lvl, EntryOf(t, p, i), k - 1)
<1>1. CASE p \in DOMAIN t /\ i \in DOMAIN t[p]
  <2>1. p # -1
    BY <1>1 DEF Shape
  <2>2. lvl[p] = k /\ lvl[p] > 0
    BY <2>1 DEF OnLevel
  <2> QED BY <1>1, <2>2 DEF Shape, OnLevel, EntryOf
<1>2. CASE ~(p \in DOMAIN t /\ i \in DOMAIN t[p])
  BY <1>2 DEF OnLevel, EntryOf
<1> QED BY <1>1, <1>2

(* Two walks that meet at a table came the same way.                       *)
LEMMA EntryOnce ==
  ASSUME NEW t, NEW root, NEW lvl, Shape(t, root, lvl),
         NEW k \in 1 .. Root, NEW p, NEW q, OnLevel(t, lvl, p, k), OnLevel(t, lvl, q, k),
         NEW i, NEW j,
         EntryOf(t, p, i) = EntryOf(t, q, j), EntryOf(t, p, i) # -1
  PROVE  p = q /\ i = j
<1>1. /\ p \in DOMAIN t /\ i \in DOMAIN t[p]
      /\ q \in DOMAIN t /\ j \in DOMAIN t[q]
  BY DEF EntryOf
<1>2. p # -1 /\ q # -1
  BY <1>1 DEF Shape
<1>3. lvl[p] > 0 /\ lvl[q] > 0
  BY <1>2 DEF OnLevel
<1>4. t[p][i] = t[q][j]
  BY <1>1 DEF EntryOf
<1> QED BY <1>1, <1>3, <1>4 DEF Shape

(* With a new, empty table a walk goes on as before, or finds that table   *)
(* where it found nothing.                                                 *)
LEMMA EntryGrown ==
  ASSUME NEW t, NEW root, NEW lvl, Shape(t, root, lvl),
         NEW p \in DOMAIN t, lvl[p] > 0, NEW i, i \notin DOMAIN t[p],
         NEW new \in Nat, new \notin DOMAIN t, NEW t2, Grown(t, t2, p, i, new),
         NEW k \in 0 .. Root, NEW a, OnLevel(t, lvl, a, k),
         NEW a2, a2 = a \/ (a = -1 /\ a2 = new), NEW j
  PROVE  \/ EntryOf(t2, a2, j) = EntryOf(t, a, j)
         \/ k > 0 /\ EntryOf(t, a, j) = -1 /\ EntryOf(t2, a2, j) = new
<1>1. -1 \notin DOMAIN t /\ -1 \notin DOMAIN t2
  BY DEF Shape, Grown
<1>2. CASE a = -1
  <2>1. EntryOf(t, a, j) = -1
    BY <1>1, <1>2 DEF EntryOf
  <2>2. CASE a2 = -1
    BY <1>1, <2>1, <2>2 DEF EntryOf
  <2>3. CASE a2 = new
    BY <2>1, <2>3 DEF EntryOf, Grown
  <2> QED BY <1>2, <2>2, <2>3
<1>3. CASE a # -1
  <2>1. a2 = a /\ a \in DOMAIN t /\ lvl[a] = k /\ a # new
    BY <1>3 DEF OnLevel
  <2>2. CASE a # p
    BY <2>1, <2>2 DEF EntryOf, Grown
  <2>3. CASE a = p /\ j = i
    BY <2>1, <2>3 DEF EntryOf, Grown
  <2>4. CASE a = p /\ j # i
    BY <2>1, <2>4 DEF EntryOf, Grown
  <2> QED BY <2>2, <2>3, <2>4
<1> QED BY <1>2, <1>3

(* An entry of a page table changes no step through the tables above it.   *)
LEMMA EntryChanged ==
  ASSUME NEW t, NEW root, NEW lvl, Shape(t, root, lvl),
         NEW p \in DOMAIN t, lvl[p] = 0, NEW i,
         NEW x, NEW t2, Changed(t, t2, p, i, x),
         NEW k \in 0 .. Root, NEW a, OnLevel(t, lvl, a, k), NEW j
  PROVE  EntryOf(t2, a, j) =
           IF k = 0 /\ a = p /\ j = i THEN x ELSE EntryOf(t, a, j)
<1>1. -1 \notin DOMAIN t
  BY DEF Shape
<1>2. CASE a = p
  <2>1. k = 0
    BY <1>1, <1>2 DEF OnLevel
  <2> QED BY <1>2, <2>1 DEF EntryOf, Changed
<1>3. CASE a # p
  BY <1>3 DEF EntryOf, Changed
<1> QED BY <1>2, <1>3

-----------------------------------------------------------------------------
(* A new table keeps the tree: it is one level below the table that leads  *)
(* to it.                                                                  *)
LEMMA GrownShape ==
  ASSUME NEW t, NEW root, NEW lvl, Shape(t, root, lvl),
         NEW p \in DOMAIN t, lvl[p] > 0, NEW i, i \notin DOMAIN t[p],
         NEW new \in Nat, new \notin DOMAIN t, NEW t2, Grown(t, t2, p, i, new)
  PROVE  Shape(t2, root, [q \in DOMAIN t \cup {new} |-> IF q = new THEN lvl[p] - 1 ELSE lvl[q]])
<1> DEFINE lvl2 == [q \in DOMAIN t \cup {new} |-> IF q = new THEN lvl[p] - 1 ELSE lvl[q]]
<1>1. lvl[p] \in 0 .. Root
  BY DEF Shape
<1>2. /\ DOMAIN t2 = DOMAIN t \cup {new}
      /\ \A q \in DOMAIN t : lvl2[q] = lvl[q] /\ q # new
      /\ lvl2[new] = lvl[p] - 1
  BY DEF Grown
<1>3. \A q \in DOMAIN t : \A j \in DOMAIN t2[q] :
        (j \in DOMAIN t[q] /\ t2[q][j] = t[q][j]) \/ (q = p /\ j = i /\ t2[q][j] = new)
  BY DEF Grown
<1>4. \A q \in DOMAIN t : \A j \in DOMAIN t[q] : j \in DOMAIN t2[q] /\ t2[q][j] = t[q][j]
  BY DEF Grown
<1>5. DOMAIN t2[new] = {} /\ i \in DOMAIN t2[p] /\ t2[p][i] = new
  BY DEF Grown
<1>6. lvl2 \in [DOMAIN t2 -> 0 .. Root]
  BY <1>1, <1>2 DEF Shape, Root
<1> HIDE DEF lvl2
<1>7. DOMAIN t2 \subseteq Nat /\ root \in DOMAIN t2
  BY <1>2 DEF Shape
<1>8. \A q \in DOMAIN t2 : lvl2[q] = Root <=> q = root
  BY <1>1, <1>2 DEF Shape, Root
<1>9. \A q \in DOMAIN t2 : lvl2[q] = 0 => \A j \in DOMAIN t2[q] : t2[q][j] \in Nat
  <2>1. SUFFICES ASSUME NEW q \in DOMAIN t2, lvl2[q] = 0, NEW j \in DOMAIN t2[q]
                 PROVE  t2[q][j] \in Nat
    OBVIOUS
  <2>2. q \in DOMAIN t
    BY <1>2, <1>5, <2>1
  <2> QED BY <1>2, <1>3, <2>1, <2>2 DEF Shape
<1>10. \A q \in DOMAIN t2 : lvl2[q] > 0 =>
         \A j \in DOMAIN t2[q] : t2[q][j] \in DOMAIN t2 /\ lvl2[t2[q][j]] = lvl2[q] - 1
  <2>1. SUFFICES ASSUME NEW q \in DOMAIN t2, lvl2[q] > 0, NEW j \in DOMAIN t2[q]
                 PROVE  t2[q][j] \in DOMAIN t2 /\ lvl2[t2[q][j]] = lvl2[q] - 1
    OBVIOUS
  <2>2. q \in DOMAIN t
    BY <1>2, <1>5, <2>1
  <2>3. CASE j \in DOMAIN t[q] /\ t2[q][j] = t[q][j]
    BY <1>2, <2>1, <2>2, <2>3 DEF Shape
  <2>4. CASE q = p /\ t2[q][j] = new
    BY <1>2, <2>4
  <2> QED BY <1>3, <2>2, <2>3, <2>4
<1>11. \A q \in DOMAIN t2 \ {root} :
         \E r \in DOMAIN t2 : lvl2[r] > 0 /\ \E j \in DOMAIN t2[r] : t2[r][j] = q
  <2>1. SUFFICES ASSUME NEW q \in DOMAIN t2 \ {root}
                 PROVE  \E r \in DOMAIN t2 : lvl2[r] > 0 /\ \E j \in DOMAIN t2[r] : t2[r][j] = q
    OBVIOUS
  <2>2. CASE q = new
    BY <1>2, <1>5, <2>2
  <2>3. CASE q \in DOMAIN t
    <3>1. PICK r \in DOMAIN t : lvl[r] > 0 /\ \E j \in DOMAIN t[r] : t[r][j] = q
      BY <2>1, <2>3 DEF Shape
    <3> QED BY <1>2, <1>4, <3>1
  <2> QED BY <1>2, <2>2, <2>3
<1>12. \A q, r \in DOMAIN t2 : lvl2[q] > 0 /\ lvl2[r] > 0 =>
         \A j \in DOMAIN t2[q], l \in DOMAIN t2[r] : t2[q][j] = t2[r][l] => q = r /\ j = l
  <2>1. SUFFICES ASSUME NEW q \in DOMAIN t2, NEW r \in DOMAIN t2, lvl2[q] > 0, lvl2[r] > 0,
                        NEW j \in DOMAIN t2[q], NEW l \in DOMAIN t2[r], t2[q][j] = t2[r][l]
                 PROVE  q = r /\ j = l
    BY Zenon
  <2>2. q \in DOMAIN t /\ r \in DOMAIN t
    BY <1>2, <1>5, <2>1
  <2>3. lvl[q] > 0 /\ lvl[r] > 0
    BY <1>2, <2>1, <2>2
  <2>4. \A s \in DOMAIN t : lvl[s] > 0 => \A m \in DOMAIN t[s] : t[s][m] # new
    BY DEF Shape
  <2>5. CASE t2[q][j] = new
    <3>1. q = p /\ j = i
      BY <1>3, <2>2, <2>3, <2>4, <2>5
    <3>2. t2[r][l] = new
      BY <2>1, <2>5
    <3>3. r = p /\ l = i
      BY <1>3, <2>2, <2>3, <2>4, <3>2
    <3> QED BY <3>1, <3>3
  <2>6. CASE t2[q][j] # new
    <3>1. j \in DOMAIN t[q] /\ l \in DOMAIN t[r] /\ t[q][j] = t[r][l]
      BY <1>3, <2>1, <2>2, <2>6
    <3> QED BY <2>2, <2>3, <3>1 DEF Shape
  <2> QED BY <2>5, <2>6
<1> QED
  BY <1>6, <1>7, <1>8, <1>9, <1>10, <1>11, <1>12 DEF Shape, lvl2

(* An entry of a page table keeps the tree.                                *)
LEMMA ChangedShape ==
  ASSUME NEW t, NEW root, NEW lvl, Shape(t, root, lvl),
         NEW p \in DOMAIN t, lvl[p] = 0, NEW i,
         NEW x \in Nat, NEW t2, Changed(t, t2, p, i, x)
  PROVE  Shape(t2, root, lvl)
<1>1. DOMAIN t2 = DOMAIN t /\ \A q \in DOMAIN t : lvl[q] > 0 => t2[q] = t[q]
  BY DEF Changed
<1>2. \A q \in DOMAIN t : lvl[q] = 0 => \A j \in DOMAIN t2[q] : t2[q][j] \in Nat
  BY DEF Changed, Shape
<1>3. \A q \in DOMAIN t \ {root} :
        \E r \in DOMAIN t : lvl[r] > 0 /\ \E j \in DOMAIN t2[r] : t2[r][j] = q
  BY <1>1 DEF Shape
<1>4. \A q \in DOMAIN t : lvl[q] > 0 =>
        \A j \in DOMAIN t2[q] : t2[q][j] \in DOMAIN t /\ lvl[t2[q][j]] = lvl[q] - 1
  BY <1>1 DEF Shape
<1>5. \A q, r \in DOMAIN t : lvl[q] > 0 /\ lvl[r] > 0 =>
        \A j \in DOMAIN t2[q], l \in DOMAIN t2[r] : t2[q][j] = t2[r][l] => q = r /\ j = l
  BY <1>1 DEF Shape
<1> QED
  BY <1>1, <1>2, <1>3, <1>4, <1>5 DEF Shape

-----------------------------------------------------------------------------
(* The tables on the way to virtual page v, and where the way leads.       *)
At2(t, root, v) == EntryOf(t, root, Index(v, 3))
At1(t, root, v) == EntryOf(t, At2(t, root, v), Index(v, 2))
At0(t, root, v) == EntryOf(t, At1(t, root, v), Index(v, 1))
Look(t, root, v) == EntryOf(t, At0(t, root, v), Index(v, 0))

TableAt(t, root, v, k) ==
  IF k = 3 THEN root
  ELSE IF k = 2 THEN At2(t, root, v)
  ELSE IF k = 1 THEN At1(t, root, v)
  ELSE At0(t, root, v)

(* The way goes down one level at a time.                                  *)
LEMMA WayLevels ==
  ASSUME NEW t, NEW root, NEW lvl, Shape(t, root, lvl), NEW v
  PROVE  /\ OnLevel(t, lvl, root, 3)
         /\ OnLevel(t, lvl, At2(t, root, v), 2)
         /\ OnLevel(t, lvl, At1(t, root, v), 1)
         /\ OnLevel(t, lvl, At0(t, root, v), 0)
<1>1. OnLevel(t, lvl, root, 3)
  BY DEF Shape, OnLevel, Root
<1>2. OnLevel(t, lvl, At2(t, root, v), 3 - 1)
  BY <1>1, EntryLevel DEF At2, Root
<1>3. OnLevel(t, lvl, At1(t, root, v), 2 - 1)
  BY <1>2, EntryLevel DEF At1, Root
<1>4. OnLevel(t, lvl, At0(t, root, v), 1 - 1)
  BY <1>3, EntryLevel DEF At0, Root
<1> QED BY <1>1, <1>2, <1>3, <1>4

(* A new table is found on some ways, and leads nowhere yet.               *)
LEMMA LookGrown ==
  ASSUME NEW t, NEW root, NEW lvl, Shape(t, root, lvl),
         NEW p \in DOMAIN t, lvl[p] > 0, NEW i, i \notin DOMAIN t[p],
         NEW new \in Nat, new \notin DOMAIN t, NEW t2, Grown(t, t2, p, i, new), NEW v
  PROVE  /\ Look(t2, root, v) = Look(t, root, v)
         /\ \A k \in 0 .. Root :
              TableAt(t, root, v, k) # -1 => TableAt(t2, root, v, k) = TableAt(t, root, v, k)
<1> DEFINE Follows(a2, a) == a2 = a \/ (a = -1 /\ a2 = new)
<1>1. Follows(At2(t2, root, v), At2(t, root, v))
  BY WayLevels, EntryGrown DEF At2, Root
<1>2. Follows(At1(t2, root, v), At1(t, root, v))
  BY <1>1, WayLevels, EntryGrown DEF At1, Root
<1>3. Follows(At0(t2, root, v), At0(t, root, v))
  BY <1>2, WayLevels, EntryGrown DEF At0, Root
<1>4. Look(t2, root, v) = Look(t, root, v)
  BY <1>3, WayLevels, EntryGrown DEF Look, Root
<1> QED BY <1>1, <1>2, <1>3, <1>4 DEF TableAt

(* An entry of a page table changes the ways that end in it and no other.  *)
LEMMA LookChanged ==
  ASSUME NEW t, NEW root, NEW lvl, Shape(t, root, lvl),
         NEW p \in DOMAIN t, lvl[p] = 0, NEW i,
         NEW x, NEW t2, Changed(t, t2, p, i, x), NEW v
  PROVE  /\ Look(t2, root, v) = IF At0(t, root, v) = p /\ Index(v, 0) = i
                                THEN x ELSE Look(t, root, v)
         /\ At0(t2, root, v) = At0(t, root, v)
<1>1. At2(t2, root, v) = At2(t, root, v)
  BY WayLevels, EntryChanged DEF At2, Root
<1>2. At1(t2, root, v) = At1(t, root, v)
  BY <1>1, WayLevels, EntryChanged DEF At1, Root
<1>3. At0(t2, root, v) = At0(t, root, v)
  BY <1>2, WayLevels, EntryChanged DEF At0, Root
<1> QED BY <1>3, WayLevels, EntryChanged DEF Look, Root

(* Ways that end in the same page table have their upper indexes in common.*)
LEMMA SameTable ==
  ASSUME NEW t, NEW root, NEW lvl, Shape(t, root, lvl), NEW v, NEW w,
         At0(t, root, v) = At0(t, root, w), At0(t, root, v) # -1
  PROVE  \A k \in 1 .. 3 : Index(v, k) = Index(w, k)
<1>1. At1(t, root, v) = At1(t, root, w) /\ Index(v, 1) = Index(w, 1)
  BY WayLevels, EntryOnce DEF At0, Root
<1>2. At1(t, root, v) # -1
  BY DEF At0, EntryOf, Shape
<1>3. At2(t, root, v) = At2(t, root, w) /\ Index(v, 2) = Index(w, 2)
  BY <1>1, <1>2, WayLevels, EntryOnce DEF At1, Root
<1>4. At2(t, root, v) # -1
  BY <1>2 DEF At1, EntryOf, Shape
<1>5. Index(v, 3) = Index(w, 3)
  BY <1>3, <1>4, WayLevels, EntryOnce DEF At2, Root
<1> QED BY <1>1, <1>3, <1>5

(* Equal indexes, equal ways.                                              *)
LEMMA SameWay ==
  ASSUME NEW t, NEW root, NEW v, NEW w, \A k \in 0 .. 3 : Index(v, k) = Index(w, k)
  PROVE  At0(t, root, v) = At0(t, root, w) /\ Look(t, root, v) = Look(t, root, w)
BY DEF At2, At1, At0, Look

-----------------------------------------------------------------------------
(* Division by the number of entries of a table.                           *)
LEMMA DivFan ==
  ASSUME NEW x \in Nat
  PROVE  /\ x \div Fan \in Nat
         /\ x % Fan \in 0 .. Fan - 1
         /\ x = (Fan * (x \div Fan)) + (x % Fan)
BY FanAssumption

(* Quotient and remainder are the only ones.                               *)
LEMMA FanUnique ==
  ASSUME NEW q \in Nat, NEW r \in 0 .. Fan - 1
  PROVE  (Fan * q + r) \div Fan = q /\ (Fan * q + r) % Fan = r
<1> DEFINE x == Fan * q + r
           a == x \div Fan
           b == x % Fan
<1>1. x \in Nat
  BY FanAssumption
<1>2. a \in Nat /\ b \in 0 .. Fan - 1 /\ (Fan * a) + b = (Fan * q) + r
  BY <1>1, DivFan
<1> HIDE DEF x, a, b
<1>3. CASE a > q
  <2>1. Fan * (a - q) = r - b
    BY <1>2, FanAssumption
  <2>2. Fan * (a - q) >= Fan
    BY <1>2, <1>3, FanAssumption
  <2> QED BY <1>2, <2>1, <2>2, FanAssumption
<1>4. CASE q > a
  <2>1. Fan * (q - a) = b - r
    BY <1>2, FanAssumption
  <2>2. Fan * (q - a) >= Fan
    BY <1>2, <1>4, FanAssumption
  <2> QED BY <1>2, <2>1, <2>2, FanAssumption
<1>5. CASE a = q
  BY <1>2, <1>5, FanAssumption DEF x, a, b
<1> QED BY <1>2, <1>3, <1>4, <1>5

(* A shift leaves fewer pages.                                             *)
LEMMA ShiftBound ==
  ASSUME NEW x \in Nat, NEW n \in Nat, x < n * Fan
  PROVE  x \div Fan < n
<1> DEFINE q == x \div Fan
           r == x % Fan
<1>1. q \in Nat /\ r \in 0 .. Fan - 1 /\ x = Fan * q + r
  BY DivFan
<1> HIDE DEF q, r
<1>2. SUFFICES ASSUME q >= n PROVE FALSE
  BY <1>1 DEF q
<1>3. Fan * (q - n) >= 0
  BY <1>1, <1>2, FanAssumption
<1>4. Fan * q >= n * Fan
  BY <1>1, <1>3, FanAssumption
<1> QED BY <1>1, <1>4, FanAssumption

(* The indexes, one shift after another.                                   *)
Once(v) == v \div Fan
Twice(v) == Once(v) \div Fan
Thrice(v) == Twice(v) \div Fan

LEMMA IndexShifts ==
  ASSUME NEW v
  PROVE  /\ Index(v, 0) = v % Fan
         /\ Index(v, 1) = Once(v) % Fan
         /\ Index(v, 2) = Twice(v) % Fan
         /\ Index(v, 3) = Thrice(v) % Fan
BY DEF Index, Once, Twice, Thrice

(* A virtual page is known by its four indexes.                            *)
LEMMA SamePage ==
  ASSUME NEW v \in VirtualPages, NEW w \in VirtualPages,
         \A k \in 0 .. 3 : Index(v, k) = Index(w, k)
  PROVE  v = w
<1>1. ASSUME NEW u \in VirtualPages
      PROVE  /\ u \in Nat /\ Once(u) \in Nat /\ Twice(u) \in Nat /\ Thrice(u) \in Nat
             /\ Thrice(u) < Fan
  <2>1. /\ Fan \in Nat /\ Fan * Fan \in Nat /\ Fan * Fan * Fan \in Nat
        /\ u \in Nat /\ u < (Fan * Fan * Fan) * Fan
    BY FanAssumption DEF VirtualPages
  <2>2. Once(u) \in Nat /\ Once(u) < (Fan * Fan) * Fan
    BY <2>1, DivFan, ShiftBound DEF Once
  <2>3. Twice(u) \in Nat /\ Twice(u) < Fan * Fan
    BY <2>1, <2>2, DivFan, ShiftBound DEF Twice
  <2>4. Thrice(u) \in Nat /\ Thrice(u) < Fan
    BY <2>1, <2>3, DivFan, ShiftBound DEF Thrice
  <2> QED BY <2>1, <2>2, <2>3, <2>4
<1>2. Thrice(v) % Fan = Thrice(v) /\ Thrice(w) % Fan = Thrice(w)
  BY <1>1, FanAssumption
<1>3. Thrice(v) = Thrice(w)
  BY <1>2, IndexShifts
<1>4. Twice(v) = Twice(w)
  BY <1>1, <1>3, DivFan, IndexShifts DEF Thrice
<1>5. Once(v) = Once(w)
  BY <1>1, <1>4, DivFan, IndexShifts DEF Twice
<1> QED
  BY <1>1, <1>5, DivFan, IndexShifts DEF Once

(* Every address shares its indexes with a virtual page.                   *)
LEMMA PageOfIndexes ==
  ASSUME NEW v \in Nat
  PROVE  \E u \in VirtualPages : \A k \in 0 .. 3 : Index(u, k) = Index(v, k)
<1> DEFINE u2 == Fan * Index(v, 3) + Index(v, 2)
           u1 == Fan * u2 + Index(v, 1)
           u == Fan * u1 + Index(v, 0)
<1>1. \A k \in 0 .. 3 : Index(v, k) \in 0 .. Fan - 1
  BY IndexShifts, DivFan DEF Once, Twice, Thrice
<1>2. /\ Fan \in Nat /\ Fan * Fan \in Nat /\ Fan * Fan * Fan \in Nat
  BY FanAssumption
<1>3. ASSUME NEW q \in Nat, NEW r \in 0 .. Fan - 1, NEW n \in Nat, q < n
      PROVE  Fan * q + r \in Nat /\ Fan * q + r < n * Fan
  <2>1. Fan * (n - q) >= Fan
    BY <1>3, FanAssumption
  <2> QED BY <2>1, FanAssumption
<1>4. u2 \in Nat /\ u2 < Fan * Fan
  <2>1. Index(v, 3) \in Nat /\ Index(v, 3) < Fan /\ Index(v, 2) \in 0 .. Fan - 1
    BY <1>1, FanAssumption
  <2> QED BY <1>2, <1>3, <2>1
<1>5. u1 \in Nat /\ u1 < (Fan * Fan) * Fan
  <2> HIDE DEF u2
  <2> QED BY <1>1, <1>2, <1>3, <1>4
<1>6. u \in Nat /\ u < (Fan * Fan * Fan) * Fan
  <2> HIDE DEF u1
  <2> QED BY <1>1, <1>2, <1>3, <1>5
<1>7. u \in VirtualPages
  BY <1>6, FanAssumption DEF VirtualPages
<1>8. Once(u) = u1 /\ u % Fan = Index(v, 0)
  <2> HIDE DEF u1
  <2> QED BY <1>1, <1>5, FanUnique DEF Once
<1>9. Twice(u) = u2 /\ Once(u) % Fan = Index(v, 1)
  <2> HIDE DEF u2, u
  <2> QED BY <1>1, <1>4, <1>8, FanUnique DEF Twice
<1>10. Thrice(u) = Index(v, 3) /\ Twice(u) % Fan = Index(v, 2)
  <2> HIDE DEF u1, u
  <2> QED BY <1>1, <1>9, FanUnique DEF Thrice
<1>11. Thrice(u) % Fan = Index(v, 3)
  BY <1>1, <1>10, FanAssumption
<1> HIDE DEF u
<1>12. \A k \in 0 .. 3 : Index(u, k) = Index(v, k)
  BY <1>8, <1>9, <1>10, <1>11, IndexShifts
<1> QED BY <1>7, <1>12

-----------------------------------------------------------------------------
(* The tables form a tree below PML4, made of pages that were requested,   *)
(* and a walk of MapMemory has come the way of the page that it maps.      *)
TreeInv ==
  /\ walk \in [virtual : Nat, physical : Nat, table : Nat, level : 0 .. Root + 1]
  /\ page \in Nat
  /\ pc \in {"pml4", "identity", "framebuffer", "paged", "fault"}
  /\ pc = "pml4" => tables = Empty /\ PML4 = Null /\ ~Walking
  /\ pc # "pml4" => DOMAIN tables \subseteq owned /\ \E lvl : Shape(tables, PML4, lvl)
  /\ Walking => walk.table = TableAt(tables, PML4, walk.virtual, walk.level)

(* Once a request is refused the cursor is at the end of the bitmap, and   *)
(* as nothing is freed all later ones are refused.                         *)
RefusedForGood == refused => bitmapIndex = Bits

PTInv ==
  /\ frameBuffer \in FrameBuffers
  /\ RefusedForGood
  /\ ~refused => TreeInv

(* The walk of the processor is the walk of the lemmas.                    *)
LEMMA TranslateIsLook ==
  ASSUME NEW v
  PROVE  Translate(v) = Look(tables, PML4, v)
BY DEF Translate, Look, At0, At1, At2, Entry, EntryOf

(* MapMemory and PrepareMemory use the allocator by its own operations.    *)
LEMMA AllocatorStep ==
  ASSUME frameBuffer \in FrameBuffers, [PTNext]_allVars
  PROVE  [Next]_vars /\ frameBuffer' \in FrameBuffers
<1>1. CASE ReadMap \/ MarkKernel \/ MarkFrameBuffer
  BY <1>1 DEF ReadMap, MarkKernel, MarkFrameBuffer, Next, tableVars
<1>2. CASE RequestPML4 \/ GrantPage \/ Grow
  BY <1>2 DEF RequestPML4, GrantPage, Grow, Request, Next
<1>3. CASE MapIdentity \/ MapFrameBuffer \/ EnablePaging \/ MapDevice
  BY <1>3 DEF MapIdentity, MapFrameBuffer, EnablePaging, MapDevice
<1>4. CASE Descend \/ SetEntry \/ WalkFaults
  BY <1>4 DEF Descend, SetEntry, WalkFaults
<1>5. CASE UNCHANGED allVars
  BY <1>5 DEF allVars, tableVars
<1> QED BY <1>1, <1>2, <1>3, <1>4, <1>5 DEF PTNext, BootNext

(* Everything proved about the allocator holds under PrepareMemory.        *)
THEOREM AllocatorOfTables == PTSpec => Spec
<1>1. PTInit => Init /\ frameBuffer \in FrameBuffers
  BY DEF PTInit
<1>2. frameBuffer \in FrameBuffers /\ [PTNext]_allVars =>
        [Next]_vars /\ (frameBuffer \in FrameBuffers)'
  BY AllocatorStep
<1> QED BY <1>1, <1>2, PTL DEF PTSpec, Spec

(* Which variables of the allocator a step can change: only requests move  *)
(* the cursor, and a request that is refused leaves it at the end.         *)
LEMMA CursorStep ==
  ASSUME IInv, [PTNext]_allVars
  PROVE  \/ Request
         \/ UNCHANGED <<map, bitmapIndex, owned, refused>>
<1>1. CASE ReadMap \/ MarkKernel \/ MarkFrameBuffer
  BY <1>1 DEF ReadMap, MarkKernel, MarkFrameBuffer, ReadEfiMemoryMap, AllocateKernel,
              AllocateFrameBuffer, AllocatePages
<1>2. CASE RequestPML4 \/ GrantPage \/ Grow
  BY <1>2 DEF RequestPML4, GrantPage, Grow
<1>3. CASE MapIdentity \/ MapFrameBuffer \/ EnablePaging \/ MapDevice
  BY <1>3 DEF MapIdentity, MapFrameBuffer, EnablePaging, MapDevice, vars
<1>4. CASE Descend \/ SetEntry \/ WalkFaults
  BY <1>4 DEF Descend, SetEntry, WalkFaults, vars
<1>5. CASE UNCHANGED allVars
  BY <1>5 DEF allVars, vars
<1> QED BY <1>1, <1>2, <1>3, <1>4, <1>5 DEF PTNext, BootNext

(* What a request changes: a page that nobody held, or the cursor.         *)
LEMMA RequestEffect ==
  ASSUME IInv, RefusedForGood, Request
  PROVE  /\ map' = map
         /\ refused => refused'
         /\ refused' => bitmapIndex' = Bits /\ owned' = owned
         /\ ~refused' => /\ Requested \in Nat /\ Requested \notin owned
                         /\ owned' = owned \cup {Requested}
<1>1. Bits \in Nat /\ bitmapIndex \in 0 .. Bits
  BY BitmapSize DEF IInv, TypeOK, Bits
<1>2. CASE RequestPage
  <2>1. PICK p \in FreeFrom(bitmapIndex) : bitmapIndex' = p /\ owned' = owned \cup {p}
    BY <1>2 DEF RequestPage
  <2>2. p \in bitmapIndex .. Bits - 1 /\ p \notin used
    BY <2>1 DEF FreeFrom
  <2>3. ~refused /\ ~refused'
    BY <1>1, <1>2, <2>2 DEF RefusedForGood, RequestPage
  <2>4. p \notin owned
    BY <2>2 DEF IInv, OwnedMarked
  <2> QED BY <1>1, <1>2, <2>1, <2>2, <2>3, <2>4 DEF RequestPage, Requested
<1>3. CASE RequestPageFails
  BY <1>1, <1>3 DEF RequestPageFails
<1> QED BY <1>2, <1>3 DEF Request

(* A refusal is for good.                                                  *)
LEMMA RefusedStays ==
  ASSUME IInv, RefusedForGood, [PTNext]_allVars
  PROVE  RefusedForGood' /\ (refused => refused') /\ map' = map
<1>1. CASE Request
  BY <1>1, RequestEffect DEF RefusedForGood, Bits
<1>2. CASE UNCHANGED <<map, bitmapIndex, owned, refused>>
  BY <1>2 DEF RefusedForGood, Bits
<1> QED BY <1>1, <1>2, CursorStep

-----------------------------------------------------------------------------
(* What the two writes of MapMemory do to the tables.                      *)
LEMMA EnterGrows ==
  ASSUME NEW p \in DOMAIN tables, NEW i, i \notin DOMAIN tables[p],
         NEW new, new \notin DOMAIN tables
  PROVE  Grown(tables, Enter(p, i, new), p, i, new)
<1> DEFINE cleared == Put(tables, new, Empty)
<1>1. /\ DOMAIN cleared = DOMAIN tables \cup {new} /\ cleared[new] = Empty
      /\ \A q \in DOMAIN tables : cleared[q] = tables[q]
  BY DEF Put
<1> HIDE DEF cleared
<1>2. Enter(p, i, new) = [cleared EXCEPT ![p] = Put(@, i, new)]
  BY DEF Enter, cleared
<1>3. DOMAIN Empty = {}
  BY DEF Empty
<1> QED BY <1>1, <1>2, <1>3 DEF Grown, Put

LEMMA SetChanges ==
  ASSUME NEW p \in DOMAIN tables, NEW i, NEW x
  PROVE  Changed(tables, [tables EXCEPT ![p] = Put(@, i, x)], p, i, x)
BY DEF Changed, Put

(* The table of a walk has the level of the walk.                          *)
LEMMA WalkLevel ==
  ASSUME TreeInv, Walking, NEW lvl, Shape(tables, PML4, lvl)
  PROVE  walk.table \in DOMAIN tables /\ lvl[walk.table] = walk.level
<1>1. walk.level \in 0 .. 3 /\ walk.table # -1
  BY DEF TreeInv, Walking, Root
<1>2. walk.table = TableAt(tables, PML4, walk.virtual, walk.level)
  BY DEF TreeInv
<1>3. OnLevel(tables, lvl, TableAt(tables, PML4, walk.virtual, walk.level), walk.level)
  BY <1>1, WayLevels DEF TableAt
<1> QED BY <1>1, <1>2, <1>3 DEF OnLevel

(* The root is the first table.                                            *)
LEMMA RootShape ==
  ASSUME NEW root \in Nat, NEW t, DOMAIN t = {root}, DOMAIN t[root] = {}
  PROVE  Shape(t, root, [p \in {root} |-> Root])
BY DEF Shape, Root

(* The walk's own record, one level down.                                  *)
LEMMA WalkDown ==
  ASSUME walk \in [virtual : Nat, physical : Nat, table : Nat, level : 0 .. Root + 1],
         walk.level \in 1 .. 3, NEW next \in Nat,
         walk' = [walk EXCEPT !.table = next, !.level = @ - 1]
  PROVE  /\ walk' \in [virtual : Nat, physical : Nat, table : Nat, level : 0 .. Root + 1]
         /\ walk'.table = next /\ walk'.level = walk.level - 1 /\ walk'.virtual = walk.virtual
         /\ walk'.physical = walk.physical
<1>1. walk.level - 1 \in 0 .. Root + 1
  BY DEF Root
<1> QED BY <1>1

(* One level down is the next table of the way.                            *)
LEMMA NextTable ==
  ASSUME NEW t, NEW root, NEW v, NEW k \in 1 .. 3
  PROVE  TableAt(t, root, v, k - 1) = EntryOf(t, TableAt(t, root, v, k), Index(v, k))
BY DEF TableAt, At2, At1, At0

-----------------------------------------------------------------------------
(* The steps of PrepareMemory that touch no table.                         *)
LEMMA StillTree ==
  ASSUME TreeInv, UNCHANGED <<tables, PML4, owned, walk>>, page' \in Nat,
         pc' = "pml4" => pc = "pml4",
         pc' \in {"pml4", "identity", "framebuffer", "paged", "fault"},
         pc # "pml4" \/ pc' = pc
  PROVE  TreeInv'
BY DEF TreeInv, Walking

(* MapMemory is called with the page that is to be mapped.                 *)
LEMMA CallTree ==
  ASSUME TreeInv, UNCHANGED <<tables, PML4, owned, pc>>, page' \in Nat, pc # "pml4",
         NEW v \in Nat, MapMemory(v, v)
  PROVE  TreeInv'
<1>1. PML4 \in Nat
  BY DEF TreeInv, Shape
<1>2. /\ walk' \in [virtual : Nat, physical : Nat, table : Nat, level : 0 .. Root + 1]
      /\ walk'.table = PML4 /\ walk'.level = 3
  BY <1>1 DEF MapMemory, Root
<1>3. (walk.table = TableAt(tables, PML4, walk.virtual, walk.level))'
  BY <1>2 DEF TableAt
<1> QED BY <1>2, <1>3 DEF TreeInv

(* The first table.                                                        *)
LEMMA RequestPML4Tree ==
  ASSUME IInv, RefusedForGood, TreeInv, RequestPML4, ~refused'
  PROVE  TreeInv'
<1>1. PML4' \in Nat /\ PML4' \in owned'
  BY RequestEffect DEF RequestPML4
<1>2. DOMAIN tables' = {PML4'} /\ DOMAIN tables'[PML4'] = {}
  BY DEF RequestPML4, TreeInv, Empty, Put
<1>3. \E lvl : Shape(tables', PML4', lvl)
  BY <1>1, <1>2, RootShape
<1>4. ~Walking /\ pc' = "identity" /\ walk' = walk /\ page' = page
  BY DEF RequestPML4, TreeInv
<1> QED BY <1>1, <1>2, <1>3, <1>4 DEF TreeInv, Walking

(* A walk goes on one level down.                                          *)
LEMMA DescendTree ==
  ASSUME TreeInv, Descend
  PROVE  TreeInv' /\ pc' = pc
<1> DEFINE next == tables[walk.table][Here]
<1>1. Walking /\ walk.level > 0 /\ pc \notin {"fault", "lost"} /\ pc # "pml4"
  BY DEF Descend, TreeInv
<1>2. PICK lvl : Shape(tables, PML4, lvl)
  BY <1>1 DEF TreeInv
<1>3. walk.table \in DOMAIN tables /\ lvl[walk.table] = walk.level
  BY <1>1, <1>2, WalkLevel
<1>4. next \in DOMAIN tables /\ next \in Nat
  BY <1>1, <1>2, <1>3 DEF Descend, Shape
<1>5. pc' = pc /\ walk' = [walk EXCEPT !.table = next, !.level = @ - 1]
  BY <1>4 DEF Descend
<1>6. walk.level \in 1 .. 3
  BY <1>1 DEF TreeInv, Walking, Root
<1>7. /\ walk' \in [virtual : Nat, physical : Nat, table : Nat, level : 0 .. Root + 1]
      /\ walk'.table = next /\ walk'.level = walk.level - 1 /\ walk'.virtual = walk.virtual
  BY <1>4, <1>5, <1>6, WalkDown DEF TreeInv
<1>8. next = EntryOf(tables, walk.table, Index(walk.virtual, walk.level))
  BY <1>3 DEF Descend, Here, EntryOf
<1>9. next = TableAt(tables, PML4, walk.virtual, walk.level - 1)
  BY <1>1, <1>6, <1>8, NextTable DEF TreeInv
<1> HIDE DEF next
<1>10. UNCHANGED <<tables, PML4, owned, page>>
  BY DEF Descend, vars
<1> QED BY <1>1, <1>5, <1>7, <1>9, <1>10 DEF TreeInv

(* A walk that finds nothing goes on in a new table.                       *)
LEMMA GrowTree ==
  ASSUME IInv, RefusedForGood, TreeInv, Grow, ~refused'
  PROVE  /\ TreeInv'
         /\ \A v : Translate(v)' = Translate(v)
<1> DEFINE new == Requested
<1>1. /\ Walking /\ walk.level > 0 /\ pc \notin {"fault", "lost"} /\ pc # "pml4"
      /\ Here \notin DOMAIN tables[walk.table] /\ Request
      /\ UNCHANGED <<frameBuffer, page, PML4, grants>>
  BY DEF Grow, TreeInv
<1>2. new \in Nat /\ new \notin owned /\ owned' = owned \cup {new}
  BY <1>1, RequestEffect
<1>3. PICK lvl : Shape(tables, PML4, lvl)
  BY <1>1 DEF TreeInv
<1>4. walk.table \in DOMAIN tables /\ lvl[walk.table] = walk.level
  BY <1>1, <1>3, WalkLevel
<1>5. new \notin DOMAIN tables
  BY <1>1, <1>2 DEF TreeInv
<1>6. walk.level \in 1 .. 3
  BY <1>1 DEF TreeInv, Walking, Root
<1>7. CASE Accessible(Requested)
  <2>1. /\ tables' = Enter(walk.table, Here, new)
        /\ walk' = [walk EXCEPT !.table = new, !.level = @ - 1]
        /\ pc' = pc
    BY <1>7 DEF Grow
  <2>2. Grown(tables, tables', walk.table, Here, new)
    BY <1>1, <1>4, <1>5, <2>1, EnterGrows
  <2>3. \E l : Shape(tables', PML4, l)
    BY <1>1, <1>2, <1>3, <1>4, <1>5, <2>2, GrownShape
  <2>4. DOMAIN tables' \subseteq owned'
    BY <1>1, <1>2, <2>2 DEF TreeInv, Grown
  <2>5. /\ walk' \in [virtual : Nat, physical : Nat, table : Nat, level : 0 .. Root + 1]
        /\ walk'.table = new /\ walk'.level = walk.level - 1 /\ walk'.virtual = walk.virtual
    BY <1>2, <1>6, <2>1, WalkDown DEF TreeInv
  <2>6. ASSUME NEW v
        PROVE  /\ Look(tables', PML4, v) = Look(tables, PML4, v)
               /\ \A k \in 0 .. Root :
                    TableAt(tables, PML4, v, k) # -1 =>
                      TableAt(tables', PML4, v, k) = TableAt(tables, PML4, v, k)
    BY <1>1, <1>2, <1>3, <1>4, <1>5, <2>2, LookGrown
  <2>7. TableAt(tables', PML4, walk.virtual, walk.level) = walk.table
    <3>1. walk.table = TableAt(tables, PML4, walk.virtual, walk.level) /\ walk.table # -1
      BY <1>1 DEF TreeInv
    <3> QED BY <1>6, <2>6, <3>1 DEF Root
  <2>8. EntryOf(tables', walk.table, Index(walk.virtual, walk.level)) = new
    BY <1>4, <2>2 DEF EntryOf, Grown, Here
  <2>9. new = TableAt(tables', PML4, walk.virtual, walk.level - 1)
    BY <1>6, <2>7, <2>8, NextTable
  <2>10. TreeInv'
    BY <1>1, <2>1, <2>3, <2>4, <2>5, <2>9 DEF TreeInv
  <2>11. ASSUME NEW v
         PROVE  Translate(v)' = Translate(v)
    <3>1. Translate(v)' = Look(tables', PML4, v)
      BY <1>1 DEF Translate, Look, At0, At1, At2, Entry, EntryOf
    <3> QED BY <2>6, <3>1, TranslateIsLook
  <2> QED BY <2>10, <2>11
<1>8. CASE ~Accessible(Requested)
  <2>1. pc' = "fault" /\ UNCHANGED <<tables, walk>>
    BY <1>8 DEF Grow
  <2> QED BY <1>1, <1>2, <2>1 DEF TreeInv, Walking, Translate, Entry
<1> QED BY <1>7, <1>8

(* The last level changes the image of the page that is mapped.            *)
LEMMA SetEntryTree ==
  ASSUME TreeInv, SetEntry
  PROVE  /\ TreeInv'
         /\ ~Walking'
         /\ \A v : Translate(v)' =
              IF \A k \in 0 .. 3 : Index(v, k) = Index(walk.virtual, k)
              THEN walk.physical ELSE Translate(v)
<1>1. /\ Walking /\ walk.level = 0 /\ pc # "pml4"
      /\ tables' = [tables EXCEPT ![walk.table] = Put(@, Here, walk.physical)]
      /\ walk' = Idle /\ UNCHANGED <<pc, page, PML4, owned>>
  BY DEF SetEntry, TreeInv, vars
<1>2. PICK lvl : Shape(tables, PML4, lvl)
  BY <1>1 DEF TreeInv
<1>3. walk.table \in DOMAIN tables /\ lvl[walk.table] = 0
  BY <1>1, <1>2, WalkLevel
<1>4. Changed(tables, tables', walk.table, Here, walk.physical)
  BY <1>1, <1>3, SetChanges
<1>5. walk.physical \in Nat /\ Here = Index(walk.virtual, 0)
  BY <1>1 DEF TreeInv, Here
<1>6. Shape(tables', PML4, lvl) /\ DOMAIN tables' = DOMAIN tables
  BY <1>2, <1>3, <1>4, <1>5, ChangedShape DEF Changed
<1>7. ~Walking' /\ walk' \in [virtual : Nat, physical : Nat, table : Nat, level : 0 .. Root + 1]
  BY <1>1 DEF Walking, Idle, Root
<1>8. TreeInv'
  BY <1>1, <1>6, <1>7 DEF TreeInv
<1>9. walk.table = At0(tables, PML4, walk.virtual) /\ walk.table # -1
  BY <1>1 DEF TreeInv, TableAt
<1>10. ASSUME NEW v
       PROVE  Translate(v)' =
                IF \A k \in 0 .. 3 : Index(v, k) = Index(walk.virtual, k)
                THEN walk.physical ELSE Translate(v)
  <2>1. Look(tables', PML4, v) =
          IF At0(tables, PML4, v) = walk.table /\ Index(v, 0) = Here
          THEN walk.physical ELSE Look(tables, PML4, v)
    BY <1>2, <1>3, <1>4, LookChanged
  <2>2. At0(tables, PML4, v) = walk.table => \A k \in 1 .. 3 : Index(v, k) = Index(walk.virtual, k)
    BY <1>2, <1>9, SameTable
  <2>3. (\A k \in 0 .. 3 : Index(v, k) = Index(walk.virtual, k)) => At0(tables, PML4, v) = walk.table
    BY <1>9, SameWay
  <2>4. Translate(v)' = Look(tables', PML4, v)
    BY <1>1 DEF Translate, Look, At0, At1, At2, Entry, EntryOf
  <2> QED BY <1>5, <2>1, <2>2, <2>3, <2>4, TranslateIsLook
<1> QED BY <1>7, <1>8, <1>10

(* A driver takes a page.                                                  *)
LEMMA GrantTree ==
  ASSUME IInv, RefusedForGood, TreeInv, GrantPage, ~refused'
  PROVE  TreeInv'
<1>1. owned \subseteq owned' /\ UNCHANGED <<tables, PML4, page, walk>> /\ pc = "paged"
  BY RequestEffect DEF GrantPage
<1>2. pc' \in {"paged", "fault"}
  BY <1>1 DEF GrantPage
<1> QED BY <1>1, <1>2 DEF TreeInv, Walking

(* As long as no request is refused, the tables remain a tree.             *)
LEMMA TreeStep ==
  ASSUME IInv, PTInv, [PTNext]_allVars, ~refused'
  PROVE  TreeInv'
<1>1. RefusedForGood /\ TreeInv /\ page \in Nat
  BY RefusedStays DEF PTInv, TreeInv
<1>2. frameBuffer \in [start : Nat, pages : Nat]
  BY SizesAssumption DEF PTInv
<1>3. CASE ReadMap \/ MarkKernel
  <2>1. UNCHANGED tableVars /\ owned' = owned
    BY <1>3 DEF ReadMap, MarkKernel, ReadEfiMemoryMap, AllocateKernel, AllocatePages
  <2>2. pc' \in {"pml4", "identity", "framebuffer", "paged", "fault"}
    BY <1>1, <2>1 DEF TreeInv, tableVars
  <2> QED BY <1>1, <2>1, <2>2, StillTree DEF tableVars
<1>4. CASE RequestPML4
  BY <1>1, <1>4, RequestPML4Tree
<1>5. CASE MapIdentity \/ MapFrameBuffer
  <2>1. /\ MapMemory(page, page) /\ page' = page + 1 /\ pc # "pml4"
        /\ UNCHANGED <<tables, PML4, owned, pc>>
    BY <1>5 DEF MapIdentity, MapFrameBuffer, vars
  <2> QED BY <1>1, <2>1, CallTree
<1>6. CASE MarkFrameBuffer
  <2>1. /\ UNCHANGED <<tables, PML4, owned, walk>> /\ page' \in Nat
        /\ pc # "pml4" /\ pc' = "framebuffer"
    BY <1>2, <1>6 DEF MarkFrameBuffer, AllocateFrameBuffer, AllocatePages
  <2> QED BY <1>1, <2>1, StillTree
<1>7. CASE EnablePaging
  <2>1. /\ UNCHANGED <<tables, PML4, owned, walk>> /\ page' \in Nat
        /\ pc # "pml4" /\ pc' = "paged"
    BY <1>1, <1>7 DEF EnablePaging, vars
  <2> QED BY <1>1, <2>1, StillTree
<1>8. CASE MapDevice
  <2>1. /\ page' \in Nat /\ pc # "pml4" /\ UNCHANGED <<tables, PML4, owned, pc>>
        /\ \E d \in Nat : MapMemory(d, d)
    BY <1>1, <1>8, FanAssumption DEF MapDevice, vars
  <2> QED BY <1>1, <2>1, CallTree
<1>9. CASE GrantPage
  BY <1>1, <1>9, GrantTree
<1>10. CASE Descend
  BY <1>1, <1>10, DescendTree
<1>11. CASE Grow
  BY <1>1, <1>11, GrowTree
<1>12. CASE SetEntry
  BY <1>1, <1>12, SetEntryTree
<1>13. CASE WalkFaults
  <2>1. /\ UNCHANGED <<tables, PML4, owned, walk>> /\ page' \in Nat
        /\ pc # "pml4" /\ pc' = "fault"
    BY <1>1, <1>13 DEF WalkFaults, TreeInv, vars
  <2> QED BY <1>1, <2>1, StillTree
<1>14. CASE UNCHANGED allVars
  <2>1. UNCHANGED tableVars /\ owned' = owned
    BY <1>14 DEF allVars, vars
  <2>2. pc' \in {"pml4", "identity", "framebuffer", "paged", "fault"}
    BY <1>1, <2>1 DEF TreeInv, tableVars
  <2> QED BY <1>1, <2>1, <2>2, StillTree DEF tableVars
<1> QED
  BY <1>3, <1>4, <1>5, <1>6, <1>7, <1>8, <1>9, <1>10, <1>11, <1>12, <1>13, <1>14
  DEF PTNext, BootNext

LEMMA PTInitInv == PTInit => PTInv
BY DEF PTInit, Init, PTInv, RefusedForGood, TreeInv, Walking, Idle, Root

LEMMA PTNextInv == IInv /\ PTInv /\ [PTNext]_allVars => PTInv'
BY AllocatorStep, RefusedStays, TreeStep DEF PTInv

(* In every state the tables are a tree, or the allocator is exhausted.    *)
THEOREM PTInvariance == PTSpec => [](IInv /\ PTInv)
<1>1. PTSpec => []IInv
  BY AllocatorOfTables, Invariance, PTL
<1> QED
  BY <1>1, PTInitInv, PTNextInv, PTL DEF PTSpec

-----------------------------------------------------------------------------
(* The tables of one level are those that the level above leads to.        *)
LEMMA BelowLevel ==
  ASSUME NEW lvl, Shape(tables, PML4, lvl), NEW k \in 1 .. Root
  PROVE  Below({p \in DOMAIN tables : lvl[p] = k}) = {q \in DOMAIN tables : lvl[q] = k - 1}
<1>1. ASSUME NEW p \in DOMAIN tables, lvl[p] = k, NEW i \in DOMAIN tables[p]
      PROVE  tables[p][i] \in DOMAIN tables /\ lvl[tables[p][i]] = k - 1
  BY <1>1 DEF Shape, Root
<1>2. ASSUME NEW q \in DOMAIN tables, lvl[q] = k - 1
      PROVE  \E p \in DOMAIN tables : lvl[p] = k /\ \E i \in DOMAIN tables[p] : tables[p][i] = q
  <2>1. q # PML4
    BY <1>2 DEF Shape, Root
  <2>2. PICK p \in DOMAIN tables : lvl[p] > 0 /\ \E i \in DOMAIN tables[p] : tables[p][i] = q
    BY <2>1 DEF Shape
  <2>3. lvl[q] = lvl[p] - 1 /\ lvl[p] \in 0 .. Root
    BY <2>2 DEF Shape
  <2> QED BY <1>2, <2>2, <2>3 DEF Root
<1> QED BY <1>1, <1>2 DEF Below

(* The tables form a tree of four levels, made of requested pages.         *)
LEMMA TreeOfShape ==
  ASSUME NEW lvl, Shape(tables, PML4, lvl), DOMAIN tables \subseteq owned
  PROVE  TableTree
<1> DEFINE Level(k) == {p \in DOMAIN tables : lvl[p] = k}
           PDPs == Below({PML4})
           PDs  == Below(PDPs)
           PTs  == Below(PDs)
           directories == {PML4} \cup PDPs \cup PDs
<1>1. {PML4} = Level(3)
  BY DEF Shape, Root
<1>2. PDPs = Level(2)
  <2>1. Below(Level(3)) = Level(3 - 1)
    BY BelowLevel DEF Root
  <2> QED BY <1>1, <2>1
<1>3. PDs = Level(1)
  <2>1. Below(Level(2)) = Level(2 - 1)
    BY BelowLevel DEF Root
  <2> QED BY <1>2, <2>1
<1>4. PTs = Level(0)
  <2>1. Below(Level(1)) = Level(1 - 1)
    BY BelowLevel DEF Root
  <2> QED BY <1>3, <2>1
<1> HIDE DEF PDPs, PDs, PTs
<1>5. DOMAIN tables = directories \cup PTs
  <2>1. \A p \in DOMAIN tables : lvl[p] \in {0, 1, 2, 3}
    BY DEF Shape, Root
  <2> QED BY <1>1, <1>2, <1>3, <1>4, <2>1
<1>6. PML4 \notin PDPs /\ (PDPs \cap PDs) = {} /\ (directories \cap PTs) = {}
  BY <1>1, <1>2, <1>3, <1>4
<1>7. \A p \in directories : p \in DOMAIN tables /\ lvl[p] > 0
  BY <1>1, <1>2, <1>3
<1> HIDE DEF directories
<1>8. \A p, q \in directories : \A i \in DOMAIN tables[p], j \in DOMAIN tables[q] :
        tables[p][i] = tables[q][j] => p = q /\ i = j
  BY <1>7 DEF Shape
<1> QED BY <1>5, <1>6, <1>8 DEF TableTree, directories, PDPs, PDs, PTs

(* No table that MapMemory builds is entered twice, shared between two     *)
(* levels or stranded, on any machine and with any number of entries.      *)
THEOREM TreeCorrect == PTSpec => []TableTree
<1>1. PTInv => TableTree
  <2>1. SUFFICES ASSUME PTInv, ~refused, PML4 # Null PROVE TableTree
    BY DEF TableTree
  <2>2. DOMAIN tables \subseteq owned /\ \E lvl : Shape(tables, PML4, lvl)
    BY <2>1 DEF PTInv, TreeInv
  <2> QED BY <2>2, TreeOfShape
<1> QED BY <1>1, PTInvariance, PTL

-----------------------------------------------------------------------------
(* The pages that have been given to MapMemory, at each stage of           *)
(* PrepareMemory.                                                          *)
MappedSoFar ==
  IF pc = "identity" THEN 0 .. page - 1
  ELSE IF pc = "framebuffer" THEN (0 .. MemorySize - 1) \cup (frameBuffer.start .. page - 1)
  ELSE IF PagingOn THEN (0 .. MemorySize - 1) \cup FrameBufferPages
  ELSE {}

(* They are identity mapped, except for the one that a walk has still to   *)
(* enter; and no other call of MapMemory undoes it.                        *)
IdentityInv ==
  /\ walk.virtual = walk.physical
  /\ Walking => walk.virtual \in VirtualPages
  /\ pc = "pml4" => page = 0
  /\ pc = "identity" => page <= MemorySize
  /\ pc = "framebuffer" => page = frameBuffer.start \/ page - 1 \in FrameBufferPages
  /\ \A v \in MappedSoFar : Translate(v) = v \/ (Walking /\ v = walk.virtual /\ ~PagingOn)

(* What was given to MapMemory is within reach of the tables.              *)
LEMMA MappedInReach ==
  ASSUME WithinReach, IInv, PTInv, ~refused, IdentityInv
  PROVE  MappedSoFar \subseteq VirtualPages
<1>1. 0 .. MemorySize - 1 \subseteq VirtualPages /\ FrameBufferPages \subseteq VirtualPages
  BY DEF WithinReach, IInv, TypeOK, PTInv, MemorySize, FrameBufferPages
<1>2. MemorySize \in Nat /\ page \in Nat /\ frameBuffer.start \in Nat /\ frameBuffer.pages \in Nat
  BY MapsAssumption, SizesAssumption DEF IInv, TypeOK, PTInv, TreeInv, MemorySize
<1>3. CASE pc = "identity"
  BY <1>1, <1>2, <1>3 DEF MappedSoFar, IdentityInv
<1>4. CASE pc = "framebuffer"
  <2>1. frameBuffer.start .. page - 1 \subseteq FrameBufferPages
    BY <1>2, <1>4 DEF IdentityInv, FrameBufferPages, Span
  <2> QED BY <1>1, <1>4, <2>1 DEF MappedSoFar
<1>5. CASE pc \notin {"identity", "framebuffer"}
  BY <1>1, <1>5 DEF MappedSoFar
<1> QED BY <1>3, <1>4, <1>5

(* The size of memory and the frame buffer are fixed.                      *)
LEMMA FixedMachine ==
  ASSUME IInv, RefusedForGood, frameBuffer \in FrameBuffers, [PTNext]_allVars
  PROVE  /\ MemorySize' = MemorySize /\ FrameBufferPages' = FrameBufferPages
         /\ frameBuffer' = frameBuffer
<1>1. map' = map
  BY RefusedStays
<1>2. frameBuffer' = frameBuffer
  <2>1. CASE ReadMap \/ MarkKernel \/ MarkFrameBuffer
    BY <2>1 DEF ReadMap, MarkKernel, MarkFrameBuffer, tableVars
  <2>2. CASE RequestPML4 \/ GrantPage \/ Grow
    BY <2>2 DEF RequestPML4, GrantPage, Grow
  <2>3. CASE MapIdentity \/ MapFrameBuffer \/ EnablePaging \/ MapDevice
    BY <2>3 DEF MapIdentity, MapFrameBuffer, EnablePaging, MapDevice
  <2>4. CASE Descend \/ SetEntry \/ WalkFaults
    BY <2>4 DEF Descend, SetEntry, WalkFaults
  <2>5. CASE UNCHANGED allVars
    BY <2>5 DEF allVars, tableVars
  <2> QED BY <2>1, <2>2, <2>3, <2>4, <2>5 DEF PTNext, BootNext
<1> QED BY <1>1, <1>2 DEF MemorySize, FrameBufferPages

(* A step that leaves the tables alone leaves every translation alone.     *)
LEMMA SameTranslation ==
  ASSUME UNCHANGED <<tables, PML4>>, NEW v
  PROVE  Translate(v)' = Translate(v)
BY DEF Translate, Entry

(* A step on the way of a walk, and one that the walk has no part in.      *)
LEMMA StillIdentity ==
  ASSUME IdentityInv, PTInv, ~refused, UNCHANGED <<page, frameBuffer>>,
         MemorySize' = MemorySize, FrameBufferPages' = FrameBufferPages,
         \A v : Translate(v)' = Translate(v),
         walk'.virtual = walk.virtual, walk'.physical = walk.physical,
         Walking' <=> Walking,
         pc' = pc \/ (pc = "paged" /\ pc' = "fault")
  PROVE  IdentityInv'
<1>1. PagingOn' <=> PagingOn
  BY DEF PagingOn
<1>2. MappedSoFar' = MappedSoFar
  BY <1>1 DEF MappedSoFar, PagingOn
<1> QED BY <1>1, <1>2 DEF IdentityInv

(* A call of MapMemory for a page that joins those mapped.                 *)
LEMMA CallIdentity ==
  ASSUME IdentityInv, ~Walking, ~PagingOn, ~PagingOn', UNCHANGED <<tables, PML4, pc>>,
         pc # "pml4", NEW v \in VirtualPages, MapMemory(v, v),
         MappedSoFar' \subseteq MappedSoFar \cup {v},
         (pc = "identity" => page <= MemorySize)',
         (pc = "framebuffer" => page = frameBuffer.start \/ page - 1 \in FrameBufferPages)'
  PROVE  IdentityInv'
<1>1. walk'.virtual = v /\ walk'.physical = v /\ Walking'
  BY DEF MapMemory, Walking, Root
<1>2. \A w \in MappedSoFar : Translate(w) = w
  BY DEF IdentityInv
<1>3. \A w : Translate(w)' = Translate(w)
  BY SameTranslation
<1> QED BY <1>1, <1>2, <1>3 DEF IdentityInv

(* The end of a walk: the page that was missing is mapped, and no page     *)
(* that was mapped is lost.                                                *)
LEMMA SetIdentity ==
  ASSUME WithinReach, IInv, PTInv, ~refused, IdentityInv, SetEntry,
         MemorySize' = MemorySize, FrameBufferPages' = FrameBufferPages
  PROVE  IdentityInv'
<1>1. TreeInv /\ Walking /\ UNCHANGED <<pc, page, frameBuffer>> /\ walk' = Idle
  BY DEF PTInv, SetEntry
<1>2. MappedSoFar' = MappedSoFar
  BY <1>1 DEF MappedSoFar, PagingOn
<1>3. ASSUME NEW v \in MappedSoFar
      PROVE  Translate(v)' = v
  <2>1. v \in VirtualPages /\ walk.virtual \in VirtualPages
    BY <1>1, MappedInReach DEF IdentityInv
  <2>2. CASE v = walk.virtual
    BY <1>1, <2>2, SetEntryTree DEF IdentityInv
  <2>3. CASE v # walk.virtual
    <3>1. ~ \A k \in 0 .. 3 : Index(v, k) = Index(walk.virtual, k)
      BY <2>1, <2>3, SamePage
    <3> QED BY <1>1, <2>3, <3>1, SetEntryTree DEF IdentityInv
  <2> QED BY <2>2, <2>3
<1>4. ~Walking' /\ walk'.virtual = walk'.physical
  BY <1>1 DEF Walking, Idle, Root
<1> QED BY <1>1, <1>2, <1>3, <1>4 DEF IdentityInv

(* The frame buffer's loop ends with the last page that it is to map.      *)
LEMMA FrameBufferDone ==
  ASSUME frameBuffer \in [start : Nat, pages : Nat], page \in Nat,
         page = frameBuffer.start \/ page - 1 \in FrameBufferPages,
         page \notin FrameBufferPages
  PROVE  FrameBufferPages \subseteq frameBuffer.start .. page - 1
BY DEF FrameBufferPages, Span

(* The loops of PrepareMemory, one call of MapMemory after another.        *)
LEMMA LoopIdentity ==
  ASSUME WithinReach, IInv, PTInv, ~refused, IdentityInv,
         MapIdentity \/ MarkFrameBuffer \/ MapFrameBuffer \/ EnablePaging \/ MapDevice,
         MemorySize' = MemorySize, FrameBufferPages' = FrameBufferPages, frameBuffer' = frameBuffer
  PROVE  IdentityInv'
<1>1. MemorySize \in Nat /\ page \in Nat /\ frameBuffer \in [start : Nat, pages : Nat]
  BY MapsAssumption, SizesAssumption DEF IInv, TypeOK, PTInv, TreeInv, MemorySize
<1>2. 0 .. MemorySize - 1 \subseteq VirtualPages /\ FrameBufferPages \subseteq VirtualPages
  BY DEF WithinReach, IInv, TypeOK, PTInv, MemorySize, FrameBufferPages
<1>3. CASE MapIdentity
  <2>1. /\ pc = "identity" /\ ~Walking /\ page < MemorySize /\ page' = page + 1
        /\ UNCHANGED <<tables, PML4, pc>> /\ MapMemory(page, page)
    BY <1>3 DEF MapIdentity
  <2>2. page \in VirtualPages /\ page' <= MemorySize'
    BY <1>1, <1>2, <2>1
  <2>3. MappedSoFar' \subseteq MappedSoFar \cup {page}
    BY <1>1, <2>1 DEF MappedSoFar
  <2>4. ~PagingOn /\ ~PagingOn'
    BY <2>1 DEF PagingOn
  <2> QED BY <2>1, <2>2, <2>3, <2>4, CallIdentity
<1>4. CASE MapFrameBuffer
  <2>1. /\ pc = "framebuffer" /\ ~Walking /\ page \in FrameBufferPages /\ page' = page + 1
        /\ UNCHANGED <<tables, PML4, pc>> /\ MapMemory(page, page)
    BY <1>4 DEF MapFrameBuffer
  <2>2. page \in VirtualPages /\ page' - 1 \in FrameBufferPages'
    BY <1>1, <1>2, <2>1
  <2>3. MappedSoFar' \subseteq MappedSoFar \cup {page}
    BY <1>1, <2>1 DEF MappedSoFar
  <2>4. ~PagingOn /\ ~PagingOn'
    BY <2>1 DEF PagingOn
  <2> QED BY <2>1, <2>2, <2>3, <2>4, CallIdentity
<1>5. CASE MarkFrameBuffer
  <2>1. /\ pc = "identity" /\ ~Walking /\ page >= MemorySize /\ page' = frameBuffer.start
        /\ pc' = "framebuffer" /\ UNCHANGED <<tables, PML4, walk>>
    BY <1>5 DEF MarkFrameBuffer
  <2>2. MappedSoFar' \subseteq MappedSoFar /\ ~Walking'
    BY <1>1, <2>1 DEF MappedSoFar, Walking
  <2>3. \A v : Translate(v)' = Translate(v)
    BY <2>1, SameTranslation
  <2> QED BY <2>1, <2>2, <2>3 DEF IdentityInv
<1>6. CASE EnablePaging
  <2>1. /\ pc = "framebuffer" /\ ~Walking /\ page \notin FrameBufferPages
        /\ pc' = "paged" /\ UNCHANGED <<page, tables, PML4, walk>>
    BY <1>6 DEF EnablePaging
  <2>2. FrameBufferPages \subseteq frameBuffer.start .. page - 1
    BY <1>1, <2>1, FrameBufferDone DEF IdentityInv
  <2>3. MappedSoFar' \subseteq MappedSoFar /\ ~Walking'
    BY <2>1, <2>2 DEF MappedSoFar, PagingOn, Walking
  <2>4. \A v : Translate(v)' = Translate(v)
    BY <2>1, SameTranslation
  <2> QED BY <2>1, <2>3, <2>4 DEF IdentityInv
<1>7. CASE MapDevice
  <2>1. /\ pc = "paged" /\ ~Walking /\ pc' = pc /\ UNCHANGED <<page, tables, PML4>>
        /\ \E d \in Devices : MapMemory(d, d)
    BY <1>7 DEF MapDevice
  <2>2. walk'.virtual = walk'.physical /\ walk'.virtual \in VirtualPages
    BY <2>1 DEF MapMemory, WithinReach
  <2>3. MappedSoFar' = MappedSoFar
    BY <2>1 DEF MappedSoFar, PagingOn
  <2>4. \A v : Translate(v)' = Translate(v)
    BY <2>1, SameTranslation
  <2> QED BY <2>1, <2>2, <2>3, <2>4 DEF IdentityInv
<1> QED BY <1>3, <1>4, <1>5, <1>6, <1>7

(* Every step keeps what was mapped, as long as no request is refused.     *)
LEMMA IdentityStep ==
  ASSUME WithinReach, IInv, PTInv, IdentityInv, [PTNext]_allVars, ~refused'
  PROVE  IdentityInv'
<1>1. ~refused /\ RefusedForGood /\ TreeInv
  BY RefusedStays DEF PTInv
<1>2. MemorySize' = MemorySize /\ FrameBufferPages' = FrameBufferPages /\ frameBuffer' = frameBuffer
  BY <1>1, FixedMachine DEF PTInv
<1>3. CASE ReadMap \/ MarkKernel \/ UNCHANGED allVars
  <2>1. UNCHANGED tableVars
    BY <1>3 DEF ReadMap, MarkKernel, allVars
  <2> QED BY <1>1, <1>2, <2>1, SameTranslation, StillIdentity DEF tableVars, Walking
<1>4. CASE RequestPML4
  <2>1. ~Walking /\ walk' = walk /\ pc' = "identity" /\ page' = page
    BY <1>1, <1>4 DEF RequestPML4, TreeInv
  <2>2. page = 0 /\ MemorySize \in Nat
    BY <1>4, MapsAssumption DEF RequestPML4, IdentityInv, IInv, TypeOK, MemorySize
  <2> QED BY <1>2, <2>1, <2>2 DEF IdentityInv, MappedSoFar, Walking
<1>5. CASE MapIdentity \/ MarkFrameBuffer \/ MapFrameBuffer \/ EnablePaging \/ MapDevice
  BY <1>1, <1>2, <1>5, LoopIdentity
<1>6. CASE Descend
  <2>1. TreeInv' /\ pc' = pc
    BY <1>1, <1>6, DescendTree
  <2>2. UNCHANGED <<page, tables, PML4>> /\ walk.level \in 1 .. 3 /\ Walking
    BY <1>1, <1>6 DEF Descend, TreeInv, Walking, Root
  <2>3. /\ walk'.virtual = walk.virtual /\ walk'.physical = walk.physical
        /\ walk'.level = walk.level - 1
    BY <1>1, <1>6 DEF Descend, TreeInv
  <2>4. Walking'
    BY <2>2, <2>3 DEF Walking, Root
  <2> QED BY <1>1, <1>2, <2>1, <2>2, <2>3, <2>4, SameTranslation, StillIdentity
<1>7. CASE Grow
  <2>1. \A v : Translate(v)' = Translate(v)
    BY <1>1, <1>7, GrowTree
  <2>2. page' = page /\ walk.level \in 1 .. 3 /\ Walking
    BY <1>1, <1>7 DEF Grow, TreeInv, Walking, Root
  <2>3. /\ walk'.virtual = walk.virtual /\ walk'.physical = walk.physical
        /\ walk'.level \in {walk.level, walk.level - 1}
    BY <1>1, <1>7 DEF Grow, TreeInv
  <2>4. Walking'
    BY <2>2, <2>3 DEF Walking, Root
  <2>5. pc' = pc \/ (pc = "paged" /\ pc' = "fault")
    BY <1>1, <1>7 DEF Grow, Accessible, PagingOn, TreeInv
  <2> QED BY <1>1, <1>2, <2>1, <2>2, <2>3, <2>4, <2>5, StillIdentity
<1>8. CASE SetEntry
  BY <1>1, <1>2, <1>8, SetIdentity
<1>9. CASE WalkFaults
  <2>1. UNCHANGED <<page, tables, PML4, walk>> /\ pc = "paged" /\ pc' = "fault"
    BY <1>1, <1>9 DEF WalkFaults, Accessible, PagingOn, TreeInv
  <2> QED BY <1>1, <1>2, <2>1, SameTranslation, StillIdentity DEF Walking
<1>10. CASE GrantPage
  <2>1. UNCHANGED <<page, tables, PML4, walk>> /\ pc = "paged" /\ pc' \in {"paged", "fault"}
    BY <1>10 DEF GrantPage
  <2> QED BY <1>1, <1>2, <2>1, SameTranslation, StillIdentity DEF Walking
<1> QED
  BY <1>3, <1>4, <1>5, <1>6, <1>7, <1>8, <1>9, <1>10 DEF PTNext, BootNext

LEMMA IdentityInit == PTInit => IdentityInv
BY DEF PTInit, IdentityInv, MappedSoFar, PagingOn, Walking, Idle, Root

(* Until the allocator is exhausted, what was given to MapMemory is mapped.*)
THEOREM IdentityInvariance ==
  ASSUME WithinReach
  PROVE  PTSpec => [](~refused => IdentityInv)
<1> DEFINE Held == ~refused => IdentityInv
<1>1. PTInit => Held
  BY IdentityInit
<1>2. IInv /\ PTInv /\ Held /\ [PTNext]_allVars => Held'
  <2>1. SUFFICES ASSUME IInv, PTInv, Held, [PTNext]_allVars, ~refused'
                 PROVE  IdentityInv'
    OBVIOUS
  <2>2. ~refused
    BY <2>1, RefusedStays DEF PTInv
  <2> QED BY <2>1, <2>2, IdentityStep
<1> HIDE DEF Held
<1>3. PTSpec => []Held
  BY <1>1, <1>2, PTInvariance, PTL DEF PTSpec
<1> QED BY <1>3, PTL DEF Held

(* When PrepareMemory turns paging on, and ever after, all of memory and   *)
(* the frame buffer are identity mapped.                                   *)
THEOREM IdentityCorrect ==
  ASSUME WithinReach
  PROVE  PTSpec => []IdentityComplete
<1>1. (~refused => IdentityInv) => IdentityComplete
  BY DEF IdentityInv, IdentityComplete, MappedSoFar, PagingOn
<1> QED BY <1>1, IdentityInvariance, PTL

(* A page below the memory size can be reached once paging is on.          *)
LEMMA AccessibleBelow ==
  ASSUME IdentityInv, NEW p \in 0 .. MemorySize - 1
  PROVE  Accessible(p)
<1>1. SUFFICES ASSUME PagingOn PROVE Translate(p) = p
  BY DEF Accessible
<1>2. p \in MappedSoFar
  BY <1>1 DEF MappedSoFar, PagingOn
<1> QED BY <1>1, <1>2 DEF IdentityInv

(* The step to a fault: the page that cannot be reached was given out.     *)
LEMMA FaultStep ==
  ASSUME IInv, PTInv, ~refused => IdentityInv, FaultsOnlyPastMemory, [PTNext]_allVars
  PROVE  FaultsOnlyPastMemory'
<1>1. SUFFICES ASSUME ~refused' PROVE FaultsOnlyPastMemory'
  BY DEF FaultsOnlyPastMemory
<1>2. ~refused /\ RefusedForGood /\ TreeInv /\ IdentityInv
  BY <1>1, RefusedStays DEF PTInv
<1>3. MemorySize' = MemorySize /\ MemorySize \in Nat
  BY <1>2, FixedMachine, MapsAssumption DEF PTInv, IInv, TypeOK, MemorySize
<1>4. owned \subseteq owned' /\ owned' \subseteq Nat
  <2>1. owned \subseteq Nat
    BY BitmapSize DEF IInv, TypeOK, AllPages, Bits
  <2> QED BY <1>1, <1>2, <2>1, CursorStep, RequestEffect
<1>5. pc' # "lost"
  BY <1>1, TreeStep DEF TreeInv
<1>6. SUFFICES ASSUME pc' = "fault", pc # "fault"
               PROVE  \E p \in owned' : ~Accessible(p)
  <2>1. CASE pc = "fault"
    BY <1>2, <1>3, <1>4, <1>5, <2>1 DEF FaultsOnlyPastMemory
  <2>2. ASSUME NEW p \in owned', ~Accessible(p)
        PROVE  p >= MemorySize'
    BY <1>2, <1>3, <1>4, <2>2, AccessibleBelow
  <2> QED BY <1>5, <1>6, <2>1, <2>2 DEF FaultsOnlyPastMemory
<1>7. CASE ReadMap \/ MarkKernel \/ UNCHANGED allVars
  BY <1>6, <1>7 DEF ReadMap, MarkKernel, allVars, tableVars
<1>8. CASE RequestPML4 \/ MapIdentity \/ MarkFrameBuffer \/ MapFrameBuffer \/ EnablePaging \/ MapDevice
  BY <1>6, <1>8 DEF RequestPML4, MapIdentity, MarkFrameBuffer, MapFrameBuffer, EnablePaging, MapDevice
<1>9. CASE Descend
  BY <1>2, <1>6, <1>9, DescendTree
<1>10. CASE SetEntry
  BY <1>6, <1>10 DEF SetEntry
<1>11. CASE Grow \/ GrantPage
  <2>1. Request /\ ~Accessible(Requested)
    BY <1>6, <1>11 DEF Grow, GrantPage
  <2>2. Requested \in owned'
    BY <1>1, <1>2, <2>1, RequestEffect
  <2> QED BY <2>1, <2>2
<1>12. CASE WalkFaults
  <2>1. Walking /\ ~Accessible(walk.table) /\ pc # "pml4"
    BY <1>2, <1>12 DEF WalkFaults, TreeInv
  <2>2. PICK lvl : Shape(tables, PML4, lvl)
    BY <1>2, <2>1 DEF TreeInv
  <2>3. walk.table \in DOMAIN tables
    BY <1>2, <2>1, <2>2, WalkLevel
  <2>4. walk.table \in owned'
    BY <1>2, <1>4, <2>1, <2>3 DEF TreeInv
  <2> QED BY <2>1, <2>4
<1> QED
  BY <1>7, <1>8, <1>9, <1>10, <1>11, <1>12 DEF PTNext, BootNext

(* A fault, or a walk through memory that holds no table, comes only from  *)
(* an allocator that is exhausted or gives out pages past the memory size. *)
THEOREM FaultsCorrect ==
  ASSUME WithinReach
  PROVE  PTSpec => []FaultsOnlyPastMemory
<1>1. PTInit => FaultsOnlyPastMemory
  BY DEF PTInit, FaultsOnlyPastMemory
<1>2. IInv /\ PTInv /\ (~refused => IdentityInv) /\ FaultsOnlyPastMemory /\ [PTNext]_allVars
        => FaultsOnlyPastMemory'
  BY FaultStep
<1> QED
  BY <1>1, <1>2, PTInvariance, IdentityInvariance, PTL DEF PTSpec

-----------------------------------------------------------------------------
(* The address space that the tables implement.                            *)
MappedPages == {v \in VirtualPages : Translate(v) # -1}
SpaceNow == IF refused THEN << >> ELSE [v \in MappedPages |-> Translate(v)]

(* What MapMemory has been asked for.                                      *)
Asked(virtual, physical) == [virtual : Reached(virtual), physical : {physical}]
AskedNow == IF refused \/ ~Walking THEN {} ELSE Asked(walk.virtual, walk.physical)

(* A call is about one page.                                               *)
LEMMA OneAsked ==
  ASSUME NEW v \in Nat, NEW p
  PROVE  \E u \in VirtualPages :
           /\ Reached(v) = {u}
           /\ Asked(v, p) = {[virtual |-> u, physical |-> p]}
<1>1. PICK u \in VirtualPages : \A k \in 0 .. 3 : Index(u, k) = Index(v, k)
  BY PageOfIndexes
<1>2. ASSUME NEW w \in Reached(v) PROVE w = u
  <2>1. w \in VirtualPages /\ \A k \in 0 .. 3 : Index(w, k) = Index(u, k)
    BY <1>1, <1>2 DEF Reached
  <2> QED BY <2>1, SamePage
<1>3. Reached(v) = {u}
  BY <1>1, <1>2 DEF Reached
<1>4. Asked(v, p) = {[virtual |-> u, physical |-> p]}
  <2>1. Asked(v, p) = [virtual : {u}, physical : {p}]
    BY <1>3 DEF Asked
  <2>2. ASSUME NEW c \in [virtual : {u}, physical : {p}]
        PROVE  c = [virtual |-> u, physical |-> p]
    OBVIOUS
  <2>3. [virtual |-> u, physical |-> p] \in [virtual : {u}, physical : {p}]
    OBVIOUS
  <2> QED BY <2>1, <2>2, <2>3, Zenon
<1> QED BY <1>3, <1>4

(* Tables that are empty, or a root that is, map nothing.                  *)
LEMMA NothingMapped ==
  ASSUME NEW t, NEW root, -1 \notin DOMAIN t, \A p \in DOMAIN t : DOMAIN t[p] = {}, NEW v
  PROVE  Look(t, root, v) = -1
BY DEF Look, At0, At1, At2, EntryOf

LEMMA SpaceStarts == PTInit => SpaceNow = << >> /\ refused = FALSE
<1> SUFFICES ASSUME PTInit PROVE SpaceNow = << >> /\ refused = FALSE
  OBVIOUS
<1>1. DOMAIN tables = {} /\ refused = FALSE
  BY DEF PTInit, Init, Empty
<1>2. MappedPages = {}
  BY <1>1, NothingMapped, TranslateIsLook DEF MappedPages
<1>3. SpaceNow = [v \in {} |-> Translate(v)]
  BY <1>1, <1>2 DEF SpaceNow
<1>4. [v \in {} |-> Translate(v)] = << >>
  OBVIOUS
<1> QED BY <1>1, <1>3, <1>4

(* Filling in tables on the way changes no image.                          *)
LEMMA SpaceStutters ==
  ASSUME ~refused, ~refused', \A v : Translate(v)' = Translate(v)
  PROVE  SpaceNow' = SpaceNow
<1>1. MappedPages' = MappedPages
  BY DEF MappedPages, VirtualPages
<1> QED BY <1>1 DEF SpaceNow

(* The last level changes the image of the page that was asked for.        *)
LEMMA SpaceMaps ==
  ASSUME TreeInv, SetEntry, ~refused, ~refused'
  PROVE  \E c \in AskedNow :
           SpaceNow' = [w \in DOMAIN SpaceNow \cup {c.virtual} |->
                          IF w = c.virtual THEN c.physical ELSE SpaceNow[w]]
<1>1. walk.virtual \in Nat /\ walk.physical \in Nat /\ Walking
  BY DEF TreeInv, SetEntry
<1>2. PICK u \in VirtualPages :
        /\ Reached(walk.virtual) = {u}
        /\ Asked(walk.virtual, walk.physical) = {[virtual |-> u, physical |-> walk.physical]}
  BY <1>1, OneAsked
<1>3. ASSUME NEW w \in VirtualPages
      PROVE  Translate(w)' = IF w = u THEN walk.physical ELSE Translate(w)
  <2>1. (\A k \in 0 .. 3 : Index(w, k) = Index(walk.virtual, k)) <=> w = u
    BY <1>2 DEF Reached
  <2> QED BY <2>1, SetEntryTree
<1>4. MappedPages' = MappedPages \cup {u}
  BY <1>1, <1>2, <1>3 DEF MappedPages, VirtualPages
<1>5. /\ SpaceNow = [w \in MappedPages |-> Translate(w)]
      /\ SpaceNow' = [w \in MappedPages' |-> Translate(w)']
  BY DEF SpaceNow
<1>6. \A w \in MappedPages : w \in VirtualPages
  BY DEF MappedPages
<1>7. DOMAIN SpaceNow = MappedPages
  BY <1>5
<1>8. SpaceNow' = [w \in DOMAIN SpaceNow \cup {u} |-> IF w = u THEN walk.physical ELSE SpaceNow[w]]
  BY <1>2, <1>3, <1>4, <1>5, <1>6, <1>7
<1>9. [virtual |-> u, physical |-> walk.physical] \in AskedNow
  BY <1>1, <1>2 DEF AskedNow
<1> QED BY <1>8, <1>9

(* The first table, which is empty, maps nothing either.                   *)
LEMMA RootMapsNothing ==
  ASSUME IInv, RefusedForGood, TreeInv, RequestPML4, ~refused', NEW v
  PROVE  Translate(v)' = Translate(v)
<1>1. DOMAIN tables = {} /\ PML4' \in Nat
  BY RequestEffect DEF RequestPML4, TreeInv, Empty
<1>2. DOMAIN tables' = {PML4'} /\ DOMAIN tables'[PML4'] = {}
  BY <1>1 DEF RequestPML4, TreeInv, Empty, Put
<1>3. Translate(v) = -1
  BY <1>1, NothingMapped, TranslateIsLook
<1>4. Look(tables', PML4', v) = -1
  BY <1>1, <1>2, NothingMapped
<1>5. Translate(v)' = Look(tables', PML4', v)
  BY DEF Translate, Look, At0, At1, At2, Entry, EntryOf
<1> QED BY <1>3, <1>4, <1>5

(* Every other step leaves the address space alone.                        *)
LEMMA SpaceOfStep ==
  ASSUME IInv, PTInv, [PTNext]_allVars, ~refused'
  PROVE  SetEntry \/ \A v : Translate(v)' = Translate(v)
<1>1. RefusedForGood /\ TreeInv
  BY RefusedStays DEF PTInv
<1>2. CASE ReadMap \/ MarkKernel \/ UNCHANGED allVars
  BY <1>2, SameTranslation DEF ReadMap, MarkKernel, allVars, tableVars
<1>3. CASE RequestPML4
  BY <1>1, <1>3, RootMapsNothing
<1>4. CASE MapIdentity \/ MarkFrameBuffer \/ MapFrameBuffer \/ EnablePaging \/ MapDevice
  BY <1>4, SameTranslation DEF MapIdentity, MarkFrameBuffer, MapFrameBuffer, EnablePaging, MapDevice
<1>5. CASE Descend \/ WalkFaults \/ GrantPage
  BY <1>5, SameTranslation DEF Descend, WalkFaults, GrantPage
<1>6. CASE Grow
  BY <1>1, <1>6, GrowTree
<1> QED
  BY <1>2, <1>3, <1>4, <1>5, <1>6 DEF PTNext, BootNext

(* A call begins at the top of the tables.                                 *)
LEMMA CallAsks ==
  ASSUME TreeInv', ~refused, ~refused', MapIdentity \/ MapFrameBuffer \/ MapDevice
  PROVE  AskedNow = {} /\ \E c \in AskedNow' : AskedNow' = {c}
<1>1. ~Walking /\ Walking'
  BY DEF MapIdentity, MapFrameBuffer, MapDevice, MapMemory, Walking, Root
<1>2. walk'.virtual \in Nat
  BY DEF TreeInv
<1>3. PICK u \in VirtualPages :
        Asked(walk'.virtual, walk'.physical) = {[virtual |-> u, physical |-> walk'.physical]}
  BY <1>2, OneAsked
<1>4. AskedNow' = {[virtual |-> u, physical |-> walk'.physical]}
  BY <1>1, <1>3 DEF AskedNow
<1> QED BY <1>1, <1>4 DEF AskedNow

(* Until the last level a step goes on with the same call.                 *)
LEMMA AskedStays ==
  ASSUME TreeInv, [PTNext]_allVars, ~refused, ~refused',
         ~(MapIdentity \/ MapFrameBuffer \/ MapDevice \/ SetEntry)
  PROVE  AskedNow' = AskedNow
<1>1. CASE walk' = walk
  BY <1>1 DEF AskedNow, Walking
<1>2. CASE (Descend \/ Grow) /\ walk' # walk
  <2>1. /\ Walking /\ walk.level \in Int
        /\ walk'.virtual = walk.virtual /\ walk'.physical = walk.physical
        /\ walk'.level = walk.level - 1
    <3>1. Walking /\ walk \in [virtual : Nat, physical : Nat, table : Nat, level : 0 .. Root + 1]
      BY <1>2 DEF Descend, Grow, TreeInv
    <3>2. PICK t : walk' = [walk EXCEPT !.table = t, !.level = @ - 1]
      BY <1>2 DEF Descend, Grow
    <3>3. walk.level \in 0 .. Root + 1
      BY <3>1
    <3>4. /\ walk'.virtual = walk.virtual /\ walk'.physical = walk.physical
          /\ walk'.level = walk.level - 1
      BY <3>1, <3>2, Zenon
    <3> QED BY <3>1, <3>3, <3>4 DEF Root
  <2>2. Walking'
    BY <2>1 DEF Walking, Root
  <2> QED BY <2>1, <2>2 DEF AskedNow
<1>3. CASE \/ ReadMap \/ MarkKernel \/ RequestPML4 \/ MarkFrameBuffer \/ EnablePaging
           \/ WalkFaults \/ GrantPage \/ UNCHANGED allVars
  <2>1. walk' = walk
    BY <1>3 DEF ReadMap, MarkKernel, RequestPML4, MarkFrameBuffer, EnablePaging, WalkFaults,
                GrantPage, allVars, tableVars
  <2> QED BY <1>1, <2>1
<1> QED
  BY <1>1, <1>2, <1>3 DEF PTNext, BootNext

(* A step of MapMemory begins a call, maps its page, gives up for want of  *)
(* a page, or cannot be seen.                                              *)
LEMMA SpaceStep ==
  ASSUME IInv, PTInv, [PTNext]_allVars
  PROVE  [Space!SpaceNext]_(Space!spaceVars)
<1> USE DEF Space!SpaceNext, Space!spaceVars, Space!Call, Space!Map, Space!GiveUp
<1>1. refused => refused'
  BY RefusedStays DEF PTInv
<1>2. refused \in BOOLEAN /\ refused' \in BOOLEAN
  BY AllocatorStep, NextIInv DEF PTInv, IInv, TypeOK
<1>3. CASE refused
  BY <1>1, <1>2, <1>3
<1>4. CASE ~refused /\ refused'
  BY <1>2, <1>4
<1>5. CASE ~refused /\ ~refused'
  <2>1. TreeInv /\ TreeInv'
    BY <1>5, TreeStep DEF PTInv
  <2>2. CASE SetEntry
    <3>1. \E c \in AskedNow :
            SpaceNow' = [w \in DOMAIN SpaceNow \cup {c.virtual} |->
                           IF w = c.virtual THEN c.physical ELSE SpaceNow[w]]
      BY <1>5, <2>1, <2>2, SpaceMaps
    <3>2. AskedNow' = {}
      BY <2>1, <2>2, SetEntryTree DEF AskedNow
    <3> QED BY <1>2, <1>5, <3>1, <3>2 DEF SpaceNow, MappedPages, AskedNow, Asked
  <2>3. CASE (\A v : Translate(v)' = Translate(v)) /\ ~SetEntry
    <3>1. SpaceNow' = SpaceNow
      BY <1>5, <2>3, SpaceStutters
    <3>2. CASE MapIdentity \/ MapFrameBuffer \/ MapDevice
      <4>1. AskedNow = {} /\ \E c \in AskedNow' : AskedNow' = {c}
        BY <1>5, <2>1, <3>2, CallAsks
      <4> QED BY <1>2, <1>5, <3>1, <4>1 DEF SpaceNow, MappedPages, AskedNow, Asked
    <3>3. CASE ~(MapIdentity \/ MapFrameBuffer \/ MapDevice)
      <4>1. AskedNow' = AskedNow
        BY <1>5, <2>1, <2>3, <3>3, AskedStays
      <4> QED BY <1>2, <1>5, <3>1, <4>1 DEF SpaceNow, MappedPages, AskedNow, Asked
    <3> QED BY <3>2, <3>3
  <2> QED BY <1>5, <2>2, <2>3, SpaceOfStep
<1> QED BY <1>1, <1>3, <1>4, <1>5

(* MapMemory keeps its promise: each call changes the image of the page it *)
(* is given, to what it is given, and no other, until the machine has no   *)
(* page left.                                                              *)
THEOREM AddressSpaceRefined == PTSpec => ImplementsAddressSpace
<1>1. PTInit => Space!SpaceInit
  <2>1. PTInit => AskedNow = {}
    BY DEF PTInit, Idle, Root, Walking, AskedNow
  <2> QED
    BY <2>1, SpaceStarts DEF Space!SpaceInit, SpaceNow, MappedPages, AskedNow, Asked
<1>2. IInv /\ PTInv /\ [PTNext]_allVars => [Space!SpaceNext]_(Space!spaceVars)
  BY SpaceStep
<1> QED
  BY <1>1, <1>2, PTInvariance, PTL DEF PTSpec, ImplementsAddressSpace, Space!SpaceSpec
=============================================================================
