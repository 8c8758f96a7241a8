------------------------- MODULE PageFrameAllocator -------------------------
(***************************************************************************)
(* The physical page frame allocator: PageFrameAllocator.cpp over          *)
(* Bitmap.cpp, filled from the UEFI memory map by ReadEfiMemoryMap and     *)
(* driven by PrepareMemory and by the callers of RequestPage and FreePage. *)
(*                                                                         *)
(* Addresses and byte counts that are multiples of 4096 are counted in     *)
(* pages.  The bitmap is the set of indexes whose bit is 1.                *)
(***************************************************************************)
EXTENDS Integers, Sequences, FiniteSets, Folds

CONSTANTS
  MemoryMaps,    (* Memory maps the firmware may hand over.                *)
  Kernel,        (* The kernel image: first page and page count.           *)
  FrameBuffers,  (* Frame buffers the firmware may report, in pages.       *)
  LowPages,      (* Pages kept below 1 MiB; 0x100 in the code.             *)
  PageBytes,     (* Bytes per page; 4096 in the code.                      *)
  Word           (* Modulus of the counters, in pages; 2^52 in the code.   *)

Null == 0        (* NULL and page 0 are the same address.                  *)

Conventional == 7
ReclaimableTypes == {2, 3, 4, 5}

Span(first, count) == first .. first + count - 1

(* The pages of every descriptor with a type in T.                         *)
PagesOf(m, T) ==
  UNION {Span(m[d].physAddr, m[d].numPages) : d \in {e \in DOMAIN m : m[e].type \in T}}

(* The same total as the loops of the code add it up, one descriptor after *)
(* another.                                                                *)
CountPages(m, T) ==
  MapThenFoldSet(LAMBDA n, sum : n + sum, 0,
                 LAMBDA d : m[d].numPages,
                 LAMBDA D : CHOOSE d \in D : TRUE,
                 {d \in DOMAIN m : m[d].type \in T})

Usable(m) == PagesOf(m, {Conventional})
UsablePages(m) == CountPages(m, {Conventional})
AllTypes(m) == {m[d].type : d \in DOMAIN m}
GetMemorySize(m) == CountPages(m, AllTypes(m))

(* The first of the largest conventional segments; NULL if there is none.  *)
LargestFreeSegment(m) ==
  LET free == {d \in DOMAIN m : m[d].type = Conventional /\ m[d].numPages > 0}
  IN  IF free = {} THEN Null
      ELSE m[CHOOSE d \in free : \A e \in free :
               \/ m[e].numPages < m[d].numPages
               \/ m[e].numPages = m[d].numPages /\ d <= e].physAddr

BitmapBytes(m) == GetMemorySize(m) \div 8 + 1
BitCount(m) == BitmapBytes(m) * 8
BitmapPages(m) == Span(LargestFreeSegment(m), BitmapBytes(m) \div PageBytes + 1)

(* Bitmap::Set and Bitmap::Get refuse an index above size * 8, so the bit  *)
(* right after the last byte of the bitmap is still within their reach.    *)
Addressable(m) == 0 .. BitCount(m)

ASSUME MapsAssumption ==
  \A m \in MemoryMaps :
    /\ GetMemorySize(m) \in Nat
    /\ UsablePages(m) \in Nat
    /\ CountPages(m, ReclaimableTypes) \in Nat
    /\ LargestFreeSegment(m) \in Nat
    /\ Usable(m) \in SUBSET Nat

ASSUME SizesAssumption ==
  /\ LowPages \in Nat \ {0}
  /\ PageBytes \in Nat \ {0}
  /\ Word \in Nat \ {0}
  /\ Kernel \in [start : Nat, pages : Nat]
  /\ FrameBuffers \in SUBSET [start : Nat, pages : Nat]

VARIABLES
  map,              (* The memory map of this machine.                     *)
  stage,            (* How far PrepareMemory has come.                     *)
  used,             (* PageBitmap: the indexes whose bit is 1.             *)
  bitmapIndex,      (* Where the next search for a free page starts.       *)
  allocatedMemory,  (* In pages, as are the two that follow.               *)
  reservedMemory,
  freeMemory,
  owned,            (* Pages that callers of RequestPage hold.             *)
  refused           (* The last RequestPage returned NULL.                  *)

vars == <<map, stage, used, bitmapIndex, allocatedMemory, reservedMemory,
          freeMemory, owned, refused>>

Stages == {"cold", "mapped", "kernel", "framebuffer"}

Bits == BitCount(map)
AllPages == 0 .. Bits - 1

-----------------------------------------------------------------------------
Init ==
  /\ map \in MemoryMaps
  /\ stage = "cold"
  /\ used = {}
  /\ bitmapIndex = 0
  /\ allocatedMemory = 0
  /\ reservedMemory = 0
  /\ freeMemory = 0
  /\ owned = {}
  /\ refused = FALSE

(* Mutant: the first megabyte is reserved before the conventional memory   *)
(* is given back.                                                          *)
LowReservedTooEarly(m, garbage) ==
  ((0 .. GetMemorySize(m)) \cup garbage \cup Span(0, LowPages)) \ Usable(m)

(* Everything up to the total size is reserved, then the conventional      *)
(* memory is given back, then the first megabyte is taken again.           *)
ReservedAtBoot(m, garbage) ==
  (((0 .. GetMemorySize(m)) \cup garbage) \ Usable(m)) \cup Span(0, LowPages)

ReadEfiMemoryMap ==
  /\ stage = "cold"
  /\ stage' = "mapped"
  /\ \E garbage \in SUBSET {Bits} :   \* InitializeBitmap clears only the bitmap
       LET reserved == ReservedAtBoot(map, garbage) \cap Addressable(map)
           bitmap   == (BitmapPages(map) \cap Addressable(map)) \ reserved
       IN  /\ used' = reserved \cup bitmap
           /\ allocatedMemory' = Cardinality(bitmap) % Word
           /\ freeMemory' = (UsablePages(map) - Cardinality(bitmap)) % Word
  /\ reservedMemory' = (CountPages(map, ReclaimableTypes) + LowPages) % Word
  /\ UNCHANGED <<map, bitmapIndex, owned, refused>>

(* Mutant: pages that are marked already are counted once more.            *)
AllocatePagesRecounted(first, count) ==
  LET new == Span(first, count) \cap Addressable(map)
  IN  /\ used' = used \cup new
      /\ allocatedMemory' = (allocatedMemory + Cardinality(new)) % Word
      /\ freeMemory' = (freeMemory - Cardinality(new)) % Word
      /\ UNCHANGED <<map, bitmapIndex, reservedMemory, owned, refused>>

(* Mark a range that the kernel already uses.                              *)
AllocatePages(first, count) ==
  LET new == (Span(first, count) \cap Addressable(map)) \ used
  IN  /\ used' = used \cup new
      /\ allocatedMemory' = (allocatedMemory + Cardinality(new)) % Word
      /\ freeMemory' = (freeMemory - Cardinality(new)) % Word
      /\ UNCHANGED <<map, bitmapIndex, reservedMemory, owned, refused>>

AllocateKernel ==
  /\ stage = "mapped"
  /\ stage' = "kernel"
  /\ AllocatePages(Kernel.start, Kernel.pages)

AllocateFrameBuffer(fb) ==
  /\ stage = "kernel"
  /\ stage' = "framebuffer"
  /\ AllocatePages(fb.start, fb.pages)

(* Mutant: the search starts one index too late.                           *)
FreeFromNext(i) == {p \in i + 1 .. Bits - 1 : p \notin used}

(* The pages RequestPage finds free from index i on.                       *)
FreeFrom(i) == {p \in i .. Bits - 1 : p \notin used}

RequestPage ==
  /\ stage \in {"kernel", "framebuffer"}
  /\ \E p \in FreeFrom(bitmapIndex) :
       /\ \A q \in FreeFrom(bitmapIndex) : p <= q
       /\ bitmapIndex' = p
       /\ used' = used \cup {p}
       /\ owned' = owned \cup {p}
  /\ allocatedMemory' = (allocatedMemory + 1) % Word
  /\ freeMemory' = (freeMemory - 1) % Word
  /\ refused' = FALSE
  /\ UNCHANGED <<map, stage, reservedMemory>>

(* The loop runs off the end of the bitmap and leaves the cursor there.    *)
RequestPageFails ==
  /\ stage \in {"kernel", "framebuffer"}
  /\ FreeFrom(bitmapIndex) = {}
  /\ bitmapIndex' = IF bitmapIndex < Bits THEN Bits ELSE bitmapIndex
  /\ refused' = TRUE
  /\ UNCHANGED <<map, stage, used, allocatedMemory, reservedMemory, freeMemory, owned>>

(* Mutants: the cursor stays, or follows the last page released.           *)
RewindNever(freed) == bitmapIndex
RewindToLast(freed) ==
  CHOOSE i \in freed \cup {bitmapIndex} : \A p \in freed : i >= p

(* The cursor goes back to the lowest page that became free.               *)
Rewind(freed) ==
  CHOOSE i \in freed \cup {bitmapIndex} : \A p \in freed \cup {bitmapIndex} : i <= p

(* A caller gives back a range that it holds; FreePage is count = 1.  Only *)
(* a page whose bit is 1 is counted, and only it moves the cursor back.    *)
FreePages(first, count) ==
  /\ count > 0
  /\ Span(first, count) \subseteq owned
  /\ LET freed == Span(first, count) \cap used
     IN  /\ used' = used \ freed
         /\ allocatedMemory' = (allocatedMemory - Cardinality(freed)) % Word
         /\ freeMemory' = (freeMemory + Cardinality(freed)) % Word
         /\ bitmapIndex' = Rewind(freed)
  /\ owned' = owned \ Span(first, count)
  /\ UNCHANGED <<map, stage, reservedMemory, refused>>

Next ==
  \/ ReadEfiMemoryMap
  \/ AllocateKernel
  \/ \E fb \in FrameBuffers : AllocateFrameBuffer(fb)
  \/ RequestPage
  \/ RequestPageFails
  \/ \E first \in owned, count \in 1 .. Bits : FreePages(first, count)

Spec == Init /\ [][Next]_vars

-----------------------------------------------------------------------------
(* Types of the state; the counters are words of the machine.              *)
TypeOK ==
  /\ map \in MemoryMaps
  /\ stage \in Stages
  /\ used \in SUBSET Addressable(map)
  /\ bitmapIndex \in 0 .. Bits
  /\ {allocatedMemory, reservedMemory, freeMemory} \subseteq 0 .. Word - 1
  /\ owned \in SUBSET AllPages
  /\ refused \in BOOLEAN

(* No free page lies below the cursor.  RequestPage never looks below it,  *)
(* so a page freed behind the cursor's back would be lost for good.        *)
CursorInv ==
  stage # "cold" => \A p \in 0 .. bitmapIndex - 1 : p \in used

(* What callers hold is marked in the bitmap, so that no second caller can *)
(* be given it.                                                            *)
OwnedMarked == owned \subseteq used

(* Pages nobody may be given: the first megabyte, the pages the bitmap     *)
(* lives in, and whatever the firmware did not declare conventional.       *)
Protected(m) ==
  Span(0, LowPages) \cup BitmapPages(m) \cup ((0 .. GetMemorySize(m)) \ Usable(m))

(* The bitmap is a whole number of bytes, so its last bits stand for pages *)
(* past the end of memory.  Nothing reserves them.                         *)
RoundingTail(m) == (GetMemorySize(m) + 1 .. BitCount(m) - 1) \ Usable(m)

(* Every page a caller holds is conventional memory that neither the first *)
(* megabyte nor the bitmap needs, or one of the at most seven pages of the *)
(* rounding tail.                                                          *)
OwnedIsBacked ==
  /\ owned \cap Protected(map) = {}
  /\ owned \subseteq Usable(map) \cup RoundingTail(map)
  /\ Cardinality(RoundingTail(map)) <= 7

(* RequestPage returns the lowest free page there is, although it looks    *)
(* only from the cursor on: the rounding tail is touched only once every   *)
(* conventional page below it is gone.                                     *)
LowestFirst ==
  [][\A p \in owned' \ owned : \A q \in 0 .. p - 1 : q \in used]_vars

(* GetUsedRAM is the number of pages marked since the reservations of the  *)
(* boot, give or take the bit after the end of the bitmap; together with   *)
(* GetFreeRAM it adds up to the conventional memory of the machine.        *)
CountersBalance ==
  stage # "cold" =>
    /\ allocatedMemory - Cardinality((used \cap AllPages) \ ReservedAtBoot(map, {})) \in {0, 1}
    /\ (allocatedMemory + freeMemory) % Word = UsablePages(map) % Word

(* The allocator implements the page pool.                                 *)
Pool == INSTANCE PagePool WITH
          Pages <- Nat,
          opened <- stage # "cold",
          protected <- Protected(map),
          avail <- IF stage = "cold" THEN {} ELSE AllPages \ used,
          held <- owned

ImplementsPool == Pool!PoolSpec
=============================================================================
