----------------------------- MODULE PageTables -----------------------------
(***************************************************************************)
(* PrepareMemory and PageTableManager::MapMemory: the page tables the      *)
(* kernel builds from pages of the allocator, up to enablePaging, and the  *)
(* mappings that follow it (ProbePort maps the AHCI registers).            *)
(*                                                                         *)
(* The boot processor runs this code alone and with no driver able to      *)
(* interrupt it into the allocator, so a step is one level of the walk.    *)
(***************************************************************************)
EXTENDS PageFrameAllocator

CONSTANTS
  Fan,       (* Entries of a table; 512 in the code.                       *)
  Devices,   (* Device registers that may be mapped once paging is on.     *)
  MaxGrants  (* Bound on the pages that drivers ask for once paging is on. *)

ASSUME FanAssumption ==
  /\ Fan \in Nat /\ Fan > 1
  /\ Devices \subseteq Nat
  /\ MaxGrants \in Nat

VARIABLES
  pc,           (* Where PrepareMemory is, or what came of it.             *)
  frameBuffer,  (* The frame buffer of this machine.                       *)
  page,         (* Loop variable of the two mapping loops.                 *)
  PML4,         (* GlobalPTM.PML4                                          *)
  walk,         (* MapMemory's arguments, current table and its level.     *)
  tables,       (* What the pages used as tables hold: present entries.    *)
  grants        (* Pages handed to drivers since paging was enabled.       *)

tableVars == <<pc, frameBuffer, page, PML4, walk, tables, grants>>
allVars == <<vars, tableVars>>

(* Entry i of f becomes x.                                                 *)
Put(f, i, x) == [j \in DOMAIN f \cup {i} |-> IF j = i THEN x ELSE f[j]]

Empty == << >>     (* A page after memset to zero: no entry is present.    *)
Root == 3          (* Level of the PML4; a page table proper is level 0.   *)
Idle == [virtual |-> 0, physical |-> 0, table |-> 0, level |-> Root + 1]
Walking == walk.level <= Root

MemorySize == GetMemorySize(map)

(* PageMapIndexer: the low bits of the virtual address, and again after    *)
(* each shift.  What is left above the last index is not looked at.        *)
Index(virtual, level) ==
  LET once  == virtual \div Fan
      twice == once \div Fan
  IN  <<virtual, once, twice, twice \div Fan>>[level + 1] % Fan

VirtualPages == 0 .. Fan * Fan * Fan * Fan - 1

(* The pages whose four indexes are those of an address: there is one.     *)
Reached(virtual) == {u \in VirtualPages : \A k \in 0 .. 3 : Index(u, k) = Index(virtual, k)}

(* The page of table p that entry i leads to; -1 if there is none, or if   *)
(* the walk has left the tables.                                           *)
Entry(p, i) ==
  IF p \in DOMAIN tables /\ i \in DOMAIN tables[p] THEN tables[p][i] ELSE -1

(* The hardware's walk for a virtual page.                                 *)
Translate(v) ==
  Entry(Entry(Entry(Entry(PML4, Index(v, 3)), Index(v, 2)), Index(v, 1)), Index(v, 0))

(* Code that touches a page needs it identity mapped once paging is on.    *)
PagingOn == pc \in {"paged", "fault"}
Accessible(p) == PagingOn => Translate(p) = p

-----------------------------------------------------------------------------
PTInit ==
  /\ Init
  /\ pc = "pml4"
  /\ frameBuffer \in FrameBuffers
  /\ page = 0
  /\ PML4 = Null
  /\ walk = Idle
  /\ tables = Empty
  /\ grants = 0

(* RequestPage, whose result nobody compares with NULL.                    *)
Request == RequestPage \/ RequestPageFails
Requested == IF refused' THEN Null ELSE bitmapIndex'

ReadMap == ReadEfiMemoryMap /\ UNCHANGED tableVars
MarkKernel == AllocateKernel /\ UNCHANGED tableVars

RequestPML4 ==
  /\ pc = "pml4" /\ stage = "kernel"
  /\ Request
  /\ PML4' = Requested
  /\ tables' = Put(tables, PML4', Empty)
  /\ pc' = "identity"
  /\ UNCHANGED <<frameBuffer, page, walk, grants>>

(* A call of MapMemory.                                                    *)
MapMemory(virtual, physical) ==
  walk' = [virtual |-> virtual, physical |-> physical, table |-> PML4, level |-> Root]

(* Mutant: the loop takes two pages at a time.                             *)
MapEverySecond ==
  /\ pc = "identity" /\ ~Walking
  /\ page < MemorySize
  /\ MapMemory(page, page)
  /\ page' = page + 2
  /\ UNCHANGED <<vars, pc, frameBuffer, PML4, tables, grants>>

MapIdentity ==
  /\ pc = "identity" /\ ~Walking
  /\ page < MemorySize
  /\ MapMemory(page, page)
  /\ page' = page + 1
  /\ UNCHANGED <<vars, pc, frameBuffer, PML4, tables, grants>>

(* The frame buffer is marked from its base for BufferSize / 4096 + 2      *)
(* pages, and the pages before the last one are mapped.                    *)
MarkFrameBuffer ==
  /\ pc = "identity" /\ ~Walking
  /\ page >= MemorySize
  /\ AllocateFrameBuffer(frameBuffer)
  /\ page' = frameBuffer.start
  /\ pc' = "framebuffer"
  /\ UNCHANGED <<frameBuffer, PML4, walk, tables, grants>>

FrameBufferPages == Span(frameBuffer.start, frameBuffer.pages - 1)

MapFrameBuffer ==
  /\ pc = "framebuffer" /\ ~Walking
  /\ page \in FrameBufferPages
  /\ MapMemory(page, page)
  /\ page' = page + 1
  /\ UNCHANGED <<vars, pc, frameBuffer, PML4, tables, grants>>

EnablePaging ==
  /\ pc = "framebuffer" /\ ~Walking
  /\ page \notin FrameBufferPages
  /\ pc' = "paged"
  /\ UNCHANGED <<vars, frameBuffer, page, PML4, walk, tables, grants>>

(* ProbePort maps the registers of the controller it was given.            *)
MapDevice ==
  /\ pc = "paged" /\ ~Walking
  /\ \E d \in Devices : MapMemory(d, d)
  /\ UNCHANGED <<vars, pc, frameBuffer, page, PML4, tables, grants>>

(* PortRebase and the heap take pages and write to them at once.           *)
GrantPage ==
  /\ pc = "paged" /\ ~Walking
  /\ grants < MaxGrants
  /\ Request
  /\ grants' = grants + 1
  /\ pc' = IF Accessible(Requested) THEN pc ELSE "fault"
  /\ UNCHANGED <<frameBuffer, page, PML4, walk, tables>>

Here == Index(walk.virtual, walk.level)

(* One level down, through an entry that is present.  A walk that leaves   *)
(* the pages used as tables reads whatever is there: this is where the     *)
(* model ends.                                                             *)
Descend ==
  /\ Walking /\ walk.level > 0 /\ pc \notin {"fault", "lost"}
  /\ Accessible(walk.table)
  /\ Here \in DOMAIN tables[walk.table]
  /\ LET next == tables[walk.table][Here]
     IN  /\ pc' = IF next \in DOMAIN tables THEN pc ELSE "lost"
         /\ walk' = [walk EXCEPT !.table = next, !.level = @ - 1]
  /\ UNCHANGED <<vars, frameBuffer, page, PML4, tables, grants>>

(* Mutants: the entry is not written back to the table above; the table    *)
(* above is cleared along with the new one.                                *)
EnterNothing(p, i, new) == Put(tables, new, Empty)
EnterIntoCleared(p, i, new) == Put(Put(tables, new, Empty), p, Put(Empty, i, new))

(* A new table is cleared and then entered in table p, which shows when    *)
(* both are page 0.                                                        *)
Enter(p, i, new) ==
  LET cleared == Put(tables, new, Empty)
  IN  [cleared EXCEPT ![p] = Put(@, i, new)]

(* One level down, through an entry that is not: a page is requested,      *)
(* cleared and entered.                                                    *)
Grow ==
  /\ Walking /\ walk.level > 0 /\ pc \notin {"fault", "lost"}
  /\ Accessible(walk.table)
  /\ Here \notin DOMAIN tables[walk.table]
  /\ Request
  /\ IF Accessible(Requested)
     THEN /\ tables' = Enter(walk.table, Here, Requested)
          /\ walk' = [walk EXCEPT !.table = Requested, !.level = @ - 1]
          /\ UNCHANGED pc
     ELSE pc' = "fault" /\ UNCHANGED <<tables, walk>>
  /\ UNCHANGED <<frameBuffer, page, PML4, grants>>

(* Mutant: the index of the level above picks the entry.                   *)
SetEntryOfAbove ==
  /\ Walking /\ walk.level = 0 /\ pc \notin {"fault", "lost"}
  /\ Accessible(walk.table)
  /\ tables' = [tables EXCEPT ![walk.table] = Put(@, Index(walk.virtual, 1), walk.physical)]
  /\ walk' = Idle
  /\ UNCHANGED <<vars, pc, frameBuffer, page, PML4, grants>>

(* The last level: the entry of the page itself.                           *)
SetEntry ==
  /\ Walking /\ walk.level = 0 /\ pc \notin {"fault", "lost"}
  /\ Accessible(walk.table)
  /\ tables' = [tables EXCEPT ![walk.table] = Put(@, Here, walk.physical)]
  /\ walk' = Idle
  /\ UNCHANGED <<vars, pc, frameBuffer, page, PML4, grants>>

(* A table that is not mapped cannot be read: page fault, and the handler  *)
(* of exceptions halts the machine.                                        *)
WalkFaults ==
  /\ Walking /\ pc \notin {"fault", "lost"}
  /\ ~Accessible(walk.table)
  /\ pc' = "fault"
  /\ UNCHANGED <<vars, frameBuffer, page, PML4, walk, tables, grants>>

BootNext ==
  \/ ReadMap \/ MarkKernel \/ RequestPML4
  \/ MapIdentity \/ MarkFrameBuffer \/ MapFrameBuffer \/ EnablePaging
  \/ Descend \/ Grow \/ SetEntry \/ WalkFaults

PTNext == BootNext \/ MapDevice \/ GrantPage

(* The processor does not stop between two instructions.                   *)
PTSpec == PTInit /\ [][PTNext]_allVars
-----------------------------------------------------------------------------
(* The pages that the tables in S lead to.                                 *)
Below(S) == UNION {{tables[p][i] : i \in DOMAIN tables[p]} : p \in S}

(* Until the allocator is exhausted, the tables form a tree of four levels *)
(* in which no table is entered twice or stranded, made of pages that were *)
(* requested for it.                                                       *)
TableTree ==
  ~refused /\ PML4 # Null =>
    LET PDPs == Below({PML4})
        PDs  == Below(PDPs)
        PTs  == Below(PDs)
        directories == {PML4} \cup PDPs \cup PDs
    IN  /\ DOMAIN tables = directories \cup PTs
        /\ DOMAIN tables \subseteq owned
        /\ PML4 \notin PDPs /\ (PDPs \cap PDs) = {} /\ (directories \cap PTs) = {}
        /\ \A p, q \in directories : \A i \in DOMAIN tables[p], j \in DOMAIN tables[q] :
             tables[p][i] = tables[q][j] => p = q /\ i = j

(* When PrepareMemory enables paging, all of memory up to the total that   *)
(* GetMemorySize reports is identity mapped, and so is the frame buffer.   *)
IdentityComplete ==
  PagingOn /\ ~refused =>
    \A v \in (0 .. MemorySize - 1) \cup FrameBufferPages : Translate(v) = v

(* A page fault, or a walk through memory that holds no table, comes only  *)
(* from an allocator that is exhausted or gives out pages past the memory  *)
(* size: what it gave before is mapped.                                    *)
FaultsOnlyPastMemory ==
  /\ pc = "fault" => refused \/ \E p \in owned : p >= MemorySize
  /\ pc = "lost" => refused

(* Memory, the frame buffer and the device registers lie within the        *)
(* addresses that four indexes tell apart: 2^48 bytes for tables of 512    *)
(* entries, which is what the processor can address.                       *)
WithinReach ==
  /\ \A m \in MemoryMaps : 0 .. GetMemorySize(m) - 1 \subseteq VirtualPages
  /\ \A fb \in FrameBuffers : Span(fb.start, fb.pages - 1) \subseteq VirtualPages
  /\ Devices \subseteq VirtualPages

(* MapMemory implements the address space; filling in tables on the way    *)
(* is invisible.                                                           *)
Space == INSTANCE AddressSpace WITH
           space <- IF refused THEN << >>
                    ELSE [v \in {u \in VirtualPages : Translate(u) # -1} |-> Translate(v)],
           asked <- IF refused \/ ~Walking THEN {}
                    ELSE [virtual : Reached(walk.virtual), physical : {walk.physical}],
           exhausted <- refused

ImplementsAddressSpace == Space!SpaceSpec

=============================================================================
