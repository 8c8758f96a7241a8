# MadOS: specifications, model checking and proofs

MadOS is a small x86-64 kernel, started by a UEFI boot loader, that runs a
prompt over a keyboard driver, an AHCI disk driver, a heap and a page frame
allocator. This directory holds TLA+ models of its parts, the TLC runs that
check them and the TLAPS proofs about the page frame allocator, the page tables, the
boot loader's handoff, the disk driver, the console and its interrupts, the screen's cursor and the drives. Paths below are
relative to `src/kernel/src/` unless they begin with `src/`.

## 1. The system

| Component | State | Operations | Talks to |
|---|---|---|---|
| Boot loader (`src/gnu-efi/bootloader/main.c`) | `BootInfo`: memory map, frame buffer, font, RSDP | `efi_main` loads kernel and font, takes the memory map, leaves boot services | jumps to `_start` with `BootInfo` |
| Kernel start (`kernel.cpp`, `kernelUtil.cpp`) | `kernelInfo`, renderer | `InitializeKernel`: memory, GDT, interrupts, ACPI/PCI, heap, drive; then the prompt and `hlt` for ever | calls every other component, once, in order |
| Page frame allocator (`paging/PageFrameAllocator.cpp`, `Bitmap.cpp`, `mem/mem.cpp`) | bitmap, search cursor `bitmapIndex`, three counters | `ReadEfiMemoryMap`, `AllocatePages`, `RequestPage`, `FreePages` | page tables, AHCI and heap request pages |
| Page tables (`paging/*`, `PrepareMemory`) | four-level tables from `PML4` | `MapMemory`, `enablePaging` | requests pages; `ProbePort` maps device registers |
| Heap (`mem/heap.cpp`) | linked `HeapBlock` headers, `blockCount` | `kmalloc`, `kfree`, `Expand`, `mergeBlock` | requests pages; used by AHCI, storage, prompt |
| AHCI driver (`driver/ahci/ahci.cpp`) | registers shared with the adapter, command headers and tables in memory | `PortRebase`, `ReadDiskSize`, `Read`, `Write`, `find_cmdslot` | an adapter that works concurrently |
| Interrupts and keyboard (`interrupts/*`, `userinput/keyboard.cpp`) | `isEnabled`, `upperCase`, `input`, `inputLen` | `isr_handler`, `HandleKeyboard` | interrupts the boot processor; calls the prompt |
| Prompt (`processes/terminal/*`) | `commandPrompt` buffer, never cleared between lines | `TakePrompt`, `ExecutePrompt` (runs inside the keyboard handler) | storage, AHCI, allocator, renderer |
| Storage (`system/storage/storage.cpp`) | `SectorCount`, `Sectors`, `MountedDrivePort` | `InitializeDrive`, `FormatDrive`, `FS::List`, `Open`, `WriteBuffer` | `Read`, `Write`, heap; the drive keeps its sectors over a restart |
| Renderer (`BasicRenderer.cpp`) | cursor, colour | `PutChar`, `RemoveChar`, `NextLine`, `Print`, `Clear` | frame buffer |
| ACPI and PCI (`system/acpi`, `system/pci`) | `GlobalABAR`, the adapter of all later calls | `FindTable`, `EnumeratePIC`, `PciVisit`, ends in `ProbePort` | AHCI |
| Conversions (`cstr.cpp`, `utils.cpp`), timer (`timer/pit.cpp`), GDT, port I/O | a tick counter, static buffers | pure functions, a counter, constant tables | everybody |

There is one processor and no scheduler. Concurrency comes from two places:
interrupt handlers that run between any two instructions of the boot processor,
and devices (the disk adapter, the keyboard controller) that work on shared
registers and memory meanwhile. What is hard here, and hardly reachable by a
test, is therefore: sequences of page requests and frees; running out of pages
inside a table walk; the adapter completing or failing a command between two
register reads; a key that arrives while the first prompt is being set up; sequences of
`kmalloc` and `kfree` that reshape the block list; several drives and adapters
with one layout between them; a format that fails or loses power half way; and
commands that meet what an earlier line left in the buffer. `PROJECT.json`
lists these hazards line by line, with the properties that watch them.

What makes each component correct:

* Allocator: nobody is given a page that the firmware, the kernel's first
  megabyte or the bitmap needs, no two callers hold the same page, no freed page
  is lost, and the counters agree with the bitmap.
* Page tables: a tree; mapping one page changes no other; all of memory is
  mapped before paging is turned on.
* AHCI: a call answered TRUE has transferred the sector it names; errors are
  reported; the adapter no longer touches a buffer after the call returned.
* Keyboard and prompt: a line editor that loses no key and never silences the
  keyboard.
* Heap: what a caller is given overlaps neither another caller's words nor a
  header; every call returns.
* Enumeration: every drive is taken over once, and one adapter remains in use.
* Storage: formatting never damages a drive that was formatted, and writes
  nothing outside its layout, whatever fails between its writes.
* Boot loader: the kernel starts with the final memory map and without boot
  services, or there was a change of the map that the loader could not see.
* Renderer: the cursor follows the line, and nothing is drawn off the screen
  that the wrap of `PutChar` could have kept on it.
* Conversions: a number is printed as its numeral and read back as itself.

## 2. Modules

| Module | Role |
|---|---|
| `PagePool` | abstract: a pool of page frames |
| `PageFrameAllocator`, `MCPageFrameAllocator` | the allocator over its bitmap; refines `PagePool` |
| `AddressSpace` | abstract: a partial function from pages to pages |
| `PageTables`, `MCPageTables` | extends the allocator with `PrepareMemory` and `MapMemory`; refines `AddressSpace` |
| `PageTables_proof` | TLAPS proofs about the allocator and both of these |
| `BlockDevice` | abstract: a disk with one call at a time |
| `AhciPort`, `MCAhciPort` | driver and adapter of one port; refines `BlockDevice` |
| `AhciPort_proof` | TLAPS proofs about it |
| `LineEditor` | abstract: a line that is typed, erased, submitted |
| `Console` | boot processor, keyboard handler and its controller; refines `LineEditor` |
| `Interrupts`, `MCConsole` | extends `Console` with the setup of interrupts, the gates, all other lines, exceptions and both interrupt controllers; refines `Console` |
| `Console_proof` | TLAPS proofs about both |
| `Enumeration` | the walk over the PCI bus and `ProbePort` |
| `Catalog` | abstract: a drive that gets a directory, then its system file |
| `Storage`, `MCStorage` | extends `Enumeration` with the drive of the prompt, `FormatDrive`, `FS` and the commands that start them; refines `Catalog` |
| `Storage_proof` | TLAPS proofs about both |
| `Arena` | abstract: disjoint runs of words |
| `Heap`, `MCHeap` | the heap over word addresses; refines `Arena` |
| `Heap_proof` | TLAPS proofs about it, for callers as they are today |
| `BootLoader`, `MCBootLoader` | `efi_main` beside the firmware |
| `BootLoader_proof` | TLAPS proofs about it |
| `Screen` | the renderer's cursor under the keys of the prompt |
| `Screen_proof` | TLAPS proofs about it |
| `Decimal`, `MCDecimal` | `to_string` with its static buffer, and `atoi` |
| `Decimal_proof` | TLAPS proofs about them |

Every `MC` module only supplies values for constants. Definitions whose comment
begins with *Mutant* are deliberate bugs, used nowhere in a specification: each
shows that some property would notice it.

### PageFrameAllocator

State: `used` is the bitmap as the set of indexes whose bit is 1; `bitmapIndex`
and the three counters are the code's, in pages (the code keeps multiples of
4096), modulo `Word` (2^52 pages for a 64-bit byte count). `owned` and `refused`
are history: who holds what, and whether the last request returned NULL.

* `ReadEfiMemoryMap` is the whole function: bitmap in the largest conventional
  segment, reserve up to the total, give conventional memory back, reserve the
  first 0x100 pages, mark the bitmap. `InitializeBitmap` clears only the bytes of
  the bitmap, so the one index past them that `Bitmap::Set` admits
  (`index > size * 8`) starts out as anything: `garbage`.
* `AllocatePages` counts only pages whose bit it could set; `FreePages` only
  those whose bit was set, and moves the cursor back. Nothing in the repository
  calls `FreePage(s)` today: they are the allocator's interface, exercised here
  under the obvious contract that a caller frees what it holds.
* Address 0 is both NULL and page 0, which is where the kernel is linked.

### PageTables

`MapMemory` takes one step per level: `Descend` through an entry that is
present, `Grow` through one that is not (request, clear, enter), `SetEntry` at
the last level. `pc` is the place in `PrepareMemory`. The processor's view is
`Translate`, a walk over the same tables; once paging is on every page that the
code touches must be `Accessible`, else the model is at `fault` (the exception
handler halts). A refused request yields page 0 and the code uses it as a table:
the model follows it until the walk reads a page that holds no table (`lost`).

### AhciPort

Each access of the driver to a register is a step (`pc`); between any two of
them the adapter and drive may start, complete or fail a command. One call
transfers one sector. `ReadLba` and `WriteLba` are the two byte layouts of the
code. The adapter's side (`EngineStarts`, `EngineStops`, `Fetch`, `Transfer`,
`Complete`, `Fail`, `DriveReady`) is external, modelled from the registers the
driver relies on. `ClearsBusy` says whether the adapter acts on header bit C.
The driver's loop that polls `PxCI` and then `PxIS` is two steps, `Poll` and
`Status`, as in the code. `ReadDiskSize` is called once by the boot and later by
`drives size` (`AskSize`), then also when a failed command still has slot 0.
The firmware may have left the port running with a read of its own in slot 0
(`Left`), whose header and table `PortRebase` replaces. `find_cmdslot` takes four
of the five bits that hold the number of the last slot, so `cap` is what it sees:
an adapter of 17 slots looks like one of one slot. `Slots` are those that the
driver may name and the one behind them.

### Console

`boot` is the boot processor's place from `SetupInterrupts` to the idle loop; the
two assignments of the first `ReceiveInput` are two steps. The gates are
interrupt gates and `isr_common_format` keeps interrupts off, so a handler is one
step, except that a command is begun by `Enter` and ended by `CommandDone`. The
controller (`Deliver`) fills port 0x60 only when it is empty and raises a request
only when it fills; `HandleKeyboard` returns without reading the port while the
keyboard is disabled (`InterruptDisabled`). `input` starts as NULL, far from the
buffer. `cells` is the command buffer and the bytes behind it: the code does not
stop at its end. The command itself is abstracted to what it is handed.

### Interrupts

`setup` is the place in `SetupInterrupts`: the controllers are remapped and
unmasked (`interrupts/IST.cpp:41`) before the table is loaded, and only then comes
`sti`. Nothing in the kernel turns interrupts off before, so `flag` starts as
anything, and a request that comes before the table is loaded enters a gate of
the firmware (`TakeAstray`). A line is taken in two steps: `Take` is the entry
with what `isr_handler` does for the number that the stub pushes (the keyboard's
handler of `Console` for 33, nothing but a count for 32, a halt below 32), and
`EndOfInterrupt` the two writes of 0x20 and `iretq`; a command runs in between.
`requested` and `inService` are the registers of the two 8259 controllers, with
their priorities (`Passes`, `Chosen`): the slave's lines come in through line 2.
A request that is withdrawn arrives in vain (`TakeSpurious`) as line 7 or 15
without being in service there. The controllers are external, modelled from how
`pic.asm` sets them up: edge-triggered, fully nested, ended by 0x20.

### Enumeration and Storage

A machine, chosen at the start, has devices in the order of the bus and ports for
each adapter. `device` and `function` are the place of `EnumeratePIC`; a device
that is no multifunction device may answer for its other functions too, which is
why the code looks at the header (`FuncCount`). `ProbePort` sets `GlobalABAR` and
rebases each SATA drive. It maps one page, so that the registers of ports from 30
on (`MappedPorts`) lie behind it and reading them may fault (`ProbeFaults`,
`driver/ahci/ahci.cpp:152`). The walk is repeated after every `PowerOff`, which
may come between any two steps; only `machine` and `disk` outlast it.

`Transfers` is the contract of `Read` and `Write` that `BlockDevice` states and
`AhciPort` shows, for sectors of any drive of the adapter: `FALSE` before, after
or part of the way through the transfer; behind an error the next call on the
same port may never return (`wedged`, `Hang`); a port without a drive answers
anything. Sectors are followed as far as the code tells them apart: flags, a
directory by its first block, a file by its two nodes, anything else.

* `FormatFlags`, `FormatTable`, `FormatFile` are the three writes of
  `FormatDrive` with what is computed between them. `GetFreeSector` looks at
  `Sectors`, sets `FALSE` what is `FALSE`, and returns without a value when
  nothing is free (`Junk`). The system file is written through a pointer that was
  never set: either the format ends in a fault (`stopped`), or the memory there is
  harmless and the values arrive.
* The layout follows `SectorCount`, the size of the drive of the boot (port 1 of
  the last adapter): flags in sectors `0 .. N/512 - 1`, the directory in
  `N/512 + 1`, the first node in `N/512 + 2`. After `drives mount` the same layout
  is used with another drive. A boot drive of fewer than 512 sectors makes the count
  of the flags 0, which a drive takes for 65536: such a call fails in the model.
* `List` is a step per sector: it reads each file into the buffer that holds the
  directory. Its result has room for 64 pointers, its loop goes to 128
  (`Entries`); `ListEnds` may fault on what lies behind the pointers it set.
* `Lookup` is `Open` and `WriteBuffer`: they compare the address of a name with
  the contents of memory at the address that a sector number makes, so they never
  find a file and never write one.
* The command buffer is modelled in the pieces that `ExecutePrompt` tells apart:
  characters 0 to 2, 3 to 6, 7 to 12, 13 and 14. `Typed` overwrites the beginning
  and leaves the rest: after `memory format`, `drives` formats the drive; after
  `drives mount 12`, `drives mount 1` mounts 12; an empty line repeats the command
  before. That the key handler calls `ExecutePrompt` once per line is `Console`.

### Heap

Addresses and sizes are in words of 8 bytes, with the code's real sizes. The
additions that the compiler scales by `sizeof(HeapBlock)` are kept scaled
(`PointerPlus`). The loop of `kmalloc` is the recursive function `Walk`; each of
its recursive calls is a step, because the size grows by a header every time.
`Split` sets `size`, `free` and `prev` of the rest, and keeps whatever is in
memory as `next`, as the code does. `written` is history: the words that callers
have filled, ever.

What callers ask for is in two constants. `Boot` is what `InitializeDrive` and
`InitializeTerminal` ask for, in their order: the buffer of `ReadDiskSize`, which is
given back at once, then a flag for each sector of the drive and the command
buffer, which stay. `Requests` is what the commands ask for later, in any order.
`booted` counts the calls of `Boot`, `kept` the allocations that stay for good.

### BootLoader

The firmware's memory map is a number of descriptors and a key that is new
whenever the map changes: at any allocation (`Allocates`), and by itself
(`Event`) until boot services end. Each call of `efi_main` that may change the
map, or that depends on it, is a step; `GetMemoryMap` and `ExitBootServices`
behave as UEFI lets them, on success and on failure, and the loader ignores
every result but a missing kernel, through which it calls a null pointer
(`lost`). `SearchRsdp` is the loop that advances `configTable` and indexes it:
past the last entry anything may be read. `grew` and `disturbed` are history.
What `GetInfo` writes over the stack (`main.c:185`) is outside the model.

### Screen

`x` and `y` are `CursorPosition`, modulo `Word`; `inputLen` is the keyboard's
count and `shown` what is on the screen behind the prompt (a tab shows four
characters that backspace does not count). Pixels are followed only as far as
whether one off the screen was written (`outside`); both loops of `PutChar` and
`RemoveChar` are bounds that may wrap, so `OffScreen` looks whether they run at
all. `Enter` stands for the command with whatever it prints: any number of rows,
then the prompt. The keys of the first prompt's race belong to `Console`.

### Decimal

`buffer` is the static buffer of `to_string`; a call overwrites its beginning,
reverses it in place with three exclusive-ors per pair and leaves the rest.
The magnitude is taken modulo the values of an `unsigned int`; `atoi` counts in
an `int` that wraps, as the unoptimised build does. `Numeral` is the reference.

## 3. Runs

| Run | Expect | What it shows |
|---|---|---|
| `page_frame_allocator` | pass | seven small machines (holes, every residue that matters of the total modulo 8, a segment beyond the bitmap, a bitmap in low memory), all sequences of requests and frees |
| `page_tables` | pass | machines from 8 to 25 pages, with and without a hole, three entries to a table, so that memory ends at every point of the boot |
| `ahci_port` | pass | adapters with two and three slots, two failing commands, any interleaving |
| `ahci_large_sector` | violation | `Read` drops bits 24 to 31 of the sector (`driver/ahci/ahci.cpp:255`) |
| `ahci_clear_busy` | violation | bit C, set once by `ReadDiskSize`, makes `Read` return before its data (`:388`) |
| `console` | pass | four scancodes at any time from before the controllers are set up, with two requests of the timer, line 7 or line 12, or in vain, and a fault at any time |
| `storage` | pass | four machines (adapters in both orders, in single, answering and multifunction devices; the boot drive larger, smaller or missing; ports behind the mapped page), nine lines, any failure and loss of power |
| `heap` | pass | today's requests and order of frees, on memory that starts as zeros |
| `heap_any_order` | violation | frees in another order: a header inside a caller's words (`mem/heap.cpp:53`) |
| `boot_loader` | pass | a firmware whose map changes at every allocation and by itself, up to three configuration tables |
| `screen` | pass | seven keys on a screen of three rows, and commands that print anything |
| `decimal` | pass | calls of `to_string` on 63 numbers in any order, and `atoi` on each result |

### Properties worth an explanation

* `CursorInv` and `LowestFirst`: the search never looks below the cursor, so
  correctness of `RequestPage` for ever after depends on `FreePage` moving the
  cursor to the lowest page freed.
* `OwnedIsBacked`: the bitmap has whole bytes; up to seven bits past the end of
  memory are free and will be handed out when memory runs out. The property
  bounds the damage to exactly those.
* `CountersBalance`: `freeMemory` starts too high (the low megabyte was never
  taken off) and stays too high by the same amount, whatever is requested, freed
  or found unmarkable past the end of the bitmap.
* `TableTree`, `IdentityComplete`, `FaultsOnlyPastMemory`: as long as no request
  is refused the tables are a tree and paging is safe to turn on, and a fault
  afterwards has one of two causes.
* `ImplementsAddressSpace`: a call of `MapMemory` is remembered in the abstract
  address space until its page is mapped, so that the page is the one asked for. The
  mutant that takes the last entry by the index of the level above maps one page,
  but another.
* `IssuedUntouched`, `IdleIsQuiet`: no command table is rewritten or replaced while
  the adapter may read it. That needs the wait for the engine before the tables of a
  command of the firmware go, and the search for a free slot after a command failed
  or a wait timed out; each has its mutant. When a call has returned nothing is in flight. The one
  exception is `ReadDiskSize`, which takes slot 0 unseen; the adapter has stopped
  then.
* `AnsweredUnlessHalted`: a `Read` or `Write` that finds the adapter running always
  returns, even if its own command fails. What hangs is IDENTIFY when it fails, and
  any call after a failure, since nothing starts the engine again
  (`driver/ahci/ahci.cpp:285`, `:409`): the property exempts these and bounds the
  hangs to them.
* `StrayOnlyWhenFull`: `Write` does not test its slot. The run shows why this
  has not hurt on adapters with several slots: the second command after an error
  hangs first. `find_cmdslot` takes the number of slots minus one for their
  number, so the last slot, on the smallest adapters the only one, is never used.
* `PointerMatchesLength`, `StraysOnlyAtFirstPrompt`, `StuckOnlyDuringBoot`: the races of the first prompt exist (a character stored
  through NULL, that is, into the kernel's first page; a pointer and a length
  that disagree; a keyboard that never interrupts again), and the first prompt is
  the only place they exist.
* `NothingLeftInService`: `isr_handler` tells both controllers of every
  interrupt, also of those in vain and of the master's own; each time what ends is
  exactly what the interrupt put in service. Both mutants, to tell only the master
  or only the controller the line belongs to, leave a line in service and block
  the keyboard with it.
* `AllHandled`: every request and every key is handled in the end, those that come
  during a command too. A machine that met a fault, or an interrupt before the table
  is loaded, is exempt. So is a keyboard that is `Stuck`, but only one that was
  silenced before the first prompt: one that worked when the boot processor reached
  its idle loop has to go on working, whatever command it runs.
* `ImplementsLineEditor`: what is stored, erased and submitted is a line. The editor
  may drop a key that it is offered, so a key that is lost is the business of
  `AllHandled`.
* `ProbedOnce`: no drive is taken over twice, although functions of a device may
  be aliases of one another; the adapter in use is the last of the bus, and drives
  of the others can no longer be reached.
* `OnlyPlanWritten`, `ImplementsCatalog`: a format that is interrupted and
  repeated, or that runs on another drive than the one it was measured for, never
  leaves a directory without the place it names, and never takes a formatted drive
  back. What makes this true is an accident: every format clears the flags before
  it asks for free sectors, so it takes the same sector each time; the mutant that
  keeps the flags of the boot breaks it. Both are about boot drives that are large
  enough for their own layout; on smaller ones `GetFreeSector` returns anything.
* `FirstEntriesAreFiles`: the second entry that `List` follows is read from the
  file that overwrote the directory. It names the file again only because first
  and last node are the same sector.
* `CoveringLineRunsAlone`: which lines the tail of an older one cannot reach. What a
  shorter line starts (`processes/terminal/interface.cpp:25`) is as the code has it;
  no property forbids it.
* `ListWhole`, `HeadersApart`, `LinksFromFreshWords`: the heap survives its own
  arithmetic because the scaled addresses spread blocks so far apart; the mutant
  in which the header's size replaces the request's shows that `next`, never
  initialised, would then be read from a former caller's data. Since the
  addresses are scaled, the list runs on far past the pages that were requested,
  and `ListWhole` says exactly how far.
* `PagesApart`: a page that `Expand` requests may then lie in the middle of the
  list. Its header misses every header of the list and every word that a caller
  filled. It does not miss every word that a caller holds: TLC finds one in the
  part of the buffer of `ReadDiskSize` that the drive leaves alone. And it depends
  on the drive. The flags of its sectors get a block 24 times as long as they are,
  in which all later pages begin; but the heap has only as many pages by then as
  the words of the flags ask for, and the next page begins in the flags if the
  headers, which count as part of each page, make up for one. `FlagsSuit` says for
  which numbers that cannot be. It is so for a drive of 4 MiB, the run's, and not
  for one of 10 MiB, or of the 93750 sectors that `kernel/Makefile:50` gives to its
  image: there TLC finds the header of a page in the last flags. The size of
  `drive.img`, the drive that is mounted, is not in the repository.
* `MapIsFinal`, `HandoffRight`: size, map and key come from three calls between
  which the map may change, and no result is looked at. The first says that a
  kernel which runs after boot services has the machine's map if it has one; the
  second, that it gets there unless the pool was refused, its allocation split
  descriptors or an event came between: the loader leaves no room in the pool
  and never retries. Those three do happen, and it is then that the kernel starts
  wrongly: the property says that nothing else does it.
* `RsdpOnlyIfFirst`: all that the search guarantees. Round i takes the GUID of entry
  2i for that of entry i, so an ACPI 2.0 table that alone is one, and alone begins
  with an R, is found as the first entry, never as another of the first half, and
  further on only if what lies behind the last entry passes for the GUID.
* `CursorFollowsLine`, `OffScreenOnlyPastEdges`: backspace on a line that has
  wrapped takes the cursor below column 0, and nothing stops rows at the bottom;
  everything else stays on the screen. Both do happen, and the properties exempt
  them: they say where the first pixel can leave the screen, not that none does.
* `HandsOutNumeral`, `ReadsBack`: also what becomes of numbers that do not fit,
  and of the byte in the middle, which the exclusive-or would clear. The program
  itself never reads back with `atoi` what `to_string` wrote, and its callers print
  numbers that fit: the two are checked as the library that they are.

### Bounds and why they are enough

* Machines of 8 to 25 pages with 3 low pages: every relation between a segment
  and the low megabyte, the bitmap, the end of the bitmap and the total occurs;
  the allocator's own loops compare indexes only.
* `Fan = 3`: four levels with two or more tables on each of the lower ones.
* AHCI: bytes of one bit, so that sectors need more bytes than one; `MaxSpin = 2`
  (busy, ready, timed out); up to two errors, enough to fill an adapter of two
  slots as the driver sees it.
* Console: four scancodes are a race at the first prompt followed by a character
  and an Enter, or a line of three characters with erasure. The timer has
  precedence over the keyboard, 7 is the master's last line and 12 the slave's;
  two requests put one on each controller while the keyboard's handler runs. One
  exception stands for all, since all halt.
* Storage: sectors of 3 bytes and drives of 4 to 9 sectors have flags, directory
  and data, with and without room for them and with sectors to spare; three
  entries of a directory, of which two are cleared, reach the junk behind them;
  junk is a zero, a sector of the drive or one behind its end; mount arguments of
  one and two digits overflow `Byte`.
* Heap: four live allocations, of which today's callers keep the two of `Boot`;
  real sizes in words, with a drive of 4 MiB; 40 pages are never used up.
* Boot loader: three descriptors and two events, so that the map grows, shrinks
  and changes in place between any two calls; three tables reach both the entry
  that is skipped and the memory past the last one.
* Screen: a width that is no multiple of 8, three rows, a word a little larger
  than the screen so that both coordinates wrap.
* Decimal: numbers of one to three digits around every change of length, an
  `unsigned int` of 200 values, so that numbers fit an `int`, only an
  `unsigned int`, or neither.

`CHECK_DEADLOCK FALSE` is set where the system really stops: at the end of a boot
or a fault (`PageTables`), a failed IDENTIFY (`AhciPort`), an idle machine
whose keyboard has sent its last key (`Interrupts`, `Screen`), and a loader that has
started the kernel (`BootLoader`). `Storage` can always lose power and checks
deadlock.

### Fairness

* `AhciPort`: weak fairness of the driver's steps and of the adapter starting,
  stopping, fetching, and completing or failing a command: devices make
  progress. No fairness on calls of `Read`, `Write` or `ReadDiskSize`, nor on
  completing rather than failing.
* `Interrupts`: weak fairness of the boot processor (`Setup`), of taking and ending
  interrupts (`Serve`; commands end) and of the keyboard's controller delivering;
  nobody has to press a key, and no line has to request anything. That commands end is
  an assumption: after an error the next call on the port waits for ever for
  `PxCI` (`driver/ahci/ahci.cpp:285`), and `AnsweredUnlessHalted` says that
  nothing else does.
* `Heap`: weak fairness of a call under way.
* The other modules state safety only and assume none.

## 4. Proofs

`PageTables_proof` proves of the allocator, for every memory map, kernel image, frame
buffer, page size and word size that satisfies `MapsAssumption` and
`SizesAssumption` (counts and addresses are natural numbers, sizes positive):

* `TypeCorrect`, `CursorCorrect`, `OwnedCorrect`, `LowestFirstCorrect`: the
  types (`TypeOK`), and the properties `CursorInv`, `OwnedIsBacked` and
  `LowestFirst` that the run `page_frame_allocator` checks.
* `CountersCorrect`: `CountersBalance`, on machines whose pages fit a counter
  (`BitCount(m) + 1 < Word`; the code's word has 2^52 pages).
* `Refinement`: `Spec => ImplementsPool`, step by step.

The argument is one inductive invariant, `IInv`. `OwnedIsBacked` alone is not
inductive: nothing in it says that a protected page is marked in the bitmap. So
`IInv` adds that protected pages are marked (`ProtectedMarked`), that what callers
hold is marked (`OwnedMarked`), that callers hold no protected page
(`OwnedUnprotected`), and what holds before the map is read (`ColdStart`). A page
is unmarked only if a caller held it, so protected pages stay marked; a page is
given out only if it was unmarked, so nobody comes to hold one. `CursorInv` needs
the lemma that `Rewind` goes to the lowest page freed (`RewindToFirst`). The
arithmetic of the bitmap's whole bytes is in `BitmapSize` and `RoundingTailSize`.
There is one lemma per action and one step per conjunct that it disturbs.
`CountersInv` adds to `CountersBalance` that the one count too many stands for the
bit after the end of the bitmap, so that it is counted once; reserved pages are
protected, so marking (`MarkingCounts`) and releasing (`FreePagesCounts`) count
neither. `freeMemory` may wrap below zero on a machine with less conventional
memory than was marked; `SumKept` is the modular lemma that says the sum does not
notice.

It proves all four properties of the run `page_tables`, too, for any
machine of the allocator's assumptions, any number of entries to a table
(`FanAssumption`), any devices and any number of page requests once paging is on:

* `AllocatorOfTables`: `PTSpec => Spec` of the allocator. `PrepareMemory` uses it
  by its own operations, so the allocator's `IInv` and theorems hold here.
* `TreeCorrect` (`TableTree`) from the inductive invariant `PTInv`. `Shape` says
  what makes the tables a tree, by a level for each: an entry above level 0 leads
  one level down, no two lead to the same table, and every table but the root is
  entered. `TreeInv` adds what the steps need: the tables are pages that were
  requested, so that a page just requested is none of them, and the walk of
  `MapMemory` stands at the table that the processor would reach for the same
  page (`TableAt`). `GrownShape` and `ChangedShape` are the two writes. A request
  that is refused leaves the cursor at the end of the bitmap and nothing is freed
  (`RefusedForGood`), so that what holds until the first refusal need not hold
  after it, and is not claimed.
* `AddressSpaceRefined` (`ImplementsAddressSpace`). Filling in tables changes no
  translation (`LookGrown`); the last entry changes that of the pages whose ways
  end in it (`LookChanged`). Ways that meet came the same way (`SameTable`), and
  four indexes make one page (`SamePage`, `PageOfIndexes`), so that is one page.
* `IdentityCorrect` (`IdentityComplete`) and `FaultsCorrect`
  (`FaultsOnlyPastMemory`) from `IdentityInv`: the pages given to `MapMemory` so
  far (`MappedSoFar`) are mapped, but for the one under way. Both assume
  `WithinReach`: memory, frame buffer and registers lie within the addresses that
  four indexes tell apart, 2^48 bytes in the code. `MCPageTables` assumes it too,
  so that TLC evaluates it.

`BootLoader_proof` proves `HandoffCorrect` (`MapIsFinal` and `HandoffRight`),
`MapFinalCorrect` (`MapIsFinal`) and `RsdpCorrect` (`RsdpOnlyIfFirst`) from `BootAssumption`: any number of segments,
descriptors, events and configuration tables. `IInv` adds to the properties that
keys are never larger than the firmware's present one, so that an event makes
every key stale; that a map in the pool goes with the key and, while it is
current, the size that the loader holds (`MapDescribed`); and what an undisturbed
handoff has reached at each step (`OnCourse`).

`Screen_proof` proves `CursorCorrect` (`TypeOK` and `CursorFollowsLine`) and
`OnScreenCorrect` (`OffScreenOnlyPastEdges`) from `ScreenAssumption`: any screen
on which the prompt and one glyph fit and whose size is well below `Word`. The
two invariants together are inductive; `PutCharFits` is the lemma that carries a
tab, four characters of which any may wrap, and rows are compared with the
bottom edge through modular sums by `RowsBetween`.

`AhciPort_proof` proves `IdleCorrect` (`IdleIsQuiet`), `StrayCorrect`
(`StrayOnlyWhenFull`), `IssuedCorrect` (`IssuedUntouched`) and `Refinement`
(`Spec => ImplementsBlockDevice`) for any number of slots, errors and rounds of
the wait, with two assumptions: adapters leave header bit C alone (`~ClearsBusy`)
and, for `Refinement`, sectors keep their number in the command FIS
(`FisFaithful`, true below 2^24). The violation runs show that neither can be
dropped; that the run `ahci_port` satisfies the second is what TLC shows, since
powers are beyond the prover. `IInv` follows the adapter through two modes: while
it runs, `PxCI` holds at most the command that the driver waits for
(`RunningInv`); once halted, exactly the command that failed and, while a call
waits, its own (`HaltedInv`). The adapter transfers only commands in `PxCI`
(`EngineInv`), the table of the slot that is waited for is the call's (`CallInv`),
and the driver gives a command only to a slot that is clear (`SlotFound`).

`Console_proof` proves of `Console` `PromptStaysCorrect`, `PointerCorrect`, `StraysCorrect`,
`StuckCorrect` and `Refinement` (`Spec => ImplementsLineEditor`) from
`ConsoleAssumption`: any keys, any number of them, any length of line. `IInv` adds
to `PromptStays` the state that the interrupt path hides: what is on the screen
counts the line (`Counted`), a scancode that waits has a request outstanding or
the keyboard is stuck (`Requested`), and the keyboard is enabled whenever a
handler or the idle loop expects it (`Enabled`).

Of `Interrupts` it proves `NothingLeftCorrect` (`NothingLeftInService`) and
`ImplementsConsole` (`InterruptSpec => Spec` of `Console`) from
`LinesAssumption`: any lines of the two controllers, any exceptions, any number of
requests; and so `ConsoleUnderInterrupts`, the theorems above under all of them.
`LinesInv` says
that a command runs only within a handler (`CommandInHandler`), and what one
handler can find in service (`OneInService`): nothing, the line of the slave
alone, or one line with the one it comes in through; `EoiEndsOne` is the lemma
that the two writes end exactly that.

`Storage_proof` proves all five properties of the run `storage` from
`MachinesAssumption`, `PlacesAssumption` and `StorageAssumption`: any machines,
any numbers of adapters, ports and functions, drives of any size.

* `ProbedOnceCorrect`: `WalkInv` orders the functions of the bus (`Before`) and
  says at each step of the walk which adapters it has passed (`LastPassed`,
  `RebasedPassed`); `StepForward` is the lemma that one step passes one place.
* `OnlyPlanWrittenCorrect` and `Refinement`: `DriveInv` adds that the layout in
  use is the boot drive's once the boot has measured it (`LayoutInv`), what each
  sector may hold (`Contents`) and that no drive has a file before it has a
  directory (`DirectoryFirst`). `WritesEffect` is all that is used of a `Write`,
  partial ones included; `FormatTakesData` is the lemma that each of the three
  calls of `GetFreeSector` returns the same sector.
* `FirstEntriesCorrect` and `CoveringLineCorrect` follow from `ListInv` and
  `PromptInv`, what the buffers of `List` and of the prompt may hold.

`Heap_proof` proves `PagesCorrect` (`PagesApart`), `ListCorrect` (`ListWhole`),
`ApartCorrect` (`HeadersApart`), `FreshCorrect` (`LinksFromFreshWords`) and
`Refinement` (`ImplementsArena`), each `Spec => ...`, from these hypotheses. `MCHeap`
assumes the last two of its constants, so that TLC evaluates them:

* `~AnyOrder`: callers free at most the last allocation. The run
  `heap_any_order` shows that it cannot be dropped.
* `FlagsSuit`, an arithmetic condition on what is asked for: the flags of the
  sectors end before the first page that is requested after them, and their block
  ends behind the last page that the heap can ever need. Any drive, any requests
  and any number of allocations that meet it will do; with the requests of
  `MCHeap`, the drives for which it is false are those for which TLC finds
  `PagesApart` violated, among all that were tried (flags of 720 to 11719 words).
* `FilledShort`, for `FreshCorrect` only: no caller fills more words of what it may
  give back than a header has bytes for each word that another asks for. Without
  it the header of a small allocation could be laid into what a larger one left
  behind.

The proof has two parts. The first is about the list, for any requests, page size
and number of pages: `IInv` holds up to the first page that does not lie apart
(`ListInvariance`), so of a drive that does not suit it says when things go wrong.

`IInv` says what the list is under these callers: the blocks that they hold in the
order of the allocations (`HeldInv`), one free block behind them up to the end of
the pages (`TailInv`), linked both ways at rising addresses (`LinkInv`), and no
link in any header that is no block of a caller (`FreshInv`), which is why the
rest of a split block ends the list. So `kmalloc` selects the free block or none
(`OnlyTheFreeBlock`), `Expand` always merges, and `kfree` always takes the free
block in (`SplitDoes`, `ExpandDoes`, `KfreeDoes`). `WrittenInv` adds where the
words are that callers filled. What the recursive function `Walk` visits is
`WalkIs`: it is the only function that satisfies its equation, by the least
number at which two would differ (`LeastNat`).

The second part is that pages lie apart. `PagesApart` is about one step and says
nothing of the numbers behind it; `PagesInv` has them. `AddedInv`: the pages added
for a call are in the free block, and each lets it ask for four words more, so a
call ends (`FourMore`, `CallIsShort`). `BootInv`: how many pages there are at each
call of `Boot`, exactly. `FlagsInv`: from the flags on, what callers filled lies
before the pages to come or behind the block of the flags. `LengthInv`: no block is
longer than the longest that a request can get, so the pages that the allocations
can cost end before that block does (`PagesLeft`). `PagesInv` implies `PagesApart`
(`PagesAreApart`) and each needs the other to be kept: `IInv` is inductive only
where pages lie apart, and `PagesInv` only where `IInv` holds. There is one lemma
per action. TLC checked `PagesInv` for four drives before it was proved.

`Decimal_proof` proves `ReadsBackCorrect` (`ReadsBack`) and `NumeralCorrect`
(`HandsOutNumeral`), for any numbers, any even number of values of an `unsigned
int` and any buffer in which its digits, a sign and the end have room
(`RoomForDigits`; `RoomInTheCode` proves that they have in the code's 50 bytes, for
every number below 2^32). The state is simple, any buffer and any number; the
proofs are about the loops. `Recursion` shows once that a function exists that is
given by its values at smaller arguments, and `LeastNat` gives induction: the
least argument at which a claim could fail. So `LowFirst` and `Numeral` are what
their equations say (`LowFirstIs`, `NumeralIs`) and spell each other backwards
(`LowFirstBackwards`), the loop of exclusive-ors reverses the text and never swaps
a byte with itself (`ReversedIs`), a call leaves its text and an end behind
it whatever was in the buffer (`WrittenIs`), and `atoi` adds up a numeral's number
(`NumeralRead`) in an `int` that may wrap at every digit (`Turns`, `StepOfHeld`).

Only model-checked: all liveness (`AllHandled`, `ErrorReported`,
`AnsweredUnlessHalted`, `KmallocReturns`), which is beyond the prover. Every other
property of a passing run is a theorem.

## 5. Not modelled

* Pixel output, messages, fonts, `Clear`; conversions of doubles and to
  hexadecimal, `strcmp`; the timer's count, which only `sleep` reads, and `sleep`,
  which has no caller; the GDT.
* A mouse that puts its bytes in the keyboard's port, lines that are
  level-triggered, and the frames of vectors 17, 21, 29 and 30, whose stubs push an
  error code too many: it shifts what an exception prints before it halts.
* ACPI: `FindTable` looks for the `MCFG`, but `EnumeratePIC` takes no notice of what
  it found; its search is not modelled. `PrintDrives` and `memory info` only print.
* AHCI ports concurrently: the driver serves one call at a time, so `Storage` has
  many ports with one call, and `AhciPort` one port with the registers. Transfers
  of several sectors are in `Storage` only, as a contract; PRDT and the layout of
  command tables in memory are nowhere.
* Lines that split one of the pieces of the command buffer, as `dr` behind
  `memory`.
* Heap memory that is not zero when it is first used. On such memory the `next`
  link of every split block is arbitrary and no property of the heap survives;
  this is the main assumption behind the run `heap`, and behind the proofs. A
  `RequestPage` that returns NULL is in `Heap`, but the run never gets there:
  `Expand` does not look, and nothing is claimed of what follows.
* The contents of files that the boot loader reads, and its stack.
* Vendored code (`src/gnu-efi` other than the loader, OVMF) and build output. Most
  lines of the repository are these; nothing here is a claim about them.

## 6. Plan

1. Composition of `BootLoader` and `PageFrameAllocator`: the allocator on the map
   that was handed over, while boot services still change it.
2. Remaining conversions (`PrintMemorySize`, `to_hstring`, `strcmp`), `sleep`.
