# A TLA+ verification of DarkCore

DarkCore is a small operating system for the Intel 80386: a boot loader, a
kernel of about five thousand lines of C++ and nasm (`kernel/`, `library/`), a
shell that runs as a thread (`usermode/`) and a tool that builds disk images
(`utils/lite-fs`). It has no tests and next to no documentation, so every
definition here is read off the code. The modules in this directory model the
parts of the kernel where order, interleaving and arithmetic at the edges decide
whether it is correct; TLC checks them on small instances and TLAPS proves the
most important results for every value of the constants.

## 1. The system

One processor runs everything. Boot code (`DarkCore()` in `kernel/kernel.cxx`)
sets up the drivers, the frame allocator and the page tables, loads the shell
from disk, adds two threads to the scheduler and starts it. From then on
execution is in a thread, in an interrupt handler, or in a kernel service a
thread called through interrupt 0xEC. Programs run in ring 0.

| component | state | operations | what makes it correct |
|---|---|---|---|
| memory map passes (`kernel.cxx`, `pmm.cxx`) | the table of region descriptors, changed in place | Tweak, Sort, RemoveSimilar, RemoveExtraRegions, Initialize | only free memory is left, no byte in two regions, the passes end |
| physical memory manager (`pmm.cxx`) | per frame: busy flag, length of the block it heads | Allocate, Reallocate, Free | blocks are disjoint, nothing is lost, refusal only when full |
| virtual memory manager (`vmm.cxx`) | page directories and tables | Create/Free Directory, Tables, Pages; Map/Unmap; Allocate, AllocateToPage, Reallocate, Free | address ranges disjoint, frames not shared, nothing leaks |
| scheduler (`scheduler.cxx`, `sheduler.asm`) | ring of threads with saved registers and tick counts, current thread, task switching flag | CreateThread, AddThread, RemoveCurrentThread, Schedule (timer), SwitchThreadNext, Enable/Disable | contexts stay intact, turns are fair, switches only where they are safe |
| user mode calls (`usermode-calls.asm/.cxx`) | two globals for ESP and EBP, the table of services | interrupt 0xEC | one call at a time, paging off exactly during calls |
| kernel services (`kernel.cxx`) | nothing of their own; a thread's path string | power, memory, terminal, keyboard, file system, thread | each leaves interrupts, flag and memory as it should |
| keyboard (`ps2-keyboard.cxx`) | byte buffer and length shared with the interrupt, modifiers | IRQHandler, ReadBufferLastByte, GetInput, SendByte, Initialize | the keys typed are the keys read |
| PS/2 controller, PIC, PIT (`ps2-controller.cxx`, `pic.cxx`, `pit.cxx`) | device registers, tick counter | waits, commands, sleep | waits end, sleeps last as long as asked |
| terminal (`terminal.cxx`) | cursor, colour, screen cells | PutChar, SetLine/Column, scrolling, ReadChar, ReadString | writes stay on the screen and in the caller's buffer |
| LiteFS (`lite-fs.cxx` in the kernel and in `utils/`) | on disk: partition header, object descriptors | lookup along a path, directory iteration, ReadFile; image building | what the builder wrote is what the reader finds |
| IDE, storage devices (`ide.cxx`, `storage-device*.cxx`) | channels, selected device, list of devices | read sectors, poll, append, letters | the right device answers, waits end |
| containers, strings, parsers (`common/`) | heap buffers | List, String, MemoryUtils, RPF, path normalisation | sizes and contents agree, loops end |
| ACPI (`acpi.cxx`) | what the firmware's tables said | Initialize, PowerOff | a table is used only if valid, ACPI mode claimed only if entered |
| PCI (`pci.cxx`) | nothing; calls itself | CheckAllBuses, CheckBus, CheckDevice, CheckFunction | every function reported once, the walk ends |
| shell (`shell-tty`, `umi-functions`) | its copy of the path, buffers it was given | commands, each a few kernel calls | what it was given it gives back |
| CPU tables, exceptions, boot loader | hardware tables | written once | not state machines of interest |

How they interact: the timer interrupt switches threads at any instruction that
runs with interrupts on, unless the task switching flag is off. A kernel call
enters with interrupts off, switches *paging* off for the processor as a whole,
and keeps the caller's stack pointers in globals. Two services then turn
interrupts back on while they wait - for the keyboard buffer, which the keyboard
interrupt fills, and for the disk - and protect themselves by the flag alone.
The virtual memory manager takes page tables and pages from the physical one,
the services take buffers from both and the shell gives them back, the scheduler keeps its table in physical
memory mapped into every directory, and the line editor in the terminal reads
from the keyboard.

The hard behaviours are therefore: the timer or the keyboard interrupt at every
point of a call's window and of an unlocked read; long sequences of allocations
and releases; loops that run over a table they change; arithmetic modulo 2^32
around zero and at a rounding boundary; error paths half way through; waits that
may never end; bytes lost or taken for others between keyboard, controller and
driver; firmware and hardware of every kind. `PROJECT.json` lists each at its line under "hazards", with the
property that watches it or the reason none does yet.

## 2. The modules

Modules of components that meet while the system runs are composed step by step.
Parts that a run cannot interleave with each other, because the code finishes one
before another begins or because they share no state, are put side by side in a
module whose behaviours are one of them each, chosen at the start: their
properties are then checked together in one run. These are `Boot`, `PS2`,
`Tasks` and `Services`; each says in its heading why its parts are apart.

    Typedefs            AlignUp, AlignDown, size_t            (typedefs.cxx)
      |-- MemoryMap     boot passes over the memory map       (kernel.cxx, pmm.cxx)
      |-- PhysicalMemory   the frame allocator                (pmm.cxx)
      |     implements FrameAllocator  (abstract)
      |-- VirtualMemory page directories, tables, blocks     (vmm.cxx, lef.cxx)
      |-- Scheduler     timer, switch, ring of threads        (scheduler.cxx, sheduler.asm)
            UserModeCalls  calls, services' windows, interrupts, composed with it

    Boot = MemoryMap, and one after the other
             ACPI           tables, ACPI mode, power-off      (acpi.cxx)
             PCI            the walk over the buses           (pci.cxx)
             IDE            identification and transfers      (ide.cxx)
             StorageDevices letters, search for a program     (storage-device*.cxx, kernel.cxx)
             RPFParser      the configuration file            (rpf-parse.cxx)
    PS2 = Keyboard          interrupt handler against reader  (ps2-keyboard.cxx)
          PS2Setup          set-up of both and commands       (ps2-controller.cxx, ps2-keyboard.cxx)
    Tasks = UserModeCalls
            ThreadTable     the table when it changes         (scheduler.cxx)
    Services = Shell        commands                          (shell-tty, umi-functions)
                 |-- FileService  calls and their memory      (kernel.cxx)
               PathString   one path of two                   (kernel.cxx, string.cxx)
               List         the growing array                 (list.hxx)
               MemoryUtils  copy, fill, compare               (memory-utils.cxx)

    Terminal            cursor, cells, line editor            (terminal.cxx)
    LiteFSImage         host tool: walk and partition         (utils/lite-fs)
      |-- LiteFS        lookup, listing, reading, on top      (lite-fs.cxx)

`MC...` modules give a specification its small constants, `...Proofs` modules
hold its theorems. Definitions named `..._Mutant` are deliberately wrong
variants of the definition that follows them, each the kind of slip the code
could have had; replacing the definition by its mutant makes the property it is
paired with in `PROJECT.json` fail, which shows that the property looks at that
part of the code. Nothing else refers to them.

**Typedefs.** `AlignUp` adds a whole unit to a value that is aligned already and
`AlignDown` takes one off. `MemoryMap`, `PhysicalMemory` and `VirtualMemory` use
them, so the frame of slack a request of whole frames gets, the page of slack a
request of whole pages gets, and the frame each region loses are in these models.
What the frames of `VirtualMemory` are is said there. `FileService` takes the
result over: a request of `FrameSize` bytes is two adjacent frames (`Pairs`).

**MemoryMap.** The table is a sequence, `pass` says which loop runs, `i` and `j`
are its counters. A step is one iteration where the loop changes the table it
runs over (RemoveSimilar, RemoveExtraRegions, the prune loop of Initialize), and
a whole pass where it does not. Bubble sort is given by its result, the stable
sorted order. Loop counters that advance after a removal do so here. Addresses
and lengths are 64-bit up to the alignment and `size_t` in it, as the casts say.
Assumed of the firmware (`FirmwareMap`): entries overlap only when they start at
the same address, and at most two do. A third would survive
`RemoveSimilarRegionDescriptors`, and entries that overlap from different
addresses would never be merged: nothing in the code handles them. Nor does it
handle a reserved entry that reaches beyond 4 GiB and starts where a usable one
does: `TweakRegionDescriptors` (`pmm.cxx:151`) drops it before
`RemoveSimilarRegionDescriptors` could give it precedence, and the memory stays
usable. Firmware has no reason to report such a pair, so `RegionsAreFreeMemory`
leaves it out by what it calls reserved (`IsReserved`); the maps of the run
contain it. Assumed of the loader (`TableAssumption`): the table's first entry
lies in the first frame, as `main.asm` puts it at 0xE00, and its entries are so
few that rounding up the table's end does not wrap.

**FrameAllocator / PhysicalMemory.** The abstract module knows a set of live
blocks: grant any free one that is large enough, refuse only if none with a
frame of margin is free, release exactly the block that starts at the pointer.
The concrete one has the flags and the `BusyCount` of each frame, first fit in
the order of the two loops, and the undo path of reallocation. A frame's number
stands for its descriptor and its address; contents are left out. Assumed
(`RequestAssumption`): no request is so large that rounding up wraps.
Reallocation is called with live blocks or with a null pointer, as its one
caller does; release with anything.

**VirtualMemory.** Several address spaces over one supply of frames. A page is
numbered through its directory (table index times `Pages` plus page index);
`busy`, `closing` and `backing` are the three flags of its entry and its frame,
`table` the directory's entry. A frame here stands for what one call of the
physical memory manager yields; for a page that is two adjacent frames, of which
the second is never mapped. Which free frame an allocation gets is left to
`Supply`; that it is free and that a refusal means there is none is what
`PhysicalMemory` shows. The loops over tables and pages are given by what they
find (`IsFreeFrom`, `EndsBlock`, `Visited`) and by how far they come before
memory runs out (`Filled`, `RollBack`), with the code's peculiarities:
the search looks at later tables from the first page's index on, the roll-back
frees every table it came through, an entry of a freed table still names its
frame, a release runs to the next closing page whatever lies between.
`CreateDirectory` includes the mappings made at boot; the pages of
a thread's stack and path are ordinary blocks. Any address may be released, as
`MemoryService` passes on what a program gives it. `StartLoading` and `LoadPage`
are the loader's loop in `LEF::CreateThread`. `faults` records which of five
things has gone wrong, so that each property says under which it holds; after a
write through a stale entry ("wild") the model stops. At address 0, where an entry
that never had a table leads, lie the real mode vectors: their reads are taken to
show no flag.

**Scheduler / UserModeCalls.** A context is reduced to whose it is, where it
stands and its interrupt flag. `Schedule` is the timer interrupt as one action
(interrupts are off in it): tick, accounting, switch or countdown.
`UserModeCalls` adds the call handler (`Call`, `Return`), the pattern every
waiting service follows - disable task switching, `sti`, wait, `cli`, enable -
and the keyboard interrupt. Code that runs with interrupts off is cut only where
another part of the model could see the difference. A keyboard call has one
window, file system calls none to two, with every early return; the others
none. Ring and number of threads are fixed, as they are once `Scheduler::Run`
has been called; `ThreadTable` has them change. `BootTicks` bounds the ticks that can fall between two
neighbouring lines of `Run`.

**ThreadTable.** What `Scheduler` takes as given: the array of threads linked to
a ring by pointers into itself. A pointer is a pair of an array and an index;
when the table grows, pointers keep the old array. Threads are added by the boot
code only and any thread but the first may remove itself. `Schedule` counts the
quantum of `CurrentThread_` down and, when it is spent, saves what runs, gives a
new quantum and switches; `SwitchThreadNext`, which runs with interrupts on
after `Run` and after the `sti` of `RemoveCurrentThread`, is two steps (`Leave`
up to its write of `CurrentThread_`, `Load` up to its `IRET`), and a tick may
come before either. A tick there would save a context that is not
`CurrentThread_`'s if it found the quantum spent. It never does: the first
thread's was given anew when it was last switched out, and a window of some
twenty instructions meets at most one tick (`WindowTicks`).

A pointer into the array that was given up is not followed further (`Lies`,
`astray`). That array is neither cleared nor unmapped anywhere
(`pmm.cxx:98-110`), but it is not reachable where it matters. The first switch
is made by the boot code, with paging on and the kernel's directory, and in that
directory `Run` maps the present array only (`scheduler.cxx:18-23`). Once the
table has moved, the first thread leads into the old one, so
`SwitchThreadNext` takes that address and reads the thread's directory through
it (`sheduler.asm:114-117`), where no page of the table is. Hence no thread is
ever run, and no later switch could use the old array through a directory of a
thread that still maps it.

Nothing in the kernel as shipped adds a third thread or calls
`RemoveCurrentThread`: what is shown there is what the functions promise to
their next caller.

**Keyboard.** The interrupt handler is one action; the reader's
`Buffer_[--BufferLength_]` is four (load, store, load, fetch), which is what
the unoptimised build of `bin/makefile` executes with interrupts on. `typed`,
`unread`, `overwritten` and `raced` are history variables for the properties.
After a write past the buffer (`damaged`) the model stops: what lies there is
up to the linker.

**PS2Setup.** Driver, controller, keyboard and interrupt handler as four parties
around two registers of one byte. `SendCommand` may write at once, `SendData`
only when the controller has taken the byte before; what is overwritten goes to
`lost`. A call such as `SetScanCodeSet` is the list of what it sends and expects;
`SendByte` with its tries is shared by all. Here the queue is read in one step,
since `Keyboard` has the race. Hardware that is missing or broken, a keyboard
that asks for bytes again and a user who types are chosen freely. `ECHO` is
answered by a keyboard with 0xEE and no acknowledgement, so `Echo()` fails on
every keyboard; `GetType` ignores the result of its last step; both, like
`GetScanCodeSet`, are called by nobody. `DarkCore()` ignores what
`PS2Keyboard::Initialize` returns.

**ACPI.** A firmware is a record of what its tables look like: which places hold
a root pointer, which tables are valid or above 4 GB, what the DSDT has for
`_S5_`, whether there is a second control block. The steps are the search, the walk
and the tries for each block; the firmware comes to ACPI mode between them or
never. Without a FADT or without `_S5_` the result is still true, although
`acpi.cxx:18` says that it means data and control; behind a root pointer of
revision 0 the walk takes the table's bytes for entries and reads far behind it.
What is stated is what holds in spite of that.

**PCI.** A machine is a function from places to what is there; the recursion is
a stack of calls with their counters. That the loop over the functions of a host
ends at the first one found, so that a host with functions is not walked at all,
is `HostWithFunctionsHidesAll`.

**IDE.** The loops on the status register are guards, so driver and drives
interleave at every poll. The registers of a command are put together again by
the drive (`Addressed`), in the three ways of addressing. A word is the triple of
drive, sector and place, so that what arrives can be compared with what was
asked for. Observations that no property depends on: the address of the control
register is that of the command block (0x1F6 + 2, not 0x3F6), the write that
resets its high byte goes to offset 0x0C; the result of `Polling` is returned as a
transfer status, whose numbers mean something else; the bytes of a packet
drive's signature are compared the wrong way round (`ide.cxx:134`), so packet
drives are never found. `WriteSectors` works like `ReadSectors` but nobody calls
it.

**StorageDevices.** The table of letters points into a `List` that moves when it
grows. After the probe it is searched for a device with a configuration and a
program, with every read able to fail.

**RPFParser.** A text is a sequence of four kinds of characters, a key or value
the pair of places it covers. The block of a value is one byte short for its
zero; the allocator's rounding has room for it.

**FileService / Shell.** Memory is a row of frames with what each is used for,
given out lowest first. What comes from `new` or the physical memory manager
directly - a string, a list, a copy of a device or its channel - takes one
frame. A page takes two, one beside the other (`Pairs`): `vmm.cxx:297` asks for
`FrameSize` bytes and `AlignUp` (`typedefs.cxx:51`) makes them two frames, of
which the first is mapped. So the frames mapped for a buffer are f, f + 2, f + 4
where nothing is in the way, and never one right behind the other; a page is
refused when there are no two free frames side by side.

A request begins with `PerformPathString` and every block it takes: the path is
a string or is put together of three (`Relative`), it is split, dots and slashes
are taken out in any number and order (`TakeName`, `SplitAgain`, `TakeSlash`;
what they do to the text is `PathString`'s subject). `GetSubString` never frees
`resStr` (`string.cxx:124`), also when `Erase` calls it, and `pathParts = Split`
forgets the list before (`list.hxx:104`): a `.` or `..` costs two frames for
good, a slash at the end one. LiteFS costs one for each partition and each name
it compares (`ComparePartition`, `CompareName`), and `ReadFile` looks its path
up twice. Every block may be refused. A refusal the code passes over is passed
over in the model too: `+=` and `=` then leave the string as it was. Where it
does not look, and reads or writes at address 0, the model stops (`Stop`, `wild`):
that is so for the path's string and its first split, and for the blocks counted
by `Needs`. Then come the copies of device and channel, the look-up, the buffer
and the reading, with the disk able to fail at each. `letter` is a device's, one
between the devices and the end of the table, or one behind it. The file is
written from the physical address of the buffer's first page, as
`kernel.cxx:446` has it, in whole chunks of LiteFS, of which the last may pass
the end of a frame; `stray` is who owned the frames hit that are not the
buffer's. `Shell` makes the calls of its commands in their order and gives back
what they give back; `vmtest`'s 0x2000 bytes are three pages. The model stops
when memory has been written by mistake (`Sound`). Files have at least one byte.
Page tables are left out: when the first page in a table is refused the
allocation also takes tables back that others use, which is in `VirtualMemory`.
The block of a new path is one byte short for its zero (`kernel.cxx:316`,
`320`); the allocator's rounding has room for it.

**PathString.** `PerformPathString` over the string functions it uses, which have
their own ideas of an offset or count beyond the end and of the length 0. Every
string gets its memory here: what a `String` does when it is refused
(`string.cxx:27`, `51`, `64`) is in `FileService`.

**List / MemoryUtils.** All operations of the growing array, with memory that
runs out; copies and comparisons in units of four, two or one bytes. `Insert`
and `Remove` are called by nobody but `Append`; assigning to a list gives the old
block up without freeing it, which the services do with `pathParts`
(`SplitAgain` of `FileService`).

**Terminal.** `Put` maps a cursor and a screen to the next ones, as `PutChar`
does; the actions apply it to what programs print. `Advanced` and `Written` keep
the two orders of the code: a tabulation or new line looks where the cursor
comes to before it goes there, a character that shows is written first. Setting
column and line does not touch the other half of the position, also when the
cursor stands behind the screen. `ReadString` starts the line editor, and each
iteration of its loop is an action (`EraseLast`, `FinishLine`, `AppendChar`);
printing has to wait, since task switching is off. `line` is the line as the
user would expect it, `echo` remembers where it began on the screen. What
`Keyboard` delivers to it are characters that show, tabulations, new lines and
backspaces, never a zero or a carriage return.

**LiteFSImage / LiteFS.** The tool's recursion is a stack of activations
(`calls`), its order of entries is free; then the partition is written entry by
entry. A byte of a file is its path and position, so what a read returns can be
compared with what was packed. `LiteFS` adds the reader to the finished
partition: a call is one step, since the disk does not change, and at most one
of the reads of a call fails. The loop over a path (`Walk`, `Found`) is shared
by the three functions that repeat it. What lies behind the descriptors and is
read as one after a failed read may look like anything (`stray`). `listed` and
`answer` are history. Nobody passes `ReadFile` an offset beyond the file; there
the remaining count would wrap. The tool reads beyond its buffers when it enlarges
them; all that comes from there but the sector between descriptors and data is
written afterwards, and that sector is not in the model's image.

## 3. The runs

| run | instance | states | shows |
|---|---|---|---|
| `physical_memory` | 7 frames of 4 bytes in regions of 3, 1, 3; requests 0, 4, 9 | 1,694 | blocks stay disjoint, no frame is lost, and every call is a step of `FrameAllocator` |
| `user_mode_calls` | 3 threads, 2 of them callers; quantum 2; counters modulo 16; a table of 4 places, quantum 4, that grows at the fifth of 5 threads; with fairness | 66,577 | contexts, page directory, stack globals and flag are right in every interleaving of timer, keys and calls; no thread gets ahead by more than a quantum and one ticks, across the wrap; calls return and threads run; the table is a ring until it moves, and afterwards no thread runs |
| `keyboard` | set-up: 2 refusals, 1 key, 1 resend, 1 call; in use: 5 keys, 3 key events, buffer of 4 bytes; with fairness | 1,078,293 | see below |
| `keyboard_overflow` | buffer of 2 | violation | finding 1 |
| `boot` | some 2,300 firmwares; memory maps of up to 3 entries over 21 regions; 675 machines of 3 buses; pairs of 5 kinds of drives; 5 devices for 4 letters; every text of up to 7 characters | 335,478 | what is left of the memory map is usable, unreserved and disjoint; tables, buses, drives and texts are read as they should, with the exceptions the properties name; every stage ends |
| `memory_map_underflow` | the memory maps of `boot` | violation | finding 2 |
| `virtual_memory` | 2 address spaces of 2 tables with 3 pages; 7 frames; requests 0, 4, 9; a program of 2 pages | 145,365 | no frame has two owners, whatever is released and wherever memory ends; frames are lost and blocks damaged only through the faults named; see below |
| `terminal` | 2 lines of 4 cells, tabulations of 2, lines of at most 1 or 3 characters | 385,539 | buffer, line and echo agree through every order of keys, scrolling and cursor settings; the cursor stays within a line of the screen |
| `terminal_overflow` | the same | violation | finding 3 |
| `litefs` | five directories of up to 6 objects, 4 deep, in every order of entries; 44 paths; chunks of 3 bytes; one failed read per call | 2,768 | what is packed is found under its path, listed once and in order, and read back |
| `litefs_ids` | the same | violation | finding 4 |
| `services` | 20 frames, 4 of them the path's, 2 or 10 taken by others; files of up to 2 pages; 2 commands; 4 blocks forgotten; every path of up to 5 names of 5 kinds from 2 directories; 2 lists, 3 blocks, 6 elements; blocks in 8 bytes | 694,846 | what calls keep for good is what the property counts, wrong writes happen exactly where one says, paths and lists and blocks are what they should be |

The bounds are chosen so that the cases that matter happen. *Physical memory*:
three regions, one of a single frame, let requests straddle a boundary,
fill the memory, fragment it and fail; 0 and 4 bytes exercise the extra unit of
`AlignUp`. *User mode calls*: two callers besides the supervisor are the least
with which two calls could overlap; the quantum of 2 instead of 100 only
shortens the countdown; 16 instead of 2^32 makes the counters wrap. *Thread
table*: it grows once at boot, and up to three of four threads remove
themselves, interrupted before, in the middle of or after their last switch; the
table's quantum is as large as its first array, the least `ThreadTableAssumption`
allows (10 threads and 100 ticks in the code). *Keyboard*: three events give press, repeat and release of
an extended key or a modifier (up to three bytes each), and a buffer of four
bytes fills up, empties and overflows; in the set-up two refusals are one more
than are sent again, and a key may be pressed at any moment. *Memory map*: 144
bytes stand for 4 GiB; the regions are placed so that each overlap type occurs,
one region is cut twice, and the region table lies inside usable memory as it
does on a PC. *Boot*: the firmwares vary one part of the tables at a time; the
machines have bridges to a bus behind and back to bus 0; two drives are so large
that a transfer reaches the last sector of the short addresses, and a transfer
of three sectors takes two operations; the list of devices moves twice; seven
characters are two lines of the shortest kind. *Services*: of twenty frames
sixteen are free at the beginning, or fourteen around two that others hold, or six:
a file of two pages fits in, beside a request's strings and copies, straight or
around a hole, or is refused at its first or second page, and every other block
is refused somewhere. `MaxForgotten` bounds the frames that are lost, four being
a file read (two look-ups of a partition and a name each) or a `..` and one
look-up; two commands let what one has left behind be in the way of the next;
six elements are twice `CountAllocate + 1`, where removals begin to lose
elements; eight bytes hold blocks of each width, overlapping ones and two
beside each other.

*Virtual memory*: two directories and their first tables take four of seven
frames, so memory runs out at a table, at a first and at a later page; requests
of one, two and three pages cross the table boundary; the program's pages
are in a table that does not exist yet. `MCView` identifies states that differ
only in which frame is which, in the last result, or in history that can no
longer matter.

*Terminal*: lines of three characters cross the end of a line and of the screen of
eight cells and scroll it, with the cursor beginning anywhere, also in the
line behind the screen. Where writes beyond the screen went is left out of the
view, since nothing but the finding's property asks.

*LiteFS*: the five directories are the empty one, one shaped like `src/storage`,
one with files whose length is nothing, a chunk, and a chunk less than the link
behind it, one with equal names under different directories, and one that makes
identifiers repeat. The paths are all of up to three names and two of four, with
names that exist, that exist elsewhere, and that do not exist.

What the LiteFS runs say, precisely: an existing path leads to its object, provided
that identifiers do not repeat and no read fails. The converse is weaker: a path
found is the path of an object with further names put in between, so
`base/system/x/config` is found if `base/system/config` is. After a failed
read an iterator reports nothing twice and not more than there is, but it may
report what is no object. A read writes up to a chunk less one byte behind the
last byte of the file.

What the virtual memory run says, precisely: an address space consists of the
kernel's pages and of intact blocks as long as nobody releases an address that
is not a block's, no block is granted across a table boundary (4 MiB) over
pages in use, and memory does not run out while a block is put into a table
that others use. Each of these three happens in the run
("misuse", "overlap", "uprooted"); frames stay apart even then, but are lost in
the latter two. The last means that the first failed allocation of an
address space takes the kernel's own mappings along when it shares their table.
The loader's pages are all mapped although every other call of it fails.

What the keyboard run says, precisely: as long as no interrupt falls between
the accesses of a read, the inputs are what was typed, in order and with the
right modifiers; in every case the length counts the unread bytes except the
ones whose increment an interrupted decrement ones whose increment an interrupted decrement overwrote. Those bytes are never
taken: once there are any, as many bytes stay unread for ever while `GetInput`
waits for a length above zero. But no more than those: all others are taken
again and again, as long as the buffer does not overflow (`BufferDrains`). The bytes themselves are *not* safe when an interrupt
does fall there - one may be read twice and another lost - and the conditions in
`InputsAreTyped` and `LengthCountsUnread` are exactly where the guarantee ends.

Of the keyboard's set-up the run says (`SetUpIsSound`): the bytes lost because a
command was written too early are locks, unlocks and configurations, never a
command whose answer is waited for, unless a key is
taken for an answer; without such a loss and without a key the set-up gives up
only because of hardware; when it succeeds the keyboard scans in set 2 with
its interrupt on. It ends (`SetUpEnds`) except after a lost byte, without a
keyboard, and after a RESEND to the first command, which is never sent again.

What the services run says, precisely: while a call is served, no string, list
or copy is made while the one before of its name is still there. At the prompt
memory holds the path, and what is lost for good: a frame for each part of a path
that was taken out or compared and for each list that was assigned to (see
`FileService`), a device's copy for each time the second copy was refused
(`kernel.cxx:489`), and the buffers of files that could not be read
(`kernel.cxx:460`). So a call that looks a name up loses memory, and a thread
that goes on making them ends with all of it refused. A file of one page is
read where the program looks for it. Of a longer one no page but the first is:
the second frame written is the slack behind the first page, which nobody maps,
so files of more than a page always read back wrong. Memory that is not the
buffer's is written exactly when a page the file reaches does not lie two frames
behind the one before; then whoever has the frames in between is overwritten, or
they are free. An address that means nothing is used in three cases: a file is
read through a letter behind the table; a block for a path or a look-up is
refused where nobody asks; a page is refused, whether for a file, for the new
path or for the shell's own copy. Paths without empty names and without ".." behind ".."
resolve as expected; any other stays on its disk; only the path "/" makes the
service loop for ever (`kernel.cxx:550`). Comparisons of an odd number of bytes
are always true (`memory-utils.cxx:78`), which `BlocksAreHandled` leaves out.

What the boot run says of texts: lines with a blank between key and value are
read as they are; KEY=VALUE without blanks is a key whose value is the next line.

### Fairness

`TasksFairness`: the processor goes on executing (weak fairness of
`Start` and `Handler`), the user types (weak, `KeyInterrupt`) and at some time
ends the line, and a disk answers (strong, `CloseWindow`: a window may be open,
and keys taken, many times before), and the timer, which ticks whatever the
processor does, sometimes ticks in user code (strong, since user code comes and
goes). On the thread table: ticks come and a call of `SwitchThreadNext`
switches (weak). There is no fairness between threads: that each gets its turn
is shown, not assumed. That every service
returns is taken for granted here, though it is not so of a file system call with
the path "/", which loops before it lets interrupts in (`kernel.cxx:550`; see
`PathsReturnUnlessRoot`).

`PS2Fairness`: the driver runs, controller and keyboard take and deliver what
they can, interrupts arrive - they are on since `HardwareIRQs::Initialize`; in
use a caller goes on reading. Nobody has to type. `BootFairness`: the boot code
runs on, and a drive ends what it was commanded. A firmware need not come to
ACPI mode. `ServicesSpec`: only the loops over a path run on.

`CHECK_DEADLOCK FALSE` is set for `keyboard` and `keyboard_overflow` (typing is
bounded, after that the reader waits as in the code, and the set-up may wait for
ever), `boot` and `memory_map_underflow` (each stage ends), `virtual_memory`
(the model ends with a wild write) and `services` (it ends with a wrong write, a lost
element or a finished path, and when the commands and the frames to lose are used up).

## 4. The proofs

The theorems hold for every value of the constants that satisfies the named
assumptions. In every proof the inductive invariant is a conjunction of named
parts, preservation has one step per action, and the temporal step comes last.

**PhysicalMemoryProofs.** `TypeCorrect`; then `BlocksAreBusyRunsAlways`,
`BlocksAreDisjointAlways` and `NoFrameLostAlways`. None of the three is
inductive alone: an allocation keeps blocks disjoint only if every block's
frames are busy, and a release keeps the others' frames busy only if they are
disjoint from the released ones; together (`Consistent`) they are. Lemmas about
`FramesFor` (the request fits, with at most a frame of slack; from the division
facts of the arithmetic helpers) and about what adding and removing one block
does carry the argument. `Refinement` maps every step to a step of
`FrameAllocator`, with `Live` as the mapping; refusals need that a first fit
exists whenever a fit does. Assumptions: `PmmAssumption`, `RequestAssumption`,
`WordAssumption`.

**UserModeCallsProofs.** `TypeCorrect`, `ContextsIntactAlways`,
`PagingOffIsShieldedAlways`, `StackOfCallerAlways`,
`UserCodeIsPreemptibleAlways`, the three together as `CallsAreShieldedAlways`,
and `SwitchesInUserCodeAlways`. The inductive
invariant says for each place in the call path what the interrupt flag, the
task switching flag and paging are; from it a switch is possible only in user
or boot code, hence saved contexts are user contexts, hence no second call
starts during a call. Any number of threads, any quantum, any set of callers.
`FairShareAlways` needs to know of every thread which turn it is at: the threads
before the running one have had a turn more than those behind it (`Turn`), a
turn is `Quantum` and one ticks, and the counters are those sums modulo 2^w
(`Worked`). `TableIsRingAlways` is about the changing table of `Tasks`. Its
invariant (`RingInv`) has a part for each stage: what the boot code makes
(`Built`: from which array each thread leads into which, and contexts that are
their own), with quanta nothing has been taken from (`Fresh`); a first switch
that finds a table that has moved, and goes astray (`Strands`); and a table that
has not, around which its threads turn (`Turns`). That no context is saved in the
wrong place needs a count of ticks: of the threads that do not run each has its
quantum left but for the ticks that can have met a removal's window since
(`Rested`), at most one for each thread removed (`Spent`). Hence the assumption
that a quantum is no less than the places of an array
(`ThreadTableAssumption`: 100 and 10 in the code), and that the table grows by
more than one place at a time: by one, the first growth would happen with a
single thread.

**VirtualMemoryProofs.** `FramesAreKeptAlways`, `BlocksIntactAlways`,
`SearchWithinTableAlways` and `ProgramIsMappedAlways`. All operations but the
creation of a directory are shown to be a gift of free frames to tables and pages
(`Gift`) or a loss (`Loss`), and the two lemmas `GiftKeeps` and `LossKeeps` carry
frames and owners through either; that a frame has one owner at most needs
nothing else. That none is lost needs more: a page that has a frame is busy, and
a busy page has a table and, but for the kernel's, a frame (`PagesAreWhole`), so
that a grant of pages that are not busy overwrites no frame and a roll-back that
uproots nothing clears none. The operations owe that what they ask for is no more
than there is (`InjectionExists`, `SupplyMeets`, `RankBounds`) and that a found
range lies inside the directory: `RangeIsInIndex`, an argument about what the
search takes for available from each place of a table. `Blocks` then follows the
blocks of each directory, one more, one less or all the same. The search is
right within a table because what it has counted when it comes to a later table
is at least what its first table had left (`BeforeCounts`). `ProgramIsMapped`
holds because a request for one page takes two (`PagesForAFrame`), and what lies
ahead of the loader is still free (`AheadIsFree`). Assumptions: `VmmAssumption`,
and `ProgramAssumption`: a program does not end with the last page of the address
space (with an odd number of pages its last page would have no frame).

**MemoryMapProofs.** `TypeCorrect`: in particular no descriptor ever gets a
negative length, through any sequence of overlap removals.
`FramesFitLongerRegionAlways`: after alignment every length is a multiple of the
frame size, and for such a length other than two frames the descriptors (rounded
up, with the extra unit) and the frames together fit into the region.
`MapIsSoundAlways`, and `RegionsAreSoundAlways` of BootProofs, which is the same
for the start as a whole: what the passes leave is free memory that is nobody
else's. The invariant (`MapInv`) has a part for each pass. The first three pick
entries out, once each and every one that can be addressed (`NothingLeftOut`), so
that a reserved entry is still there when its usable twin is compared with it
(`EntriesAreKept`). From then on every usable region lies in one of the firmware's
and apart from the others (`OnlyFreeMemory`), which cutting and aligning keep,
since both only leave parts of a region behind (`WithoutCuts`, `AlignedWithin`). What
has been cut so far is `RegionsAreCut`. The subtle part is the table itself:
`Initialize` takes room for it out of the regions while it may still grow. It grows
by one at most, because a region is cut in two only by something that lies inside
it, and then lies inside none (`Cuttable`); the room is for two entries more than
there are (`TableHasRoom`).

**TerminalProofs.** `TypeCorrect`, `CursorNearScreenAlways`, `LineIsEditedAlways`,
`EchoIsLineAlways`. Arithmetic lemmas about columns and lines (`ColumnFacts`,
`LineFacts`) bound the cursor, lemmas about each way to put a character
(`RaisedFacts` to `PutFacts`) lift that to the screen, and three invariants are
kept one after the other: the screen's, the line's, and the echo's, which needs
that a line echoed whole ends on the screen (`EchoFits`).

**PS2Proofs.** `KeyboardInvAlways`, and from it `LengthCountsUnreadAlways` and
`InputsAreTypedAlways`. The invariant has a part for the length (`Count`), which
holds whatever interrupts what, and a part for what has been read (`Faithful`),
which holds while no interrupt has fallen inside a read: the inputs reported, the
modifiers, the byte under way and the buffer together are what was typed, a key
being one byte or two, pressed or released. The lemmas say what one more key adds
to the sequence of bytes and to the count of Caps Lock.

`SetUpIsSoundAlways` is about the set-up and the calls behind it, for every
hardware, any number of keys, refused bytes and calls. Its invariant `SetUpInv` is
kept one part after the other, a lemma for each step of the driver, the controller
and the keyboard:

- `Known`, whatever happens: what remains of a call (`CallInv`); a configuration byte
  follows its command even when bytes are lost, so the controller takes
  no other byte for one (`Orderly`); and the driver waits only where it wrote a
  question (`Program`).
- `Untyped`, before a key is pressed: the controller's queue, its output register and
  what the keyboard has yet to send are together exactly the answers the driver is
  due (`InStep`). From it follow which bytes can be lost, why a set-up gives up
  (`Reasons`), and that the keyboard scans again after a call that was not refused too
  often (`ScanningComes`).
- `FirstSetUp`, whatever is typed until the first call has ended: the
  keyboard is told only to scan, to reset and to use set 2 (`FirstCommands`), the interrupt is on
  or about to be (`InterruptOn`), and unless a byte was lost translation is off
  (`TranslationOff`). The hard case is a configuration read while a key is taken for
  the answer: either the byte still to come has no translation, or it is queued
  ahead of RESET's answer (`Blocked`), and then the set-up is bound to fail (`Doomed`).

`HandlerSet`, `UseWrites`, `SendsKnown` and `TestTaken` say in which order the
handler, the writes and the self-test come. Assumptions: `KeyboardAssumption` and
`PS2Assumption`.

**BootProofs.** One theorem per stage, each from an inductive invariant of that
stage alone (`StageSteps`: a step is a step of the stage the behaviour is about).

- `TablesAreUsedAlways`: the walk has looked at every entry below the one it is
  at (`WalkIsThorough`), and each try for ACPI mode belongs to the block asked.
- `BusesAreWalkedAlways`: the calls on the stack and what they have still to look
  at are what is left to report. The places to come (`Pending`) are those ahead of
  each call and all those on the buses that the bridges among them lead to, where
  what a bus leads to is a least closed set (`Reach`), so that no path has to be
  followed. Looking at a place takes just that place out of them
  (`PlacePasses`, `BridgePasses`): for a bridge because in a tree its bus, once
  it is walked, is not led to by anything to come (`NothingLeadsBack`). No bus is
  another call's or comes again (`BusesApart`), and nothing reported is to come
  (`ReportIsApart`). That the buses reached level by level, as the property defines
  them, are that least set needs the order of a tree's numbers: bus *n* is found
  within *n* levels (`LevelsAreReached`). The stack is no deeper than there are buses
  because each call is on a higher one (`CallsClimb`).
- `LettersAreKeptAlways`: letter *n* was made for the *n*-th device when the list
  had *n* elements, so its pointer is good exactly if the list has not moved
  since (`LettersFollowList`).
- `TransfersAreSoundAlways` and `CommandsReachIdleDrivesAlways`: drive and driver
  keep step. `KeepsStep` says of every drive which command it can be at, and of
  the one selected how many sectors and words are left of it; `DriverKeepsStep`
  says how many words have been moved before this operation and in it. That the
  next word is the one wanted then follows from arithmetic: a transfer is cut
  into operations that add up (`OperationsAddUp`), a word's number divides into
  sector and place (`DivideByWords`), and the registers name the sector that was
  asked for in each way of addressing: `AddressIsKept`, for every 32-bit number
  with logical addresses and below 65536 cylinders without. A command is only
  given when no drive is at one, although the flag that is looked at is the flag
  of the drive selected before (`NoneIsBusy`).
- `ConfigurationIsReadAlways`: an element is where the skips over white space and
  the equals sign lead from its key (`IsElement`), which a value behind the text
  and a value of another line follow from. If the lines follow the templates, every
  line that starts before the place reached is an element (`LinesRead`): the parser
  comes to the first character of each (`NextLine`), and key and value end where
  the template says because a skip has one end (`PastIsOne`). At the end elements
  and lines are one to one.

Assumptions: `BootAssumption`, which says of the drives that they are ATA, ATAPI
or absent, of the numbers of sectors that a transfer ends within 32 bits, of
the firmware that its tables list entries of the kinds the walk tells apart, and
of a text that it consists of the four kinds of characters. Of a machine it says
that its registers name buses there can be and that what is not there reads as ones.

**ServicesProofs.** One theorem per part, again with an invariant of its own.

- `MemoryIsReturnedAlways` and `StrayWritesAreKnownAlways`: `ShellInv` says which
  part of a command and which step of a call go together (`ShellControl`); which
  strings, lists and copies there can be at each step (`HeldAt`), one frame each
  (`ObjectsHeld`); whose every other frame in use is, and that as many are lost
  and kept as the histories count (`FramesHeld`); and of the buffer to be read
  into that its pages are pairs of frames apart (`BufferHeld`). A call's memory
  changes only through `New`, `Delete` and `Rename`, so there is a lemma for each
  that says which objects it leaves in order (`InOrder`) and whose frames alone
  it touches (`Alike`), and from them one for each string operation that says
  that it loses just one frame (`LosesOne`: `SubStringLosesOne`, `CutLosesOne`,
  `ErasedLosesOne`, `SplitLosesOne`). A buffer's pages are new and apart
  (`AllocatedIsNew`); of pages that are apart no two are side by side, and what
  is written from the first on misses the buffer exactly when they are not
  two frames from each other (`SpreadIsWide`, `MissedAreKnown`).
- `ListsAreKeptAlways`: of an object that has lost nothing the block's first
  elements are the promised ones; of one that has, how it stands to its block since
  (`ListsInv`). Blocks without an owner are counted along.
- `BlocksAreHandledAlways`: units of four, two and one bytes make up a block
  (`UnitsMakeBlocks`, `UnitOfAddress`); a copy that goes upwards reads no byte it
  has written (`CopiedMovesBlock`).

Three lemmas stand in for induction here. Every non-empty set of numbers has a least
element (`LeastNumber`, from the library's well-founded order of the numbers), so a
set that has 0 and with each number the next has all of them (`UpTo`; `CountingUp` in
BootProofs), and a function that is defined step by step exists (`StepByStep`;
`LevelsExist`). With them what the
recursive functions `Allocated` and `Copied` compute is proved for every input.
Assumptions: `ServicesAssumption`, `CommandsAssumption`, and `FramesAssumption`:
there are the four frames of the path the thread starts with, and others hold
none of them.

Only model-checked: `PathsAreResolved`, and what is checked of `LiteFS` and its image builder. Liveness
properties are out of the prover's reach. The theorems of
MemoryMapProofs and UserModeCallsProofs are about the component's own specification
(`MemoryMap!Spec`, `UserModeCalls!Spec`), but for `TableIsRingAlways`; `Boot` and
`Tasks` let it run unchanged beside their other parts.

## 5. Findings

1. `keyboard_overflow` - the interrupt handler (`ps2-keyboard.cxx:216`) limits the
   length only when it is *greater* than `MaxBufferLength`; with a full buffer
   it writes `Buffer_[0x80]` of an array of 0x80 bytes and counts on. The window
   is open whenever nobody reads: a shell that computes while a key repeats.
2. `memory_map_underflow` - `GetRegionFramesCount` (`pmm.cxx:266`) of a region of
   exactly two frames is 0 - 1 modulo 2^32; `Initialize` would write that many
   descriptors. `FramesFitLongerRegion`, checked and proved, says that no other
   length goes wrong.

3. `terminal_overflow` - `PutChar` (`terminal.cxx:123`) writes the character before it
   looks whether the cursor is on the screen: after the last cell the next one is
   written to offset 0xFA0 of a buffer of that size, and never shown.

4. `litefs_ids` - the packing tool (`utils/lite-fs/source/lite-fs.cxx:37`) goes on
   numbering as if a directory had no objects below its entries. A directory
   `C` packed after `A/B/D` gets the identifier of `D`; the members of both then
   count as the members of either, and a path through `C` may lead into `D`.

## 6. Not modelled

- *PIT and virtual timer*: a counter that wraps and loops that wait for it. Their
  one caller with a bound is ACPI, whose tries are counted in `ACPI`; in `IDE`
  a sleep only passes time. The wrap of ticks is modelled in `Scheduler`.
- *CPU tables and exceptions*: descriptor encodings written once, and a screen
  that ends everything.
- *Boot loader*: real-mode code that is gone when the kernel starts. What it hands
  over is assumed by `MemoryMapAssumption` and `FirmwareMap`.
- *Functions nothing calls* and that would need a caller to be wrong:
  `ReallocateVirtualMemory`, `UnmapPages`, `FreeDirectory`,
  `ReadBufferFirstByte`, `Scheduler::Sleep`, `Terminal::ReadChar`, lookups of LiteFS
  by identifier.
- *Data*: contents of memory, colours, number formats, page-table encodings,
  the drive's model name. `MemoryUtils` and `List` are the exceptions.
- *What is behind an address that means nothing*: `VirtualMemory`, `Shell`,
  `Keyboard`, `ThreadTable` and `List` stop where memory is written or followed by
  mistake, and say when that happens.
- *Several stages at once*: the composites that put parts side by side assume
  that the code never runs two of them at a time. It does not: boot is
  sequential, the set-up of the keyboard is over before anybody reads from it,
  calls are not re-entered (proved as `CallsAreShielded`).
