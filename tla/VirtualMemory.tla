---------------------------- MODULE VirtualMemory ----------------------------
(***************************************************************************)
(* The virtual memory manager, library/vmm/vmm.cxx: page directories,      *)
(* their tables, and blocks of pages found by first fit and ended by a     *)
(* Closing flag.  Pages are numbered through a directory, so that a page   *)
(* is a pair of table index and page index.                                *)
(*                                                                         *)
(* A frame stands for what one call of PMM::AllocatePhysicalMemory yields  *)
(* for a directory, a table or a page: all are 4096 bytes.  Which free     *)
(* frame that is, is the physical manager's choice; that it is free, and   *)
(* that a refusal means there is none, PhysicalMemory shows.  The manager  *)
(* switches paging off for its own duration, which UserModeCalls is about. *)
(***************************************************************************)
EXTENDS Typedefs, FiniteSets, Functions

CONSTANTS
  Directory,   \* the directories: the kernel's and those of threads
  Tables,      \* VMM::TablesCount
  Pages,       \* VMM::PagesCount
  Frame,       \* what the physical manager has to give
  NoFrame,
  NoTable,     \* a directory entry that has never had a table
  Stale,       \* an entry no longer Allocated that still names a table
  FrameSize,   \* PMM::FrameSize
  Requests,    \* the byte counts asked for
  Reserved,    \* the pages every directory maps: itself, the kernel, the screen
  Programs     \* [first, count]: the pages programs are loaded to

PageIndex  == 0 .. Tables * Pages - 1
TableIndex == 0 .. Tables - 1
TableOf(page) == page \div Pages

ASSUME VmmAssumption ==
  /\ Tables \in Nat \ {0} /\ Pages \in Nat \ {0} /\ FrameSize \in Nat \ {0}
  /\ IsFiniteSet(Frame) /\ NoFrame \notin Frame
  /\ NoTable \notin Frame /\ Stale \notin Frame /\ NoTable # Stale
  /\ Reserved \subseteq PageIndex
  /\ \A bytes \in Requests : bytes \in Nat /\ bytes + FrameSize < Word
  /\ 2 * FrameSize < Word

(* The loader's pages are not those of the kernel, and there is a page      *)
(* after them: programs are linked to 0x400000.                            *)
ASSUME ProgramAssumption == \A program \in Programs :
  /\ program.count \in Nat \ {0} /\ program.first \in Nat
  /\ program.first .. program.first + program.count - 1 \subseteq PageIndex \ Reserved
  /\ program.first + program.count \in PageIndex

VARIABLES
  used,      \* frames the physical manager has handed out
  root,      \* the frame of a directory, NoFrame before it is created
  table,     \* the frame of a directory's table, NoTable or Stale
  busy,      \* Busy: per directory, the pages taken
  closing,   \* Closing: the last pages of blocks
  backing,   \* the frame of a page whose Allocated is set, otherwise NoFrame
  loading,   \* the program being loaded, and its next page
  live,      \* history: blocks <<directory, first, last>> handed out, not released
  failed,    \* the last operation returned failure
  faults     \* history: what has gone wrong, see below

pageVars == <<busy, closing, backing>>
vars == <<used, root, table, pageVars, loading, live, failed, faults>>

(* "misuse"    a caller released an address that is no block of its own     *)
(* "overlap"   an allocation covered pages in use                           *)
(* "uprooted"  a failed allocation released a table others had pages in     *)
(* "starved"   memory ran out under AllocateVirtualMemoryToPage             *)
(* "wild"      memory was written through a table entry without a table     *)
Faults == {"misuse", "overlap", "uprooted", "starved", "wild"}

(* The model goes no further than a wild write. *)
Sane == "wild" \notin faults

-----------------------------------------------------------------------------
Free == Frame \ used

PagesFor(bytes) == AlignUp(bytes, FrameSize) \div FrameSize

(* Frames for a set of demands, different ones for different demands. *)
Supply(demands) == CHOOSE f \in [demands -> Free] : IsInjective(f)

HasTable(d, t) == table[d][t] \in Frame

Created(d) == root[d] # NoFrame

TablesOf(pages) == {TableOf(p) : p \in pages}
PagesOf(tables) == {p \in PageIndex : TableOf(p) \in tables}

Missing(d, pages) == {t \in TablesOf(pages) : ~HasTable(d, t)}

Frames(d, pages) == {backing[d][p] : p \in pages} \ {NoFrame}

(* Closing is not reset. *)
Cleared_ClosingMutant(d, pages) ==
  /\ busy'    = [busy    EXCEPT ![d] = @ \ pages]
  /\ backing' = [backing EXCEPT ![d] = [p \in PageIndex |-> IF p \in pages THEN NoFrame ELSE @[p]]]
  /\ UNCHANGED closing

(* Allocated is not reset. *)
Cleared_BackingMutant(d, pages) ==
  /\ busy'    = [busy    EXCEPT ![d] = @ \ pages]
  /\ closing' = [closing EXCEPT ![d] = @ \ pages]
  /\ UNCHANGED backing

(* The entries of a directory's pages after some have been zeroed. *)
Cleared(d, pages) ==
  /\ busy'    = [busy    EXCEPT ![d] = @ \ pages]
  /\ closing' = [closing EXCEPT ![d] = @ \ pages]
  /\ backing' = [backing EXCEPT ![d] = [p \in PageIndex |-> IF p \in pages THEN NoFrame ELSE @[p]]]

-----------------------------------------------------------------------------
(* The last page is not looked at. *)
IsFreeFrom_Mutant(d, first, count) ==
  /\ first + count - 1 \in PageIndex
  /\ first .. first + count - 2 \cap busy[d] = {}

(* One search of FindFreePagesBlockPageIndex, from page first on.  A table  *)
(* that exists is examined from the index of first in its own table on, in *)
(* the later tables too; one that does not exist counts as a whole.        *)
IsFreeFrom(d, first, count) ==
  LET start == first % Pages
      Before(t)   == LET some == TableOf(first) .. t - 1
                         have == {u \in some : HasTable(d, u)}
                     IN  Cardinality(have) * (Pages - start) + Cardinality(some \ have) * Pages
      Examined(t) == {p \in PagesOf({t}) : start <= p % Pages /\ p % Pages < start + count - Before(t)}
  IN  /\ Before(Tables) >= count
      /\ \A t \in TableOf(first) .. Tables - 1 :
           HasTable(d, t) => Examined(t) \cap busy[d] = {}

IsFirstFree(d, first, count) ==
  /\ IsFreeFrom(d, first, count)
  /\ \A p \in PageIndex : p < first => ~IsFreeFrom(d, p, count)

LastOf(first, count) == first + count - 1

(* Frames are asked for table by table, the table's own before its pages': *)
(* the number of those asked for up to a table's or a page's own.          *)
DemandsTo(d, range, pages, t) ==
  Cardinality(pages) + Cardinality({u \in Missing(d, range) : u <= t})

Filled(d, range) == {p \in range :
  DemandsTo(d, range, {q \in range : q <= p}, TableOf(p)) <= Cardinality(Free)}

Demands(d, range) ==
  {<<"table", t>> : t \in Missing(d, range)} \cup {<<"page", p>> : p \in range}

Grant(d, first, range) ==
  LET supply == Supply(Demands(d, range))
  IN  /\ used'  = used \cup {supply[x] : x \in Demands(d, range)}
      /\ table' = [table EXCEPT ![d] = [t \in TableIndex |->
                     IF t \in Missing(d, range) THEN supply[<<"table", t>>] ELSE @[t]]]
      /\ busy'    = [busy    EXCEPT ![d] = @ \cup range]
      /\ closing' = [closing EXCEPT ![d] = @ \cup {LastOf(first, Cardinality(range))}]
      /\ backing' = [backing EXCEPT ![d] = [p \in PageIndex |->
                     IF p \in range THEN supply[<<"page", p>>] ELSE @[p]]]
      /\ live' = live \cup {<<d, first, first + Cardinality(range) - 1>>}
      /\ failed' = FALSE
      /\ faults' = faults \cup (IF range \cap busy[d] # {} THEN {"overlap"} ELSE {})

(* What the roll-back gives back of what was used before: the frames of    *)
(* pages it had not come to fill, and the tables it has touched.           *)
Released(d, range, tables) ==
  {table[d][t] : t \in {u \in tables : HasTable(d, u)}} \cup Frames(d, range \ Filled(d, range))

(* Memory runs out at the first table whose demands cannot all be met: all *)
(* pages of the range are zeroed and the tables up to that one released.   *)
(* Where there never was a table the zeroes fall on the interrupt vectors  *)
(* of real mode at address 0, which nothing uses any more; where there was *)
(* one, on a frame that may be anybody's.                                  *)
RollBack(d, first, range) ==
  LET need(t)  == DemandsTo(d, range, {p \in range : TableOf(p) <= t}, t)
      last     == CHOOSE t \in TablesOf(range) :
                    /\ need(t) > Cardinality(Free)
                    /\ \A u \in TablesOf(range) : u < t => need(u) <= Cardinality(Free)
      touched  == {t \in TablesOf(range) : t <= last}
      made     == {t \in Missing(d, range) :
                     DemandsTo(d, range, {p \in range : TableOf(p) < t}, t) <= Cardinality(Free)}
      uprooted == \E t \in touched : HasTable(d, t) /\ PagesOf({t}) \cap busy[d] # {}
      wild     == \E t \in Missing(d, range) \ made : table[d][t] = Stale
  IN  /\ used'  = used \ Released(d, range, touched)
      /\ table' = [table EXCEPT ![d] = [t \in TableIndex |->
                     IF t \in touched /\ (HasTable(d, t) \/ t \in made) THEN Stale ELSE @[t]]]
      /\ Cleared(d, range \cup PagesOf(touched))
      /\ failed' = TRUE
      /\ faults' = faults \cup (IF range \cap busy[d] # {} THEN {"overlap"} ELSE {})
                          \cup (IF uprooted THEN {"uprooted"} ELSE {})
                          \cup (IF wild THEN {"wild"} ELSE {})
      /\ UNCHANGED live

AllocateVirtualMemory(d, bytes) ==
  LET count == PagesFor(bytes)
  IN  /\ Sane /\ Created(d)
      /\ \/ \E first \in PageIndex :
              LET range == first .. first + count - 1
              IN  /\ IsFirstFree(d, first, count)
                  /\ IF Cardinality(Demands(d, range)) <= Cardinality(Free)
                       THEN Grant(d, first, range)
                       ELSE RollBack(d, first, range)
         \/ /\ \A first \in PageIndex : ~IsFreeFrom(d, first, count)
            /\ failed' = TRUE
            /\ UNCHANGED <<used, table, pageVars, live, faults>>
      /\ UNCHANGED <<root, loading>>

-----------------------------------------------------------------------------
(* From page on, the first that ends a block; the search only goes on as   *)
(* long as there are tables.                                               *)
Closers(d, page) == {c \in closing[d] : page <= c /\ \A t \in TableOf(page) .. TableOf(c) : HasTable(d, t)}

EndsBlock(d, page, last) ==
  last \in Closers(d, page) /\ \A c \in Closers(d, page) : last <= c

(* Frees all pages up to that one, whatever they are. *)
FreeVirtualMemory(d, page) ==
  /\ Sane /\ Created(d)
  /\ \/ \E last \in PageIndex :
          /\ EndsBlock(d, page, last)
          /\ used' = used \ Frames(d, page .. last)
          /\ Cleared(d, page .. last)
          /\ failed' = FALSE
          /\ live' = live \ {<<d, page, last>>}
          /\ faults' = faults \cup (IF <<d, page, last>> \in live THEN {} ELSE {"misuse"})
     \/ /\ Closers(d, page) = {}
        /\ failed' = TRUE
        /\ UNCHANGED <<used, pageVars, live, faults>>
  /\ UNCHANGED <<root, table, loading>>

-----------------------------------------------------------------------------
(* AllocateVirtualMemoryToPage looks at the pages it wants table by table, *)
(* and creates the tables it comes to.  A busy page ends the search in its *)
(* table only; the pages not yet counted are then looked for in the next.  *)
(* Those it has counted when it comes to a table:                          *)
Counted(d, page, t) == {p \in PageIndex :
  page <= p /\ TableOf(p) < t /\ \A q \in page .. p : TableOf(q) = TableOf(p) => q \notin busy[d]}

Visited(d, page, count) ==
  {t \in TableOf(page) .. Tables - 1 : Cardinality(Counted(d, page, t)) < count}

(* Pages of a table that has just been made are not taken. *)
MayTake_Mutant(d, range) ==
  range \subseteq PageIndex \ busy[d] /\ \A p \in range : HasTable(d, TableOf(p))

MayTake(d, range) == range \subseteq PageIndex \ busy[d]

(* Tables first, then pages; where memory ends, what there is stays as it  *)
(* is.  Only a block that is complete is closed.                           *)
AllocateVirtualMemoryToPage(d, page, bytes) ==
  LET count  == PagesFor(bytes)
      range  == page .. page + count - 1
      lacked == {t \in Visited(d, page, count) : ~HasTable(d, t)}
      tables == {t \in lacked : Cardinality({u \in lacked : u <= t}) <= Cardinality(Free)}
      pages  == IF tables # lacked \/ ~MayTake(d, range) THEN {}
                ELSE {p \in range : Cardinality(tables) + p - page + 1 <= Cardinality(Free)}
      wanted == {<<"table", t>> : t \in tables} \cup {<<"page", p>> : p \in pages}
      supply == Supply(wanted)
  IN  /\ used'  = used \cup {supply[x] : x \in wanted}
      /\ table' = [table EXCEPT ![d] = [t \in TableIndex |->
                     IF t \in tables THEN supply[<<"table", t>>] ELSE @[t]]]
      /\ busy'    = [busy EXCEPT ![d] = @ \cup pages]
      /\ closing' = [closing EXCEPT ![d] = @ \cup (IF pages = range THEN {LastOf(page, count)} ELSE {})]
      /\ backing' = [backing EXCEPT ![d] = [p \in PageIndex |->
                     IF p \in pages THEN supply[<<"page", p>>] ELSE @[p]]]
      /\ failed'  = (pages # range)
      /\ live'    = live \cup (IF pages = range THEN {<<d, page, page + count - 1>>} ELSE {})
      /\ faults'  = faults \cup (IF tables # lacked \/ (pages # range /\ MayTake(d, range))
                                   THEN {"starved"} ELSE {})

Idle == [directory |-> NoFrame, program |-> [first |-> 0, count |-> 0], next |-> 0]

Busy == loading.next < loading.program.first + loading.program.count

(* LEF::CreateThread loads one program, at boot, when nothing but stack and *)
(* path has been allocated in its directory, far from the program's pages. *)
StartLoading(d, program) ==
  /\ Sane /\ Created(d) /\ loading = Idle
  /\ program.first .. program.first + program.count \cap busy[d] = {}
  /\ loading' = [directory |-> d, program |-> program, next |-> program.first]
  /\ UNCHANGED <<used, root, table, pageVars, live, failed, faults>>

(* Each page is asked for with a call of its own, whose result is ignored. *)
LoadPage ==
  /\ Sane /\ Busy
  /\ AllocateVirtualMemoryToPage(loading.directory, loading.next, FrameSize)
  /\ loading' = [loading EXCEPT !.next = @ + 1]
  /\ UNCHANGED root

-----------------------------------------------------------------------------
(* CreateDirectory and the MapPages that follow it at boot: whatever is     *)
(* allocated in between, the stack of a thread and its path, lies below    *)
(* the pages of the kernel.  A machine that cannot even hold the           *)
(* directories does not boot.                                              *)
CreateDirectory(d) ==
  LET tables == TablesOf(Reserved)
      wanted == {<<"table", t>> : t \in tables} \cup {<<"directory", d>>}
      supply == Supply(wanted)
  IN  /\ Sane /\ ~Created(d) /\ ~Busy
      /\ Cardinality(wanted) <= Cardinality(Free)
      /\ used'  = used \cup {supply[x] : x \in wanted}
      /\ root'  = [root EXCEPT ![d] = supply[<<"directory", d>>]]
      /\ table' = [table EXCEPT ![d] = [t \in TableIndex |->
                     IF t \in tables THEN supply[<<"table", t>>] ELSE NoTable]]
      /\ busy'  = [busy EXCEPT ![d] = Reserved]
      /\ failed' = FALSE
      /\ UNCHANGED <<closing, backing, loading, live, faults>>

Init ==
  /\ used = {}
  /\ root    = [d \in Directory |-> NoFrame]
  /\ table   = [d \in Directory |-> [t \in TableIndex |-> NoTable]]
  /\ busy    = [d \in Directory |-> {}]
  /\ closing = [d \in Directory |-> {}]
  /\ backing = [d \in Directory |-> [p \in PageIndex |-> NoFrame]]
  /\ loading = Idle
  /\ live = {} /\ failed = FALSE /\ faults = {}

Next ==
  \/ \E d \in Directory : CreateDirectory(d)
  \/ \E d \in Directory, program \in Programs : StartLoading(d, program)
  \/ LoadPage
  \/ \E d \in Directory, bytes \in Requests : ~Busy /\ AllocateVirtualMemory(d, bytes)
  \/ \E d \in Directory, page \in PageIndex : ~Busy /\ FreeVirtualMemory(d, page)

Spec == Init /\ [][Next]_vars

-----------------------------------------------------------------------------
TypeOK ==
  /\ used \subseteq Frame
  /\ root    \in [Directory -> Frame \cup {NoFrame}]
  /\ table   \in [Directory -> [TableIndex -> Frame \cup {NoTable, Stale}]]
  /\ busy    \in [Directory -> SUBSET PageIndex]
  /\ closing \in [Directory -> SUBSET PageIndex]
  /\ backing \in [Directory -> [PageIndex -> Frame \cup {NoFrame}]]
  /\ live \subseteq Directory \X PageIndex \X PageIndex
  /\ failed \in BOOLEAN /\ faults \subseteq Faults

(* What refers to a frame. *)
Owners ==
  {<<"directory", d, 0>> : d \in {e \in Directory : Created(e)}}
    \cup {<<"table", d, t>> : d \in Directory, t \in TableIndex}
    \cup {<<"page", d, p>> : d \in Directory, p \in PageIndex}

FrameOf(o) ==
  CASE o[1] = "directory" -> root[o[2]]
    [] o[1] = "table"     -> table[o[2]][o[3]]
    [] o[1] = "page"      -> backing[o[2]][o[3]]

Owning == {o \in Owners : FrameOf(o) \in Frame}

(* Every frame in use has one owner at most - a directory, a table, or a   *)
(* page of one address space - and nothing owns a frame that was given     *)
(* back.  This holds whatever addresses callers release and however often  *)
(* memory runs out.                                                        *)
FramesNotShared ==
  /\ \A o \in Owning : FrameOf(o) \in used
  /\ \A o, p \in Owning : o # p => FrameOf(o) # FrameOf(p)

(* No frame is lost, but when a block overlaps another or a failed         *)
(* allocation releases a table with pages of others in it.                 *)
NoFrameLost == faults \cap {"overlap", "uprooted"} = {} =>
  \A f \in used : \E o \in Owning : FrameOf(o) = f

(* What a frame is used for is known and is one thing.                     *)
FramesAreKept == TypeOK /\ FramesNotShared /\ NoFrameLost

BlockPages(b) == b[2] .. b[3]

LiveIn(d) == {b \in live : b[1] = d}

(* As long as nothing has gone wrong, an address space consists of the     *)
(* kernel's pages and of blocks that do not overlap, each of them with a   *)
(* table and a frame for every page and closed at its end and nowhere else, *)
(* so that a release finds its end.                                        *)
BlocksIntact == faults = {} => \A d \in Directory : Created(d) =>
  /\ \A b, c \in LiveIn(d) : b # c => BlockPages(b) \cap BlockPages(c) = {}
  /\ closing[d] = {b[3] : b \in LiveIn(d)}
  /\ {p \in PageIndex : backing[d][p] # NoFrame} = UNION {BlockPages(b) : b \in LiveIn(d)}
  /\ busy[d] = Reserved \cup UNION {BlockPages(b) : b \in LiveIn(d)}
  /\ \A p \in busy[d] : HasTable(d, TableOf(p))

(* Within a table the search is right: when as many free pages as asked    *)
(* for lie in one table it finds some, and what it finds in one table is   *)
(* free.  Across tables it is neither, see the fault "overlap".            *)
SearchWithinTable ==
  \A d \in Directory, bytes \in Requests : Created(d) =>
    LET count     == PagesFor(bytes)
        Run(f)    == f .. f + count - 1
        InTable(f) == Run(f) \subseteq PagesOf({TableOf(f)})
        IsFree(f) == Run(f) \cap busy[d] = {}
    IN  /\ (\E f \in PageIndex : InTable(f) /\ IsFree(f)) => \E f \in PageIndex : IsFreeFrom(d, f, count)
        /\ \A f \in PageIndex : InTable(f) /\ IsFirstFree(d, f, count) => IsFree(f)

(* Every page of a program has a frame by the time it is copied, although  *)
(* every other call of the loader fails: the calls ask for FrameSize       *)
(* bytes, and AlignUp makes two pages of them.                             *)
ProgramIsMapped ==
  [][Busy /\ loading'.next = loading.next + 1 /\ "starved" \notin faults'
       => backing'[loading.directory][loading.next] # NoFrame]_vars
=============================================================================
