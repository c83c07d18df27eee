-------------------------------- MODULE LiteFS --------------------------------
(***************************************************************************)
(* The kernel's reader of LiteFS, library/lite-fs/lite-fs.cxx, on the      *)
(* partition that LiteFSImage packs: descriptors and files looked up by    *)
(* path, and directories listed by an iterator the caller keeps.           *)
(*                                                                         *)
(* Nothing writes to the disk, so a call is one step.  Every read of a     *)
(* sector may fail, and what a call does then is up to that call.  A read  *)
(* is named by the loop it is in and its place: a pair <<loop, place>>;    *)
(* loop 0 reads the two headers.                                           *)
(***************************************************************************)
EXTENDS LiteFSImage

CONSTANTS
  PartitionName,
  NameLength(_),  \* of a name, in bytes
  Paths,          \* what the functions are called with, split at the slashes
  Offsets, Counts,
  None,           \* no descriptor, and WRONG_INDEX
  Root            \* the directory of the partitions

VARIABLES
  iterator,   \* the caller's DirectoryIterator
  listed,     \* history: of the objects reported by it: the place of the
              \* directory, the places of the objects, whether all reads
              \* succeeded and whether the end has been reported
  answer      \* history: the last call and its result

readerVars == <<iterator, listed, answer>>
vars == <<imageVars, readerVars>>

FSHeader == <<0, -1>>
Header   == <<0, 0>>           \* the partition's
Entries  == 1 .. image[0].entries

(* Which reads of a call fail: at most one.  After the loops over the names *)
(* of a path comes the one over the chunks of the file.                    *)
Failing(reads) == {{}} \cup {{read} : read \in {FSHeader, Header} \cup reads}
LookupFailures(path) == Failing((1 .. Len(path)) \X Entries)
ReadFailures(path)   == Failing((1 .. Len(path)) \X Entries \cup {Len(path) + 1} \X (DOMAIN image))

(* An iterator nobody has created has no known contents; the callers do    *)
(* not use one.                                                            *)
InitReader ==
  /\ iterator = [partition |-> None, directory |-> RootID, offset |-> 0, left |-> 0]
  /\ listed = [of |-> None, objects |-> <<>>, clean |-> TRUE, ended |-> FALSE]
  /\ answer = [call |-> "none"]

-----------------------------------------------------------------------------
(* Any two names of the same odd length are the same to String::operator== *)
(* (common/string.cxx), because of MemoryUtils::Compare: see MemoryUtils.  *)
Same(a, b) == NameLength(a) = NameLength(b) /\ (NameLength(a) % 2 = 1 \/ a = b)

(* The loops the three functions with a path have in common. *)
Hits(loop, parent, name, bad) ==
  {s \in Entries :
     /\ <<loop, s>> \notin bad /\ image[s].parent = parent
     /\ Same(name, image[s].name)}

Entered(s) == [parent |-> image[s].id, found |-> TRUE, ok |-> TRUE]

(* The check of objectFound is forgotten. *)
Missed_Mutant(walk) == walk

Missed(walk) == [walk EXCEPT !.ok = walk.found]

(* All but the last name: objectFound is not reset from one to the next.   *)
Walk(path, bad) ==
  LET walk[n \in 1 .. Len(path) - 1] ==
        IF n = 1 THEN [parent |-> RootID, found |-> FALSE, ok |-> TRUE]
        ELSE LET before == walk[n - 1]
                 hits   == Hits(n, before.parent, path[n], bad)
             IN  IF ~before.ok THEN before
                 ELSE IF hits = {} THEN Missed(before)
                 ELSE Entered(Min(hits))
  IN  walk[Len(path) - 1]

HeadersRead(bad) == {FSHeader, Header} \cap bad = {}

(* Where the descriptor of a path in the partition is found, if it is.     *)
Found(path, accepted, bad) ==
  LET walk == Walk(path, bad)
      hits == Hits(Len(path), walk.parent, path[Len(path)], bad) \cap accepted
  IN  IF ~HeadersRead(bad) \/ ~Same(path[1], PartitionName) \/ ~walk.ok \/ hits = {}
      THEN None ELSE Min(hits)

(* A partition's descriptor is made up: its entries are counted.           *)
EntriesOfRoot(bad) ==
  Cardinality({s \in Entries : <<1, s>> \notin bad /\ image[s].parent = RootID})

Answer(call, path, bad, at, size) ==
  [call |-> call, path |-> path, clean |-> bad = {}, at |-> at, size |-> size]

GetObjectDescriptor(path, bad) ==
  /\ answer' =
       IF path = <<>>
       THEN IF FSHeader \in bad THEN Answer("descriptor", path, bad, None, 0)
            ELSE Answer("descriptor", path, bad, Root, IF Header \in bad THEN 0 ELSE 1)
       ELSE IF Len(path) = 1
       THEN IF ~HeadersRead(bad) \/ ~Same(path[1], PartitionName)
            THEN Answer("descriptor", path, bad, None, 0)
            ELSE Answer("descriptor", path, bad, 0, EntriesOfRoot(bad))
       ELSE LET at == Found(path, Entries, bad)
            IN  Answer("descriptor", path, bad, at, IF at = None THEN 0 ELSE image[at].size)
  /\ UNCHANGED <<iterator, listed>>

-----------------------------------------------------------------------------
(* CreateDirectoryIterator leaves the iterator alone when it finds nothing. *)
CreateDirectoryIterator(path, bad) ==
  LET Create(partition, directory, offset, left) ==
        /\ iterator' = [partition |-> partition, directory |-> directory,
                        offset |-> offset, left |-> left]
        /\ listed' = [of |-> IF partition = None THEN Root ELSE offset,
                      objects |-> <<>>, clean |-> bad = {}, ended |-> FALSE]
      directories == {s \in Entries : image[s].dir}
      at == Found(path, directories, bad)
  IN  /\ answer' = [call |-> "none"]
      /\ \/ path = <<>> /\ FSHeader \notin bad /\ Create(None, None, 0, 0)
         \/ /\ Len(path) = 1 /\ HeadersRead(bad) /\ Same(path[1], PartitionName)
            /\ Create(1, RootID, 0, EntriesOfRoot(bad))
         \/ /\ Len(path) > 1 /\ at # None
            /\ Create(1, image[at].id, at, image[at].size)

(* From the last one reported, which is the first again. *)
Behind_Mutant == iterator.offset .. iterator.offset + image[0].entries - 1

(* The descriptors behind the last one reported; the loop is bounded by    *)
(* the number of all descriptors and so may run into what is behind them,  *)
(* which may look like an object of the directory or not: stray.           *)
Behind == iterator.offset + 1 .. iterator.offset + image[0].entries

Candidates(bad, stray) ==
  {s \in Behind :
     /\ <<1, s>> \notin bad
     /\ IF s \in Entries THEN image[s].parent = iterator.directory ELSE s \in stray}

GetNextObjectInformation(bad) ==
  /\ listed.of # None
  /\ answer' = [call |-> "none"]
  /\ LET End == /\ listed' = [listed EXCEPT !.clean = @ /\ bad = {}, !.ended = TRUE]
                /\ UNCHANGED iterator
         Report(s) == listed' = [listed EXCEPT !.objects = Append(@, s),
                                               !.clean = @ /\ bad = {}]
     IN  IF iterator.partition = None
         THEN IF iterator.left < 1 /\ HeadersRead(bad)
              THEN Report(0) /\ iterator' = [iterator EXCEPT !.left = @ + 1]
              ELSE End
         ELSE IF iterator.left = 0 \/ ~HeadersRead(bad) THEN End
         ELSE \E stray \in SUBSET (Behind \ Entries) :
                LET candidates == Candidates(bad, stray)
                IN  IF candidates = {} THEN End
                    ELSE /\ Report(Min(candidates))
                         /\ iterator' = [iterator EXCEPT !.offset = Min(candidates),
                                                         !.left = @ - 1]

-----------------------------------------------------------------------------
(* ReadFile.  chain[i]: where chunk i of the file is.                      *)
ReadFile(path, offset, bytesCount, bad) ==
  LET at    == IF Len(path) < 2 THEN None ELSE Found(path, Entries, bad)
      size  == image[at].size
      count == IF bytesCount = 0 \/ offset + bytesCount > size
               THEN size - offset ELSE bytesCount
      start == offset \div DataSize
      skip  == offset % DataSize
      last  == (offset + count - 1) \div DataSize
      chain[i \in 0 .. image[at].taken] ==
        IF i = 0 THEN at + image[at].first ELSE chain[i - 1] + image[chain[i - 1]].next
      needed == IF count = 0 THEN 0 .. start - 1 ELSE 0 .. last
      buffer == [b \in 1 .. IF count = 0 THEN 0 ELSE (last + 1 - start) * DataSize - skip |->
                   LET position == offset + b - 1
                   IN  image[chain[position \div DataSize]].data[(position % DataSize) + 1]]
      Failed == /\ answer' = [call |-> "none"]
                /\ UNCHANGED <<iterator, listed>>
  IN  IF at = None THEN Failed
      ELSE /\ offset <= size     \* no caller asks for more
           /\ IF start >= image[at].taken \/ \E i \in needed : <<Len(path) + 1, chain[i]>> \in bad
              THEN Failed
              ELSE /\ answer' = Answer("read", path, bad, at, count) @@
                                  [buffer |-> buffer, offset |-> offset]
                   /\ UNCHANGED <<iterator, listed>>

-----------------------------------------------------------------------------
(* The calls share the disk only.  To keep the states few, an iterator is  *)
(* not created before the answer of a call has been taken, and no path is  *)
(* looked up while there is an iterator.                                   *)
Idle == Built /\ answer.call = "none"

LookUp ==
  /\ Idle /\ listed.of = None
  /\ \E path \in Paths :
       \/ \E bad \in LookupFailures(path) : GetObjectDescriptor(path, bad)
       \/ \E bad \in ReadFailures(path), offset \in Offsets, bytesCount \in Counts :
            ReadFile(path, offset, bytesCount, bad)

List ==
  /\ Idle
  /\ \/ \E path \in Paths : \E bad \in LookupFailures(path) : CreateDirectoryIterator(path, bad)
     \/ \E bad \in Failing({1} \X Behind) : GetNextObjectInformation(bad)

TakeAnswer ==
  /\ answer.call # "none" /\ answer' = [call |-> "none"]
  /\ UNCHANGED <<iterator, listed>>

LiteFSInit == Init /\ InitReader
LiteFSNext ==
  \/ Build /\ UNCHANGED readerVars
  \/ (LookUp \/ List \/ TakeAnswer) /\ UNCHANGED imageVars
Spec == LiteFSInit /\ [][LiteFSNext]_vars

-----------------------------------------------------------------------------
TypeOK ==
  /\ \A n \in DOMAIN objects :
       objects[n].path \in DOMAIN tree /\ objects[n].id > objects[n].parent
  /\ Built => /\ DOMAIN image \cup {Len(objects) + 1} = 0 .. free - 1
              /\ image[0].used = free - 1 /\ image[0].entries = Cardinality(DOMAIN tree)
  /\ iterator.partition \in {None, 1} /\ iterator.left \in Nat
  /\ listed.of \in {None, Root} \cup 0 .. Len(objects)
  /\ answer.call \in {"none", "descriptor", "read"}

IDsApart == \A i, j \in DOMAIN objects : objects[i].id = objects[j].id => i = j

Looked == answer.call # "none" /\ Len(answer.path) > 1

SamePath(a, b) == Len(a) = Len(b) /\ \A i \in DOMAIN a : Same(a[i], b[i])

(* No directory on the way to an object has two names that are the same    *)
(* to the reader.                                                          *)
IsUnmistakable(s) ==
  \A t \in DOMAIN objects : \A n \in DOMAIN objects[s].path :
    SamePath(objects[t].path, SubSeq(objects[s].path, 1, n))
      => IsPrefix(objects[t].path, objects[s].path)

(* A path that is there is found, and found at its own descriptor, unless  *)
(* a read fails, the packing tool has given two objects one identifier or  *)
(* the names do not tell them apart.                                       *)
LookupFindsPath ==
  Looked /\ answer.clean /\ IDsApart /\ Same(answer.path[1], PartitionName) =>
    \A s \in DOMAIN objects :
      objects[s].path = Tail(answer.path) /\ IsUnmistakable(s) => answer.at = s

(* What is found is on the path: names in the middle may have been passed  *)
(* over, since objectFound stays set, or since a read failed, but never    *)
(* the first or the last; and a name of odd length may be another.         *)
LookupSkipsOnlyMiddle ==
  Looked /\ answer.at # None /\ IDsApart =>
    LET path  == Tail(answer.path)
        found == objects[answer.at].path
    IN  \E at \in [DOMAIN found -> DOMAIN path] :
          /\ \A i, j \in DOMAIN found : i < j => at[i] < at[j]
          /\ \A i \in DOMAIN found : Same(found[i], path[at[i]])
          /\ at[1] = 1 /\ at[Len(found)] = Len(path)

(* Paths lead to objects that are there: what there is is found, and what  *)
(* is found is on the path, with the exceptions above.                     *)
LookupsAreKnown == TypeOK /\ LookupFindsPath /\ LookupSkipsOnlyMiddle

(* What was read is the part of the file that was asked for, and what is   *)
(* written to the buffer behind it is less than a chunk: ReadFile copies   *)
(* whole chunks.                                                           *)
ReadReturnsFile ==
  answer.call = "read" =>
    /\ \A b \in 1 .. answer.size :
         answer.buffer[b] = <<objects[answer.at].path, answer.offset + b>>
    /\ Len(answer.buffer) < answer.size + DataSize

Members(of) ==
  {s \in DOMAIN objects :
     Front(objects[s].path) = IF of = 0 THEN <<>> ELSE objects[of].path}

(* An iterator reports the entries of its directory in their order, each   *)
(* once, and all of them before it reports the end; after a failed read    *)
(* still none twice and no more than there are.                            *)
ListingIsDirectory ==
  listed.of \in Nat =>
    LET reported == Range(listed.objects)
        members  == Members(listed.of)
    IN  /\ \A i, j \in DOMAIN listed.objects :
              i < j => listed.objects[i] < listed.objects[j]
        /\ Len(listed.objects) <= Cardinality(members)
        /\ listed.clean =>
             /\ reported \subseteq members
             /\ \A s \in members : listed.ended \/ (\E r \in reported : s < r) => s \in reported
=============================================================================
