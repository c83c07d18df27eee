----------------------------- MODULE LiteFSImage -----------------------------
(***************************************************************************)
(* The host tool that packs a directory into a LiteFS partition,           *)
(* utils/lite-fs/source/lite-fs.cxx: a walk that numbers the objects, and  *)
(* the partition written from the numbered list.                           *)
(*                                                                         *)
(* All structures take one sector, and places are counted in sectors from  *)
(* the partition's header.  A byte of a file is the pair of the file's     *)
(* path and the byte's position; a zero byte is the empty sequence.  Names *)
(* are shorter than the limits at which the tool cuts them.                *)
(***************************************************************************)
EXTENDS Integers, Sequences, SequencesExt, FiniteSets

CONSTANTS
  Trees,      \* the directories to pack: functions from the paths in them
  DataSize,   \* sizeof(DataChunk::Data)
  NextSize    \* sizeof(DataChunk::NextOffset)

(* A file the tool cannot open is packed as an empty one, and stands in the *)
(* tree as such.                                                            *)
Directory == [dir |-> TRUE, size |-> 0]
File(size) == [dir |-> FALSE, size |-> size]

IsTree(t) ==
  \A p \in DOMAIN t :
    /\ p \in Seq(UNION {Range(q) : q \in DOMAIN t}) \ {<<>>}
    /\ t[p] \in {Directory, File(t[p].size)} /\ t[p].size \in Nat
    /\ Len(p) > 1 => Front(p) \in DOMAIN t /\ t[Front(p)].dir

ASSUME LiteFSAssumption ==
  /\ DataSize \in Nat \ {0} /\ NextSize \in Nat
  /\ \A t \in Trees : IsTree(t)

RootID == 0
AlignUp(value, alignment) == value - (value % alignment) + alignment

VARIABLES
  tree,      \* the directory being packed
  calls,     \* the activations of GetFileSystemObjects, outermost first
  objects,   \* fsObjects, with the path of each
  written,   \* descriptors written so far
  free,      \* dataChunkOffset
  image      \* the partition: its sectors

imageVars == <<tree, calls, objects, written, free, image>>

EntriesOf(directory) == {p \in DOMAIN tree : Front(p) = directory}

-----------------------------------------------------------------------------
(* GetFileSystemObjects(dirPath, startID, parentID).  The order in which   *)
(* directory_iterator meets the entries is anybody's guess.                *)
Call(directory, startID, parentID, entry) ==
  [left |-> EntriesOf(directory), startID |-> startID, parentID |-> parentID,
   entry |-> entry]            \* entry: where the caller keeps the directory

Init ==
  /\ tree \in Trees
  /\ calls = <<Call(<<>>, 1, RootID, 0)>>
  /\ objects = <<>> /\ written = 0 /\ free = 0 /\ image = <<>>

Object(p, call) ==
  [path |-> p, id |-> call.startID, parent |-> call.parentID,
   dir |-> tree[p].dir, size |-> tree[p].size]

AddFile ==
  /\ calls # <<>>
  /\ LET top == Last(calls) IN
       \E p \in top.left :
         /\ ~tree[p].dir
         /\ objects' = Append(objects, Object(p, top))
         /\ calls' = [calls EXCEPT ![Len(calls)].left = @ \ {p},
                                   ![Len(calls)].startID = @ + 1]
  /\ UNCHANGED <<tree, written, free, image>>

EnterDirectory ==
  /\ calls # <<>>
  /\ LET top == Last(calls) IN
       \E p \in top.left :
         /\ tree[p].dir
         /\ objects' = Append(objects, Object(p, top))
         /\ calls' = Append([calls EXCEPT ![Len(calls)].left = @ \ {p}],
                            Call(p, top.startID + 1, top.startID, Len(objects) + 1))
  /\ UNCHANGED <<tree, written, free, image>>

(* Only the entries of the directory itself are counted, and the caller    *)
(* numbers on as if there were no others below them.                       *)
CountEntries(entry) ==
  Cardinality({i \in entry + 1 .. Len(objects) : objects[i].parent = objects[entry].id})

(* The directory's own identifier is not counted. *)
StartBehind_Mutant(startID, count) == startID + count

StartBehind(startID, count) == startID + count + 1

LeaveDirectory ==
  /\ Len(calls) > 1
  /\ LET top   == Last(calls)
         count == CountEntries(top.entry)
     IN  /\ top.left = {}
         /\ objects' = [objects EXCEPT ![top.entry].size = count]
         /\ calls' = [Front(calls) EXCEPT ![Len(calls) - 1].startID = StartBehind(@, count)]
  /\ UNCHANGED <<tree, written, free, image>>

-----------------------------------------------------------------------------
(* GeneratePartition.  AlignUp leaves a sector between the descriptors and *)
(* the data that nothing is written to.                                    *)
BeginPartition ==
  /\ Len(calls) = 1 /\ calls[1].left = {}
  /\ calls' = <<>>
  /\ image' = [s \in {0} |-> [is |-> "partition", entries |-> Len(objects), used |-> 0]]
  /\ free' = 1 + AlignUp(Len(objects), 1)
  /\ UNCHANGED <<tree, objects, written>>

TakenSectors(size) == AlignUp(size + NextSize, DataSize) \div DataSize

(* The stream is not moved on from one chunk to the next. *)
Position_Mutant(i, b) == b

Position(i, b) == (i - 1) * DataSize + b

Chunk(object, i) ==
  [is   |-> "data",
   data |-> [b \in 1 .. DataSize |->
               IF Position(i, b) <= object.size THEN <<object.path, Position(i, b)>> ELSE <<>>],
   next |-> IF object.size - (i - 1) * DataSize >= DataSize THEN 1 ELSE 0]

FirstDataChunkOffset(at) == free - at

Descriptor(object, at, taken) ==
  [is |-> "object", name |-> Last(object.path), id |-> object.id,
   parent |-> object.parent, dir |-> object.dir, size |-> object.size,
   taken |-> taken, first |-> IF object.dir THEN 0 ELSE FirstDataChunkOffset(at)]

WriteEntry ==
  /\ calls = <<>> /\ written < Len(objects)
  /\ LET at     == written + 1
         object == objects[at]
         taken  == IF object.dir THEN 0 ELSE TakenSectors(object.size)
         chunks == free .. free + taken - 1
     IN  /\ image' = [s \in DOMAIN image \cup {at} \cup chunks |->
                        IF s = at THEN Descriptor(object, at, taken)
                        ELSE IF s \in chunks THEN Chunk(object, s - free + 1)
                        ELSE image[s]]
         /\ free' = free + taken
  /\ written' = written + 1
  /\ UNCHANGED <<tree, calls, objects>>

UsedSectors == free - 1

EndPartition ==
  /\ calls = <<>> /\ written = Len(objects)
  /\ image[0].used = 0
  /\ image' = [image EXCEPT ![0].used = UsedSectors]
  /\ UNCHANGED <<tree, calls, objects, written, free>>

Built == calls = <<>> /\ image[0].used # 0

Build ==
  \/ AddFile \/ EnterDirectory \/ LeaveDirectory
  \/ BeginPartition \/ WriteEntry \/ EndPartition

-----------------------------------------------------------------------------
(* A directory numbered past too few: there are objects below its entries. *)
IsDeep(p) == \E q \in EntriesOf(p) : EntriesOf(q) # {}

(* Objects are told apart by their identifiers, except that those met      *)
(* after a directory with objects below its entries may repeat those of    *)
(* that directory: startID of GetFileSystemObjects goes past the entries   *)
(* only.                                                                   *)
IDsRepeatBehindDeepDirectories ==
  \A i, j \in DOMAIN objects :
    i < j /\ objects[i].id = objects[j].id
      => \E n \in 1 .. j - 1 :
           LET p == objects[n].path
           IN  /\ IsDeep(p)
               /\ IsPrefix(p, objects[i].path) /\ ~IsPrefix(p, objects[j].path)

(* The size kept for a directory is the number of objects that name it as  *)
(* their parent: "files count for directory", lite-fs.hxx.                 *)
CountIsMembers ==
  Built => \A s \in 1 .. Len(objects) :
    image[s].dir => image[s].size =
      Cardinality({t \in 1 .. Len(objects) : image[t].parent = image[s].id})
=============================================================================
