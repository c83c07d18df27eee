-------------------------------- MODULE List --------------------------------
(***************************************************************************)
(* The growing array of library/common/list.hxx: a block of memory for a   *)
(* multiple of CountAllocate elements, ElementsCount_ of them in use.      *)
(*                                                                         *)
(* A list is a record of its block (0 is the null pointer), what lies in   *)
(* the block, and the two counts.  What is read behind the end of a block  *)
(* is Garbage, what is written there is lost.  Places count from 1,        *)
(* indexes, as in the code, from 0.  The lists are those made with paging  *)
(* off, as the file services' are: only then does operator new refuse with *)
(* the null pointer the list looks for.                                    *)
(***************************************************************************)
EXTENDS Integers, Sequences, FiniteSets

CONSTANTS
  Objects,         \* the List objects there may be at a time
  Values,          \* what is put into lists
  CountAllocate,   \* List::CountAllocate, 10
  MaxBlocks,       \* how many blocks of memory there are
  MaxElements      \* bound: nothing is added when the lists have so many

ListAssumption == CountAllocate \in Nat \ {0} /\ MaxBlocks \in Nat /\ MaxElements \in Nat

VARIABLES
  lists,         \* the objects; NoList where none is
  live,          \* the blocks that are allocated
  promised,      \* history: the elements the callers believe to be in each
  spoilt,        \* history: the objects that have lost an element they
                 \* were to keep; the model goes no further then
  overwritten    \* history: how often an object with a block was assigned to

vars == <<lists, live, promised, spoilt, overwritten>>

Seqs == INSTANCE SequencesExt

Null == 0
Garbage == "garbage"
NoList == [block |-> Null, data |-> <<>>, count |-> 0, allocated |-> 0]

-----------------------------------------------------------------------------
(* What the operations do to one list. *)

At(list, place) == IF place \in DOMAIN list.data THEN list.data[place] ELSE Garbage

(* The list with another block, its first elements copied there. *)
Moved(list, block, size) ==
  [list EXCEPT !.block = block, !.allocated = size,
               !.data = [p \in 1 .. size |-> IF p <= list.count THEN At(list, p) ELSE Garbage]]

IsFull(list) == list.count = list.allocated

Grown(list, block) == Moved(list, block, list.allocated + CountAllocate)

(* From the last one down to the index each element moves up by one. *)
Inserted(list, value, index) ==
  [list EXCEPT !.count = @ + 1,
               !.data = [p \in DOMAIN @ |-> IF p = index + 1 THEN value
                                            ELSE IF p \in index + 2 .. list.count + 1 THEN @[p - 1]
                                            ELSE @[p]]]

(* The last place too, from the one behind it. *)
ClosedUp_Mutant(list, index) ==
  [list EXCEPT !.data = [p \in DOMAIN @ |-> IF p \in index + 2 .. list.count - 1 THEN At(list, p + 1) ELSE @[p]]]

(* The elements behind the index move down by one; the last stays, too. *)
ClosedUp(list, index) ==
  [list EXCEPT !.data = [p \in DOMAIN @ |-> IF p \in index + 1 .. list.count - 1 THEN At(list, p + 1) ELSE @[p]]]

Shrinks(list) == list.count % (CountAllocate + 1) = 0

Shrunk(list, block) == Moved(list, block, list.allocated - CountAllocate)

(* What is left behind the last element is never read. *)
OneLess(list) == Moved([list EXCEPT !.count = @ - 1], list.block, list.allocated)

-----------------------------------------------------------------------------
Free == 1 .. MaxBlocks \ live
Elements == UNION {{object} \X DOMAIN promised[object] : object \in Objects}

(* A new block, or the null pointer. *)
MayAllocate(block) ==
  \/ block = Null
  \/ block \in Free /\ \A other \in Free : block <= other

Outgrown(list) == list.count > Len(list.data)

(* The object becomes a list, with the elements its caller then expects. *)
Becomes(object, list, elements) ==
  /\ lists' = [lists EXCEPT ![object] = list]
  /\ promised' = [promised EXCEPT ![object] = elements]
  /\ spoilt' = IF Outgrown(list) THEN spoilt \cup {object} ELSE spoilt

Exists(object) == lists[object] # NoList

Construct(object) ==
  /\ ~Exists(object)
  /\ \E block \in Free :
       /\ MayAllocate(block) /\ live' = live \cup {block}
       /\ Becomes(object, Moved(NoList, block, CountAllocate), <<>>)
  /\ UNCHANGED overwritten

(* Append, which is Insert behind the last element, and Insert.  Without   *)
(* memory they return false and change nothing.                            *)
Insert(object) == LET list == lists[object] IN
  /\ list.block # Null /\ Cardinality(Elements) < MaxElements
  /\ \E value \in Values, index \in 0 .. list.count :
       LET elements == Seqs!InsertAt(promised[object], index + 1, value) IN
       IF IsFull(list)
       THEN \E block \in Free :
              /\ MayAllocate(block) /\ live' = (live \cup {block}) \ {list.block}
              /\ Becomes(object, Inserted(Grown(list, block), value, index), elements)
       ELSE Becomes(object, Inserted(list, value, index), elements) /\ UNCHANGED live
  /\ UNCHANGED overwritten

(* Without memory Remove returns false, when it has already closed up.     *)
Remove(object) == LET list == lists[object] IN
  /\ list.block # Null
  /\ \E index \in 0 .. list.count - 1 :
       LET closed == ClosedUp(list, index)
           elements == Seqs!RemoveAt(promised[object], index + 1)
       IN IF ~Shrinks(list)
          THEN Becomes(object, OneLess(closed), elements) /\ UNCHANGED live
          ELSE \/ \E block \in Free :
                    /\ MayAllocate(block) /\ live' = (live \cup {block}) \ {list.block}
                    /\ Becomes(object, OneLess(Shrunk(closed, block)), elements)
               \/ /\ lists' = [lists EXCEPT ![object] = closed]
                  /\ spoilt' = spoilt \cup {object}
                  /\ UNCHANGED <<live, promised>>
  /\ UNCHANGED overwritten

(* The old block is overwritten, not freed; without memory the counts stay *)
(* and the block is gone.                                                  *)
AssignFrom(object, values) ==
  /\ \E block \in Free \cup {Null} :
       /\ MayAllocate(block)
       /\ IF block = Null
          THEN /\ lists' = [lists EXCEPT ![object].block = Null, ![object].data = <<>>]
               /\ spoilt' = spoilt \cup {object}
               /\ UNCHANGED <<live, promised>>
          ELSE /\ live' = live \cup {block}
               /\ lists' = [lists EXCEPT ![object] = Moved(lists[values], block, lists[values].allocated)]
               /\ promised' = [promised EXCEPT ![object] = promised[values]]
               /\ UNCHANGED spoilt
  /\ overwritten' = overwritten + IF lists[object].block = Null THEN 0 ELSE 1

(* The assignment and, to an object that is not there yet, the copy        *)
(* constructor.                                                            *)
Assign == \E object, values \in Objects : object # values /\ Exists(values) /\ AssignFrom(object, values)

Freed(list) == IF list.allocated > 0 THEN {list.block} \ {Null} ELSE {}

Destroy(object) ==
  /\ Exists(object)
  /\ live' = live \ Freed(lists[object])
  /\ Becomes(object, NoList, <<>>)
  /\ UNCHANGED overwritten

-----------------------------------------------------------------------------
Init ==
  /\ lists = [object \in Objects |-> NoList] /\ live = {}
  /\ promised = [object \in Objects |-> <<>>]
  /\ spoilt = {} /\ overwritten = 0

Next ==
  /\ spoilt = {}
  /\ \/ \E object \in Objects : Construct(object) \/ Insert(object) \/ Remove(object) \/ Destroy(object)
     \/ Assign

Spec == Init /\ [][Next]_vars

-----------------------------------------------------------------------------
TypeOK == \A object \in Objects :
  /\ lists[object].count \in Nat /\ lists[object].allocated \in Nat
  /\ lists[object].block \in live \cup {Null}
  /\ lists[object].block # Null => Len(lists[object].data) = lists[object].allocated

(* A list that has not lost an element holds exactly what was put in and   *)
(* not taken out, in its order, whatever blocks it has moved through.      *)
ContentsArePromised == \A object \in Objects \ spoilt :
  /\ lists[object].count = Len(promised[object])
  /\ \A p \in 1 .. lists[object].count : At(lists[object], p) = promised[object][p]

(* An element is lost only by an assignment without memory, by a removal   *)
(* to which a smaller block is refused, or by one that shrinks a list of   *)
(* more elements than fit into that block: those of at least twice         *)
(* CountAllocate + 1.  Shorter lists shrink without a loss.                *)
LossesComeFromShrinking == \A object \in spoilt : LET list == lists[object] IN
  \/ list.block = Null
  \/ list.count % (CountAllocate + 1) = 0
  \/ Outgrown(list) /\ list.count + 1 >= 2 * (CountAllocate + 1)

(* No two objects have one block, and every block belongs to an object,    *)
(* but for one block for each assignment to an object that had one.        *)
BlocksAreOwned ==
  /\ \A object, other \in Objects :
       object # other /\ lists[object].block # Null => lists[object].block # lists[other].block
  /\ Cardinality(live \ {lists[object].block : object \in Objects}) = overwritten
=============================================================================
