----------------------------- MODULE MemoryUtils -----------------------------
(***************************************************************************)
(* library/common/memory-utils.cxx: the three loops over blocks of memory  *)
(* everything else in the kernel is built on.  Each goes over its block in *)
(* units of four bytes, two or one, the width chosen from the count.       *)
(***************************************************************************)
EXTENDS Integers, FiniteSets

CONSTANTS
  Size,     \* of the memory under consideration
  Bytes     \* values of a byte

MemoryAssumption == Size \in Nat \ {0} /\ IsFiniteSet(Bytes)

VARIABLES
  memory,   \* memory[a]: the byte at address a
  call      \* history: the last call, its arguments and its result

vars == <<memory, call>>

Address == 0 .. Size - 1
Block(start, count) == start .. start + count - 1
Counts == 0 .. Size

(* (count & 7) = 4 or 0; then (count & 3) = 2 or 0. *)
Width(count) ==
  IF count % 8 = 4 \/ count % 8 = 0 THEN 4
  ELSE IF count % 4 = 2 \/ count % 4 = 0 THEN 2
  ELSE 1

Units(count) == count \div Width(count)

(* The unit i of a block. *)
Unit(start, count, i) == Block(start + i * Width(count), Width(count))

(* From the last unit to the first. *)
CopyOrder_Mutant(count, i) == Units(count) - i

CopyOrder(count, i) == i - 1

(* One unit after the other, each loaded and stored as a whole.            *)
Copied(destination, source, count) ==
  LET after[i \in 0 .. Units(count)] ==
        IF i = 0 THEN memory
        ELSE LET before == after[i - 1]
                 unit   == Unit(destination, count, CopyOrder(count, i))
             IN  [a \in Address |-> IF a \in unit THEN before[a - destination + source]
                                    ELSE before[a]]
  IN  after[Units(count)]

Copy(destination, source, count) ==
  /\ memory' = Copied(destination, source, count)
  /\ call' = [name |-> "Copy", first |-> destination, second |-> source,
              count |-> count, result |-> TRUE]

Filled(destination, count) ==
  UNION {Unit(destination, count, i) : i \in 0 .. Units(count) - 1}

Fill(destination, value, count) ==
  /\ memory' = [a \in Address |->
                  IF a \in Filled(destination, count) THEN value ELSE memory[a]]
  /\ call' = [name |-> "Fill", first |-> destination, second |-> value,
              count |-> count, result |-> TRUE]

(* In the loop over bytes second8 is initialised with first.               *)
SecondBlock(first, second, count) == IF Width(count) = 1 THEN first ELSE second

Equal(first, second, count) ==
  LET other == SecondBlock(first, second, count)
  IN  \A i \in 0 .. Units(count) - 1 :
        \A a \in Unit(first, count, i) : memory[a] = memory[a - first + other]

Compare(first, second, count) ==
  /\ call' = [name |-> "Compare", first |-> first, second |-> second,
              count |-> count, result |-> Equal(first, second, count)]
  /\ UNCHANGED memory

Init ==
  /\ memory \in [Address -> Bytes]
  /\ call = [name |-> "none", first |-> 0, second |-> 0, count |-> 0, result |-> TRUE]

(* Blocks lie inside the memory.  Every memory is an initial one, so that  *)
(* one call at a time is enough.                                           *)
Invoke ==
  /\ call.name = "none"
  /\ \E count \in Counts, first, second \in Address :
       /\ first + count <= Size
       /\ \/ /\ second + count <= Size
             /\ Copy(first, second, count) \/ Compare(first, second, count)
          \/ \E value \in Bytes : Fill(first, value, count)

Return ==
  /\ call.name # "none"
  /\ call' = [name |-> "none", first |-> 0, second |-> 0, count |-> 0, result |-> TRUE]
  /\ UNCHANGED memory

Next == Invoke \/ Return

Spec == Init /\ [][Next]_vars

-----------------------------------------------------------------------------
(* A copy moves the block unchanged and touches nothing else, also when    *)
(* the blocks overlap and the destination is the lower one: this is how    *)
(* the terminal scrolls.                                                   *)
CopyMovesBlock ==
  [][call'.name = "Copy" /\
     (call'.first <= call'.second \/ call'.second + call'.count <= call'.first)
       => \A a \in Address :
            memory'[a] = IF a \in Block(call'.first, call'.count)
                         THEN memory[a - call'.first + call'.second] ELSE memory[a]]_vars

(* Fill sets exactly the bytes asked for, whatever the width of its units. *)
FillSetsBlock ==
  [][call'.name = "Fill"
       => \A a \in Address :
            memory'[a] = IF a \in Block(call'.first, call'.count)
                         THEN call'.second ELSE memory[a]]_vars

SameBytes ==
  \A i \in 0 .. call.count - 1 : memory[call.first + i] = memory[call.second + i]

(* Compare tells blocks of an even length apart, and never calls two equal *)
(* ones different.  With an odd one it calls all blocks equal, though "@return *)
(* true if the data of the memory areas are equal, otherwise false".       *)
CompareKnowsEvenBlocks ==
  call.name = "Compare" =>
    /\ SameBytes => call.result
    /\ call.count % 2 = 0 => call.result = SameBytes
=============================================================================
