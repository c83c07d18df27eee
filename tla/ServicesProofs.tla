--------------------------- MODULE ServicesProofs ---------------------------
(***************************************************************************)
(* Proofs about Services.                                                  *)
(***************************************************************************)
EXTENDS Services, FiniteSetTheorems, SequenceTheorems, WellFoundedInduction, TLAPS

-----------------------------------------------------------------------------
(* What can lie in a list, and the records that stand for lists. *)
Contents == Values \cup {Lists!Garbage}

ListRecord == [block : Nat, data : Seq(Contents), count : Nat, allocated : Nat]

(* A list that has kept the elements. *)
Holds(list, elements) ==
  /\ list \in ListRecord /\ list.block # 0
  /\ Len(list.data) = list.allocated
  /\ \E k \in Nat \ {0} : list.allocated = k * CountAllocate
  /\ list.count <= list.allocated
  /\ elements \in Seq(Values) /\ Len(elements) = list.count
  /\ \A p \in 1 .. list.count : list.data[p] = elements[p]

(* What the operations of List make of a list, its block and its size.     *)
IsMoved(list, block, size, moved) ==
  /\ moved \in ListRecord
  /\ moved.block = block /\ moved.allocated = size /\ moved.count = list.count
  /\ Len(moved.data) = size
  /\ \A p \in 1 .. size : p <= list.count /\ p <= Len(list.data) => moved.data[p] = list.data[p]

IsOneLess(list, less) ==
  /\ less \in ListRecord
  /\ less.block = list.block /\ less.allocated = list.allocated
  /\ less.count = list.count - 1 /\ Len(less.data) = list.allocated
  /\ \A p \in 1 .. list.count - 1 :
       p <= list.allocated /\ p <= Len(list.data) => less.data[p] = list.data[p]

(* closed lacks one element, and after is what is left of the others.      *)
IsClosedUp(list, closed, after) ==
  /\ closed \in ListRecord
  /\ closed.block = list.block /\ closed.allocated = list.allocated
  /\ closed.count = list.count /\ Len(closed.data) = list.allocated
  /\ list.count \in Nat \ {0} /\ list.count <= list.allocated
  /\ after \in Seq(Values) /\ Len(after) = list.count - 1
  /\ \A p \in 1 .. list.count - 1 : closed.data[p] = after[p]

LEMMA ListConstants == CountAllocate \in Nat \ {0} /\ MaxBlocks \in Nat /\ MaxElements \in Nat
BY ServicesAssumption DEF Lists!ListAssumption

(* A function on 1 .. n is a sequence of length n. *)
LEMMA SequenceOf ==
  ASSUME NEW S, NEW n \in Nat, NEW f \in [1 .. n -> S]
  PROVE  f \in Seq(S) /\ Len(f) = n /\ DOMAIN f = 1 .. n
BY SMT

(* List!Moved keeps the first elements and takes the new block's size.     *)
LEMMA MovedKeeps ==
  ASSUME NEW list \in ListRecord, NEW block \in Nat, NEW size \in Nat
  PROVE  IsMoved(list, block, size, Lists!Moved(list, block, size))
<1> DEFINE data == [p \in 1 .. size |-> IF p <= list.count THEN Lists!At(list, p) ELSE Lists!Garbage]
<1> USE DEF ListRecord
<1>1. \A p \in 1 .. size : Lists!At(list, p) \in Contents
  BY DEF Lists!At, Contents
<1>2. data \in [1 .. size -> Contents]
  BY <1>1 DEF Contents
<1>3. data \in Seq(Contents) /\ Len(data) = size
  BY <1>2, SequenceOf
<1>4. \A p \in 1 .. size : p <= list.count /\ p <= Len(list.data) => data[p] = list.data[p]
  BY DEF Lists!At
<1>5. Lists!Moved(list, block, size) = [list EXCEPT !.block = block, !.allocated = size, !.data = data]
  BY Zenon DEF Lists!Moved
<1> HIDE DEF data
<1> QED
  <2>1. IsMoved(list, block, size, [list EXCEPT !.block = block, !.allocated = size, !.data = data])
    BY <1>3, <1>4 DEF IsMoved
  <2> QED
    BY <1>5, <2>1, Zenon

IsInserted(S, s, i, e, t) ==
  /\ t \in Seq(S) /\ Len(t) = Len(s) + 1
  /\ \A p \in 1 .. Len(s) + 1 : t[p] = IF p < i THEN s[p] ELSE IF p = i THEN e ELSE s[p - 1]

(* Inserting the element moves those behind the index up by one. *)
LEMMA InsertAtPlaces ==
  ASSUME NEW S, NEW s \in Seq(S), NEW i \in 1 .. Len(s) + 1, NEW e \in S
  PROVE  IsInserted(S, s, i, e, Lists!Seqs!InsertAt(s, i, e))
<1> DEFINE front == SubSeq(s, 1, i - 1)
           back == SubSeq(s, i, Len(s))
<1>1. /\ front \in Seq(S) /\ Len(front) = i - 1
      /\ \A p \in 1 .. i - 1 : front[p] = s[p]
  BY SubSeqProperties
<1>2. /\ back \in Seq(S) /\ Len(back) = Len(s) + 1 - i
      /\ \A p \in 1 .. Len(s) + 1 - i : back[p] = s[p + i - 1]
  BY SubSeqProperties
<1>3. Lists!Seqs!InsertAt(s, i, e) = (front \o <<e>>) \o back
  BY DEF Lists!Seqs!InsertAt
<1> HIDE DEF front, back
<1>4. /\ front \o <<e>> \in Seq(S) /\ Len(front \o <<e>>) = i
      /\ \A p \in 1 .. i : (front \o <<e>>)[p] = IF p < i THEN s[p] ELSE e
  BY <1>1
<1> DEFINE begin == front \o <<e>>
<1> HIDE DEF begin
<1>5. /\ begin \in Seq(S) /\ Len(begin) = i
      /\ \A p \in 1 .. i : begin[p] = IF p < i THEN s[p] ELSE e
  BY <1>4 DEF begin
<1>6. /\ begin \o back \in Seq(S) /\ Len(begin \o back) = Len(s) + 1
      /\ \A p \in 1 .. Len(s) + 1 :
           (begin \o back)[p] = IF p <= i THEN begin[p] ELSE back[p - i]
  <2>1. Len(begin) + Len(back) = Len(s) + 1
    BY <1>2, <1>5
  <2>2. \A p \in 1 .. Len(s) + 1 :
           (begin \o back)[p] = IF p <= Len(begin) THEN begin[p] ELSE back[p - Len(begin)]
    BY <1>2, <1>5, <2>1, ConcatProperties
  <2>3. begin \o back \in Seq(S) /\ Len(begin \o back) = Len(s) + 1
    BY <1>2, <1>5, <2>1, ConcatProperties
  <2> QED
    BY <1>5, <2>2, <2>3
<1>7. Lists!Seqs!InsertAt(s, i, e) = begin \o back
  BY <1>3 DEF begin
<1> QED
  BY <1>2, <1>5, <1>6, <1>7 DEF IsInserted

(* Removing one moves them down. *)
LEMMA RemoveAtPlaces ==
  ASSUME NEW S, NEW s \in Seq(S), NEW i \in 1 .. Len(s)
  PROVE  LET t == Lists!Seqs!RemoveAt(s, i) IN
         /\ t \in Seq(S) /\ Len(t) = Len(s) - 1
         /\ \A p \in 1 .. Len(s) - 1 : t[p] = IF p < i THEN s[p] ELSE s[p + 1]
<1> DEFINE front == SubSeq(s, 1, i - 1)
           back == SubSeq(s, i + 1, Len(s))
<1>1. /\ front \in Seq(S) /\ Len(front) = i - 1
      /\ \A p \in 1 .. i - 1 : front[p] = s[p]
  BY SubSeqProperties
<1>2. /\ back \in Seq(S) /\ Len(back) = Len(s) - i
      /\ \A p \in 1 .. Len(s) - i : back[p] = s[p + i]
  BY SubSeqProperties
<1>3. Lists!Seqs!RemoveAt(s, i) = front \o back
  BY DEF Lists!Seqs!RemoveAt
<1> HIDE DEF front, back
<1>4. /\ front \o back \in Seq(S) /\ Len(front \o back) = Len(s) - 1
      /\ \A p \in 1 .. Len(s) - 1 :
           (front \o back)[p] = IF p < i THEN front[p] ELSE back[p - i + 1]
  <2>1. Len(front) + Len(back) = Len(s) - 1
    BY <1>1, <1>2
  <2>2. \A p \in 1 .. Len(s) - 1 : p <= Len(front) <=> p < i
    BY <1>1
  <2>3. \A p \in 1 .. Len(s) - 1 : p - Len(front) = p - i + 1
    BY <1>1
  <2>4. \A p \in 1 .. Len(s) - 1 :
           (front \o back)[p] = IF p <= Len(front) THEN front[p] ELSE back[p - Len(front)]
    BY <1>1, <1>2, <2>1, ConcatProperties
  <2> QED
    BY <1>1, <1>2, <2>1, <2>2, <2>3, <2>4, ConcatProperties
<1>5. \A p \in 1 .. Len(s) - 1 : p < i => front[p] = s[p]
  BY <1>1
<1>6. \A p \in 1 .. Len(s) - 1 : ~(p < i) => back[p - i + 1] = s[p + 1]
  <2> SUFFICES ASSUME NEW p \in 1 .. Len(s) - 1, ~(p < i) PROVE back[p - i + 1] = s[p + 1]
    OBVIOUS
  <2>1. p - i + 1 \in 1 .. Len(s) - i /\ (p - i + 1) + i = p + 1
    OBVIOUS
  <2> QED
    BY <1>2, <2>1
<1> QED
  BY <1>3, <1>4, <1>5, <1>6

(* Insert makes room at the index, closing up takes the place away, and    *)
(* the move that ends a removal leaves out the last place.                 *)
LEMMA InsertedPlaces ==
  ASSUME NEW list \in ListRecord, list.count < Len(list.data),
         NEW value \in Values, NEW index \in 0 .. list.count
  PROVE  LET inserted == Lists!Inserted(list, value, index) IN
         /\ inserted \in ListRecord
         /\ inserted.block = list.block /\ inserted.allocated = list.allocated
         /\ inserted.count = list.count + 1 /\ Len(inserted.data) = Len(list.data)
         /\ \A p \in 1 .. list.count + 1 : inserted.data[p] =
              IF p = index + 1 THEN value
              ELSE IF p \in index + 2 .. list.count + 1 THEN list.data[p - 1]
              ELSE list.data[p]
<1> USE DEF ListRecord
<1> DEFINE old  == list.data
           data == [p \in DOMAIN old |->
                      IF p = index + 1 THEN value
                      ELSE IF p \in index + 2 .. list.count + 1 THEN old[p - 1]
                      ELSE old[p]]
<1>1. old \in Seq(Contents) /\ DOMAIN old = 1 .. Len(old) /\ Len(old) \in Nat
      /\ list.count \in Nat /\ list.count < Len(old)
  OBVIOUS
<1>2. data \in [1 .. Len(old) -> Contents]
  <2> SUFFICES ASSUME NEW p \in 1 .. Len(old)
               PROVE  (IF p = index + 1 THEN value
                      ELSE IF p \in index + 2 .. list.count + 1 THEN old[p - 1]
                      ELSE old[p]) \in Contents
    BY <1>1, Zenon
  <2>1. value \in Contents
    BY DEF Contents
  <2>2. p \in index + 2 .. list.count + 1 => p - 1 \in 1 .. Len(old)
    BY <1>1
  <2> HIDE DEF old
  <2>3. \A q \in 1 .. Len(old) : old[q] \in Contents
    BY <1>1
  <2> QED
    BY <2>1, <2>2, <2>3, Zenon
<1>3. data \in Seq(Contents) /\ Len(data) = Len(old)
  BY <1>1, <1>2, SequenceOf
<1>4. \A p \in 1 .. list.count + 1 : data[p] =
              IF p = index + 1 THEN value
              ELSE IF p \in index + 2 .. list.count + 1 THEN old[p - 1]
              ELSE old[p]
  <2>1. \A p \in 1 .. list.count + 1 : p \in DOMAIN old
    BY <1>1
  <2> QED
    BY <2>1, Zenon
<1>5. Lists!Inserted(list, value, index) = [list EXCEPT !.count = list.count + 1, !.data = data]
  BY Zenon DEF Lists!Inserted
<1> HIDE DEF data
<1> DEFINE inserted == [list EXCEPT !.count = list.count + 1, !.data = data]
<1>6. /\ inserted \in ListRecord
      /\ inserted.block = list.block /\ inserted.allocated = list.allocated
      /\ inserted.count = list.count + 1 /\ inserted.data = data
  <2>1. list.count + 1 \in Nat /\ data \in Seq(Contents)
    BY <1>1, <1>3
  <2> HIDE DEF old
  <2> QED
    BY <2>1
<1> HIDE DEF ListRecord
<1> QED
  BY <1>3, <1>4, <1>5, <1>6

LEMMA ClosedUpPlaces ==
  ASSUME NEW list \in ListRecord, list.count <= Len(list.data), NEW index \in 0 .. list.count - 1
  PROVE  LET closed == Lists!ClosedUp(list, index) IN
         /\ closed \in ListRecord
         /\ closed.block = list.block /\ closed.allocated = list.allocated
         /\ closed.count = list.count /\ Len(closed.data) = Len(list.data)
         /\ \A p \in 1 .. list.count - 1 : closed.data[p] =
              IF p < index + 1 THEN list.data[p] ELSE list.data[p + 1]
<1> USE DEF ListRecord
<1> DEFINE old  == list.data
           data == [p \in DOMAIN old |->
                      IF p \in index + 1 .. list.count - 1 THEN Lists!At(list, p + 1) ELSE old[p]]
<1>1. old \in Seq(Contents) /\ DOMAIN old = 1 .. Len(old) /\ Len(old) \in Nat
      /\ list.count \in Nat /\ list.count <= Len(old)
  OBVIOUS
<1>2. \A p \in index + 1 .. list.count - 1 : Lists!At(list, p + 1) = old[p + 1] /\ p + 1 \in 1 .. Len(old)
  BY <1>1 DEF Lists!At
<1>3. data \in [1 .. Len(old) -> Contents]
  <2> SUFFICES ASSUME NEW p \in 1 .. Len(old)
               PROVE  (IF p \in index + 1 .. list.count - 1 THEN Lists!At(list, p + 1) ELSE old[p])
                        \in Contents
    BY <1>1, Zenon
  <2> HIDE DEF old
  <2>1. \A q \in 1 .. Len(old) : old[q] \in Contents
    BY <1>1
  <2> QED
    BY <1>2, <2>1, Zenon
<1>4. data \in Seq(Contents) /\ Len(data) = Len(old)
  BY <1>1, <1>3, SequenceOf
<1>5. \A p \in 1 .. list.count - 1 : data[p] = IF p < index + 1 THEN old[p] ELSE old[p + 1]
  <2> SUFFICES ASSUME NEW p \in 1 .. list.count - 1
               PROVE  data[p] = IF p < index + 1 THEN old[p] ELSE old[p + 1]
    OBVIOUS
  <2>1. p \in DOMAIN old
    BY <1>1
  <2>2. p < index + 1 <=> p \notin index + 1 .. list.count - 1
    BY <1>1
  <2> QED
    BY <1>2, <2>1, <2>2, Zenon
<1>6. Lists!ClosedUp(list, index) = [list EXCEPT !.data = data]
  BY Zenon DEF Lists!ClosedUp
<1> HIDE DEF data
<1> QED
  BY <1>4, <1>5, <1>6

(* An insertion into a list with room keeps what it was to keep.           *)
LEMMA InsertedHolds ==
  ASSUME NEW list, NEW elements, Holds(list, elements), list.count < list.allocated,
         NEW value \in Values, NEW index \in 0 .. list.count
  PROVE  Holds(Lists!Inserted(list, value, index), Lists!Seqs!InsertAt(elements, index + 1, value))
<1> DEFINE inserted == Lists!Inserted(list, value, index)
           after == Lists!Seqs!InsertAt(elements, index + 1, value)
<1>1. list \in ListRecord /\ list.count < Len(list.data) /\ list.count \in Nat
      /\ elements \in Seq(Values) /\ Len(elements) = list.count
      /\ \A p \in 1 .. list.count : list.data[p] = elements[p]
  BY DEF Holds, ListRecord
<1>2. /\ inserted \in ListRecord
      /\ inserted.block = list.block /\ inserted.allocated = list.allocated
      /\ inserted.count = list.count + 1 /\ Len(inserted.data) = Len(list.data)
      /\ \A p \in 1 .. list.count + 1 : inserted.data[p] =
           IF p = index + 1 THEN value
           ELSE IF p \in index + 2 .. list.count + 1 THEN list.data[p - 1]
           ELSE list.data[p]
  BY <1>1, InsertedPlaces
<1>3. /\ after \in Seq(Values) /\ Len(after) = list.count + 1
      /\ \A p \in 1 .. list.count + 1 :
           after[p] = IF p < index + 1 THEN elements[p] ELSE IF p = index + 1 THEN value ELSE elements[p - 1]
  <2>1. index + 1 \in 1 .. Len(elements) + 1
    BY <1>1
  <2>2. /\ after \in Seq(Values) /\ Len(after) = Len(elements) + 1
        /\ \A p \in 1 .. Len(elements) + 1 :
             after[p] = IF p < index + 1 THEN elements[p]
                        ELSE IF p = index + 1 THEN value ELSE elements[p - 1]
    <3> DEFINE place == index + 1
    <3>1. place \in 1 .. Len(elements) + 1
      BY <2>1
    <3> HIDE DEF place
    <3>2. IsInserted(Values, elements, place, value, Lists!Seqs!InsertAt(elements, place, value))
      BY <1>1, <3>1, InsertAtPlaces, Zenon
    <3> QED
      BY <3>2, Zenon DEF place, IsInserted
  <2> QED
    BY <1>1, <2>2, Zenon
<1> HIDE DEF inserted, after
<1>4. \A p \in 1 .. list.count + 1 : inserted.data[p] = after[p]
  <2> SUFFICES ASSUME NEW p \in 1 .. list.count + 1 PROVE inserted.data[p] = after[p]
    OBVIOUS
  <2>1. CASE p < index + 1
    BY <1>1, <1>2, <1>3, <2>1
  <2>2. CASE p = index + 1
    BY <1>1, <1>2, <1>3, <2>2
  <2>3. CASE p > index + 1
    <3>1. p - 1 \in 1 .. list.count /\ p \in index + 2 .. list.count + 1
      BY <1>1, <2>3
    <3>2. inserted.data[p] = list.data[p - 1]
      BY <1>1, <1>2, <2>3, <3>1
    <3> QED
      BY <1>1, <1>3, <2>3, <3>1, <3>2
  <2> QED
    BY <1>1, <2>1, <2>2, <2>3
<1>5. Holds(inserted, after)
  BY <1>1, <1>2, <1>3, <1>4 DEF Holds
<1> QED
  BY <1>5 DEF inserted, after

(* So does the move to a larger block.                                     *)
LEMMA GrownHolds ==
  ASSUME NEW list, NEW elements, Holds(list, elements), NEW block \in Nat \ {0}
  PROVE  LET grown == Lists!Grown(list, block) IN
         /\ Holds(grown, elements)
         /\ grown.block = block /\ grown.count = list.count /\ grown.count < grown.allocated
<1> DEFINE size == list.allocated + CountAllocate
           grown == Lists!Moved(list, block, size)
<1>1. list \in ListRecord /\ list.count <= list.allocated /\ list.count \in Nat /\ list.allocated \in Nat
      /\ Len(list.data) = list.allocated
      /\ elements \in Seq(Values) /\ Len(elements) = list.count
      /\ \A p \in 1 .. list.count : list.data[p] = elements[p]
  BY DEF Holds, ListRecord
<1>2. CountAllocate \in Nat \ {0} /\ size \in Nat /\ list.count < size
  BY <1>1, ListConstants
<1>3. PICK k \in Nat \ {0} : list.allocated = k * CountAllocate
  BY DEF Holds
<1>4. k + 1 \in Nat \ {0} /\ size = (k + 1) * CountAllocate
  BY <1>2, <1>3
<1>5. IsMoved(list, block, size, grown)
  BY <1>1, <1>2, MovedKeeps
<1> HIDE DEF grown, size
<1>6. \A p \in 1 .. list.count : grown.data[p] = elements[p]
  BY <1>1, <1>2, <1>5 DEF IsMoved
<1>7. Holds(grown, elements)
  <2>1. \E l \in Nat \ {0} : grown.allocated = l * CountAllocate
    BY <1>4, <1>5, Zenon DEF IsMoved
  <2>2. list.count <= grown.allocated
    BY <1>1, <1>2, <1>5 DEF IsMoved
  <2> QED
    BY <1>1, <1>5, <1>6, <2>1, <2>2, Zenon DEF Holds, IsMoved
<1>8. grown = Lists!Grown(list, block)
  BY DEF grown, size, Lists!Grown
<1> QED
  BY <1>2, <1>5, <1>7, <1>8 DEF IsMoved

LEMMA OneLessKeeps ==
  ASSUME NEW list \in ListRecord, list.count > 0
  PROVE  IsOneLess(list, Lists!OneLess(list))
<1> DEFINE fewer == [list EXCEPT !.count = list.count - 1]
<1>1. list.count - 1 \in Nat /\ list.block \in Nat /\ list.allocated \in Nat
  BY DEF ListRecord
<1>2. /\ fewer \in ListRecord /\ fewer.count = list.count - 1 /\ fewer.data = list.data
  BY <1>1 DEF ListRecord
<1>3. Lists!OneLess(list) = Lists!Moved(fewer, list.block, list.allocated)
  BY Zenon DEF Lists!OneLess
<1> HIDE DEF fewer
<1> DEFINE less == Lists!Moved(fewer, list.block, list.allocated)
<1>4. IsMoved(fewer, list.block, list.allocated, less)
  BY <1>1, <1>2, MovedKeeps, Zenon
<1> HIDE DEF less
<1>5. \A p \in 1 .. list.count - 1 :
        p <= list.allocated /\ p <= Len(list.data) => less.data[p] = list.data[p]
  BY <1>1, <1>2, <1>4 DEF IsMoved
<1> QED
  <2>1. IsOneLess(list, less)
    BY <1>2, <1>4, <1>5, Zenon DEF IsMoved, IsOneLess
  <2> QED
    BY <1>3, <2>1, Zenon DEF less

(* What a removal leaves before the list gets smaller, and what its caller *)
(* expects.                                                                *)
LEMMA ClosedUpMatches ==
  ASSUME NEW list, NEW elements, Holds(list, elements), NEW index \in 0 .. list.count - 1
  PROVE  IsClosedUp(list, Lists!ClosedUp(list, index), Lists!Seqs!RemoveAt(elements, index + 1))
<1> DEFINE closed == Lists!ClosedUp(list, index)
           after == Lists!Seqs!RemoveAt(elements, index + 1)
           place == index + 1
<1>1. list \in ListRecord /\ list.count <= list.allocated /\ list.count \in Nat \ {0}
      /\ list.count <= Len(list.data) /\ Len(list.data) = list.allocated
      /\ elements \in Seq(Values) /\ Len(elements) = list.count
      /\ \A p \in 1 .. list.count : list.data[p] = elements[p]
  BY DEF Holds, ListRecord
<1>2. /\ closed \in ListRecord
      /\ closed.block = list.block /\ closed.allocated = list.allocated
      /\ closed.count = list.count /\ Len(closed.data) = Len(list.data)
      /\ \A p \in 1 .. list.count - 1 : closed.data[p] =
           IF p < index + 1 THEN list.data[p] ELSE list.data[p + 1]
  BY <1>1, ClosedUpPlaces, Zenon
<1>3. place \in 1 .. Len(elements)
  BY <1>1
<1> HIDE DEF closed, place
<1>4. LET t == Lists!Seqs!RemoveAt(elements, place) IN
      /\ t \in Seq(Values) /\ Len(t) = Len(elements) - 1
      /\ \A p \in 1 .. Len(elements) - 1 : t[p] = IF p < place THEN elements[p] ELSE elements[p + 1]
  BY <1>1, <1>3, RemoveAtPlaces, Zenon
<1>5. /\ after \in Seq(Values) /\ Len(after) = list.count - 1
      /\ \A p \in 1 .. list.count - 1 :
           after[p] = IF p < index + 1 THEN elements[p] ELSE elements[p + 1]
  BY <1>1, <1>4, Zenon DEF place
<1> HIDE DEF after
<1>6. \A p \in 1 .. list.count - 1 : closed.data[p] = after[p]
  <2> SUFFICES ASSUME NEW p \in 1 .. list.count - 1 PROVE closed.data[p] = after[p]
    OBVIOUS
  <2>1. p \in 1 .. list.count /\ p + 1 \in 1 .. list.count
    BY <1>1
  <2>2. list.data[p] = elements[p] /\ list.data[p + 1] = elements[p + 1]
    BY <1>1, <2>1
  <2> QED
    BY <1>2, <1>5, <2>2, Zenon
<1>7. closed \in ListRecord
      /\ closed.block = list.block /\ closed.allocated = list.allocated
      /\ closed.count = list.count /\ Len(closed.data) = list.allocated
  BY <1>1, <1>2
<1> QED
  <2>1. IsClosedUp(list, closed, after)
    BY <1>1, <1>5, <1>6, <1>7, Zenon DEF IsClosedUp
  <2> QED
    BY <2>1, Zenon DEF closed, after

(* A removal from a list that keeps its block.                             *)
LEMMA RemovedHolds ==
  ASSUME NEW list, NEW elements, Holds(list, elements), NEW index \in 0 .. list.count - 1
  PROVE  LET less == Lists!OneLess(Lists!ClosedUp(list, index)) IN
         /\ Holds(less, Lists!Seqs!RemoveAt(elements, index + 1))
         /\ less.block = list.block /\ ~Lists!Outgrown(less)
<1> DEFINE closed == Lists!ClosedUp(list, index)
           after == Lists!Seqs!RemoveAt(elements, index + 1)
           less == Lists!OneLess(closed)
<1>1. /\ closed \in ListRecord
      /\ closed.block = list.block /\ closed.allocated = list.allocated
      /\ closed.count = list.count /\ Len(closed.data) = list.allocated
      /\ list.count \in Nat \ {0} /\ list.count <= list.allocated
      /\ after \in Seq(Values) /\ Len(after) = list.count - 1
      /\ \A p \in 1 .. list.count - 1 : closed.data[p] = after[p]
  <2>1. IsClosedUp(list, closed, after)
    BY ClosedUpMatches, Zenon
  <2> HIDE DEF closed, after
  <2> QED
    BY <2>1, Zenon DEF IsClosedUp
<1> HIDE DEF closed, after
<1>2. closed.count > 0 /\ list.allocated \in Nat
  BY <1>1 DEF ListRecord
<1>3. /\ less \in ListRecord
      /\ less.block = closed.block /\ less.allocated = closed.allocated
      /\ less.count = closed.count - 1 /\ Len(less.data) = closed.allocated
      /\ \A p \in 1 .. closed.count - 1 :
           p <= closed.allocated /\ p <= Len(closed.data) => less.data[p] = closed.data[p]
  <2>1. IsOneLess(closed, less)
    BY <1>1, <1>2, OneLessKeeps, Zenon
  <2> HIDE DEF less
  <2> QED
    BY <2>1, Zenon DEF IsOneLess
<1> HIDE DEF less
<1>4. \A p \in 1 .. less.count : less.data[p] = after[p]
  BY <1>1, <1>2, <1>3
<1>5. list.block # 0 /\ \E k \in Nat \ {0} : less.allocated = k * CountAllocate
  BY <1>1, <1>3, Zenon DEF Holds
<1>6. less.count <= less.allocated /\ Len(after) = less.count /\ Len(less.data) = less.allocated
  BY <1>1, <1>2, <1>3
<1>7. Holds(less, after)
  BY <1>1, <1>3, <1>4, <1>5, <1>6, Zenon DEF Holds
<1>8. ~Lists!Outgrown(less)
  BY <1>1, <1>2, <1>3 DEF Lists!Outgrown
<1> QED
  BY <1>1, <1>3, <1>7, <1>8, Zenon DEF less, closed, after

(* A list that shrinks has at least CountAllocate + 1 elements, and when   *)
(* they are no more the smaller block holds what is left.                  *)
LEMMA ShrinkingNumbers ==
  ASSUME NEW count \in Nat \ {0}, NEW k \in Nat \ {0}, count <= k * CountAllocate,
         count % (CountAllocate + 1) = 0
  PROVE  /\ k - 1 \in Nat \ {0} /\ (k - 1) * CountAllocate \in Nat
         /\ (k - 1) * CountAllocate = k * CountAllocate - CountAllocate
         /\ count - 1 > (k - 1) * CountAllocate => count >= 2 * (CountAllocate + 1)
<1>1. CountAllocate \in Nat \ {0}
  BY ListConstants
<1>2. PICK m \in Int : count = m * (CountAllocate + 1)
  <2>1. count = (CountAllocate + 1) * (count \div (CountAllocate + 1)) + (count % (CountAllocate + 1))
    <3> DEFINE d == CountAllocate + 1
    <3>1. d \in Nat \ {0}
      BY <1>1
    <3> HIDE DEF d
    <3>2. count = d * (count \div d) + (count % d)
      BY <3>1
    <3> QED
      BY <3>2 DEF d
  <2>2. count \div (CountAllocate + 1) \in Int
    BY <1>1
  <2> DEFINE m == count \div (CountAllocate + 1)
  <2> HIDE DEF m
  <2>3. count = m * (CountAllocate + 1)
    BY <1>1, <2>1, <2>2 DEF m
  <2> QED
    BY <2>2, <2>3 DEF m
<1>3. m >= 1
  <2> SUFFICES ASSUME m <= 0 PROVE FALSE
    BY <1>2
  <2>1. m * (CountAllocate + 1) <= 0
    BY <1>1, <1>2
  <2> QED
    BY <1>2, <2>1
<1>4. count >= CountAllocate + 1
  BY <1>1, <1>2, <1>3
<1>5. k # 1
  BY <1>1, <1>4
<1>6. k - 1 \in Nat \ {0}
  BY <1>5
<1>7. (k - 1) * CountAllocate = k * CountAllocate - CountAllocate
  BY <1>1
<1>8. (k - 1) * CountAllocate \in Nat
  BY <1>1, <1>6
<1>9. (k - 1) * CountAllocate >= CountAllocate
  BY <1>1, <1>6
<1>10. count - 1 > (k - 1) * CountAllocate => m # 1
  BY <1>1, <1>2, <1>8, <1>9
<1>11. m >= 2 => count >= 2 * (CountAllocate + 1)
  BY <1>1, <1>2
<1> QED
  BY <1>3, <1>6, <1>7, <1>8, <1>10, <1>11

LEMMA ShrunkHolds ==
  ASSUME NEW list, NEW elements, Holds(list, elements), NEW index \in 0 .. list.count - 1,
         Lists!Shrinks(list), NEW block \in Nat \ {0}
  PROVE  LET less == Lists!OneLess(Lists!Shrunk(Lists!ClosedUp(list, index), block)) IN
         /\ less \in ListRecord /\ less.block = block /\ Len(less.data) = less.allocated
         /\ ~Lists!Outgrown(less) => Holds(less, Lists!Seqs!RemoveAt(elements, index + 1))
         /\ Lists!Outgrown(less) => less.count + 1 >= 2 * (CountAllocate + 1)
<1> DEFINE closed == Lists!ClosedUp(list, index)
           after == Lists!Seqs!RemoveAt(elements, index + 1)
           size == list.allocated - CountAllocate
           moved == Lists!Moved(closed, block, size)
           less == Lists!OneLess(moved)
<1>1. /\ closed \in ListRecord
      /\ closed.block = list.block /\ closed.allocated = list.allocated
      /\ closed.count = list.count /\ Len(closed.data) = list.allocated
      /\ list.count \in Nat \ {0} /\ list.count <= list.allocated
      /\ after \in Seq(Values) /\ Len(after) = list.count - 1
      /\ \A p \in 1 .. list.count - 1 : closed.data[p] = after[p]
  <2>1. IsClosedUp(list, closed, after)
    BY ClosedUpMatches, Zenon
  <2> HIDE DEF closed, after
  <2> QED
    BY <2>1, Zenon DEF IsClosedUp
<1>2. Lists!OneLess(Lists!Shrunk(closed, block)) = less
  BY <1>1, Zenon DEF Lists!Shrunk
<1> HIDE DEF closed, after
<1>3. PICK k \in Nat \ {0} : list.allocated = k * CountAllocate
  BY DEF Holds
<1>4. list.count % (CountAllocate + 1) = 0
  BY DEF Lists!Shrinks
<1>5. /\ k - 1 \in Nat \ {0} /\ (k - 1) * CountAllocate \in Nat
      /\ (k - 1) * CountAllocate = k * CountAllocate - CountAllocate
      /\ list.count - 1 > (k - 1) * CountAllocate => list.count >= 2 * (CountAllocate + 1)
  BY <1>1, <1>3, <1>4, ShrinkingNumbers
<1>6. size \in Nat /\ size = (k - 1) * CountAllocate
      /\ (list.count - 1 > size => list.count >= 2 * (CountAllocate + 1))
  BY <1>3, <1>5
<1>7. size < list.allocated /\ list.allocated \in Nat
  BY <1>1, <1>6, ListConstants DEF ListRecord
<1> HIDE DEF size
<1>8. /\ moved \in ListRecord
      /\ moved.block = block /\ moved.allocated = size /\ moved.count = closed.count
      /\ Len(moved.data) = size
      /\ \A p \in 1 .. size : p <= closed.count /\ p <= Len(closed.data) => moved.data[p] = closed.data[p]
  <2>1. block \in Nat /\ IsMoved(closed, block, size, moved)
    BY <1>1, <1>6, MovedKeeps, Zenon
  <2> HIDE DEF moved
  <2> QED
    BY <2>1, Zenon DEF IsMoved
<1> HIDE DEF moved
<1>9. moved.count > 0
  BY <1>1, <1>8
<1>10. /\ less \in ListRecord
       /\ less.block = moved.block /\ less.allocated = moved.allocated
       /\ less.count = moved.count - 1 /\ Len(less.data) = moved.allocated
       /\ \A p \in 1 .. moved.count - 1 :
            p <= moved.allocated /\ p <= Len(moved.data) => less.data[p] = moved.data[p]
  <2>1. IsOneLess(moved, less)
    BY <1>8, <1>9, OneLessKeeps, Zenon
  <2> HIDE DEF less
  <2> QED
    BY <2>1, Zenon DEF IsOneLess
<1> HIDE DEF less
<1>11. less.count = list.count - 1 /\ less.allocated = size /\ Len(less.data) = size
       /\ less.block = block /\ less \in ListRecord
  BY <1>1, <1>8, <1>10
<1>12. Lists!Outgrown(less) <=> list.count - 1 > size
  BY <1>11 DEF Lists!Outgrown
<1>13. Lists!Outgrown(less) => less.count + 1 >= 2 * (CountAllocate + 1)
  BY <1>1, <1>6, <1>11, <1>12
<1>14. ASSUME list.count - 1 <= size PROVE Holds(less, after)
  <2>1. \A p \in 1 .. list.count - 1 : less.data[p] = after[p]
    <3> SUFFICES ASSUME NEW p \in 1 .. list.count - 1 PROVE less.data[p] = after[p]
      OBVIOUS
    <3>1. p \in 1 .. size /\ p <= closed.count /\ p <= Len(closed.data)
      BY <1>1, <1>6, <1>7, <1>14
    <3>2. moved.data[p] = closed.data[p]
      BY <1>8, <3>1
    <3>3. p \in 1 .. moved.count - 1 /\ p <= moved.allocated /\ p <= Len(moved.data)
      BY <1>1, <1>6, <1>8, <3>1
    <3>4. less.data[p] = moved.data[p]
      BY <1>10, <3>3
    <3> QED
      BY <1>1, <3>2, <3>4
  <2>2. \E l \in Nat \ {0} : less.allocated = l * CountAllocate
    BY <1>5, <1>6, <1>11, Zenon
  <2> QED
    BY <1>1, <1>11, <1>14, <2>1, <2>2 DEF Holds
<1>15. ~Lists!Outgrown(less) => Holds(less, after)
  BY <1>1, <1>6, <1>12, <1>14
<1> QED
  BY <1>2, <1>11, <1>13, <1>15, Zenon DEF closed, after

-----------------------------------------------------------------------------
(* The blocks.  ls stands for lists, lv for live.                          *)
BlockOf(ls, object) == ls[object].block

Unowned(ls, lv) == lv \ {BlockOf(ls, object) : object \in Objects}

(* Every list has its block to itself, and it is an allocated one.         *)
Owned(ls, lv) ==
  /\ \A object \in Objects : BlockOf(ls, object) \in lv \cup {0}
  /\ \A object, other \in Objects :
       object # other /\ BlockOf(ls, object) # 0 => BlockOf(ls, object) # BlockOf(ls, other)

(* One object gets another block, or none; left is what no object has of   *)
(* the old one.                                                            *)
LEMMA OneBlockChanges ==
  ASSUME NEW ls, NEW lv \in SUBSET (1 .. MaxBlocks), NEW new, NEW object \in Objects,
         Owned(ls, lv), NEW after \in SUBSET (1 .. MaxBlocks),
         \A other \in Objects : BlockOf(new, other) =
           IF other = object THEN BlockOf(new, object) ELSE BlockOf(ls, other),
         BlockOf(new, object) \in {0, BlockOf(ls, object)} \cup (1 .. MaxBlocks \ lv),
         after \in {lv \cup ({BlockOf(new, object)} \ {0}),
                    (lv \ {BlockOf(ls, object)}) \cup ({BlockOf(new, object)} \ {0})}
  PROVE  /\ Owned(new, after)
         /\ Unowned(new, after) =
              Unowned(ls, lv) \cup ((after \cap {BlockOf(ls, object)}) \ {BlockOf(new, object)})
<1> DEFINE old == BlockOf(ls, object)
           taken == BlockOf(new, object)
<1>1. \A other \in Objects : other # object =>
        /\ BlockOf(new, other) = BlockOf(ls, other)
        /\ BlockOf(ls, other) \in lv \cup {0}
        /\ BlockOf(ls, other) # 0 => BlockOf(ls, other) # old
        /\ BlockOf(ls, other) # 0 => BlockOf(ls, other) # taken
  BY DEF Owned
<1>2. old \in lv \cup {0} /\ 0 \notin lv /\ 0 \notin after
  BY DEF Owned
<1>3. \A other \in Objects : other # object => BlockOf(ls, other) \in after \cup {0}
  BY <1>1
<1>4. taken \in after \cup {0}
  OBVIOUS
<1>5. Owned(new, after)
  BY <1>1, <1>2, <1>3, <1>4 DEF Owned
<1>6. \A block \in Unowned(new, after) :
        block \in Unowned(ls, lv) \cup ((after \cap {old}) \ {taken})
  BY <1>1, <1>2 DEF Unowned
<1>7. \A block \in Unowned(ls, lv) : block \in Unowned(new, after)
  BY <1>1, <1>2 DEF Unowned
<1>8. \A block \in (after \cap {old}) \ {taken} : block \in Unowned(new, after)
  BY <1>1, <1>2 DEF Unowned
<1> QED
  BY <1>5, <1>6, <1>7, <1>8

LEMMA UnownedAreCounted ==
  ASSUME NEW ls, NEW lv \in SUBSET (1 .. MaxBlocks)
  PROVE  IsFiniteSet(Unowned(ls, lv)) /\ Cardinality(Unowned(ls, lv)) \in Nat
<1>1. IsFiniteSet(1 .. MaxBlocks)
  BY ListConstants, FS_Interval
<1>2. Unowned(ls, lv) \in SUBSET (1 .. MaxBlocks)
  BY DEF Unowned
<1> QED
  BY <1>1, <1>2, FS_Subset, FS_CardinalityType

-----------------------------------------------------------------------------
(* What an object is: no list, one that holds what it should, or one that  *)
(* has lost an element in one of the three ways.                           *)
IsUnspoilt(list, elements) ==
  (list = Lists!NoList /\ elements = <<>>) \/ Holds(list, elements)

IsSpoilt(list) ==
  /\ list.count \in Nat /\ list.allocated \in Nat
  /\ list.block # 0 => Len(list.data) = list.allocated
  /\ \/ list.block = 0
     \/ list.count % (CountAllocate + 1) = 0
     \/ Lists!Outgrown(list) /\ list.count + 1 >= 2 * (CountAllocate + 1)

(* The invariant: what each object is, and whose the blocks are. *)
ListsInv ==
  /\ DOMAIN lists = Objects /\ lists = [object \in Objects |-> lists[object]]
  /\ DOMAIN promised = Objects /\ promised = [object \in Objects |-> promised[object]]
  /\ live \subseteq 1 .. MaxBlocks /\ spoilt \subseteq Objects /\ overwritten \in Nat
  /\ \A object \in Objects \ spoilt : IsUnspoilt(lists[object], promised[object])
  /\ \A object \in spoilt : IsSpoilt(lists[object])
  /\ Owned(lists, live)
  /\ Cardinality(Unowned(lists, live)) = overwritten

LEMMA NoListIsList == Lists!NoList \in ListRecord /\ Lists!NoList.block = 0
  /\ Lists!NoList.count = 0 /\ Lists!NoList.allocated = 0
BY DEF Lists!NoList, ListRecord, Lists!Null

LEMMA CardinalityIsCardinality == \A S : Lists!Cardinality(S) = Cardinality(S)
BY Zenon DEF Lists!Cardinality, Cardinality

(* It says more than the property. *)
LEMMA ListsInvImplies ==
  ASSUME ListsInv
  PROVE  /\ Lists!TypeOK /\ Lists!ContentsArePromised
         /\ Lists!BlocksAreOwned /\ Lists!LossesComeFromShrinking
<1>1. \A object \in Objects \ spoilt :
        /\ lists[object].count \in Nat /\ lists[object].allocated \in Nat
        /\ lists[object].block # 0 => Len(lists[object].data) = lists[object].allocated
        /\ lists[object].count = Len(promised[object])
        /\ \A p \in 1 .. lists[object].count : Lists!At(lists[object], p) = promised[object][p]
  <2> SUFFICES ASSUME NEW object \in Objects \ spoilt
        PROVE  /\ lists[object].count \in Nat /\ lists[object].allocated \in Nat
               /\ lists[object].block # 0 => Len(lists[object].data) = lists[object].allocated
               /\ lists[object].count = Len(promised[object])
               /\ \A p \in 1 .. lists[object].count : Lists!At(lists[object], p) = promised[object][p]
    OBVIOUS
  <2>1. IsUnspoilt(lists[object], promised[object])
    BY DEF ListsInv
  <2>2. CASE lists[object] = Lists!NoList /\ promised[object] = <<>>
    BY <2>2, NoListIsList
  <2>3. CASE Holds(lists[object], promised[object])
    <3> DEFINE list == lists[object]
    <3> HIDE DEF list
    <3>1. Holds(list, promised[object])
      BY <2>3 DEF list
    <3>2. list.count \in Nat /\ list.allocated \in Nat /\ list.data \in Seq(Contents)
          /\ list.count <= Len(list.data) /\ Len(list.data) = list.allocated
          /\ list.count = Len(promised[object])
          /\ \A p \in 1 .. list.count : list.data[p] = promised[object][p]
      BY <3>1 DEF Holds, ListRecord
    <3>3. \A p \in 1 .. list.count : p \in DOMAIN list.data
      BY <3>2
    <3>4. \A p \in 1 .. list.count : Lists!At(list, p) = promised[object][p]
      BY <3>2, <3>3 DEF Lists!At
    <3> QED
      BY <3>2, <3>4 DEF list
  <2> QED
    BY <2>1, <2>2, <2>3 DEF IsUnspoilt
<1>2. \A object \in Objects : lists[object].block \in live \cup {0}
  BY DEF ListsInv, Owned, BlockOf
<1>3. Lists!TypeOK
  <2>1. \A object \in spoilt :
          /\ lists[object].count \in Nat /\ lists[object].allocated \in Nat
          /\ lists[object].block # 0 => Len(lists[object].data) = lists[object].allocated
    BY DEF ListsInv, IsSpoilt
  <2> QED
    BY <1>1, <1>2, <2>1, Zenon DEF Lists!TypeOK, Lists!Null
<1>4. Lists!ContentsArePromised
  BY <1>1, Zenon DEF Lists!ContentsArePromised
<1>5. Lists!BlocksAreOwned
  <2>0. Lists!Null = 0
    BY DEF Lists!Null
  <2>1. \A object, other \in Objects :
          object # other /\ lists[object].block # 0 => lists[object].block # lists[other].block
    BY Zenon DEF ListsInv, Owned, BlockOf
  <2>2. Unowned(lists, live) = live \ {lists[object].block : object \in Objects}
    BY Zenon DEF Unowned, BlockOf
  <2>3. Cardinality(live \ {lists[object].block : object \in Objects}) = overwritten
    BY <2>2 DEF ListsInv
  <2> QED
    BY <2>0, <2>1, <2>3, CardinalityIsCardinality, Zenon DEF Lists!BlocksAreOwned
<1>6. Lists!LossesComeFromShrinking
  BY Zenon DEF ListsInv, IsSpoilt, Lists!LossesComeFromShrinking, Lists!Null
<1> QED
  BY <1>3, <1>4, <1>5, <1>6

(* A step that changes one object, whose block may be freed or lost.       *)
LEMMA ObjectChanges ==
  ASSUME ListsInv, spoilt = {}, NEW object \in Objects, NEW list, NEW elements,
         lists' = [lists EXCEPT ![object] = list],
         promised' = [promised EXCEPT ![object] = elements],
         list.block \in {0, lists[object].block} \cup (1 .. MaxBlocks \ live),
         live' \in {live \cup ({list.block} \ {0}),
                    (live \ {lists[object].block}) \cup ({list.block} \ {0})},
         \/ spoilt' = {} /\ IsUnspoilt(list, elements)
         \/ spoilt' = {object} /\ IsSpoilt(list),
         overwritten' = overwritten +
           IF (live' \cap {lists[object].block}) \ {list.block} = {} THEN 0 ELSE 1
  PROVE  ListsInv'
<1> DEFINE old == lists[object].block
           lost == (live' \cap {old}) \ {list.block}
<1>1. /\ DOMAIN lists = Objects /\ DOMAIN promised = Objects
      /\ live \subseteq 1 .. MaxBlocks /\ overwritten \in Nat
      /\ \A other \in Objects : IsUnspoilt(lists[other], promised[other])
      /\ Owned(lists, live) /\ Cardinality(Unowned(lists, live)) = overwritten
  BY DEF ListsInv
<1>2. /\ DOMAIN lists' = Objects /\ lists'[object] = list
      /\ lists' = [other \in Objects |-> lists'[other]]
      /\ \A other \in Objects : other # object => lists'[other] = lists[other]
  BY <1>1
<1>3. /\ DOMAIN promised' = Objects /\ promised'[object] = elements
      /\ promised' = [other \in Objects |-> promised'[other]]
      /\ \A other \in Objects : other # object => promised'[other] = promised[other]
  BY <1>1
<1>4. old \in live \cup {0}
  BY <1>1 DEF Owned, BlockOf
<1>5. live' \subseteq 1 .. MaxBlocks
  BY <1>1, <1>4
<1>6. \A other \in Objects \ spoilt' : IsUnspoilt(lists'[other], promised'[other])
  <2> SUFFICES ASSUME NEW other \in Objects \ spoilt' PROVE IsUnspoilt(lists'[other], promised'[other])
    OBVIOUS
  <2>1. CASE other = object
    BY <1>2, <1>3, <2>1
  <2>2. CASE other # object
    BY <1>1, <1>2, <1>3, <2>2, Zenon
  <2> QED
    BY <2>1, <2>2
<1>7. \A other \in spoilt' : IsSpoilt(lists'[other])
  BY <1>2
<1>8. /\ Owned(lists', live')
      /\ Unowned(lists', live') = Unowned(lists, live) \cup lost
  <2>1. BlockOf(lists', object) = list.block /\ BlockOf(lists, object) = old
    BY <1>2 DEF BlockOf
  <2>2. \A other \in Objects : BlockOf(lists', other) =
           IF other = object THEN BlockOf(lists', object) ELSE BlockOf(lists, other)
    BY <1>2, Zenon DEF BlockOf
  <2> DEFINE new == lists'
             after == live'
             ls == lists
             lv == live
  <2>3. /\ lv \in SUBSET (1 .. MaxBlocks) /\ after \in SUBSET (1 .. MaxBlocks) /\ Owned(ls, lv)
    BY <1>1, <1>5
  <2>4. BlockOf(new, object) \in {0, BlockOf(ls, object)} \cup (1 .. MaxBlocks \ lv)
    BY <2>1
  <2>5. after \in {lv \cup ({BlockOf(new, object)} \ {0}),
                    (lv \ {BlockOf(ls, object)}) \cup ({BlockOf(new, object)} \ {0})}
    BY <2>1
  <2>6. \A other \in Objects : BlockOf(new, other) =
           IF other = object THEN BlockOf(new, object) ELSE BlockOf(ls, other)
    BY <2>2
  <2>7. lost = (after \cap {BlockOf(ls, object)}) \ {BlockOf(new, object)}
    BY <2>1
  <2> HIDE DEF new, after, ls, lv, lost
  <2>8. Owned(new, after) /\ Unowned(new, after) = Unowned(ls, lv) \cup lost
    BY <2>3, <2>4, <2>5, <2>6, <2>7, OneBlockChanges
  <2> QED
    BY <2>8 DEF new, after, ls, lv
<1>9. Cardinality(Unowned(lists', live')) = overwritten'
  <2>1. IsFiniteSet(Unowned(lists, live))
    BY <1>1, UnownedAreCounted
  <2>2. CASE lost = {}
    <3>1. overwritten' = overwritten
      BY <1>1, <2>2
    <3>2. Unowned(lists', live') = Unowned(lists, live)
      BY <1>8, <2>2
    <3> QED
      BY <1>1, <3>1, <3>2, Zenon
  <2>3. CASE lost # {}
    <3>1. lost = {old} /\ old \in live /\ old # 0
      BY <1>1, <1>4, <1>5, <2>3
    <3>2. old \notin Unowned(lists, live)
      BY DEF Unowned, BlockOf
    <3>3. Cardinality(Unowned(lists, live) \cup {old}) = Cardinality(Unowned(lists, live)) + 1
      BY <2>1, <3>2, FS_AddElement
    <3> QED
      BY <1>1, <1>8, <2>3, <3>1, <3>3
  <2> QED
    BY <2>2, <2>3
<1>10. spoilt' \subseteq Objects /\ overwritten' \in Nat
  BY <1>1
<1> QED
  BY <1>2, <1>3, <1>5, <1>6, <1>7, <1>8, <1>9, <1>10 DEF ListsInv

LEMMA ListsInvInitially == Lists!Init => ListsInv
<1> SUFFICES ASSUME Lists!Init PROVE ListsInv
  OBVIOUS
<1>1. /\ lists = [object \in Objects |-> Lists!NoList] /\ live = {}
      /\ promised = [object \in Objects |-> <<>>] /\ spoilt = {} /\ overwritten = 0
  BY DEF Lists!Init
<1>2. \A object \in Objects : IsUnspoilt(lists[object], promised[object])
  BY <1>1 DEF IsUnspoilt
<1>3. Owned(lists, live)
  BY <1>1, NoListIsList DEF Owned, BlockOf
<1>4. Unowned(lists, live) = {}
  BY <1>1 DEF Unowned
<1>5. Cardinality(Unowned(lists, live)) = overwritten
  BY <1>1, <1>4, FS_EmptySet
<1> QED
  BY <1>1, <1>2, <1>3, <1>5 DEF ListsInv

(* What ListsInv says of an object before a step. *)
LEMMA BeforeStep ==
  ASSUME ListsInv, spoilt = {}, NEW object \in Objects
  PROVE  /\ lists[object].block \in live \cup {0} /\ live \subseteq 1 .. MaxBlocks
         /\ overwritten \in Nat /\ DOMAIN lists = Objects /\ DOMAIN promised = Objects
         /\ lists[object] # Lists!NoList => Holds(lists[object], promised[object])
         /\ lists[object].block # 0 => Holds(lists[object], promised[object])
         /\ promised = [promised EXCEPT ![object] = promised[object]]
<1>1. IsUnspoilt(lists[object], promised[object])
  BY DEF ListsInv
<1>2. lists[object].block \in live \cup {0}
  BY DEF ListsInv, Owned, BlockOf
<1>3. promised = [promised EXCEPT ![object] = promised[object]]
  <2>1. promised = [other \in Objects |-> promised[other]] /\ DOMAIN promised = Objects
    BY DEF ListsInv
  <2> QED
    BY <2>1
<1> QED
  BY <1>1, <1>2, <1>3, NoListIsList DEF ListsInv, IsUnspoilt

(* Most steps make of an object a list that holds the elements, or one     *)
(* that has outgrown its block.                                            *)
LEMMA BecomesKeepsLists ==
  ASSUME ListsInv, spoilt = {}, NEW object \in Objects, NEW list, NEW elements,
         Lists!Becomes(object, list, elements),
         IF Lists!Outgrown(list) THEN IsSpoilt(list) ELSE IsUnspoilt(list, elements),
         list.block \in {0, lists[object].block} \cup (1 .. MaxBlocks \ live),
         live' \in {live \cup ({list.block} \ {0}),
                    (live \ {lists[object].block}) \cup ({list.block} \ {0})},
         (live' \cap {lists[object].block}) \ {list.block} = {},
         overwritten' = overwritten
  PROVE  ListsInv'
<1>1. lists' = [lists EXCEPT ![object] = list] /\ promised' = [promised EXCEPT ![object] = elements]
  BY DEF Lists!Becomes
<1>2. spoilt' = IF Lists!Outgrown(list) THEN {object} ELSE {}
  BY DEF Lists!Becomes
<1>3. \/ spoilt' = {} /\ IsUnspoilt(list, elements)
      \/ spoilt' = {object} /\ IsSpoilt(list)
  BY <1>2, Zenon
<1>4. overwritten' = overwritten +
           IF (live' \cap {lists[object].block}) \ {list.block} = {} THEN 0 ELSE 1
  BY DEF ListsInv
<1> QED
  BY <1>1, <1>3, <1>4, ObjectChanges

LEMMA ConstructKeepsLists ==
  ASSUME ListsInv, spoilt = {}, NEW object \in Objects, Lists!Construct(object)
  PROVE  ListsInv'
<1> DEFINE fresh(block) == Lists!Moved(Lists!NoList, block, CountAllocate)
<1>1. PICK block \in Lists!Free :
        /\ live' = live \cup {block}
        /\ Lists!Becomes(object, fresh(block), <<>>)
  BY Zenon DEF Lists!Construct
<1>2. lists[object] = Lists!NoList /\ overwritten' = overwritten
  BY Zenon DEF Lists!Construct, Lists!Exists
<1>3. block \in 1 .. MaxBlocks \ live /\ block \in Nat \ {0}
  BY DEF Lists!Free
<1> DEFINE list == fresh(block)
<1>4. IsMoved(Lists!NoList, block, CountAllocate, list)
  BY <1>3, NoListIsList, ListConstants, MovedKeeps
<1> HIDE DEF fresh
<1>5. list \in ListRecord /\ list.block = block /\ list.allocated = CountAllocate
      /\ list.count = 0 /\ Len(list.data) = CountAllocate
  BY <1>4, NoListIsList DEF IsMoved
<1> HIDE DEF list
<1>6. CountAllocate = 1 * CountAllocate /\ 1 \in Nat \ {0}
  BY ListConstants
<1>7. \E k \in Nat \ {0} : list.allocated = k * CountAllocate
  BY <1>5, <1>6, Zenon
<1>8. Holds(list, <<>>)
  BY <1>3, <1>5, <1>7, ListConstants DEF Holds
<1>9. ~Lists!Outgrown(list)
  BY <1>5, ListConstants DEF Lists!Outgrown
<1>10. lists[object].block = 0
  BY <1>2, NoListIsList
<1>11. live' = live \cup ({list.block} \ {0}) /\ 0 \notin live'
  BY <1>1, <1>3, <1>5, BeforeStep
<1>12. Lists!Becomes(object, list, <<>>)
  BY <1>1 DEF list
<1>13. (live' \cap {lists[object].block}) \ {list.block} = {}
  BY <1>10, <1>11
<1>14. IF Lists!Outgrown(list) THEN IsSpoilt(list) ELSE IsUnspoilt(list, <<>>)
  BY <1>8, <1>9, Zenon DEF IsUnspoilt
<1> QED
  BY <1>2, <1>3, <1>5, <1>11, <1>12, <1>13, <1>14, BecomesKeepsLists

LEMMA InsertKeepsLists ==
  ASSUME ListsInv, spoilt = {}, NEW object \in Objects, Lists!Insert(object)
  PROVE  ListsInv'
<1> DEFINE old == lists[object]
           oldElements == promised[object]
<1>0. old.block # 0 /\ overwritten' = overwritten
  BY Zenon DEF Lists!Insert, Lists!Null
<1>1. Holds(old, oldElements) /\ old.block \in live /\ live \subseteq 1 .. MaxBlocks
  BY <1>0, BeforeStep
<1>2. PICK value \in Values, index \in 0 .. old.count :
        LET elements == Lists!Seqs!InsertAt(oldElements, index + 1, value) IN
        IF Lists!IsFull(old)
        THEN \E block \in Lists!Free :
               /\ Lists!MayAllocate(block) /\ live' = (live \cup {block}) \ {old.block}
               /\ Lists!Becomes(object, Lists!Inserted(Lists!Grown(old, block), value, index), elements)
        ELSE /\ Lists!Becomes(object, Lists!Inserted(old, value, index), elements)
             /\ UNCHANGED live
  BY Zenon DEF Lists!Insert
<1> DEFINE elements == Lists!Seqs!InsertAt(oldElements, index + 1, value)
<1>3. CASE Lists!IsFull(old)
  <2>1. PICK block \in Lists!Free :
          /\ live' = (live \cup {block}) \ {old.block}
          /\ Lists!Becomes(object, Lists!Inserted(Lists!Grown(old, block), value, index), elements)
    BY <1>2, <1>3, Zenon
  <2>2. block \in 1 .. MaxBlocks \ live /\ block \in Nat \ {0}
    BY DEF Lists!Free
  <2> DEFINE grown == Lists!Grown(old, block)
             list == Lists!Inserted(grown, value, index)
  <2> HIDE DEF old, oldElements
  <2>3. Holds(grown, oldElements) /\ grown.block = block
        /\ grown.count = old.count /\ grown.count < grown.allocated
    BY <1>1, <2>2, GrownHolds
  <2> HIDE DEF grown
  <2>4. index \in 0 .. grown.count
    BY <2>3
  <2>5. Holds(list, elements)
    BY <2>3, <2>4, InsertedHolds, Zenon
  <2>6. list.block = block
    BY <2>3 DEF Lists!Inserted, Holds, ListRecord
  <2>7. Lists!Becomes(object, list, elements)
    BY <2>1 DEF grown
  <2> HIDE DEF list, elements
  <2>8. ~Lists!Outgrown(list)
    BY <2>5 DEF Lists!Outgrown, Holds, ListRecord
  <2>9. live' = (live \ {old.block}) \cup ({list.block} \ {0})
        /\ (live' \cap {old.block}) \ {list.block} = {}
    BY <1>1, <2>1, <2>2, <2>6
  <2>10. IF Lists!Outgrown(list) THEN IsSpoilt(list) ELSE IsUnspoilt(list, elements)
    BY <2>5, <2>8, Zenon DEF IsUnspoilt
  <2> QED
    BY <1>0, <2>2, <2>6, <2>7, <2>9, <2>10, BecomesKeepsLists DEF old
<1>4. CASE ~Lists!IsFull(old)
  <2> DEFINE list == Lists!Inserted(old, value, index)
  <2>1. Lists!Becomes(object, list, elements) /\ live' = live
    BY <1>2, <1>4, Zenon
  <2> HIDE DEF old, oldElements
  <2>2. old.count < old.allocated
    BY <1>1, <1>4 DEF Holds, ListRecord, Lists!IsFull
  <2>3. Holds(list, elements)
    BY <1>1, <2>2, InsertedHolds, Zenon
  <2>4. list.block = old.block
    BY <1>1 DEF Lists!Inserted, Holds, ListRecord
  <2> HIDE DEF list, elements
  <2>5. ~Lists!Outgrown(list)
    BY <2>3 DEF Lists!Outgrown, Holds, ListRecord
  <2>6. live' = live \cup ({list.block} \ {0})
        /\ (live' \cap {old.block}) \ {list.block} = {}
    BY <1>1, <2>1, <2>4
  <2>7. IF Lists!Outgrown(list) THEN IsSpoilt(list) ELSE IsUnspoilt(list, elements)
    BY <2>3, <2>5, Zenon DEF IsUnspoilt
  <2> QED
    BY <1>0, <2>1, <2>4, <2>6, <2>7, BecomesKeepsLists DEF old
<1> QED
  BY <1>3, <1>4

LEMMA RemoveKeepsLists ==
  ASSUME ListsInv, spoilt = {}, NEW object \in Objects, Lists!Remove(object)
  PROVE  ListsInv'
<1> DEFINE old == lists[object]
           oldElements == promised[object]
<1>0. old.block # 0 /\ overwritten' = overwritten
  BY Zenon DEF Lists!Remove, Lists!Null
<1>1. Holds(old, oldElements) /\ old.block \in live /\ live \subseteq 1 .. MaxBlocks
  BY <1>0, BeforeStep
<1>2. PICK index \in 0 .. old.count - 1 :
        LET closed == Lists!ClosedUp(old, index)
            elements == Lists!Seqs!RemoveAt(oldElements, index + 1)
        IN IF ~Lists!Shrinks(old)
           THEN Lists!Becomes(object, Lists!OneLess(closed), elements) /\ UNCHANGED live
           ELSE \/ \E block \in Lists!Free :
                     /\ Lists!MayAllocate(block) /\ live' = (live \cup {block}) \ {old.block}
                     /\ Lists!Becomes(object, Lists!OneLess(Lists!Shrunk(closed, block)), elements)
                \/ /\ lists' = [lists EXCEPT ![object] = closed]
                   /\ spoilt' = spoilt \cup {object}
                   /\ UNCHANGED <<live, promised>>
  BY Zenon DEF Lists!Remove
<1> DEFINE closed == Lists!ClosedUp(old, index)
           elements == Lists!Seqs!RemoveAt(oldElements, index + 1)
<1>3. CASE ~Lists!Shrinks(old)
  <2> DEFINE list == Lists!OneLess(closed)
  <2>1. Lists!Becomes(object, list, elements) /\ live' = live
    BY <1>2, <1>3, Zenon
  <2> HIDE DEF old, oldElements
  <2>2. Holds(list, elements) /\ list.block = old.block /\ ~Lists!Outgrown(list)
    BY <1>1, RemovedHolds, Zenon
  <2> HIDE DEF list, elements, closed
  <2>3. live' = live \cup ({list.block} \ {0})
        /\ (live' \cap {old.block}) \ {list.block} = {}
    BY <1>1, <2>1, <2>2
  <2>4. IF Lists!Outgrown(list) THEN IsSpoilt(list) ELSE IsUnspoilt(list, elements)
    BY <2>2, Zenon DEF IsUnspoilt
  <2> QED
    BY <1>0, <2>1, <2>2, <2>3, <2>4, BecomesKeepsLists DEF old
<1>4. CASE Lists!Shrinks(old) /\ \E block \in Lists!Free :
             /\ Lists!MayAllocate(block) /\ live' = (live \cup {block}) \ {old.block}
             /\ Lists!Becomes(object, Lists!OneLess(Lists!Shrunk(closed, block)), elements)
  <2>1. PICK block \in Lists!Free :
          /\ live' = (live \cup {block}) \ {old.block}
          /\ Lists!Becomes(object, Lists!OneLess(Lists!Shrunk(closed, block)), elements)
    BY <1>4, Zenon
  <2>2. block \in 1 .. MaxBlocks \ live /\ block \in Nat \ {0}
    BY DEF Lists!Free
  <2> DEFINE list == Lists!OneLess(Lists!Shrunk(closed, block))
  <2> HIDE DEF old, oldElements
  <2>3. /\ list \in ListRecord /\ list.block = block /\ Len(list.data) = list.allocated
        /\ ~Lists!Outgrown(list) => Holds(list, elements)
        /\ Lists!Outgrown(list) => list.count + 1 >= 2 * (CountAllocate + 1)
    BY <1>1, <1>4, <2>2, ShrunkHolds, Zenon
  <2>4. Lists!Becomes(object, list, elements)
    BY <2>1
  <2> HIDE DEF list, elements, closed
  <2>5. Lists!Outgrown(list) => IsSpoilt(list)
    BY <2>3 DEF IsSpoilt, ListRecord
  <2>6. IF Lists!Outgrown(list) THEN IsSpoilt(list) ELSE IsUnspoilt(list, elements)
    BY <2>3, <2>5, Zenon DEF IsUnspoilt
  <2>7. live' = (live \ {old.block}) \cup ({list.block} \ {0})
        /\ (live' \cap {old.block}) \ {list.block} = {}
    BY <1>1, <2>1, <2>2, <2>3
  <2> QED
    BY <1>0, <2>2, <2>3, <2>4, <2>6, <2>7, BecomesKeepsLists DEF old
<1>5. CASE /\ Lists!Shrinks(old)
           /\ lists' = [lists EXCEPT ![object] = closed]
           /\ spoilt' = spoilt \cup {object}
           /\ UNCHANGED <<live, promised>>
  <2>1. IsClosedUp(old, closed, elements)
    BY <1>1, ClosedUpMatches, Zenon
  <2> HIDE DEF elements, closed
  <2>2. IsSpoilt(closed) /\ closed.block = old.block
    BY <1>5, <2>1 DEF IsClosedUp, IsSpoilt, Lists!Shrinks, ListRecord
  <2>3. promised' = [promised EXCEPT ![object] = oldElements]
    BY <1>5, BeforeStep
  <2>4. live' = live \cup ({closed.block} \ {0})
        /\ (live' \cap {old.block}) \ {closed.block} = {}
    BY <1>1, <1>5, <2>2
  <2>5. overwritten' = overwritten +
           IF (live' \cap {old.block}) \ {closed.block} = {} THEN 0 ELSE 1
    BY <1>0, <2>4, BeforeStep
  <2>6. spoilt' = {object}
    BY <1>5
  <2> QED
    BY <1>5, <2>2, <2>3, <2>4, <2>5, <2>6, ObjectChanges
<1> QED
  BY <1>2, <1>3, <1>4, <1>5, Zenon

LEMMA AssignKeepsLists ==
  ASSUME ListsInv, spoilt = {}, Lists!Assign
  PROVE  ListsInv'
<1>1. PICK object \in Objects, values \in Objects :
        object # values /\ Lists!Exists(values) /\ Lists!AssignFrom(object, values)
  BY Zenon DEF Lists!Assign
<1> DEFINE old == lists[object]
           source == lists[values]
<1>2. PICK block \in Lists!Free \cup {0} :
        IF block = 0
        THEN /\ lists' = [lists EXCEPT ![object].block = 0, ![object].data = <<>>]
             /\ spoilt' = spoilt \cup {object}
             /\ UNCHANGED <<live, promised>>
        ELSE /\ live' = live \cup {block}
             /\ lists' = [lists EXCEPT ![object] = Lists!Moved(source, block, source.allocated)]
             /\ promised' = [promised EXCEPT ![object] = promised[values]]
             /\ UNCHANGED spoilt
  BY <1>1, Zenon DEF Lists!AssignFrom, Lists!Null
<1>3. overwritten' = overwritten + IF old.block = 0 THEN 0 ELSE 1
  BY <1>1, Zenon DEF Lists!AssignFrom, Lists!Null
<1>4. old.block \in live \cup {0} /\ live \subseteq 1 .. MaxBlocks
      /\ DOMAIN lists = Objects /\ DOMAIN promised = Objects
  BY <1>1, BeforeStep
<1>5. Holds(source, promised[values])
  BY <1>1, BeforeStep DEF Lists!Exists
<1>6. CASE block = 0
  <2> DEFINE list == [old EXCEPT !.block = 0, !.data = <<>>]
  <2>1. lists' = [lists EXCEPT ![object] = list]
    <3>1. lists' = [lists EXCEPT ![object].block = 0, ![object].data = <<>>]
      BY <1>2, <1>6
    <3> QED
      BY <1>4, <3>1
  <2>2. old \in ListRecord
    BY <1>1, BeforeStep, NoListIsList DEF Holds
  <2>3. list.block = 0 /\ list.count \in Nat /\ list.allocated \in Nat
    BY <2>2 DEF ListRecord
  <2> HIDE DEF list
  <2>4. IsSpoilt(list)
    BY <2>3 DEF IsSpoilt
  <2>5. promised' = [promised EXCEPT ![object] = promised[object]] /\ live' = live /\ spoilt' = {object}
    BY <1>1, <1>2, <1>6, BeforeStep
  <2>6. (live' \cap {old.block}) \ {list.block} = {} <=> old.block = 0
    BY <1>4, <2>3, <2>5
  <2>7. overwritten' = overwritten +
           IF (live' \cap {old.block}) \ {list.block} = {} THEN 0 ELSE 1
    BY <1>3, <2>6, Zenon
  <2>8. live' = live \cup ({list.block} \ {0})
    BY <2>3, <2>5
  <2> QED
    BY <2>1, <2>3, <2>4, <2>5, <2>7, <2>8, ObjectChanges
<1>7. CASE block # 0
  <2>1. block \in 1 .. MaxBlocks \ live /\ block \in Nat \ {0}
    BY <1>7 DEF Lists!Free
  <2> DEFINE list == Lists!Moved(source, block, source.allocated)
             elements == promised[values]
  <2>2. /\ lists' = [lists EXCEPT ![object] = list]
        /\ promised' = [promised EXCEPT ![object] = elements]
        /\ live' = live \cup {block} /\ spoilt' = {}
    BY <1>2, <1>7
  <2> HIDE DEF source, elements
  <2>3. Holds(source, elements)
    BY <1>5 DEF source, elements
  <2>4. source \in ListRecord /\ source.allocated \in Nat
    BY <2>3 DEF Holds, ListRecord
  <2>5. IsMoved(source, block, source.allocated, list)
    BY <2>1, <2>4, MovedKeeps
  <2> HIDE DEF list
  <2>6. \A p \in 1 .. source.count : p \in 1 .. source.allocated /\ p <= Len(source.data)
    BY <2>3 DEF Holds, ListRecord
  <2>7. \A p \in 1 .. list.count : list.data[p] = elements[p]
    BY <2>3, <2>4, <2>5, <2>6 DEF Holds, IsMoved, ListRecord
  <2>8. Holds(list, elements) /\ list.block = block
    BY <2>1, <2>3, <2>5, <2>7, Zenon DEF Holds, IsMoved
  <2>9. (live' \cap {old.block}) \ {list.block} = {} <=> old.block = 0
    BY <1>4, <2>1, <2>2, <2>8
  <2>10. overwritten' = overwritten +
           IF (live' \cap {old.block}) \ {list.block} = {} THEN 0 ELSE 1
    BY <1>3, <2>9, Zenon
  <2>11. live' = live \cup ({list.block} \ {0})
    BY <2>1, <2>2, <2>8
  <2> QED
    BY <2>1, <2>2, <2>8, <2>10, <2>11, ObjectChanges DEF IsUnspoilt
<1> QED
  BY <1>6, <1>7

LEMMA DestroyKeepsLists ==
  ASSUME ListsInv, spoilt = {}, NEW object \in Objects, Lists!Destroy(object)
  PROVE  ListsInv'
<1> DEFINE old == lists[object]
           list == Lists!NoList
<1>1. /\ old # Lists!NoList /\ live' = live \ Lists!Freed(old)
      /\ Lists!Becomes(object, list, <<>>) /\ overwritten' = overwritten
  BY Zenon DEF Lists!Destroy, Lists!Exists
<1>2. Holds(old, promised[object]) /\ old.block \in live /\ live \subseteq 1 .. MaxBlocks
  BY <1>1, BeforeStep DEF Holds
<1>3. old.allocated > 0
  <2>1. PICK k \in Nat \ {0} : old.allocated = k * CountAllocate
    BY <1>2 DEF Holds
  <2> QED
    BY <2>1, ListConstants
<1>4. live' = (live \ {old.block}) \cup ({list.block} \ {0})
  BY <1>1, <1>2, <1>3, NoListIsList DEF Lists!Freed, Lists!Null, Holds
<1>5. ~Lists!Outgrown(list)
  BY DEF Lists!Outgrown, Lists!NoList
<1>6. IF Lists!Outgrown(list) THEN IsSpoilt(list) ELSE IsUnspoilt(list, <<>>)
  BY <1>5, Zenon DEF IsUnspoilt
<1>7. list.block = 0 /\ (live' \cap {old.block}) \ {list.block} = {}
  BY <1>4, NoListIsList
<1> HIDE DEF list
<1> QED
  BY <1>1, <1>4, <1>6, <1>7, BecomesKeepsLists

LEMMA ListsStep ==
  ASSUME ListsInv, Lists!Next
  PROVE  ListsInv'
<1>1. spoilt = {}
  BY Zenon DEF Lists!Next
<1>2. CASE \E object \in Objects : Lists!Construct(object)
  BY <1>1, <1>2, ConstructKeepsLists
<1>3. CASE \E object \in Objects : Lists!Insert(object)
  BY <1>1, <1>3, InsertKeepsLists
<1>4. CASE \E object \in Objects : Lists!Remove(object)
  BY <1>1, <1>4, RemoveKeepsLists
<1>5. CASE \E object \in Objects : Lists!Destroy(object)
  BY <1>1, <1>5, DestroyKeepsLists
<1>6. CASE Lists!Assign
  BY <1>1, <1>6, AssignKeepsLists
<1> QED
  BY <1>2, <1>3, <1>4, <1>5, <1>6, Zenon DEF Lists!Next

(***************************************************************************)
(* However lists are built, inserted into, shortened, assigned and         *)
(* destroyed, and whichever of the allocations fail, each holds what was   *)
(* put in and not taken out until it shrinks too far or is refused memory, *)
(* no two share a block and every block that is nobody's was overwritten   *)
(* by an assignment (list.hxx:81-104, 118-125), for every CountAllocate.   *)
(***************************************************************************)
THEOREM ListsAreKeptAlways == ServicesSpec => []ListsAreKept
<1> DEFINE Inv == stage = "list" => ListsInv
<1>1. ServicesInit => Inv
  <2> SUFFICES ASSUME ServicesInit, stage = "list" PROVE ListsInv
    OBVIOUS
  <2>1. Lists!Init
    BY DEF ServicesInit
  <2> QED
    BY <2>1, ListsInvInitially
<1>2. Inv /\ [ServicesNext]_servicesVars => Inv'
  <2> SUFFICES ASSUME Inv, [ServicesNext]_servicesVars, stage' = "list" PROVE ListsInv'
    OBVIOUS
  <2>1. CASE KeepList
    BY <2>1, ListsStep DEF KeepList
  <2>2. CASE Work
    BY <2>2 DEF Work
  <2>3. CASE Resolve
    BY <2>3 DEF Resolve
  <2>4. CASE Handle
    BY <2>4 DEF Handle
  <2>5. CASE UNCHANGED servicesVars
    <3>1. stage' = stage /\ lists' = lists /\ live' = live /\ promised' = promised
          /\ spoilt' = spoilt /\ overwritten' = overwritten
      BY <2>5 DEF servicesVars, listVars
    <3> QED
      BY <3>1 DEF ListsInv, Owned, Unowned, BlockOf
  <2> QED
    BY <2>1, <2>2, <2>3, <2>4, <2>5, Zenon DEF ServicesNext
<1>3. Inv => ListsAreKept
  BY ListsInvImplies DEF ListsAreKept
<1> QED
  BY <1>1, <1>2, <1>3, PTL DEF ServicesSpec

-----------------------------------------------------------------------------
(* Induction.  Every set of numbers has a least element, and what is       *)
(* defined step by step from a first value is defined.                     *)
LEMMA LeastNumber ==
  ASSUME NEW S \in SUBSET Nat, S # {}
  PROVE  \E m \in S : \A n \in S : m <= n
<1>1. PICK m \in S : \A n \in S : ~(<<n, m>> \in OpToRel(<, Nat))
  BY NatLessThanWellFounded, WFMin, Zenon
<1>2. \A n \in S : n < m => <<n, m>> \in OpToRel(<, Nat)
  BY Zenon DEF OpToRel
<1>3. \A n \in S : ~(n < m)
  BY <1>1, <1>2, Zenon
<1> QED
  BY <1>3

LEMMA UpTo ==
  ASSUME NEW n \in Nat, NEW S, 0 \in S, \A i \in 1 .. n : i - 1 \in S => i \in S
  PROVE  0 .. n \subseteq S
<1> DEFINE others == (0 .. n) \ S
<1> SUFFICES ASSUME others # {} PROVE FALSE
  OBVIOUS
<1>1. others \in SUBSET Nat
  OBVIOUS
<1>2. PICK m \in others : \A k \in others : m <= k
  <2> HIDE DEF others
  <2> QED
    BY <1>1, LeastNumber
<1>3. m \in 1 .. n /\ m - 1 \notin others
  BY <1>2
<1> QED
  BY <1>3

StepsFrom(h, X, first, n, step) ==
  h \in [0 .. n -> X] /\ h[0] = first /\ \A i \in 1 .. n : h[i] = step[<<i, h[i - 1]>>]

LEMMA StepByStep ==
  ASSUME NEW X, NEW first \in X, NEW n \in Nat, NEW step \in [(1 .. n) \X X -> X]
  PROVE  \E h : StepsFrom(h, X, first, n, step)
<1> DEFINE Does(h, k) == /\ h \in [0 .. k -> X] /\ h[0] = first
                         /\ \A i \in 1 .. k : h[i] = step[<<i, h[i - 1]>>]
           S == {k \in 0 .. n : \E h \in [0 .. k -> X] : Does(h, k)}
<1>1. 0 \in S
  <2> DEFINE h == [i \in 0 .. 0 |-> first]
  <2>1. Does(h, 0) /\ h \in [0 .. 0 -> X]
    OBVIOUS
  <2>2. 0 \in 0 .. n
    OBVIOUS
  <2> HIDE DEF Does, h
  <2> QED
    BY <2>1, <2>2
<1>2. ASSUME NEW i \in 1 .. n, i - 1 \in S PROVE i \in S
  <2>1. PICK h \in [0 .. i - 1 -> X] : Does(h, i - 1)
    BY <1>2, Zenon
  <2> DEFINE g == [k \in 0 .. i |-> IF k = i THEN step[<<i, h[i - 1]>>] ELSE h[k]]
  <2>2. step[<<i, h[i - 1]>>] \in X
    BY <2>1
  <2>3. \A k \in 0 .. i : k # i => k \in 0 .. i - 1
    OBVIOUS
  <2>4. g \in [0 .. i -> X]
    BY <2>1, <2>2, <2>3
  <2>5. g[0] = first
    BY <2>1
  <2>6. \A k \in 1 .. i : g[k] = step[<<k, g[k - 1]>>]
    <3> SUFFICES ASSUME NEW k \in 1 .. i PROVE g[k] = step[<<k, g[k - 1]>>]
      OBVIOUS
    <3>1. g[k - 1] = h[k - 1]
      OBVIOUS
    <3>2. CASE k = i
      <4>1. g[i] = step[<<i, h[i - 1]>>]
        OBVIOUS
      <4> QED
        BY <3>1, <3>2, <4>1, Zenon
    <3>3. CASE k # i
      <4>1. k \in 1 .. i - 1
        BY <3>3
      <4>2. g[k] = h[k]
        BY <3>3
      <4> QED
        BY <2>1, <3>1, <4>1, <4>2
    <3> QED
      BY <3>2, <3>3
  <2>7. Does(g, i)
    BY <2>4, <2>5, <2>6
  <2> HIDE DEF Does, g
  <2> QED
    BY <2>4, <2>7 DEF g
<1> HIDE DEF S
<1>3. 0 .. n \subseteq S
  BY <1>1, <1>2, UpTo
<1>4. n \in S
  BY <1>3
<1>5. \E h \in [0 .. n -> X] : Does(h, n)
  BY <1>4, Zenon DEF S
<1>6. \A h : Does(h, n) => StepsFrom(h, X, first, n, step)
  BY Zenon DEF StepsFrom
<1> HIDE DEF Does
<1> QED
  BY <1>5, <1>6, Zenon

-----------------------------------------------------------------------------
(* The loops over memory.  Whatever the width of its units, a block        *)
(* consists of them.                                                       *)
LEMMA UnitsMakeBlocks ==
  ASSUME NEW count \in Nat
  PROVE  /\ Memory!Width(count) \in {1, 2, 4} /\ Memory!Units(count) \in Nat
         /\ Memory!Width(count) * Memory!Units(count) = count
         /\ count % 2 = 0 => Memory!Width(count) # 1
<1>1. CASE count % 8 = 4 \/ count % 8 = 0
  BY <1>1 DEF Memory!Width, Memory!Units
<1>2. CASE ~(count % 8 = 4 \/ count % 8 = 0) /\ (count % 4 = 2 \/ count % 4 = 0)
  BY <1>2 DEF Memory!Width, Memory!Units
<1>3. CASE ~(count % 8 = 4 \/ count % 8 = 0) /\ ~(count % 4 = 2 \/ count % 4 = 0)
  BY <1>3 DEF Memory!Width, Memory!Units
<1> QED
  BY <1>1, <1>2, <1>3

(* Every address of a block lies in one of its units, and in no other      *)
(* block's.                                                                *)
LEMMA UnitOfAddress ==
  ASSUME NEW w \in {1, 2, 4}, NEW u \in Nat, NEW start \in Nat
  PROVE  /\ \A a \in start .. start + w * u - 1 : \E i \in 0 .. u - 1 :
              a \in start + i * w .. start + i * w + w - 1
         /\ \A i \in 0 .. u - 1 :
              start + i * w .. start + i * w + w - 1 \subseteq start .. start + w * u - 1
<1>1. CASE w = 1
  <2>1. ASSUME NEW a \in start .. start + w * u - 1
        PROVE  \E i \in 0 .. u - 1 : a \in start + i * w .. start + i * w + w - 1
    <3>1. a - start \in 0 .. u - 1 /\ a \in start + (a - start) * w .. start + (a - start) * w + w - 1
      BY <1>1
    <3> QED
      BY <3>1
  <2>2. ASSUME NEW i \in 0 .. u - 1
        PROVE  start + i * w .. start + i * w + w - 1 \subseteq start .. start + w * u - 1
    BY <1>1
  <2> QED
    BY <2>1, <2>2
<1>2. CASE w = 2
  <2>1. ASSUME NEW a \in start .. start + w * u - 1
        PROVE  \E i \in 0 .. u - 1 : a \in start + i * w .. start + i * w + w - 1
    <3> DEFINE i == (a - start) \div 2
    <3>1. i \in 0 .. u - 1 /\ a \in start + i * 2 .. start + i * 2 + 1
      BY <1>2
    <3> HIDE DEF i
    <3> QED
      BY <1>2, <3>1
  <2>2. ASSUME NEW i \in 0 .. u - 1
        PROVE  start + i * w .. start + i * w + w - 1 \subseteq start .. start + w * u - 1
    BY <1>2
  <2> QED
    BY <2>1, <2>2
<1>3. CASE w = 4
  <2>1. ASSUME NEW a \in start .. start + w * u - 1
        PROVE  \E i \in 0 .. u - 1 : a \in start + i * w .. start + i * w + w - 1
    <3> DEFINE i == (a - start) \div 4
    <3>1. i \in 0 .. u - 1 /\ a \in start + i * 4 .. start + i * 4 + 3
      BY <1>3
    <3> HIDE DEF i
    <3> QED
      BY <1>3, <3>1
  <2>2. ASSUME NEW i \in 0 .. u - 1
        PROVE  start + i * w .. start + i * w + w - 1 \subseteq start .. start + w * u - 1
    BY <1>3
  <2> QED
    BY <2>1, <2>2
<1> QED
  BY <1>1, <1>2, <1>3

(* Filling unit by unit fills the block. *)
LEMMA FilledIsBlock ==
  ASSUME NEW start \in Nat, NEW count \in Nat
  PROVE  Memory!Filled(start, count) = Memory!Block(start, count)
<1> DEFINE w == Memory!Width(count)
           u == Memory!Units(count)
<1>1. w \in {1, 2, 4} /\ u \in Nat /\ w * u = count
  BY UnitsMakeBlocks
<1>2. \A i \in 0 .. u - 1 :
        Memory!Unit(start, count, i) = start + i * w .. start + i * w + w - 1
  BY DEF Memory!Unit, Memory!Block
<1>3. Memory!Filled(start, count) = UNION {Memory!Unit(start, count, i) : i \in 0 .. u - 1}
  BY Zenon DEF Memory!Filled
<1> HIDE DEF w, u
<1>4. /\ \A a \in start .. start + w * u - 1 : \E i \in 0 .. u - 1 :
              a \in start + i * w .. start + i * w + w - 1
      /\ \A i \in 0 .. u - 1 :
              start + i * w .. start + i * w + w - 1 \subseteq start .. start + w * u - 1
  BY <1>1, UnitOfAddress
<1>5. Memory!Block(start, count) = start .. start + w * u - 1
  BY <1>1 DEF Memory!Block
<1>6. \A i \in 0 .. u - 1 : Memory!Unit(start, count, i) \subseteq Memory!Block(start, count)
  BY <1>2, <1>4, <1>5, Zenon
<1>7. \A a \in Memory!Block(start, count) : \E i \in 0 .. u - 1 : a \in Memory!Unit(start, count, i)
  BY <1>2, <1>4, <1>5, Zenon
<1> QED
  BY <1>3, <1>6, <1>7, Zenon

(* What a copy is to make of memory. *)
MovesBlock(after, destination, source, count) ==
  destination <= source \/ source + count <= destination =>
    \A a \in Memory!Address :
      after[a] = IF a \in Memory!Block(destination, count)
                 THEN memory[a - destination + source] ELSE memory[a]

(* Copy, one unit after the other, gives every byte of memory a value, and *)
(* moves the block when no unit is stored over one still to be loaded.     *)
LEMMA CopiedMovesBlock ==
  ASSUME NEW Value, memory \in [Memory!Address -> Value],
         NEW destination \in Nat, NEW source \in Nat, NEW count \in Nat,
         destination + count <= Size, source + count <= Size
  PROVE  /\ Memory!Copied(destination, source, count) \in [Memory!Address -> Value]
         /\ MovesBlock(Memory!Copied(destination, source, count), destination, source, count)
<1> DEFINE w == Memory!Width(count)
           u == Memory!Units(count)
           unit(i) == Memory!Unit(destination, count, Memory!CopyOrder(count, i))
           loaded(before, i) == [a \in Memory!Address |->
              IF a \in unit(i) THEN before[a - destination + source] ELSE before[a]]
           X == [Memory!Address -> Value]
           after[i \in 0 .. u] == IF i = 0 THEN memory ELSE loaded(after[i - 1], i)
<1>1. w \in {1, 2, 4} /\ u \in Nat /\ w * u = count
  BY UnitsMakeBlocks
<1>2. Size \in Nat
  BY ServicesAssumption DEF Memory!MemoryAssumption
<1>3. \A i \in 1 .. u : unit(i) = destination + (i - 1) * w .. destination + (i - 1) * w + w - 1
  BY DEF Memory!Unit, Memory!Block, Memory!CopyOrder
<1>4. Memory!Copied(destination, source, count) = after[u]
  BY Zenon DEF Memory!Copied
<1>5. after = CHOOSE f : f = [i \in 0 .. u |-> IF i = 0 THEN memory ELSE loaded(f[i - 1], i)]
  BY Zenon
<1>6. /\ \A a \in destination .. destination + w * u - 1 : \E i \in 0 .. u - 1 :
              a \in destination + i * w .. destination + i * w + w - 1
      /\ \A i \in 0 .. u - 1 : destination + i * w .. destination + i * w + w - 1
                                 \subseteq destination .. destination + w * u - 1
  <2> HIDE DEF w, u
  <2> QED
    BY <1>1, UnitOfAddress
<1> HIDE DEF after, unit, w, u
<1>7. \A i \in 1 .. u : \A a \in unit(i) :
        a \in Int /\ a >= destination + (i - 1) * w /\ a < destination + count
  <2> SUFFICES ASSUME NEW i \in 1 .. u, NEW a \in unit(i)
               PROVE  a \in Int /\ a >= destination + (i - 1) * w /\ a < destination + count
    OBVIOUS
  <2>1. i - 1 \in 0 .. u - 1 /\ w \in Nat
    BY <1>1
  <2>2. (i - 1) * w \in Nat
    BY <2>1
  <2>3. a \in destination + (i - 1) * w .. destination + (i - 1) * w + w - 1
    BY <1>3
  <2>4. a \in destination .. destination + w * u - 1
    BY <1>6, <2>1, <2>3, Zenon
  <2> QED
    BY <1>1, <2>1, <2>2, <2>3, <2>4
<1>8. \A i \in 1 .. u : \A a \in unit(i) : a - destination + source \in Memory!Address
  <2> SUFFICES ASSUME NEW i \in 1 .. u, NEW a \in unit(i)
               PROVE  a - destination + source \in Memory!Address
    OBVIOUS
  <2>1. (i - 1) * w \in Nat
    BY <1>1
  <2>2. a \in Int /\ a >= destination /\ a < destination + count
    BY <1>7, <2>1
  <2> QED
    BY <1>2, <2>2 DEF Memory!Address
<1>9. \A before \in X : \A i \in 1 .. u : loaded(before, i) \in X
  BY <1>8
<1>10. PICK h \in [0 .. u -> X] : h[0] = memory /\ \A i \in 1 .. u : h[i] = loaded(h[i - 1], i)
  <2> DEFINE step == [z \in (1 .. u) \X X |-> loaded(z[2], z[1])]
  <2>1. step \in [(1 .. u) \X X -> X]
    <3>1. \A z \in (1 .. u) \X X : z[1] \in 1 .. u /\ z[2] \in X
      OBVIOUS
    <3> HIDE DEF loaded, X
    <3> QED
      BY <1>9, <3>1
  <2>2. \A before \in X : \A i \in 1 .. u : step[<<i, before>>] = loaded(before, i)
    <3> HIDE DEF loaded, X
    <3> QED
      OBVIOUS
  <2>3. memory \in X
    OBVIOUS
  <2> HIDE DEF step, loaded, X
  <2>4. PICK h : StepsFrom(h, X, memory, u, step)
    BY <1>1, <2>1, <2>3, StepByStep
  <2>5. \A i \in 1 .. u : h[i - 1] \in X
    BY <1>1, <2>4 DEF StepsFrom
  <2> QED
    BY <2>2, <2>4, <2>5 DEF StepsFrom
<1> HIDE DEF loaded, X
<1>11. after = [i \in 0 .. u |-> IF i = 0 THEN memory ELSE loaded(after[i - 1], i)]
  <2>1. h = [i \in 0 .. u |-> IF i = 0 THEN memory ELSE loaded(h[i - 1], i)]
    <3>1. \A i \in 0 .. u : h[i] = IF i = 0 THEN memory ELSE loaded(h[i - 1], i)
      BY <1>10
    <3>2. h = [i \in 0 .. u |-> h[i]]
      BY <1>10
    <3> QED
      BY <3>1, <3>2, Zenon
  <2> QED
    BY <1>5, <2>1, Zenon
<1>12. after[0] = memory /\ \A i \in 1 .. u : after[i] = loaded(after[i - 1], i)
  BY <1>1, <1>11
<1>13. 0 .. u \subseteq {i \in 0 .. u : after[i] \in X}
  <2> DEFINE S == {i \in 0 .. u : after[i] \in X}
  <2>1. 0 \in S
    BY <1>1, <1>12 DEF X
  <2>2. \A i \in 1 .. u : i - 1 \in S => i \in S
    BY <1>9, <1>12
  <2> HIDE DEF S
  <2>3. 0 .. u \subseteq S
    BY <1>1, <2>1, <2>2, UpTo
  <2> QED
    BY <2>3 DEF S
<1>14. after[u] \in X
  BY <1>1, <1>13
<1>15. ASSUME destination <= source \/ source + count <= destination
       PROVE  \A a \in Memory!Address :
                after[u][a] = IF a \in Memory!Block(destination, count)
                              THEN memory[a - destination + source] ELSE memory[a]
  <2> DEFINE part(i) == destination .. destination + i * w - 1
             S == {i \in 0 .. u : \A a \in Memory!Address :
                after[i][a] = IF a \in part(i) THEN memory[a - destination + source] ELSE memory[a]}
  <2>1. 0 \in S
    <3>1. part(0) = {}
      BY <1>1
    <3> HIDE DEF part
    <3> QED
      BY <1>1, <1>12, <3>1
  <2>2. ASSUME NEW i \in 1 .. u, i - 1 \in S PROVE i \in S
    <3> SUFFICES ASSUME NEW a \in Memory!Address
                 PROVE  after[i][a] = IF a \in part(i) THEN memory[a - destination + source]
                                      ELSE memory[a]
      <4>1. i \in 0 .. u
        BY <1>1
      <4> QED
        BY <4>1, Zenon
    <3> DEFINE before == after[i - 1]
    <3>1. \A b \in Memory!Address :
            before[b] = IF b \in part(i - 1) THEN memory[b - destination + source] ELSE memory[b]
      BY <2>2, Zenon
    <3>2. after[i][a] = IF a \in unit(i) THEN before[a - destination + source] ELSE before[a]
      BY <1>12, Zenon DEF loaded
    <3>3. (i - 1) * w \in Nat /\ i * w = (i - 1) * w + w /\ w \in Nat \ {0}
      BY <1>1
    <3>4. a \in part(i) <=> a \in part(i - 1) \/ a \in unit(i)
      BY <1>2, <1>3, <3>3 DEF Memory!Address
    <3>5. CASE a \in unit(i)
      <4>1. a - destination + source \in Memory!Address
        BY <1>8, <3>5
      <4>2. a - destination + source \notin part(i - 1)
        BY <1>7, <1>15, <3>3, <3>5
      <4>3. before[a - destination + source] = memory[a - destination + source]
        BY <3>1, <4>1, <4>2, Zenon
      <4> QED
        BY <3>2, <3>4, <3>5, <4>3, Zenon
    <3>6. CASE a \notin unit(i)
      BY <3>1, <3>2, <3>4, <3>6, Zenon
    <3> QED
      BY <3>5, <3>6
  <2> HIDE DEF S
  <2>3. 0 .. u \subseteq S
    BY <1>1, <2>1, <2>2, UpTo
  <2>4. u \in S
    BY <1>1, <2>3
  <2>5. part(u) = Memory!Block(destination, count)
    BY <1>1 DEF Memory!Block
  <2> HIDE DEF part
  <2> QED
    BY <2>4, <2>5, Zenon DEF S
<1> QED
  BY <1>4, <1>14, <1>15, Zenon DEF X, MovesBlock

(* Compare is right about blocks of an even length, and never calls equal  *)
(* blocks different.                                                       *)
LEMMA EqualKnowsEvenBlocks ==
  ASSUME NEW first \in Nat, NEW second \in Nat, NEW count \in Nat
  PROVE  LET same == \A i \in 0 .. count - 1 : memory[first + i] = memory[second + i] IN
         /\ Memory!Equal(first, second, count) \in BOOLEAN
         /\ same => Memory!Equal(first, second, count)
         /\ count % 2 = 0 => (Memory!Equal(first, second, count) <=> same)
<1> DEFINE w == Memory!Width(count)
           u == Memory!Units(count)
           other == Memory!SecondBlock(first, second, count)
           same == \A i \in 0 .. count - 1 : memory[first + i] = memory[second + i]
           equal == \A i \in 0 .. u - 1 : \A a \in Memory!Unit(first, count, i) :
                      memory[a] = memory[a - first + other]
<1>1. w \in {1, 2, 4} /\ u \in Nat /\ w * u = count /\ (count % 2 = 0 => w # 1)
  BY UnitsMakeBlocks
<1>2. Memory!Equal(first, second, count) = equal
  BY Zenon DEF Memory!Equal
<1>3. \A i \in 0 .. u - 1 :
        Memory!Unit(first, count, i) = first + i * w .. first + i * w + w - 1
  BY DEF Memory!Unit, Memory!Block
<1>4. other = IF w = 1 THEN first ELSE second
  BY Zenon DEF Memory!SecondBlock
<1> HIDE DEF w, u, other
<1>5. /\ \A a \in first .. first + w * u - 1 : \E i \in 0 .. u - 1 :
              a \in first + i * w .. first + i * w + w - 1
      /\ \A i \in 0 .. u - 1 :
              first + i * w .. first + i * w + w - 1 \subseteq first .. first + w * u - 1
  BY <1>1, UnitOfAddress
<1>6. equal <=> \A a \in first .. first + count - 1 : memory[a] = memory[a - first + other]
  <2>1. ASSUME \A a \in first .. first + count - 1 : memory[a] = memory[a - first + other]
        PROVE  equal
    BY <1>1, <1>3, <1>5, <2>1, Zenon
  <2>2. ASSUME equal, NEW a \in first .. first + count - 1
        PROVE  memory[a] = memory[a - first + other]
    <3>1. PICK i \in 0 .. u - 1 : a \in first + i * w .. first + i * w + w - 1
      BY <1>1, <1>5, <2>2, Zenon
    <3>2. a \in Memory!Unit(first, count, i)
      BY <1>3, <3>1, Zenon
    <3> QED
      BY <2>2, <3>2, Zenon
  <2> QED
    BY <2>1, <2>2
<1> HIDE DEF equal
<1>7. w = 1 => equal
  <2>1. \A a \in first .. first + count - 1 : a - first + first = a
    OBVIOUS
  <2> QED
    BY <1>4, <1>6, <2>1, Zenon
<1>8. w # 1 => (equal <=> same)
  <2> SUFFICES ASSUME w # 1 PROVE equal <=> same
    OBVIOUS
  <2>1. other = second
    BY <1>4
  <2>2. ASSUME equal, NEW i \in 0 .. count - 1 PROVE memory[first + i] = memory[second + i]
    <3>1. first + i \in first .. first + count - 1 /\ (first + i) - first + second = second + i
      OBVIOUS
    <3> QED
      BY <1>6, <2>1, <2>2, <3>1
  <2>3. ASSUME same, NEW a \in first .. first + count - 1
        PROVE  memory[a] = memory[a - first + other]
    <3>1. a - first \in 0 .. count - 1 /\ first + (a - first) = a
          /\ second + (a - first) = a - first + second
      OBVIOUS
    <3>2. memory[first + (a - first)] = memory[second + (a - first)]
      BY <2>3, <3>1
    <3> QED
      BY <2>1, <3>1, <3>2
  <2> QED
    BY <1>6, <2>2, <2>3, Zenon
<1>9. equal \in BOOLEAN
  BY DEF equal
<1> QED
  BY <1>1, <1>2, <1>7, <1>8, <1>9, Zenon

-----------------------------------------------------------------------------
MemoryInv == stage = "memory" => \E Value : memory \in [Memory!Address -> Value]

LEMMA MemoryInvInitially == ServicesInit => MemoryInv
BY DEF ServicesInit, Memory!Init, MemoryInv

(* What a call does to memory and says, in one step. *)
LEMMA InvokeHandlesBlocks ==
  ASSUME NEW Value, memory \in [Memory!Address -> Value], Memory!Invoke
  PROVE  /\ \E Other : memory' \in [Memory!Address -> Other]
         /\ call'.name = "Copy" /\
            (call'.first <= call'.second \/ call'.second + call'.count <= call'.first)
              => \A a \in Memory!Address :
                   memory'[a] = IF a \in Memory!Block(call'.first, call'.count)
                                THEN memory[a - call'.first + call'.second] ELSE memory[a]
         /\ call'.name = "Fill" => \A a \in Memory!Address :
              memory'[a] = IF a \in Memory!Block(call'.first, call'.count)
                           THEN call'.second ELSE memory[a]
         /\ Memory!CompareKnowsEvenBlocks'
<1>0. Size \in Nat
  BY ServicesAssumption DEF Memory!MemoryAssumption
<1>1. PICK count \in Memory!Counts, first \in Memory!Address, second \in Memory!Address :
        /\ first + count <= Size
        /\ \/ /\ second + count <= Size
              /\ Memory!Copy(first, second, count) \/ Memory!Compare(first, second, count)
           \/ \E value \in Bytes : Memory!Fill(first, value, count)
  BY Zenon DEF Memory!Invoke
<1>2. count \in Nat /\ first \in Nat /\ second \in Nat
  BY <1>0 DEF Memory!Counts, Memory!Address
<1>3. CASE second + count <= Size /\ Memory!Copy(first, second, count)
  <2>1. /\ memory' = Memory!Copied(first, second, count)
        /\ call' = [name |-> "Copy", first |-> first, second |-> second,
                    count |-> count, result |-> TRUE]
    BY <1>3 DEF Memory!Copy
  <2>2. /\ call'.name = "Copy" /\ call'.first = first /\ call'.second = second /\ call'.count = count
    BY <2>1
  <2>3. /\ memory' \in [Memory!Address -> Value]
        /\ first <= second \/ second + count <= first =>
              \A a \in Memory!Address :
                memory'[a] = IF a \in Memory!Block(first, count)
                             THEN memory[a - first + second] ELSE memory[a]
    <3>1. first + count <= Size /\ second + count <= Size
      BY <1>1, <1>3
    <3>2. /\ Memory!Copied(first, second, count) \in [Memory!Address -> Value]
          /\ MovesBlock(Memory!Copied(first, second, count), first, second, count)
      BY <1>2, <3>1, CopiedMovesBlock, Zenon
    <3> QED
      BY <2>1, <3>2, Zenon DEF MovesBlock
  <2>4. Memory!CompareKnowsEvenBlocks'
    BY <2>2 DEF Memory!CompareKnowsEvenBlocks
  <2>5. call'.name # "Fill"
    BY <2>2
  <2> QED
    BY <2>2, <2>3, <2>4, <2>5, Zenon
<1>4. CASE Memory!Compare(first, second, count)
  <2>1. /\ memory' = memory
        /\ call' = [name |-> "Compare", first |-> first, second |-> second,
                    count |-> count, result |-> Memory!Equal(first, second, count)]
    BY <1>4 DEF Memory!Compare
  <2>2. /\ call'.name = "Compare" /\ call'.first = first /\ call'.second = second
        /\ call'.count = count /\ call'.result = Memory!Equal(first, second, count)
    BY <2>1
  <2> DEFINE same == \A i \in 0 .. count - 1 : memory[first + i] = memory[second + i]
  <2>3. /\ Memory!Equal(first, second, count) \in BOOLEAN
        /\ same => Memory!Equal(first, second, count)
        /\ count % 2 = 0 => (Memory!Equal(first, second, count) <=> same)
    BY <1>2, EqualKnowsEvenBlocks, Zenon
  <2>4. Memory!SameBytes' = same
    BY <2>1, <2>2, Zenon DEF Memory!SameBytes
  <2>5. same \in BOOLEAN
    OBVIOUS
  <2> HIDE DEF same
  <2>6. Memory!CompareKnowsEvenBlocks'
    BY <2>2, <2>3, <2>4, <2>5, Zenon DEF Memory!CompareKnowsEvenBlocks
  <2>7. call'.name # "Fill" /\ call'.name # "Copy"
    BY <2>2
  <2> QED
    BY <2>1, <2>6, <2>7, Zenon
<1>5. CASE \E value \in Bytes : Memory!Fill(first, value, count)
  <2>1. PICK value \in Bytes : Memory!Fill(first, value, count)
    BY <1>5
  <2>2. /\ memory' = [a \in Memory!Address |->
                        IF a \in Memory!Filled(first, count) THEN value ELSE memory[a]]
        /\ call' = [name |-> "Fill", first |-> first, second |-> value,
                    count |-> count, result |-> TRUE]
    BY <2>1 DEF Memory!Fill
  <2>3. call'.name = "Fill" /\ call'.first = first /\ call'.second = value /\ call'.count = count
    BY <2>2
  <2>4. \A a \in Memory!Address :
          memory'[a] = IF a \in Memory!Block(first, count) THEN value ELSE memory[a]
    BY <1>2, <2>2, FilledIsBlock, Zenon
  <2>5. memory' \in [Memory!Address -> Value \cup Bytes]
    BY <2>2
  <2>6. Memory!CompareKnowsEvenBlocks'
    BY <2>3 DEF Memory!CompareKnowsEvenBlocks
  <2>7. call'.name # "Copy"
    BY <2>3
  <2> QED
    BY <2>3, <2>4, <2>5, <2>6, <2>7, Zenon
<1> QED
  BY <1>1, <1>3, <1>4, <1>5, Zenon

LEMMA MemoryStep ==
  ASSUME MemoryInv, [ServicesNext]_servicesVars
  PROVE  /\ MemoryInv'
         /\ UNCHANGED <<memory, call>> \/ (stage = "memory" /\ Memory!Next)
<1>1. CASE Handle
  <2>1. stage = "memory" /\ stage' = stage /\ Memory!Next
    BY <1>1 DEF Handle
  <2>2. PICK Value : memory \in [Memory!Address -> Value]
    BY <2>1 DEF MemoryInv
  <2>3. CASE Memory!Invoke
    <3>1. \E Other : memory' \in [Memory!Address -> Other]
      BY <2>2, <2>3, InvokeHandlesBlocks, Zenon
    <3> QED
      BY <2>1, <3>1, Zenon DEF MemoryInv, Memory!Address
  <2>4. CASE Memory!Return
    <3>1. memory' = memory
      BY <2>4, Zenon DEF Memory!Return
    <3> QED
      BY <2>1, <2>2, <3>1, Zenon DEF MemoryInv, Memory!Address
  <2> QED
    BY <2>1, <2>3, <2>4, Zenon DEF Memory!Next
<1>2. ASSUME UNCHANGED <<stage, memory, call>>
      PROVE  MemoryInv' /\ UNCHANGED <<memory, call>>
  BY <1>2, Zenon DEF MemoryInv, Memory!Address
<1>3. Work \/ Resolve \/ KeepList => UNCHANGED <<stage, memory, call>>
  BY DEF Work, Resolve, KeepList, memoryVars
<1>4. UNCHANGED servicesVars => UNCHANGED <<stage, memory, call>>
  BY DEF servicesVars, memoryVars
<1> QED
  BY <1>1, <1>2, <1>3, <1>4, Zenon DEF ServicesNext

(***************************************************************************)
(* Whatever the length, the width chosen for it and the places, Copy moves *)
(* a block when it is not moved up over itself, Fill sets its bytes, and   *)
(* Compare knows blocks of an even length (memory-utils.cxx:8-84).         *)
(***************************************************************************)
THEOREM BlocksAreHandledAlways == ServicesSpec => BlocksAreHandled
<1> DEFINE CopyMoves ==
             call'.name = "Copy" /\
             (call'.first <= call'.second \/ call'.second + call'.count <= call'.first)
               => \A a \in Memory!Address :
                    memory'[a] = IF a \in Memory!Block(call'.first, call'.count)
                                 THEN memory[a - call'.first + call'.second] ELSE memory[a]
           FillSets ==
             call'.name = "Fill"
               => \A a \in Memory!Address :
                    memory'[a] = IF a \in Memory!Block(call'.first, call'.count)
                                 THEN call'.second ELSE memory[a]
           CompareKnows == stage = "memory" => Memory!CompareKnowsEvenBlocks'
<1>1. MemoryInv /\ [ServicesNext]_servicesVars => MemoryInv'
  BY MemoryStep
<1>2. ASSUME MemoryInv, stage = "memory", Memory!Next
      PROVE  CopyMoves /\ FillSets /\ CompareKnows
  <2>1. CASE Memory!Invoke
    <3>1. PICK Value : memory \in [Memory!Address -> Value]
      BY <1>2 DEF MemoryInv
    <3> QED
      BY <2>1, <3>1, InvokeHandlesBlocks, Zenon
  <2>2. CASE Memory!Return
    <3>1. call'.name = "none"
      BY <2>2 DEF Memory!Return
    <3> QED
      BY <3>1 DEF Memory!CompareKnowsEvenBlocks
  <2> QED
    BY <1>2, <2>1, <2>2, Zenon DEF Memory!Next
<1>3. MemoryInv /\ [ServicesNext]_servicesVars => [CopyMoves]_<<memory, call>>
  BY <1>2, MemoryStep, Zenon
<1>4. MemoryInv /\ [ServicesNext]_servicesVars => [FillSets]_<<memory, call>>
  BY <1>2, MemoryStep, Zenon
<1>5. MemoryInv /\ [ServicesNext]_servicesVars => [CompareKnows]_<<memory, call>>
  BY <1>2, MemoryStep, Zenon
<1> HIDE DEF CopyMoves, FillSets, CompareKnows
<1>6. ServicesSpec => [][CopyMoves]_<<memory, call>>
  BY <1>1, <1>3, MemoryInvInitially, PTL DEF ServicesSpec
<1>7. ServicesSpec => [][FillSets]_<<memory, call>>
  BY <1>1, <1>4, MemoryInvInitially, PTL DEF ServicesSpec
<1>8. ServicesSpec => [][CompareKnows]_<<memory, call>>
  BY <1>1, <1>5, MemoryInvInitially, PTL DEF ServicesSpec
<1> QED
  BY <1>6, <1>7, <1>8 DEF CopyMoves, FillSets, CompareKnows, BlocksAreHandled,
     Memory!CopyMovesBlock, Memory!FillSetsBlock, Memory!vars, memoryVars

-----------------------------------------------------------------------------
(* What the memory's operations make of the owners.  Two maps are alike    *)
(* but for some uses, and but for what is free.  One is in order when it   *)
(* has each object once at most, and none but those held.                  *)
Alike(o, p, touched) == \A u \in Owners \ touched : u # "free" => Uses(p, u) = Uses(o, u)

InOrder(o, held) ==
  /\ o \in [Frames -> Owners]
  /\ \A x \in InHand : \A f, g \in Uses(o, x) : f = g
  /\ \A x \in InHand \ held : Uses(o, x) = {}

LEMMA FramesAreFinite ==
  /\ IsFiniteSet(Frames) /\ Cardinality(Frames) = LastFrame /\ Frames \subseteq Nat \ {0}
  /\ \A S \in SUBSET Frames :
       IsFiniteSet(S) /\ Cardinality(S) \in Nat /\ Cardinality(S) <= LastFrame
<1>1. LastFrame \in Nat
  BY FramesAssumption
<1>2. IsFiniteSet(Frames) /\ Cardinality(Frames) = LastFrame
  BY <1>1, FS_Interval DEF Frames
<1>3. \A S \in SUBSET Frames :
       IsFiniteSet(S) /\ Cardinality(S) \in Nat /\ Cardinality(S) <= LastFrame
  BY <1>2, FS_Subset, FS_CardinalityType
<1> QED
  BY <1>2, <1>3 DEF Frames

LEMMA LowestIsLeast ==
  ASSUME NEW S \in SUBSET Frames, S # {}
  PROVE  Lowest(S) \in S /\ \A g \in S : Lowest(S) <= g
<1>1. \E f \in S : \A g \in S : f <= g
  <2>1. S \in SUBSET Nat
    BY DEF Frames
  <2> QED
    BY <2>1, LeastNumber
<1> QED
  BY <1>1, Zenon DEF Lowest

LEMMA OwnersAreKnown ==
  /\ InHand \subseteq Owners /\ "free" \in Owners /\ "free" \notin InHand
  /\ {"lost", "kept", "path", "file", "text", "elsewhere"} \subseteq Owners
  /\ \A u \in {"lost", "kept", "path", "file", "text", "elsewhere"} : u \notin InHand /\ u # "free"
BY DEF Owners, InHand, Lasting

LEMMA GiveGives ==
  ASSUME NEW o \in [Frames -> Owners], NEW F, NEW use \in Owners
  PROVE  /\ Give(o, F, use) \in [Frames -> Owners]
         /\ Uses(Give(o, F, use), use) = Uses(o, use) \cup (F \cap Frames)
         /\ \A u \in Owners : u # use => Uses(Give(o, F, use), u) = Uses(o, u) \ F
<1>1. Give(o, F, use) = [f \in Frames |-> IF f \in F THEN use ELSE o[f]]
  BY DEF Give
<1> QED
  BY <1>1 DEF Uses

(* A new block is a free frame, if there is one. *)
LEMMA NewTakesOne ==
  ASSUME NEW o \in [Frames -> Owners], NEW use \in Owners, use # "free"
  PROVE  /\ New(o, use) \in [Frames -> Owners]
         /\ Alike(o, New(o, use), {use})
         /\ \/ Uses(o, "free") = {} /\ New(o, use) = o
            \/ \E f \in Uses(o, "free") : /\ Uses(New(o, use), use) = Uses(o, use) \cup {f}
                                          /\ Uses(New(o, use), "free") = Uses(o, "free") \ {f}
<1>0. "free" \in Owners
  BY OwnersAreKnown
<1>1. CASE Uses(o, "free") = {}
  BY <1>1 DEF New, Has, Alike
<1>2. CASE Uses(o, "free") # {}
  <2> DEFINE f == Lowest(Uses(o, "free"))
  <2>1. f \in Uses(o, "free")
    <3>1. Uses(o, "free") \in SUBSET Frames
      BY DEF Uses
    <3> QED
      BY <1>2, <3>1, LowestIsLeast
  <2>2. f \in Frames /\ o[f] = "free"
    BY <2>1 DEF Uses
  <2>3. New(o, use) = Give(o, {f}, use)
    BY <1>2 DEF New, Has
  <2> HIDE DEF f
  <2>4. /\ New(o, use) \in [Frames -> Owners]
        /\ Uses(New(o, use), use) = Uses(o, use) \cup ({f} \cap Frames)
        /\ \A u \in Owners : u # use => Uses(New(o, use), u) = Uses(o, u) \ {f}
    <3> DEFINE F == {f}
    <3> HIDE DEF F
    <3>1. Give(o, F, use) \in [Frames -> Owners]
      BY GiveGives
    <3>2. Uses(Give(o, F, use), use) = Uses(o, use) \cup (F \cap Frames)
      BY GiveGives
    <3>3. \A u \in Owners : u # use => Uses(Give(o, F, use), u) = Uses(o, u) \ F
      BY GiveGives
    <3> QED
      BY <2>3, <3>1, <3>2, <3>3 DEF F
  <2>5. Alike(o, New(o, use), {use})
    <3> SUFFICES ASSUME NEW u \in Owners, u # use, u # "free"
                 PROVE  Uses(New(o, use), u) = Uses(o, u)
      BY DEF Alike
    <3>1. f \notin Uses(o, u)
      BY <2>2 DEF Uses
    <3> QED
      BY <2>4, <3>1
  <2> QED
    BY <1>0, <2>1, <2>2, <2>4, <2>5
<1> QED
  BY <1>1, <1>2

LEMMA RenameMoves ==
  ASSUME NEW o \in [Frames -> Owners], NEW x \in Owners, NEW y \in Owners, x # y, x # "free"
  PROVE  /\ Rename(o, x, y) \in [Frames -> Owners]
         /\ Alike(o, Rename(o, x, y), {x, y})
         /\ Uses(Rename(o, x, y), x) = {}
         /\ Uses(Rename(o, x, y), y) = Uses(o, y) \cup Uses(o, x)
<1>1. Rename(o, x, y) = Give(o, Uses(o, x), y)
  BY DEF Rename
<1>2. /\ Rename(o, x, y) \in [Frames -> Owners]
      /\ Uses(Rename(o, x, y), y) = Uses(o, y) \cup (Uses(o, x) \cap Frames)
      /\ \A u \in Owners : u # y => Uses(Rename(o, x, y), u) = Uses(o, u) \ Uses(o, x)
  BY <1>1, GiveGives
<1>3. \A u \in Owners : u # x => Uses(o, u) \ Uses(o, x) = Uses(o, u)
  BY DEF Uses
<1>4. Uses(o, x) \cap Frames = Uses(o, x)
  BY DEF Uses
<1> QED
  BY <1>2, <1>3, <1>4 DEF Alike

LEMMA DeleteFrees ==
  ASSUME NEW o \in [Frames -> Owners], NEW x \in Owners, x # "free"
  PROVE  /\ Delete(o, x) \in [Frames -> Owners]
         /\ Alike(o, Delete(o, x), {x})
         /\ Uses(Delete(o, x), x) = {}
<1>1. Delete(o, x) = Rename(o, x, "free") /\ "free" \in Owners
  BY OwnersAreKnown DEF Delete
<1>2. /\ Delete(o, x) \in [Frames -> Owners]
      /\ Alike(o, Delete(o, x), {x, "free"})
      /\ Uses(Delete(o, x), x) = {}
  <2>1. /\ Rename(o, x, "free") \in [Frames -> Owners]
        /\ Alike(o, Rename(o, x, "free"), {x, "free"})
        /\ Uses(Rename(o, x, "free"), x) = {}
    BY <1>1, RenameMoves
  <2> QED
    BY <1>1, <2>1, Zenon
<1> QED
  BY <1>2 DEF Alike

LEMMA AlikeIsTransitive ==
  ASSUME NEW o, NEW p, NEW q, NEW S, NEW T, NEW U, S \subseteq U, T \subseteq U,
         Alike(o, p, S), Alike(p, q, T)
  PROVE  Alike(o, q, U)
BY DEF Alike

LEMMA AlikeBeyond ==
  ASSUME NEW o, NEW p, NEW S, NEW T, Alike(o, p, S), S \subseteq T
  PROVE  Alike(o, p, T)
BY DEF Alike

LEMMA MoreMayBeHeld ==
  ASSUME NEW o, NEW held, NEW more, InOrder(o, held), held \subseteq more
  PROVE  InOrder(o, more)
BY DEF InOrder

-----------------------------------------------------------------------------
(* The same for objects. *)
LEMMA NewIsInOrder ==
  ASSUME NEW o, NEW held, NEW x \in InHand \ held, InOrder(o, held)
  PROVE  InOrder(New(o, x), held \cup {x}) /\ Alike(o, New(o, x), {x})
<1>1. o \in [Frames -> Owners] /\ x \in Owners /\ x # "free" /\ Uses(o, x) = {}
  BY OwnersAreKnown DEF InOrder
<1>2. /\ New(o, x) \in [Frames -> Owners] /\ Alike(o, New(o, x), {x})
      /\ \/ New(o, x) = o
         \/ \E f \in Uses(o, "free") : Uses(New(o, x), x) = Uses(o, x) \cup {f}
  BY <1>1, NewTakesOne
<1>3. \A y \in InHand \ {x} : Uses(New(o, x), y) = Uses(o, y)
  BY <1>2, OwnersAreKnown DEF Alike
<1>4. \A f, g \in Uses(New(o, x), x) : f = g
  BY <1>1, <1>2
<1> QED
  BY <1>2, <1>3, <1>4 DEF InOrder

LEMMA DeleteIsInOrder ==
  ASSUME NEW o, NEW held, NEW x \in InHand, InOrder(o, held)
  PROVE  InOrder(Delete(o, x), held \ {x}) /\ Alike(o, Delete(o, x), {x})
<1>1. o \in [Frames -> Owners] /\ x \in Owners /\ x # "free"
  BY OwnersAreKnown DEF InOrder
<1>2. /\ Delete(o, x) \in [Frames -> Owners] /\ Alike(o, Delete(o, x), {x})
      /\ Uses(Delete(o, x), x) = {}
  BY <1>1, DeleteFrees
<1>3. \A y \in InHand \ {x} : Uses(Delete(o, x), y) = Uses(o, y)
  BY <1>2, OwnersAreKnown DEF Alike
<1> QED
  BY <1>2, <1>3 DEF InOrder

LEMMA RenameIsInOrder ==
  ASSUME NEW o, NEW held, NEW x \in InHand, NEW y \in InHand \ held, x # y, InOrder(o, held)
  PROVE  /\ InOrder(Rename(o, x, y), (held \ {x}) \cup {y})
         /\ Alike(o, Rename(o, x, y), {x, y})
<1>1. /\ o \in [Frames -> Owners] /\ x \in Owners /\ x # "free" /\ y \in Owners
      /\ Uses(o, y) = {}
  BY OwnersAreKnown DEF InOrder
<1>2. /\ Rename(o, x, y) \in [Frames -> Owners] /\ Alike(o, Rename(o, x, y), {x, y})
      /\ Uses(Rename(o, x, y), x) = {}
      /\ Uses(Rename(o, x, y), y) = Uses(o, x)
  <2>1. /\ Rename(o, x, y) \in [Frames -> Owners] /\ Alike(o, Rename(o, x, y), {x, y})
        /\ Uses(Rename(o, x, y), x) = {}
        /\ Uses(Rename(o, x, y), y) = Uses(o, y) \cup Uses(o, x)
    BY <1>1, RenameMoves
  <2> QED
    BY <1>1, <2>1
<1>3. \A z \in InHand \ {x, y} : Uses(Rename(o, x, y), z) = Uses(o, z)
  BY <1>2, OwnersAreKnown DEF Alike
<1> QED
  BY <1>2, <1>3 DEF InOrder

(* A block that nobody will know of any more. *)
LEMMA ForgetOne ==
  ASSUME NEW o, NEW held, InOrder(o, held), Uses(o, "free") # {}
  PROVE  /\ InOrder(New(o, "lost"), held) /\ Alike(o, New(o, "lost"), {"lost"})
         /\ \E f \in Frames : /\ o[f] = "free"
                              /\ Uses(New(o, "lost"), "lost") = Uses(o, "lost") \cup {f}
<1>1. o \in [Frames -> Owners] /\ "lost" \in Owners /\ "lost" # "free"
  BY OwnersAreKnown DEF InOrder
<1>2. /\ New(o, "lost") \in [Frames -> Owners] /\ Alike(o, New(o, "lost"), {"lost"})
      /\ \E f \in Uses(o, "free") : Uses(New(o, "lost"), "lost") = Uses(o, "lost") \cup {f}
  BY <1>1, NewTakesOne
<1>3. \A y \in InHand : Uses(New(o, "lost"), y) = Uses(o, y)
  BY <1>2, OwnersAreKnown DEF Alike
<1>4. \E f \in Frames : /\ o[f] = "free"
                        /\ Uses(New(o, "lost"), "lost") = Uses(o, "lost") \cup {f}
  BY <1>2 DEF Uses
<1> QED
  BY <1>2, <1>3, <1>4 DEF InOrder

-----------------------------------------------------------------------------
(* Strings and lists. *)
LEMMA ReplaceIsInOrder ==
  ASSUME NEW o, NEW held, NEW x \in held, held \subseteq InHand, "new" \notin held,
         InOrder(o, held)
  PROVE  InOrder(Replace(o, x), held) /\ Alike(o, Replace(o, x), {x, "new"})
<1> DEFINE n == New(o, "new")
           d == Delete(n, x)
<1>1. "new" \in InHand \ held /\ x \in InHand /\ x # "new"
  BY DEF InHand
<1>2. InOrder(n, held \cup {"new"}) /\ Alike(o, n, {"new"})
  BY <1>1, NewIsInOrder
<1> HIDE DEF n
<1>3. InOrder(d, (held \cup {"new"}) \ {x}) /\ Alike(n, d, {x})
  BY <1>1, <1>2, DeleteIsInOrder
<1> HIDE DEF d
<1>4. /\ InOrder(Rename(d, "new", x), (((held \cup {"new"}) \ {x}) \ {"new"}) \cup {x})
      /\ Alike(d, Rename(d, "new", x), {"new", x})
  <2>1. x \in InHand \ ((held \cup {"new"}) \ {x}) /\ "new" \in InHand
    BY <1>1
  <2> QED
    BY <1>1, <1>3, <2>1, RenameIsInOrder
<1>5. (((held \cup {"new"}) \ {x}) \ {"new"}) \cup {x} = held
  BY <1>1
<1>6. InOrder(Rename(d, "new", x), held) /\ Alike(o, Rename(d, "new", x), {x, "new"})
  <2>1. Alike(o, d, {x, "new"})
    BY <1>2, <1>3, AlikeIsTransitive
  <2>2. Alike(o, Rename(d, "new", x), {x, "new"})
    BY <1>4, <2>1, AlikeIsTransitive
  <2> QED
    BY <1>4, <1>5, <2>2
<1>7. Alike(o, o, {x, "new"})
  BY DEF Alike
<1> QED
  BY <1>6, <1>7, Zenon DEF Replace, n, d

LEMMA AppendIsInOrder ==
  ASSUME NEW o, NEW held, NEW x \in held, held \subseteq InHand, {"new", "temp"} \cap held = {},
         InOrder(o, held)
  PROVE  InOrder(AppendText(o, x), held) /\ Alike(o, AppendText(o, x), {x, "new", "temp"})
<1> DEFINE t == New(o, "temp")
           S == {x, "new", "temp"}
<1>1. /\ "temp" \in InHand \ held /\ held \cup {"temp"} \subseteq InHand
      /\ "new" \notin held \cup {"temp"} /\ x \in held \cup {"temp"}
  BY DEF InHand
<1>2. InOrder(t, held \cup {"temp"}) /\ Alike(o, t, {"temp"})
  BY <1>1, NewIsInOrder
<1> HIDE DEF t
<1>3. InOrder(Replace(t, x), held \cup {"temp"}) /\ Alike(t, Replace(t, x), {x, "new"})
  BY <1>1, <1>2, ReplaceIsInOrder
<1>4. ASSUME NEW p, InOrder(p, held \cup {"temp"}), Alike(o, p, S)
      PROVE  InOrder(Delete(p, "temp"), held) /\ Alike(o, Delete(p, "temp"), S)
  <2>1. InOrder(Delete(p, "temp"), (held \cup {"temp"}) \ {"temp"}) /\ Alike(p, Delete(p, "temp"), {"temp"})
    BY <1>1, <1>4, DeleteIsInOrder
  <2>2. (held \cup {"temp"}) \ {"temp"} = held
    BY <1>1
  <2>3. Alike(o, Delete(p, "temp"), S)
    BY <1>4, <2>1, AlikeIsTransitive
  <2> QED
    BY <2>1, <2>2, <2>3
<1>5. Alike(o, t, S) /\ Alike(o, Replace(t, x), S)
  <2>1. Alike(o, t, S)
    BY <1>2, AlikeBeyond
  <2>2. Alike(o, Replace(t, x), S)
    BY <1>3, <2>1, AlikeIsTransitive
  <2> QED
    BY <2>1, <2>2
<1> HIDE DEF S
<1>6. InOrder(Delete(t, "temp"), held) /\ Alike(o, Delete(t, "temp"), S)
  BY <1>2, <1>4, <1>5
<1>7. InOrder(Delete(Replace(t, x), "temp"), held) /\ Alike(o, Delete(Replace(t, x), "temp"), S)
  BY <1>3, <1>4, <1>5
<1> QED
  BY <1>6, <1>7, Zenon DEF AppendText, t, S

LEMMA SplitIsInOrder ==
  ASSUME NEW o, NEW held, NEW x \in InHand \ held, "temp" \notin held, x # "temp", InOrder(o, held)
  PROVE  InOrder(SplitInto(o, x), held \cup {x}) /\ Alike(o, SplitInto(o, x), {x, "temp"})
<1> DEFINE t == New(o, "temp")
           l == New(t, x)
<1>1. "temp" \in InHand \ held /\ x \in InHand \ (held \cup {"temp"})
  BY DEF InHand
<1>2. InOrder(t, held \cup {"temp"}) /\ Alike(o, t, {"temp"})
  BY <1>1, NewIsInOrder
<1> HIDE DEF t
<1>3. InOrder(l, (held \cup {"temp"}) \cup {x}) /\ Alike(t, l, {x})
  BY <1>1, <1>2, NewIsInOrder
<1> HIDE DEF l
<1>4. /\ InOrder(Delete(l, "temp"), ((held \cup {"temp"}) \cup {x}) \ {"temp"})
      /\ Alike(l, Delete(l, "temp"), {"temp"})
  BY <1>1, <1>3, DeleteIsInOrder
<1>5. ((held \cup {"temp"}) \cup {x}) \ {"temp"} = held \cup {x}
  BY <1>1
<1>6. Alike(o, l, {x, "temp"})
  BY <1>2, <1>3, AlikeIsTransitive
<1>7. Alike(o, Delete(l, "temp"), {x, "temp"})
  BY <1>4, <1>6, AlikeIsTransitive
<1> QED
  BY <1>4, <1>5, <1>7 DEF SplitInto, t, l

(* One frame more is lost, and what outlasts the call has not changed.     *)
Scratch == {"string", "full", "temp", "new", "part"}

LosesOne(o, p, held) ==
  /\ InOrder(p, held)
  /\ Alike(o, p, InHand \cup {"lost"})
  /\ \E f \in Frames : o[f] # "lost" /\ Uses(p, "lost") = Uses(o, "lost") \cup {f}

LEMMA SubStringLosesOne ==
  ASSUME NEW o, NEW held, NEW x \in InHand \ held, InOrder(o, held), Uses(o, "free") # {}
  PROVE  /\ InOrder(SubString(o, x), held \cup {x})
         /\ Alike(o, SubString(o, x), {x, "lost"})
         /\ \E f \in Frames : o[f] = "free" /\ Uses(SubString(o, x), "lost") = Uses(o, "lost") \cup {f}
<1> DEFINE r == New(o, "lost")
<1>1. /\ InOrder(r, held) /\ Alike(o, r, {"lost"})
      /\ \E f \in Frames : o[f] = "free" /\ Uses(r, "lost") = Uses(o, "lost") \cup {f}
  BY ForgetOne
<1> HIDE DEF r
<1>2. InOrder(New(r, x), held \cup {x}) /\ Alike(r, New(r, x), {x})
  BY <1>1, NewIsInOrder
<1>3. Alike(o, New(r, x), {x, "lost"})
  BY <1>1, <1>2, AlikeIsTransitive
<1>4. Uses(New(r, x), "lost") = Uses(r, "lost")
  BY <1>2, OwnersAreKnown DEF Alike
<1> QED
  BY <1>1, <1>2, <1>3, <1>4 DEF SubString, r

LEMMA RenameForGood ==
  ASSUME NEW o, NEW held, NEW x \in InHand, NEW y \in Owners, y \notin InHand, y # "free",
         InOrder(o, held)
  PROVE  /\ InOrder(Rename(o, x, y), held \ {x}) /\ Alike(o, Rename(o, x, y), {x, y})
         /\ Uses(Rename(o, x, y), y) = Uses(o, y) \cup Uses(o, x)
<1>1. o \in [Frames -> Owners] /\ x \in Owners /\ x # "free" /\ x # y
  BY OwnersAreKnown DEF InOrder
<1>2. Rename(o, x, y) \in [Frames -> Owners]
  BY <1>1, RenameMoves
<1>3. Alike(o, Rename(o, x, y), {x, y})
  BY <1>1, RenameMoves
<1>4. Uses(Rename(o, x, y), x) = {}
  BY <1>1, RenameMoves
<1>5. Uses(Rename(o, x, y), y) = Uses(o, y) \cup Uses(o, x)
  <2>1. Rename(o, x, y) = Give(o, Uses(o, x), y) /\ Uses(o, x) \subseteq Frames
    BY DEF Rename, Uses
  <2>2. Uses(Give(o, Uses(o, x), y), y) = Uses(o, y) \cup (Uses(o, x) \cap Frames)
    BY <1>1, GiveGives
  <2> QED
    BY <2>1, <2>2
<1>6. \A z \in InHand \ {x} : Uses(Rename(o, x, y), z) = Uses(o, z)
  BY <1>3, OwnersAreKnown DEF Alike
<1>7. InOrder(Rename(o, x, y), held \ {x})
  BY <1>2, <1>4, <1>6 DEF InOrder
<1> QED
  BY <1>3, <1>5, <1>7

LEMMA DeleteAllIsInOrder ==
  ASSUME NEW o, NEW held, NEW S \in SUBSET InHand, InOrder(o, held)
  PROVE  InOrder(DeleteAll(o, S), held \ S) /\ Alike(o, DeleteAll(o, S), S)
<1>1. DeleteAll(o, S) = [f \in Frames |-> IF o[f] \in S THEN "free" ELSE o[f]]
  BY DEF DeleteAll
<1>2. o \in [Frames -> Owners] /\ "free" \in Owners /\ "free" \notin InHand /\ InHand \subseteq Owners
  BY OwnersAreKnown DEF InOrder
<1>3. DeleteAll(o, S) \in [Frames -> Owners]
  BY <1>1, <1>2
<1>4. \A u \in S : Uses(DeleteAll(o, S), u) = {}
  BY <1>1, <1>2 DEF Uses
<1>5. \A u \in Owners : u \notin S /\ u # "free" => Uses(DeleteAll(o, S), u) = Uses(o, u)
  BY <1>1, <1>2 DEF Uses
<1> QED
  BY <1>2, <1>3, <1>4, <1>5 DEF InOrder, Alike

LEMMA NewPathIsInOrder ==
  ASSUME InOrder(owner, {}), NEW whole \in {Absolute, Relative}
  PROVE  /\ InOrder(SplitInto(whole, "parts"), {"string", "parts"})
         /\ Alike(owner, SplitInto(whole, "parts"), Scratch \cup {"parts"})
<1>0. {"string", "full", "temp", "new", "parts"} \subseteq InHand
  BY DEF InHand
<1>1. InOrder(Absolute, {"string"}) /\ Alike(owner, Absolute, {"string"})
  BY <1>0, NewIsInOrder DEF Absolute
<1>2. InOrder(Relative, {"string"}) /\ Alike(owner, Relative, Scratch)
  <2> DEFINE a == New(Absolute, "full")
             b == AppendText(a, "full")
             c == Replace(b, "full")
             d == Replace(c, "string")
             held == {"string", "full"}
  <2>1. InOrder(a, {"string"} \cup {"full"}) /\ Alike(Absolute, a, {"full"})
    BY <1>0, <1>1, NewIsInOrder
  <2>2. InOrder(a, held)
    BY <2>1
  <2> HIDE DEF a
  <2>3. held \subseteq InHand /\ "full" \in held /\ "string" \in held /\ {"new", "temp"} \cap held = {}
    BY <1>0
  <2> HIDE DEF held
  <2>4. InOrder(b, held) /\ Alike(a, b, {"full", "new", "temp"})
    BY <2>2, <2>3, AppendIsInOrder
  <2> HIDE DEF b
  <2>5. InOrder(c, held) /\ Alike(b, c, {"full", "new"})
    BY <2>3, <2>4, ReplaceIsInOrder
  <2> HIDE DEF c
  <2>6. InOrder(d, held) /\ Alike(c, d, {"string", "new"})
    BY <2>3, <2>5, ReplaceIsInOrder
  <2> HIDE DEF d
  <2>7. InOrder(Delete(d, "full"), held \ {"full"}) /\ Alike(d, Delete(d, "full"), {"full"})
    BY <1>0, <2>6, DeleteIsInOrder
  <2>8. held \ {"full"} = {"string"}
    BY DEF held
  <2>9. Relative = Delete(d, "full")
    BY DEF Relative, a, b, c, d
  <2>10. Alike(owner, Delete(d, "full"), Scratch)
    BY <1>1, <2>1, <2>4, <2>5, <2>6, <2>7 DEF Alike, Scratch
  <2> QED
    BY <2>7, <2>8, <2>9, <2>10
<1>3. InOrder(whole, {"string"}) /\ Alike(owner, whole, Scratch)
  BY <1>1, <1>2 DEF Alike, Scratch
<1>4. InOrder(SplitInto(whole, "parts"), {"string"} \cup {"parts"}) /\ Alike(whole, SplitInto(whole, "parts"), {"parts", "temp"})
  BY <1>0, <1>3, SplitIsInOrder
<1>5. Alike(owner, SplitInto(whole, "parts"), Scratch \cup {"parts"})
  BY <1>3, <1>4 DEF Alike, Scratch
<1> QED
  BY <1>4, <1>5

(* Three free frames are more than one. *)
LEMMA MoreThanOneFree ==
  ASSUME NEW o \in [Frames -> Owners], NEW x \in Owners, x # "free",
         ~(Cardinality(Uses(o, "free")) < 3)
  PROVE  Uses(New(o, x), "free") # {}
<1>1. Uses(o, "free") \in SUBSET Frames
  BY DEF Uses
<1>2. Cardinality(Uses(o, "free")) \in Nat /\ IsFiniteSet(Uses(o, "free"))
  BY <1>1, FramesAreFinite
<1>3. Uses(o, "free") # {}
  BY FS_EmptySet
<1>4. PICK f \in Uses(o, "free") : Uses(New(o, x), "free") = Uses(o, "free") \ {f}
  BY <1>3, NewTakesOne
<1>5. Cardinality(Uses(o, "free") \ {f}) = Cardinality(Uses(o, "free")) - 1
  BY <1>2, FS_RemoveElement
<1> QED
  BY <1>2, <1>4, <1>5, FS_EmptySet

LEMMA OneIsFree ==
  ASSUME NEW o \in [Frames -> Owners], ~(Cardinality(Uses(o, "free")) < 1)
  PROVE  Uses(o, "free") # {}
BY FS_EmptySet

(* A GetSubString put in the place of a string. *)
LEMMA CopyLosesOne ==
  ASSUME NEW o, NEW held, NEW x \in InHand \ held, NEW y \in held, held \subseteq InHand,
         "new" \notin held, x # "new", InOrder(o, held), Uses(o, "free") # {}
  PROVE  LET p == Delete(Replace(SubString(o, x), y), x)
         IN  LosesOne(o, p, held) /\ Alike(o, p, {x, y, "new", "lost"})
<1> DEFINE s == SubString(o, x)
           r == Replace(s, y)
           p == Delete(r, x)
           more == held \cup {x}
<1>1. /\ InOrder(s, more) /\ Alike(o, s, {x, "lost"})
      /\ \E f \in Frames : o[f] = "free" /\ Uses(s, "lost") = Uses(o, "lost") \cup {f}
  BY SubStringLosesOne
<1> HIDE DEF s
<1>2. /\ more \subseteq InHand /\ y \in more /\ "new" \notin more /\ more \ {x} = held
      /\ "new" \in InHand
  BY DEF InHand
<1> HIDE DEF more
<1>3. InOrder(r, more) /\ Alike(s, r, {y, "new"})
  BY <1>1, <1>2, ReplaceIsInOrder
<1> HIDE DEF r
<1>4. InOrder(p, held) /\ Alike(r, p, {x})
  BY <1>2, <1>3, DeleteIsInOrder
<1> HIDE DEF p
<1>5. Alike(o, p, {x, y, "new", "lost"})
  BY <1>1, <1>3, <1>4 DEF Alike
<1>6. Uses(p, "lost") = Uses(s, "lost")
  BY <1>2, <1>3, <1>4, OwnersAreKnown DEF Alike
<1>7. Alike(o, p, InHand \cup {"lost"})
  <2>1. {x, y, "new", "lost"} \subseteq InHand \cup {"lost"}
    BY <1>2
  <2> QED
    BY <1>5, <2>1, AlikeBeyond
<1>8. \E f \in Frames : o[f] # "lost" /\ Uses(p, "lost") = Uses(o, "lost") \cup {f}
  BY <1>1, <1>6
<1>9. LosesOne(o, p, held)
  BY <1>4, <1>7, <1>8 DEF LosesOne
<1> QED
  BY <1>5, <1>9 DEF p, r, s

LEMMA CutLosesOne ==
  ASSUME NEW held, InOrder(owner, held), held = {"string", "parts"}, Uses(owner, "free") # {}
  PROVE  LosesOne(owner, Cut, held) /\ Uses(Cut, "parts") = Uses(owner, "parts")
<1>1. {"string", "full", "temp", "new", "parts"} \subseteq InHand
  BY DEF InHand
<1>2. LosesOne(owner, Cut, held) /\ Alike(owner, Cut, {"full", "string", "new", "lost"})
  BY <1>1, CopyLosesOne DEF Cut
<1> QED
  BY <1>1, <1>2, OwnersAreKnown DEF Alike

LEMMA ErasedLosesOne ==
  ASSUME NEW held, InOrder(owner, held), held = {"string", "parts"},
         ~(Cardinality(Uses(owner, "free")) < 3)
  PROVE  LosesOne(owner, Erased, held) /\ Uses(Erased, "parts") = Uses(owner, "parts")
<1> DEFINE c == New(owner, "temp")
           s == SubString(c, "full")
           rest == Delete(s, "temp")
           b == AppendText(rest, "full")
           r == Replace(b, "string")
           more == held \cup {"full"}
<1>0. {"string", "full", "temp", "new", "parts"} \subseteq InHand /\ owner \in [Frames -> Owners]
  BY DEF InHand, InOrder
<1>1. InOrder(c, held \cup {"temp"}) /\ Alike(owner, c, {"temp"})
  BY <1>0, NewIsInOrder
<1>2. Uses(c, "free") # {} /\ \A f \in Frames : c[f] = "free" => owner[f] = "free"
  <2>1. "temp" \in Owners
    BY <1>0, OwnersAreKnown
  <2>2. Uses(c, "free") # {}
    BY <1>0, <2>1, MoreThanOneFree
  <2>3. c = owner \/ \E f \in Uses(owner, "free") : Uses(c, "free") = Uses(owner, "free") \ {f}
    BY <1>0, <2>1, NewTakesOne
  <2>4. Uses(c, "free") \subseteq Uses(owner, "free")
    BY <2>3
  <2> QED
    BY <2>2, <2>4 DEF Uses
<1> HIDE DEF c
<1>3. /\ InOrder(s, (held \cup {"temp"}) \cup {"full"}) /\ Alike(c, s, {"full", "lost"})
      /\ \E f \in Frames : c[f] = "free" /\ Uses(s, "lost") = Uses(c, "lost") \cup {f}
  <2>1. "full" \in InHand \ (held \cup {"temp"})
    BY <1>0
  <2> QED
    BY <1>1, <1>2, <2>1, SubStringLosesOne
<1> HIDE DEF s
<1>4. InOrder(rest, more) /\ Alike(s, rest, {"temp"})
  <2>1. ((held \cup {"temp"}) \cup {"full"}) \ {"temp"} = more
    OBVIOUS
  <2> HIDE DEF more
  <2> QED
    BY <1>0, <1>3, <2>1, DeleteIsInOrder
<1> HIDE DEF rest
<1>5. /\ more \subseteq InHand /\ "string" \in more /\ "full" \in more /\ "new" \notin more
      /\ {"new", "temp"} \cap more = {} /\ more \ {"full"} = held
  BY <1>0
<1> HIDE DEF more
<1>6. InOrder(b, more) /\ Alike(rest, b, {"full", "new", "temp"})
  BY <1>4, <1>5, AppendIsInOrder
<1> HIDE DEF b
<1>7. InOrder(r, more) /\ Alike(b, r, {"string", "new"})
  BY <1>5, <1>6, ReplaceIsInOrder
<1> HIDE DEF r
<1>8. InOrder(Delete(r, "full"), held) /\ Alike(r, Delete(r, "full"), {"full"})
  BY <1>0, <1>5, <1>7, DeleteIsInOrder
<1>9. Erased = Delete(r, "full")
  BY DEF Erased, r, b, rest, s, c
<1>10. /\ Alike(owner, Erased, Scratch \cup {"lost"})
       /\ Uses(Erased, "lost") = Uses(s, "lost") /\ Uses(c, "lost") = Uses(owner, "lost")
  <2>1. Alike(owner, Erased, Scratch \cup {"lost"})
    BY <1>1, <1>3, <1>4, <1>6, <1>7, <1>8, <1>9 DEF Alike, Scratch
  <2>2. Uses(Erased, "lost") = Uses(s, "lost") /\ Uses(c, "lost") = Uses(owner, "lost")
    BY <1>1, <1>4, <1>6, <1>7, <1>8, <1>9, OwnersAreKnown DEF Alike
  <2> QED
    BY <2>1, <2>2
<1>11. \E f \in Frames : owner[f] # "lost" /\ Uses(Erased, "lost") = Uses(owner, "lost") \cup {f}
  BY <1>2, <1>3, <1>10
<1>12. Alike(owner, Erased, InHand \cup {"lost"}) /\ Uses(Erased, "parts") = Uses(owner, "parts")
  BY <1>0, <1>10, OwnersAreKnown DEF Alike, Scratch, InHand
<1> QED
  BY <1>8, <1>9, <1>11, <1>12 DEF LosesOne

(* The rest: what was compared, and the parts made anew. *)
LEMMA ForgetLosesOne ==
  ASSUME NEW o, NEW held, InOrder(o, held), Uses(o, "free") # {}
  PROVE  LosesOne(o, New(o, "lost"), held)
<1>1. /\ InOrder(New(o, "lost"), held) /\ Alike(o, New(o, "lost"), {"lost"})
      /\ \E f \in Frames : /\ o[f] = "free"
                           /\ Uses(New(o, "lost"), "lost") = Uses(o, "lost") \cup {f}
  BY ForgetOne
<1> QED
  BY <1>1 DEF LosesOne, Alike

LEMMA SplitLosesOne ==
  ASSUME NEW held, InOrder(owner, held), held = {"string", "parts"}, Has(owner, "parts")
  PROVE  LosesOne(owner, DeleteAll(New(Split, "parts"), {"temp", "full"}), held)
<1> DEFINE t == New(owner, "temp")
           f == New(t, "full")
           n == New(Split, "parts")
           p == DeleteAll(n, {"temp", "full"})
           more == {"string", "parts", "temp", "full"}
           less == {"string", "temp", "full"}
<1>0. /\ more \subseteq InHand /\ less \subseteq InHand /\ "temp" \in InHand \ held
      /\ "full" \in InHand \ (held \cup {"temp"}) /\ (held \cup {"temp"}) \cup {"full"} = more
      /\ more \ {"parts"} = less /\ "parts" \in InHand \ less /\ less \cup {"parts"} = more
      /\ more \ {"temp", "full"} = held /\ {"temp", "full"} \subseteq InHand
  BY DEF InHand
<1>1. InOrder(t, held \cup {"temp"}) /\ Alike(owner, t, {"temp"})
  BY <1>0, NewIsInOrder
<1> HIDE DEF t
<1>2. InOrder(f, more) /\ Alike(t, f, {"full"})
  BY <1>0, <1>1, NewIsInOrder
<1> HIDE DEF f, more, less
<1>3. /\ InOrder(Rename(f, "parts", "lost"), less)
      /\ Alike(f, Rename(f, "parts", "lost"), {"parts", "lost"})
      /\ Uses(Rename(f, "parts", "lost"), "lost") = Uses(f, "lost") \cup Uses(f, "parts")
  BY <1>0, <1>2, OwnersAreKnown, RenameForGood
<1>4. Rename(f, "parts", "lost") = Split
  BY DEF Split, f, t
<1>5. InOrder(n, more) /\ Alike(Split, n, {"parts"})
  BY <1>0, <1>3, <1>4, NewIsInOrder
<1> HIDE DEF n
<1>6. InOrder(p, held) /\ Alike(n, p, {"temp", "full"})
  BY <1>0, <1>5, DeleteAllIsInOrder
<1> HIDE DEF p
<1>7. Alike(owner, p, InHand \cup {"lost"})
  BY <1>0, <1>1, <1>2, <1>3, <1>4, <1>5, <1>6 DEF Alike
<1>8. Uses(p, "lost") = Uses(Split, "lost")
  BY <1>5, <1>6, OwnersAreKnown DEF Alike
<1>9. Uses(f, "lost") = Uses(owner, "lost") /\ Uses(f, "parts") = Uses(owner, "parts")
  BY <1>0, <1>1, <1>2, OwnersAreKnown DEF Alike
<1>10. PICK g \in Uses(owner, "parts") : TRUE
  BY DEF Has
<1>11. Uses(owner, "parts") = {g}
  BY <1>0, <1>10 DEF InOrder
<1>12. g \in Frames /\ owner[g] # "lost" /\ Uses(p, "lost") = Uses(owner, "lost") \cup {g}
  <2>1. g \in Frames /\ owner[g] = "parts"
    BY <1>10 DEF Uses
  <2>2. Uses(p, "lost") = Uses(owner, "lost") \cup {g}
    BY <1>3, <1>4, <1>8, <1>9, <1>11
  <2> QED
    BY <2>1, <2>2
<1>13. LosesOne(owner, p, held)
  BY <1>6, <1>7, <1>12 DEF LosesOne
<1> QED
  BY <1>13 DEF p, n

-----------------------------------------------------------------------------
(* Buffers.  A page is a free frame with a free frame behind it, the       *)
(* lowest there is, and so it is behind the pages taken before it.         *)
IsSpread(buffer) ==
  /\ buffer \in Seq(Frames)
  /\ \A m, n \in DOMAIN buffer : m < n => buffer[m] + 2 <= buffer[n]

IsNew(buffer, pages) ==
  /\ IsSpread(buffer) /\ Len(buffer) = pages /\ FramesOf(buffer) \subseteq Free
  /\ \A f \in Pairs(Free \ FramesOf(buffer)) : \A n \in DOMAIN buffer : buffer[n] + 2 <= f

LEMMA FreeIsFrames == Free \subseteq Frames /\ Frames \subseteq Nat
BY FramesAssumption DEF Free, UsedFor, Uses, Frames

LEMMA OneMoreIsNew ==
  ASSUME NEW buffer, NEW n \in Nat, IsNew(buffer, n), OneMore(buffer) # WrongIndex
  PROVE  IsNew(OneMore(buffer), n + 1)
<1> DEFINE pairs == Pairs(Free \ FramesOf(buffer))
           next == Lowest(pairs)
           longer == Append(buffer, next)
<1>1. OneMore(buffer) = longer /\ pairs # {}
  BY DEF OneMore
<1>2. /\ buffer \in Seq(Frames) /\ Len(buffer) = n /\ DOMAIN buffer = 1 .. n
      /\ \A m, o \in 1 .. n : m < o => buffer[m] + 2 <= buffer[o]
      /\ FramesOf(buffer) \subseteq Free
      /\ \A f \in pairs : \A m \in 1 .. n : buffer[m] + 2 <= f
  <2>1. buffer \in Seq(Frames) /\ Len(buffer) = n
    BY DEF IsNew, IsSpread
  <2>2. DOMAIN buffer = 1 .. n
    BY <2>1
  <2> QED
    BY <2>1, <2>2 DEF IsNew, IsSpread
<1>3. /\ pairs \in SUBSET Frames
      /\ \A f \in pairs : {f, f + 1} \subseteq Free \ FramesOf(buffer)
  BY FreeIsFrames DEF Pairs
<1>4. pairs = {f \in Free \ FramesOf(buffer) : f + 1 \in Free \ FramesOf(buffer)}
  BY DEF Pairs
<1> HIDE DEF pairs
<1>5. next \in pairs /\ \A g \in pairs : next <= g
  BY <1>1, <1>3, LowestIsLeast
<1> HIDE DEF next
<1>6. next \in Frames
  BY <1>3, <1>5
<1>7. /\ longer \in Seq(Frames) /\ Len(longer) = n + 1 /\ longer[n + 1] = next
      /\ DOMAIN longer = 1 .. n + 1 /\ \A m \in 1 .. n : longer[m] = buffer[m]
  BY <1>2, <1>6
<1> HIDE DEF longer
<1>8. IsSpread(longer)
  <2> SUFFICES ASSUME NEW m \in 1 .. n + 1, NEW o \in 1 .. n + 1, m < o
               PROVE  longer[m] + 2 <= longer[o]
    BY <1>7 DEF IsSpread
  <2>1. m \in 1 .. n
    OBVIOUS
  <2>2. CASE o = n + 1
    BY <1>2, <1>5, <1>7, <2>1, <2>2
  <2>3. CASE o # n + 1
    BY <1>2, <1>7, <2>1, <2>3
  <2> QED
    BY <2>2, <2>3
<1>9. FramesOf(longer) = FramesOf(buffer) \cup {next, next + 1}
  BY <1>2, <1>7 DEF FramesOf
<1>10. FramesOf(longer) \subseteq Free
  BY <1>2, <1>3, <1>5, <1>9
<1>11. ASSUME NEW f \in Pairs(Free \ FramesOf(longer)), NEW m \in 1 .. n + 1
       PROVE  longer[m] + 2 <= f
  <2>1. /\ f \in Free /\ f \notin FramesOf(buffer) /\ f + 1 \in Free /\ f + 1 \notin FramesOf(buffer)
        /\ f # next /\ f # next + 1
    BY <1>9, <1>11 DEF Pairs
  <2>2. f \in pairs /\ f \in Nat /\ next \in Nat
    BY <1>4, <1>6, <2>1, FreeIsFrames
  <2>3. next + 2 <= f
    BY <1>5, <2>1, <2>2
  <2>4. CASE m = n + 1
    BY <1>7, <2>3, <2>4
  <2>5. CASE m # n + 1
    <3>1. m \in 1 .. n
      BY <2>5
    <3> QED
      BY <1>2, <1>7, <2>2, <3>1
  <2> QED
    BY <2>4, <2>5
<1> QED
  BY <1>1, <1>7, <1>8, <1>10, <1>11 DEF IsNew

LEMMA AllocatedIsNew ==
  ASSUME NEW pages \in Nat
  PROVE  Allocated(pages) = WrongIndex \/ IsNew(Allocated(pages), pages)
<1> DEFINE X == Seq(Frames) \cup {WrongIndex}
           taken[n \in 0 .. pages] == IF n = 0 THEN NoBuffer ELSE OneMore(taken[n - 1])
<1>1. Allocated(pages) = taken[pages]
  BY Zenon DEF Allocated
<1>2. taken = CHOOSE h : h = [n \in 0 .. pages |-> IF n = 0 THEN NoBuffer ELSE OneMore(h[n - 1])]
  BY Zenon
<1> HIDE DEF taken
<1>3. \A buffer \in X : OneMore(buffer) \in X
  <2> SUFFICES ASSUME NEW buffer \in X, OneMore(buffer) # WrongIndex PROVE OneMore(buffer) \in Seq(Frames)
    OBVIOUS
  <2> DEFINE pairs == Pairs(Free \ FramesOf(buffer))
  <2>1. buffer # WrongIndex /\ pairs # {} /\ OneMore(buffer) = Append(buffer, Lowest(pairs))
    BY DEF OneMore
  <2>2. pairs \in SUBSET Frames
    BY FreeIsFrames DEF Pairs
  <2> HIDE DEF pairs
  <2>3. Lowest(pairs) \in Frames /\ buffer \in Seq(Frames)
    BY <2>1, <2>2, LowestIsLeast
  <2> QED
    BY <2>1, <2>3
<1>4. NoBuffer \in X
  BY DEF NoBuffer
<1> HIDE DEF X
<1>5. PICK h : /\ h = [n \in 0 .. pages |-> h[n]] /\ h[0] = NoBuffer
               /\ \A n \in 1 .. pages : h[n] = OneMore(h[n - 1])
  <2> DEFINE step == [z \in (1 .. pages) \X X |-> OneMore(z[2])]
  <2>1. step \in [(1 .. pages) \X X -> X]
    BY <1>3
  <2>2. \A n \in 1 .. pages : \A buffer \in X : step[<<n, buffer>>] = OneMore(buffer)
    OBVIOUS
  <2> HIDE DEF step
  <2>3. PICK h : StepsFrom(h, X, NoBuffer, pages, step)
    BY <1>4, <2>1, StepByStep
  <2>4. \A n \in 1 .. pages : h[n - 1] \in X
    BY <2>3 DEF StepsFrom
  <2> QED
    BY <2>2, <2>3, <2>4 DEF StepsFrom
<1>6. taken = [n \in 0 .. pages |-> IF n = 0 THEN NoBuffer ELSE OneMore(taken[n - 1])]
  <2>1. \A n \in 0 .. pages : h[n] = IF n = 0 THEN NoBuffer ELSE OneMore(h[n - 1])
    <3>1. \A n \in 0 .. pages : n # 0 => n \in 1 .. pages
      OBVIOUS
    <3> QED
      BY <1>5, <3>1, Zenon
  <2>2. h = [n \in 0 .. pages |-> IF n = 0 THEN NoBuffer ELSE OneMore(h[n - 1])]
    BY <1>5, <2>1, Zenon
  <2> QED
    BY <1>2, <2>2, Zenon
<1>7. taken[0] = NoBuffer /\ \A n \in 1 .. pages : taken[n] = OneMore(taken[n - 1])
  BY <1>6
<1> DEFINE S == {n \in 0 .. pages : taken[n] = WrongIndex \/ IsNew(taken[n], n)}
<1>8. 0 \in S
  <2>1. FramesOf(NoBuffer) = {} /\ DOMAIN NoBuffer = {} /\ NoBuffer \in Seq(Frames) /\ Len(NoBuffer) = 0
    BY DEF FramesOf, NoBuffer
  <2>2. IsNew(NoBuffer, 0)
    BY <2>1 DEF IsNew, IsSpread
  <2> QED
    BY <1>7, <2>2
<1>9. ASSUME NEW n \in 1 .. pages, n - 1 \in S PROVE n \in S
  <2> DEFINE m == n - 1
  <2>1. m \in Nat /\ n = m + 1 /\ taken[n] = OneMore(taken[m])
    BY <1>7
  <2>2. taken[m] = WrongIndex \/ IsNew(taken[m], m)
    BY <1>9
  <2> HIDE DEF m
  <2>3. CASE taken[m] = WrongIndex
    BY <2>1, <2>3 DEF OneMore
  <2>4. CASE IsNew(taken[m], m)
    BY <2>1, <2>4, OneMoreIsNew
  <2> QED
    BY <2>2, <2>3, <2>4
<1> HIDE DEF S
<1>10. 0 .. pages \subseteq S
  BY <1>8, <1>9, UpTo
<1>11. pages \in S
  BY <1>10
<1> QED
  BY <1>1, <1>11, Zenon DEF S

(* Every page but the first is further off than a program would look.      *)
LEMMA SpreadIsWide ==
  ASSUME NEW buffer, IsSpread(buffer), NEW n \in 1 .. Len(buffer)
  PROVE  buffer[n] \in Nat /\ buffer[1] \in Nat /\ buffer[n] >= buffer[1] + 2 * (n - 1)
<1>1. /\ Len(buffer) \in Nat /\ DOMAIN buffer = 1 .. Len(buffer)
      /\ \A m \in 1 .. Len(buffer) : buffer[m] \in Nat
      /\ \A m, o \in 1 .. Len(buffer) : m < o => buffer[m] + 2 <= buffer[o]
  <2>1. /\ buffer \in Seq(Frames) /\ Len(buffer) \in Nat /\ DOMAIN buffer = 1 .. Len(buffer)
        /\ \A m, o \in DOMAIN buffer : m < o => buffer[m] + 2 <= buffer[o]
    BY DEF IsSpread
  <2>2. \A m \in 1 .. Len(buffer) : buffer[m] \in Frames
    BY <2>1
  <2> QED
    BY <2>1, <2>2, FreeIsFrames
<1> DEFINE S == {k \in 0 .. n - 1 : buffer[k + 1] >= buffer[1] + 2 * k}
<1>2. 0 \in S
  BY <1>1
<1>3. ASSUME NEW k \in 1 .. n - 1, k - 1 \in S PROVE k \in S
  <2>1. buffer[k] >= buffer[1] + 2 * (k - 1) /\ buffer[k] + 2 <= buffer[k + 1]
    BY <1>1, <1>3
  <2>2. buffer[k] \in Nat /\ buffer[k + 1] \in Nat /\ buffer[1] \in Nat
    BY <1>1
  <2> QED
    BY <2>1, <2>2
<1> HIDE DEF S
<1>4. 0 .. n - 1 \subseteq S
  BY <1>2, <1>3, UpTo
<1>5. n - 1 \in S
  BY <1>4
<1>6. buffer[(n - 1) + 1] >= buffer[1] + 2 * (n - 1) /\ (n - 1) + 1 = n
  BY <1>5 DEF S
<1> QED
  BY <1>1, <1>6

(* Which frames beside the buffer's are written. *)
LEMMA MissedAreKnown ==
  ASSUME NEW buffer, IsSpread(buffer), FramesOf(buffer) \subseteq Frames, Len(buffer) >= 1,
         NEW count \in 0 .. Len(buffer) + 1
  PROVE  Missed(buffer, count) # {} <=>
           \E n \in 2 .. Len(buffer) : /\ buffer[n] # buffer[1] + 2 * (n - 1)
                                       /\ 2 * (n - 1) < count
<1> DEFINE pages == Len(buffer)
           Astray(n) == buffer[n] # buffer[1] + 2 * (n - 1)
<1>1. /\ pages \in Nat /\ DOMAIN buffer = 1 .. pages /\ buffer \in Seq(Frames)
      /\ \A m, n \in 1 .. pages : m < n => buffer[m] + 2 <= buffer[n]
  BY DEF IsSpread
<1>2. \A n \in 1 .. pages : /\ buffer[n] \in Frames /\ buffer[n] \in Nat
                            /\ buffer[n] >= buffer[1] + 2 * (n - 1)
  BY <1>1, SpreadIsWide
<1>3. \A g : g \in FramesOf(buffer) <=> \E n \in 1 .. pages : g = buffer[n] \/ g = buffer[n] + 1
  BY <1>1 DEF FramesOf
<1>4. \A g : g \in Missed(buffer, count) <=>
        g \in buffer[1] .. buffer[1] + count - 1 /\ g \in Frames /\ g \notin FramesOf(buffer)
  BY DEF Missed, Written, PagesOf
<1>5. ASSUME NEW n \in 2 .. pages, Astray(n), 2 * (n - 1) < count
      PROVE  Missed(buffer, count) # {}
  <2> DEFINE S == {m \in 2 .. pages : Astray(m)}
  <2>1. PICK k \in S : \A m \in S : k <= m
    <3>1. S \in SUBSET Nat /\ S # {}
      BY <1>5
    <3> HIDE DEF S
    <3> QED
      BY <3>1, LeastNumber
  <2>2. /\ k \in 2 .. pages /\ buffer[k] # buffer[1] + 2 * (k - 1) /\ k <= n
        /\ \A m \in 1 .. pages : m < k => buffer[m] = buffer[1] + 2 * (m - 1)
    <3>1. k \in 2 .. pages /\ buffer[k] # buffer[1] + 2 * (k - 1) /\ k <= n
      BY <1>5, <2>1
    <3>2. \A m \in 2 .. pages : m < k => buffer[m] = buffer[1] + 2 * (m - 1)
      BY <2>1
    <3>3. buffer[1] = buffer[1] + 2 * (1 - 1)
      BY <1>1, <1>2
    <3> QED
      BY <3>1, <3>2, <3>3
  <2> HIDE DEF S
  <2> DEFINE g == buffer[1] + 2 * (k - 1)
  <2>3. g < buffer[k] /\ g \in Nat /\ buffer[k] \in Frames /\ buffer[1] \in Frames
    BY <1>1, <1>2, <2>2
  <2>4. g \in Frames
    BY <2>2, <2>3, FramesAssumption DEF Frames
  <2>5. g \notin FramesOf(buffer)
    <3> SUFFICES ASSUME NEW m \in 1 .. pages PROVE g # buffer[m] /\ g # buffer[m] + 1
      BY <1>3
    <3>1. CASE m < k
      <4>1. buffer[m] = buffer[1] + 2 * (m - 1) /\ buffer[1] \in Nat
        BY <1>1, <1>2, <2>2, <3>1
      <4>2. 2 * (m - 1) + 1 < 2 * (k - 1)
        BY <2>2, <3>1
      <4> QED
        BY <4>1, <4>2, <2>2
    <3>2. CASE m >= k
      <4>1. buffer[k] <= buffer[m]
        BY <1>1, <1>2, <2>2, <3>2
      <4>2. buffer[m] \in Nat /\ buffer[k] \in Nat
        BY <1>2, <2>2
      <4> HIDE DEF g
      <4> QED
        BY <2>3, <4>1, <4>2
    <3> QED
      BY <2>2, <3>1, <3>2
  <2>6. g \in buffer[1] .. buffer[1] + count - 1
    BY <1>1, <1>2, <1>5, <2>2
  <2> QED
    BY <1>4, <2>4, <2>5, <2>6
<1>6. ASSUME NEW g \in Missed(buffer, count)
      PROVE  \E n \in 2 .. pages : Astray(n) /\ 2 * (n - 1) < count
  <2>1. g \in buffer[1] .. buffer[1] + count - 1 /\ g \notin FramesOf(buffer) /\ buffer[1] \in Nat
    BY <1>1, <1>2, <1>4
  <2>2. PICK k \in Nat : g = buffer[1] + k /\ k < count
    <3>1. g - buffer[1] \in Nat /\ g = buffer[1] + (g - buffer[1]) /\ g - buffer[1] < count
      BY <2>1
    <3> QED
      BY <3>1
  <2>3. PICK n \in Nat \ {0} : k = 2 * (n - 1) \/ k = 2 * (n - 1) + 1
    <3>1. k = 2 * (((k \div 2) + 1) - 1) \/ k = 2 * (((k \div 2) + 1) - 1) + 1
      OBVIOUS
    <3>2. (k \div 2) + 1 \in Nat \ {0}
      OBVIOUS
    <3> QED
      BY <3>1, <3>2
  <2>4. n \in 1 .. pages /\ 2 * (n - 1) < count
    BY <1>1, <2>2, <2>3
  <2>5. g # buffer[n] /\ g # buffer[n] + 1
    BY <1>3, <2>1, <2>4
  <2>6. buffer[n] # buffer[1] + 2 * (n - 1)
    <3>1. CASE k = 2 * (n - 1)
      BY <2>2, <2>5, <3>1
    <3>2. CASE k = 2 * (n - 1) + 1
      <4>1. g = (buffer[1] + 2 * (n - 1)) + 1
        BY <2>1, <2>2, <3>2
      <4> QED
        BY <2>5, <4>1
    <3> QED
      BY <2>3, <3>1, <3>2
  <2>7. n # 1
    BY <2>1, <2>6
  <2> QED
    BY <2>4, <2>6, <2>7
<1> QED
  BY <1>5, <1>6

-----------------------------------------------------------------------------
(* The shell's invariant.  What a call has in hand follows from how far it *)
(* has come; what outlasts the call is accounted for frame by frame.       *)
Commands == {"path", "cd", "ls", "info", "txtread", "vmtest"}
Steps == {"idle", "parts", "split", "slashes", "channel", "look_up", "partitions", "compared",
          "names", "allocate", "release"}
Requests == [service : Services \cup {"none"}, step : Steps, found : Steps \cup {"nothing"},
             buffer : Seq(Frames), written : 0 .. MaxPages + 1]

ShellTypes ==
  /\ path \in Seq(Frames) /\ Len(path) \in 1 .. 2
  /\ text \in Seq(Frames) /\ Len(text) <= 3
  /\ request \in Requests /\ Len(request.buffer) <= MaxPages
  /\ stray \subseteq Owners /\ unread \subseteq Frames
  /\ refused \in Nat /\ forgotten \in 0 .. MaxForgotten + 1 /\ lines \in 0 .. MaxCommands
  /\ wild \in {"no", "letter", "memory"} /\ command \in Commands \cup {Prompt}
  /\ turn \in {"typed", "called", "open", "listing", "free"}

ShellControl ==
  /\ request.step = "idle" => request = NoRequest
  /\ command = Prompt => turn = "typed"
  /\ turn \in {"typed", "open", "free"} => request.step = "idle"
  /\ turn = "called" => command \in {"cd", "info", "txtread"}
  /\ turn \in {"open", "listing"} => command = "ls"
  /\ turn = "free" => command \in {"path", "ls", "vmtest"}
  /\ turn \in {"typed", "called"} => text = NoBuffer
  /\ given # NoBuffer =>
       command = "txtread" /\ turn = "called" /\ request.step \in {"release", "idle"}
  /\ request.service = "ReadFile" => command = "txtread"
  /\ request.step = "split" => forgotten <= MaxForgotten

HeldAt(step) ==
  IF step = "idle" THEN {}
  ELSE IF step \in {"parts", "split", "slashes"} THEN {"string", "parts"}
  ELSE IF step = "channel" THEN {"string", "device"}
  ELSE IF step \in {"look_up", "allocate", "release"} THEN {"string", "device", "channel"}
  ELSE {"string", "device", "channel", "object", "names", "part"}

ObjectsHeld ==
  /\ InOrder(owner, HeldAt(request.step))
  /\ request.step = "channel" => Has(owner, "device")
  /\ request.step = "split" => Has(owner, "parts")

InBuffer == IF request.step = "release" THEN {} ELSE PagesOf(request.buffer)

FramesHeld ==
  /\ UsedFor("path") = PagesOf(path) /\ UsedFor("text") = PagesOf(text)
  /\ UsedFor("elsewhere") \in Elsewhere
  /\ Cardinality(UsedFor("lost")) = forgotten /\ Cardinality(UsedFor("kept")) = refused
  /\ UsedFor("file") = unread \cup PagesOf(given) \cup InBuffer
  /\ unread \cap PagesOf(given) = {} /\ unread \cap InBuffer = {}

Unbuffered == {"idle", "parts", "split", "slashes", "channel", "allocate"}

BufferHeld ==
  /\ request.step \in Unbuffered => request.buffer = NoBuffer
  /\ request.buffer # NoBuffer => request.service = "ReadFile"
  /\ IsSpread(request.buffer) /\ FramesOf(request.buffer) \subseteq Frames
  /\ request.step # "release" => stray = {} /\ request.written = 0
  /\ FilesAreMisplaced

ShellInv ==
  /\ ShellTypes /\ ShellControl /\ ObjectsHeld /\ FramesHeld /\ BufferHeld
  /\ OthersKeepToTheTable

LEMMA HeldAtSteps ==
  /\ HeldAt("idle") = {}
  /\ HeldAt("parts") = {"string", "parts"} /\ HeldAt("split") = {"string", "parts"}
  /\ HeldAt("slashes") = {"string", "parts"} /\ HeldAt("channel") = {"string", "device"}
  /\ HeldAt("look_up") = {"string", "device", "channel"}
  /\ HeldAt("allocate") = {"string", "device", "channel"}
  /\ HeldAt("release") = {"string", "device", "channel"}
  /\ HeldAt("partitions") = {"string", "device", "channel", "object", "names", "part"}
  /\ HeldAt("compared") = {"string", "device", "channel", "object", "names", "part"}
  /\ HeldAt("names") = {"string", "device", "channel", "object", "names", "part"}
BY DEF HeldAt

LEMMA NothingInBuffer ==
  /\ FramesOf(NoBuffer) = {} /\ PagesOf(NoBuffer) = {} /\ NoBuffer \in Seq(Frames)
  /\ Len(NoBuffer) = 0 /\ IsSpread(NoBuffer)
<1>1. FramesOf(NoBuffer) = {} /\ NoBuffer \in Seq(Frames) /\ Len(NoBuffer) = 0
  BY DEF FramesOf, NoBuffer
<1>2. IsSpread(NoBuffer)
  BY <1>1 DEF IsSpread, NoBuffer
<1> QED
  BY <1>1, <1>2 DEF PagesOf

LEMMA NoRequestIsIdle ==
  /\ NoRequest \in Requests /\ NoRequest.step = "idle" /\ NoRequest.service = "none"
  /\ NoRequest.buffer = NoBuffer /\ NoRequest.written = 0 /\ NoRequest.found = "nothing"
<1>1. 0 \in 0 .. MaxPages + 1
  BY FramesAssumption
<1> QED
  BY <1>1, NothingInBuffer DEF NoRequest, Requests, Steps

LEMMA ShellInvImplies ==
  ASSUME ShellInv
  PROVE  TypeOK /\ NothingIsLostSight /\ NothingElseIsKept /\ FilesAreMisplaced /\ OthersKeepToTheTable
<1>1. TypeOK
  <2>1. refused <= LastFrame
    <3>1. UsedFor("kept") \in SUBSET Frames
      BY DEF UsedFor, Uses
    <3> QED
      BY <3>1, FramesAreFinite DEF ShellInv, FramesHeld
  <2>2. refused \in 0 .. LastFrame
    BY <2>1, FramesAssumption DEF ShellInv, ShellTypes
  <2>3. request.service \in Services \cup {"none"} /\ request.written \in 0 .. MaxPages + 1
    BY DEF ShellInv, ShellTypes, Requests
  <2>4. owner \in [Frames -> Owners]
    BY DEF ShellInv, ObjectsHeld, InOrder
  <2> QED
    BY <2>2, <2>3, <2>4 DEF ShellInv, ShellTypes, TypeOK
<1>2. NothingIsLostSight
  BY DEF ShellInv, ObjectsHeld, InOrder, NothingIsLostSight, UsedFor
<1>3. NothingElseIsKept
  <2> SUFFICES ASSUME command = Prompt
               PROVE  /\ \A object \in InHand \cup {"text"} : UsedFor(object) = {}
                      /\ UsedFor("path") = PagesOf(path) /\ UsedFor("elsewhere") \in Elsewhere
                      /\ Cardinality(UsedFor("lost")) = forgotten
                      /\ Cardinality(UsedFor("kept")) = refused
                      /\ UsedFor("file") = unread
    BY DEF NothingElseIsKept
  <2>1. /\ turn = "typed" /\ request.step = "idle" /\ text = NoBuffer /\ given = NoBuffer
        /\ request.buffer = NoBuffer
    BY DEF ShellInv, ShellControl, BufferHeld, Unbuffered
  <2>2. InBuffer = {} /\ PagesOf(given) = {} /\ PagesOf(text) = {}
    BY <2>1, NothingInBuffer DEF InBuffer
  <2>3. \A object \in InHand : UsedFor(object) = {}
    BY <2>1, HeldAtSteps DEF ShellInv, ObjectsHeld, InOrder, UsedFor
  <2> QED
    BY <2>2, <2>3 DEF ShellInv, FramesHeld
<1> QED
  BY <1>1, <1>2, <1>3 DEF ShellInv, BufferHeld

LEMMA ShellInvInitially == Init => ShellInv
<1> SUFFICES ASSUME Init PROVE ShellInv
  OBVIOUS
<1>1. /\ path = <<1, 3>> /\ request = NoRequest /\ given = NoBuffer /\ refused = 0 /\ forgotten = 0
      /\ unread = {} /\ stray = {} /\ wild = "no" /\ lines = 0 /\ command = Prompt
      /\ turn = "typed" /\ text = NoBuffer
  BY DEF Init, FileInit
<1>2. PICK others \in Elsewhere :
        owner = [f \in Frames |-> IF f \in 1 .. 4 THEN "path" ELSE IF f \in others THEN "elsewhere" ELSE "free"]
  BY DEF Init, FileInit
<1>3. LastFrame \in Nat /\ LastFrame >= 4 /\ others \in SUBSET (5 .. LastFrame) /\ 1 .. 4 \subseteq Frames
  BY FramesAssumption DEF Frames
<1>4. owner \in [Frames -> Owners]
  BY <1>2 DEF Owners, Lasting
<1>5. /\ UsedFor("path") = 1 .. 4 /\ UsedFor("elsewhere") = others
      /\ \A u \in Owners : u \notin {"path", "elsewhere", "free"} => UsedFor(u) = {}
  <2>1. UsedFor("path") = 1 .. 4
    BY <1>2, <1>3 DEF UsedFor, Uses
  <2>2. UsedFor("elsewhere") = others
    <3>1. \A f \in others : f \in Frames /\ f \notin 1 .. 4
      BY <1>3 DEF Frames
    <3>2. \A f \in Frames : owner[f] = "elsewhere" <=> f \in others
      BY <1>2, <3>1
    <3> QED
      BY <3>1, <3>2 DEF UsedFor, Uses
  <2>3. \A u \in Owners : u \notin {"path", "elsewhere", "free"} => UsedFor(u) = {}
    BY <1>2 DEF UsedFor, Uses
  <2> QED
    BY <2>1, <2>2, <2>3
<1>6. path \in Seq(Frames) /\ Len(path) = 2 /\ PagesOf(path) = 1 .. 4
  <2>1. path \in Seq(Frames) /\ Len(path) = 2 /\ DOMAIN path = 1 .. 2 /\ path[1] = 1 /\ path[2] = 3
    BY <1>1, <1>3
  <2>2. FramesOf(path) = {1, 2} \cup {3, 4}
    BY <2>1 DEF FramesOf
  <2> QED
    BY <1>3, <2>1, <2>2 DEF PagesOf
<1>7. /\ request.step = "idle" /\ request.buffer = NoBuffer /\ request.written = 0
      /\ request.service = "none" /\ request \in Requests
  BY <1>1, NoRequestIsIdle
<1>8. ShellTypes
  BY <1>1, <1>6, <1>7, NothingInBuffer, FramesAssumption, CommandsAssumption DEF ShellTypes
<1>9. ShellControl
  BY <1>1, <1>7 DEF ShellControl
<1>10. ObjectsHeld
  <2>1. \A x \in InHand : UsedFor(x) = {}
    BY <1>5 DEF InHand, Owners
  <2> QED
    BY <1>4, <1>7, <2>1 DEF ObjectsHeld, InOrder, UsedFor
<1>11. FramesHeld
  BY <1>1, <1>5, <1>6, <1>7, NothingInBuffer, OwnersAreKnown, FS_EmptySet DEF FramesHeld, InBuffer
<1>12. BufferHeld
  BY <1>1, <1>7, NothingInBuffer DEF BufferHeld, FilesAreMisplaced
<1> QED
  BY <1>1, <1>8, <1>9, <1>10, <1>11, <1>12 DEF ShellInv, OthersKeepToTheTable

-----------------------------------------------------------------------------
(* What the steps have in common.                                          *)
LEMMA UsesOfOwner ==
  ASSUME NEW held, Alike(owner, owner', held)
  PROVE  \A u \in Owners \ held : u # "free" => UsedFor(u)' = UsedFor(u)
BY DEF Alike, UsedFor, Uses

(* Frames that outlast a call keep their use. *)
LEMMA FramesStay ==
  ASSUME ShellInv, Alike(owner, owner', InHand \cup {"lost"}),
         UNCHANGED <<path, text, given, unread, refused>>, InBuffer' = InBuffer,
         Cardinality(UsedFor("lost")') = forgotten'
  PROVE  FramesHeld'
<1>1. \A u \in {"path", "text", "elsewhere", "kept", "file"} : UsedFor(u)' = UsedFor(u)
  BY UsesOfOwner, OwnersAreKnown
<1>2. PagesOf(path)' = PagesOf(path) /\ PagesOf(text)' = PagesOf(text) /\ PagesOf(given)' = PagesOf(given)
  BY DEF PagesOf, FramesOf
<1> QED
  BY <1>1, <1>2 DEF ShellInv, FramesHeld

LEMMA LostStays ==
  ASSUME ShellInv, Alike(owner, owner', InHand), forgotten' = forgotten
  PROVE  /\ Cardinality(UsedFor("lost")') = forgotten'
         /\ Alike(owner, owner', InHand \cup {"lost"})
<1>1. UsedFor("lost")' = UsedFor("lost")
  BY UsesOfOwner, OwnersAreKnown
<1> QED
  BY <1>1 DEF ShellInv, FramesHeld, Alike

LEMMA LostGrows ==
  ASSUME ShellInv, NEW held, LosesOne(owner, owner', held), forgotten' = forgotten + 1
  PROVE  /\ Cardinality(UsedFor("lost")') = forgotten'
         /\ Alike(owner, owner', InHand \cup {"lost"}) /\ InOrder(owner', held)
<1>1. PICK f \in Frames : owner[f] # "lost" /\ Uses(owner', "lost") = Uses(owner, "lost") \cup {f}
  BY DEF LosesOne
<1>2. UsedFor("lost")' = UsedFor("lost") \cup {f} /\ f \notin UsedFor("lost")
  BY <1>1 DEF UsedFor, Uses
<1>3. IsFiniteSet(UsedFor("lost"))
  <2>1. UsedFor("lost") \in SUBSET Frames
    BY DEF UsedFor, Uses
  <2> QED
    BY <2>1, FramesAreFinite
<1>4. Cardinality(UsedFor("lost") \cup {f}) = Cardinality(UsedFor("lost")) + 1
  BY <1>2, <1>3, FS_AddElement
<1> QED
  BY <1>2, <1>4 DEF ShellInv, FramesHeld, LosesOne

LEMMA StopKeepsShell ==
  ASSUME ShellInv, Stop("memory"), UNCHANGED shellVars
  PROVE  ShellInv'
<1>1. /\ wild' = "memory"
      /\ UNCHANGED <<owner, path, request, given, refused, forgotten, unread, stray,
                     command, lines, turn, text>>
  BY DEF Stop, histories, shellVars
<1>2. ShellTypes'
  BY <1>1 DEF ShellInv, ShellTypes
<1>3. ShellControl'
  BY <1>1 DEF ShellInv, ShellControl
<1>4. ObjectsHeld'
  BY <1>1 DEF ShellInv, ObjectsHeld
<1>5. FramesHeld'
  BY <1>1 DEF ShellInv, FramesHeld, UsedFor, InBuffer, PagesOf, FramesOf
<1>6. BufferHeld'
  BY <1>1 DEF ShellInv, BufferHeld, IsSpread, FramesOf, FilesAreMisplaced
<1> QED
  BY <1>1, <1>2, <1>3, <1>4, <1>5, <1>6 DEF ShellInv, OthersKeepToTheTable

LEMMA WhileServed ==
  ASSUME ShellInv, request.step # "idle"
  PROVE  command # Prompt /\ turn \in {"called", "listing"}
BY DEF ShellInv, ShellControl, ShellTypes

(* A call that goes on to another step. *)
LEMMA GoingOnKeepsShell ==
  ASSUME ShellInv, stray = {}, UNCHANGED shellVars,
         UNCHANGED <<path, given, refused, unread, stray>>,
         NEW step \in Steps \ {"idle", "release"}, Goto(step),
         request.step \notin {"idle", "release"},
         step \in Unbuffered => request.step \in Unbuffered,
         forgotten' \in 0 .. MaxForgotten + 1, step = "split" => forgotten' <= MaxForgotten,
         InOrder(owner', HeldAt(step)), Alike(owner, owner', InHand \cup {"lost"}),
         step = "channel" => Has(owner', "device"), step = "split" => Has(owner', "parts"),
         Cardinality(UsedFor("lost")') = forgotten',
         wild' = "no" \/ (wild' = "letter" /\ request.service = "ReadFile")
  PROVE  ShellInv'
<1>1. request \in Requests
  BY DEF ShellInv, ShellTypes
<1>2. /\ request' \in Requests /\ request'.step = step /\ request'.service = request.service
      /\ request'.buffer = request.buffer /\ request'.written = request.written
  BY <1>1 DEF Goto, Requests
<1>3. UNCHANGED <<path, given, refused, unread, stray, command, lines, turn, text>>
  BY DEF shellVars
<1>4. turn \in {"called", "listing"} /\ command # Prompt
  BY WhileServed
<1>5. given = NoBuffer
  BY DEF ShellInv, ShellControl
<1>6. InBuffer' = InBuffer
  BY <1>2 DEF InBuffer, PagesOf, FramesOf
<1>7. ShellTypes'
  BY <1>2, <1>3 DEF ShellInv, ShellTypes
<1>8. ShellControl'
  BY <1>2, <1>3, <1>4, <1>5 DEF ShellInv, ShellControl
<1>9. ObjectsHeld'
  BY <1>2 DEF ObjectsHeld
<1>10. FramesHeld'
  BY <1>3, <1>6, FramesStay
<1>11. BufferHeld'
  <2>1. request.buffer = NoBuffer \/ step \notin Unbuffered
    BY DEF ShellInv, BufferHeld
  <2>2. /\ IsSpread(request.buffer) /\ FramesOf(request.buffer) \subseteq Frames
        /\ request.written = 0 /\ FilesAreMisplaced
        /\ request.buffer # NoBuffer => request.service = "ReadFile"
    BY DEF ShellInv, BufferHeld
  <2>3. IsSpread(request.buffer)' /\ FramesOf(request.buffer)' \subseteq Frames
    BY <1>2, <2>2 DEF IsSpread, FramesOf
  <2>4. FilesAreMisplaced'
    BY <1>2, <2>2 DEF FilesAreMisplaced
  <2> QED
    BY <1>2, <1>3, <2>1, <2>2, <2>3, <2>4 DEF BufferHeld
<1>12. OthersKeepToTheTable'
  BY <1>3 DEF ShellInv, ShellControl, OthersKeepToTheTable
<1> QED
  BY <1>7, <1>8, <1>9, <1>10, <1>11, <1>12 DEF ShellInv

(* A call that is over. *)
LEMMA ReturningKeepsShell ==
  ASSUME ShellInv, stray = {}, UNCHANGED shellVars, UNCHANGED <<path, given, unread, stray, forgotten>>,
         request' = NoRequest, request.step # "idle", InBuffer = {},
         InOrder(owner', {}), Alike(owner, owner', InHand \cup {"kept"}),
         refused' \in Nat, Cardinality(UsedFor("kept")') = refused',
         wild' = "no" \/ (wild' = "letter" /\ request.service = "ReadFile")
  PROVE  ShellInv'
<1>1. /\ request' \in Requests /\ request'.step = "idle" /\ request'.service = "none"
      /\ request'.buffer = NoBuffer /\ request'.written = 0
  BY NoRequestIsIdle
<1>2. UNCHANGED <<path, given, forgotten, unread, stray, command, lines, turn, text>>
  BY DEF shellVars
<1>3. turn \in {"called", "listing"} /\ command # Prompt
  BY WhileServed
<1>4. ShellTypes'
  BY <1>1, <1>2, NothingInBuffer, FramesAssumption DEF ShellInv, ShellTypes
<1>5. ShellControl'
  BY <1>1, <1>2, <1>3 DEF ShellInv, ShellControl
<1>6. ObjectsHeld'
  BY <1>1, HeldAtSteps DEF ObjectsHeld
<1>7. FramesHeld'
  <2>1. \A u \in {"path", "text", "elsewhere", "lost", "file"} : UsedFor(u)' = UsedFor(u)
    BY UsesOfOwner, OwnersAreKnown
  <2>2. PagesOf(path)' = PagesOf(path) /\ PagesOf(text)' = PagesOf(text) /\ PagesOf(given)' = PagesOf(given)
    BY <1>2 DEF PagesOf, FramesOf
  <2>3. InBuffer' = {}
    BY <1>1, NothingInBuffer DEF InBuffer, PagesOf, FramesOf
  <2> QED
    BY <1>2, <2>1, <2>2, <2>3 DEF ShellInv, FramesHeld
<1>8. BufferHeld'
  <2>1. IsSpread(request.buffer)' /\ FramesOf(request.buffer)' \subseteq Frames /\ Len(request'.buffer) = 0
    BY <1>1, NothingInBuffer DEF IsSpread, FramesOf
  <2>2. FilesAreMisplaced'
    BY <1>1, <2>1 DEF FilesAreMisplaced
  <2> QED
    BY <1>1, <1>2, <2>1, <2>2 DEF BufferHeld
<1>9. OthersKeepToTheTable'
  BY <1>2 DEF ShellInv, ShellControl, OthersKeepToTheTable
<1> QED
  BY <1>4, <1>5, <1>6, <1>7, <1>8, <1>9 DEF ShellInv

-----------------------------------------------------------------------------
(* The steps of a call.                                                    *)
LEMMA ShortenKeepsShell ==
  ASSUME ShellInv, stray = {}, UNCHANGED shellVars, NEW operation, NEW shortened,
         NEW step \in Steps \ {"idle", "release", "channel"},
         Shorten(operation, shortened, step), wild = "no",
         request.step \notin {"idle", "release"},
         step \in Unbuffered => request.step \in Unbuffered,
         ~Short(owner, operation) => /\ LosesOne(owner, shortened, HeldAt(step))
                                     /\ step = "split" => Has(shortened, "parts")
  PROVE  ShellInv'
<1>1. CASE Short(owner, operation)
  BY <1>1, StopKeepsShell DEF Shorten
<1>2. CASE ~Short(owner, operation)
  <2>1. /\ forgotten < MaxForgotten /\ forgotten' = forgotten + 1 /\ owner' = shortened /\ Goto(step)
        /\ UNCHANGED <<path, given, refused, unread, stray, wild>>
    BY <1>2 DEF Shorten
  <2>2. LosesOne(owner, owner', HeldAt(step)) /\ (step = "split" => Has(owner', "parts"))
    BY <1>2, <2>1
  <2>3. forgotten' \in 0 .. MaxForgotten + 1 /\ forgotten' <= MaxForgotten
    BY <2>1, FramesAssumption DEF ShellInv, ShellTypes
  <2>4. /\ Cardinality(UsedFor("lost")') = forgotten'
        /\ Alike(owner, owner', InHand \cup {"lost"}) /\ InOrder(owner', HeldAt(step))
    BY <2>1, <2>2, LostGrows
  <2> QED
    BY <2>1, <2>2, <2>3, <2>4, GoingOnKeepsShell
<1> QED
  BY <1>1, <1>2

LEMMA EnoughIsFree ==
  ASSUME InOrder(owner, HeldAt(request.step))
  PROVE  /\ ~Short(owner, "SubString") => Uses(owner, "free") # {}
         /\ ~Short(owner, "Split") => Uses(owner, "free") # {}
         /\ ~Short(owner, "Erase") => ~(Cardinality(Uses(owner, "free")) < 3)
<1>1. owner \in [Frames -> Owners]
  BY DEF InOrder
<1> QED
  BY <1>1, OneIsFree DEF Short, Needs

LEMMA PathStepsKeepShell ==
  ASSUME ShellInv, Sound, UNCHANGED shellVars, TakeName \/ TakeSlash \/ SplitAgain
  PROVE  ShellInv'
<1>1. stray = {} /\ wild = "no" /\ InOrder(owner, HeldAt(request.step))
  BY DEF Sound, ShellInv, ObjectsHeld
<1>2. CASE TakeName
  <2>1. /\ request.step = "parts" /\ Has(owner, "parts") /\ InOrder(owner, {"string", "parts"})
        /\ HeldAt("split") = {"string", "parts"} /\ "split" \in Steps \ {"idle", "release", "channel"}
    BY <1>1, <1>2, HeldAtSteps DEF TakeName, Steps
  <2>2. CASE Shorten("SubString", Cut, "split")
    <3>1. ~Short(owner, "SubString") =>
            LosesOne(owner, Cut, HeldAt("split")) /\ Has(Cut, "parts")
      BY <1>1, <2>1, EnoughIsFree, CutLosesOne DEF Has
    <3> QED
      BY <1>1, <2>1, <2>2, <3>1, ShortenKeepsShell DEF Unbuffered
  <2>3. CASE Shorten("Erase", Erased, "split")
    <3>1. ~Short(owner, "Erase") =>
            LosesOne(owner, Erased, HeldAt("split")) /\ Has(Erased, "parts")
      BY <1>1, <2>1, EnoughIsFree, ErasedLosesOne DEF Has
    <3> QED
      BY <1>1, <2>1, <2>3, <3>1, ShortenKeepsShell DEF Unbuffered
  <2> QED
    BY <1>2, <2>2, <2>3 DEF TakeName
<1>3. CASE TakeSlash
  <2>1. /\ request.step \in {"parts", "slashes"} /\ Shorten("SubString", Cut, "slashes")
        /\ InOrder(owner, {"string", "parts"}) /\ HeldAt("slashes") = {"string", "parts"}
        /\ "slashes" \in Steps \ {"idle", "release", "channel"}
    BY <1>1, <1>3, HeldAtSteps DEF TakeSlash, Resolving, Steps
  <2>2. ~Short(owner, "SubString") => LosesOne(owner, Cut, HeldAt("slashes"))
    BY <1>1, <2>1, EnoughIsFree, CutLosesOne
  <2> QED
    BY <1>1, <2>1, <2>2, ShortenKeepsShell DEF Unbuffered
<1>4. CASE SplitAgain
  <2>1. /\ request.step = "split" /\ InOrder(owner, {"string", "parts"}) /\ Has(owner, "parts")
        /\ HeldAt("parts") = {"string", "parts"} /\ "parts" \in Steps \ {"idle", "release"}
    BY <1>1, <1>4, HeldAtSteps DEF SplitAgain, Steps, ShellInv, ObjectsHeld
  <2>2. CASE Short(owner, "SplitAgain")
    BY <1>4, <2>2, StopKeepsShell DEF SplitAgain
  <2>3. CASE ~Short(owner, "SplitAgain")
    <3>1. /\ owner' = DeleteAll(New(Split, "parts"), {"temp", "full"})
          /\ forgotten' = forgotten + 1 /\ Goto("parts")
          /\ UNCHANGED <<path, given, refused, unread, stray, wild>>
      BY <1>4, <2>3 DEF SplitAgain
    <3>2. LosesOne(owner, owner', HeldAt("parts"))
      BY <2>1, <3>1, SplitLosesOne
    <3>3. forgotten' \in 0 .. MaxForgotten + 1
      BY <2>1, <3>1, FramesAssumption DEF ShellInv, ShellTypes, ShellControl
    <3>4. /\ Cardinality(UsedFor("lost")') = forgotten'
          /\ Alike(owner, owner', InHand \cup {"lost"}) /\ InOrder(owner', HeldAt("parts"))
      BY <3>1, <3>2, LostGrows
    <3> QED
      BY <1>1, <2>1, <3>1, <3>3, <3>4, GoingOnKeepsShell DEF Unbuffered
  <2> QED
    BY <2>2, <2>3
<1> QED
  BY <1>2, <1>3, <1>4

LEMMA ComparingKeepsShell ==
  ASSUME ShellInv, Sound, UNCHANGED shellVars, ComparePartition \/ CompareName
  PROVE  ShellInv'
<1> DEFINE held == {"string", "device", "channel", "object", "names", "part"}
           compared == Delete(Replace(SubString(owner, "temp"), "part"), "temp")
<1>1. stray = {} /\ wild = "no" /\ InOrder(owner, HeldAt(request.step))
  BY DEF Sound, ShellInv, ObjectsHeld
<1>2. request.step \in {"partitions", "compared", "names"}
  BY DEF ComparePartition, CompareName
<1>3. /\ HeldAt(request.step) = held /\ HeldAt("compared") = held /\ HeldAt("names") = held
      /\ {"compared", "names"} \subseteq Steps \ {"idle", "release", "channel"}
      /\ held \subseteq InHand /\ "part" \in held /\ "temp" \in InHand \ held /\ "new" \notin held
  BY <1>2, HeldAtSteps DEF Steps, InHand
<1>4. {"compared", "names"} \cap Unbuffered = {}
  BY DEF Unbuffered
<1> HIDE DEF held
<1>5. CASE ComparePartition
  <2>1. ~Short(owner, "SubString") => LosesOne(owner, New(owner, "lost"), HeldAt("compared"))
    BY <1>1, <1>3, EnoughIsFree, ForgetLosesOne
  <2> QED
    BY <1>1, <1>2, <1>3, <1>4, <1>5, <2>1, ShortenKeepsShell DEF ComparePartition
<1>6. CASE CompareName
  <2>1. Shorten("SubString", compared, "names")
    BY <1>6 DEF CompareName
  <2>2. ~Short(owner, "SubString") => LosesOne(owner, compared, HeldAt("names"))
    <3>1. ASSUME Uses(owner, "free") # {} PROVE LosesOne(owner, compared, held)
      BY <1>1, <1>3, <3>1, CopyLosesOne
    <3> HIDE DEF compared
    <3> QED
      BY <1>1, <1>3, <3>1, EnoughIsFree
  <2> HIDE DEF compared
  <2> QED
    BY <1>1, <1>2, <1>3, <1>4, <2>1, <2>2, ShortenKeepsShell
<1> QED
  BY <1>5, <1>6

LEMMA StartLookUpKeepsShell ==
  ASSUME ShellInv, Sound, UNCHANGED shellVars, StartLookUp
  PROVE  ShellInv'
<1> DEFINE object == New(owner, "object")
           three == {"string", "device", "channel"}
           held == {"string", "device", "channel", "object", "names", "part"}
<1>1. /\ stray = {} /\ wild = "no" /\ request.step = "look_up" /\ InOrder(owner, three)
      /\ HeldAt("partitions") = held /\ "partitions" \in Steps \ {"idle", "release"}
  BY HeldAtSteps DEF Sound, ShellInv, ObjectsHeld, StartLookUp, Steps
<1>2. CASE Stop("memory")
  BY <1>2, StopKeepsShell
<1>3. CASE ~Stop("memory")
  <2>1. /\ owner' = SplitInto(object, "names") /\ Goto("partitions")
        /\ UNCHANGED <<path, given, refused, forgotten, unread, stray, wild>>
    BY <1>3 DEF StartLookUp, histories
  <2>2. InOrder(object, three \cup {"object"}) /\ Alike(owner, object, {"object"})
    BY <1>1, NewIsInOrder DEF InHand
  <2> HIDE DEF object
  <2>3. /\ InOrder(SplitInto(object, "names"), (three \cup {"object"}) \cup {"names"})
        /\ Alike(object, SplitInto(object, "names"), {"names", "temp"})
    <3>1. "names" \in InHand \ (three \cup {"object"}) /\ "temp" \notin three \cup {"object"} /\ "names" # "temp"
      BY DEF InHand
    <3> QED
      BY <2>2, <3>1, SplitIsInOrder
  <2>4. InOrder(owner', held)
    <3>1. (three \cup {"object"}) \cup {"names"} \subseteq held
      OBVIOUS
    <3> HIDE DEF three, held
    <3> QED
      BY <2>1, <2>3, <3>1, MoreMayBeHeld
  <2>5. Alike(owner, owner', InHand)
    BY <2>1, <2>2, <2>3 DEF Alike, InHand
  <2>6. /\ Cardinality(UsedFor("lost")') = forgotten'
        /\ Alike(owner, owner', InHand \cup {"lost"})
    BY <2>1, <2>5, LostStays
  <2>7. forgotten' \in 0 .. MaxForgotten + 1
    BY <2>1 DEF ShellInv, ShellTypes
  <2> HIDE DEF held
  <2> QED
    BY <1>1, <2>1, <2>4, <2>6, <2>7, GoingOnKeepsShell DEF Unbuffered
<1> QED
  BY <1>2, <1>3

LEMMA KeptStays ==
  ASSUME ShellInv, Alike(owner, owner', InHand), refused' = refused
  PROVE  /\ Cardinality(UsedFor("kept")') = refused' /\ refused' \in Nat
         /\ Alike(owner, owner', InHand \cup {"kept"})
<1>1. UsedFor("kept")' = UsedFor("kept")
  BY UsesOfOwner, OwnersAreKnown
<1> QED
  BY <1>1 DEF ShellInv, ShellTypes, FramesHeld, Alike

LEMMA NoBufferYet ==
  ASSUME ShellInv, request.step \in Unbuffered
  PROVE  InBuffer = {} /\ request.buffer = NoBuffer
BY NothingInBuffer DEF ShellInv, BufferHeld, InBuffer

LEMMA ReturnNothingReturns ==
  ASSUME NEW o, InOrder(o, {"string"}), ReturnNothing(o)
  PROVE  InOrder(owner', {}) /\ Alike(o, owner', {"string"}) /\ request' = NoRequest
<1>1. owner' = Delete(o, "string") /\ request' = NoRequest /\ "string" \in InHand
  BY DEF ReturnNothing, InHand
<1>2. InOrder(Delete(o, "string"), {"string"} \ {"string"}) /\ Alike(o, Delete(o, "string"), {"string"})
  BY <1>1, DeleteIsInOrder
<1>3. {"string"} \ {"string"} = {}
  OBVIOUS
<1> QED
  BY <1>1, <1>2, <1>3

LEMMA LetterStepsKeepShell ==
  ASSUME ShellInv, Sound, UNCHANGED shellVars, RefuseLetter \/ CopyDevice
  PROVE  ShellInv'
<1>1. /\ stray = {} /\ wild = "no" /\ request.step \in {"parts", "slashes"}
      /\ InOrder(owner, {"string", "parts"}) /\ request.step \in Unbuffered
  BY HeldAtSteps DEF Sound, ShellInv, ObjectsHeld, RefuseLetter, CopyDevice, Resolving, Unbuffered
<1>2. InOrder(Resolved, {"string"}) /\ Alike(owner, Resolved, {"parts"})
  <2>1. /\ InOrder(Delete(owner, "parts"), {"string", "parts"} \ {"parts"})
        /\ Alike(owner, Delete(owner, "parts"), {"parts"})
    BY <1>1, DeleteIsInOrder DEF InHand
  <2>2. {"string", "parts"} \ {"parts"} = {"string"}
    OBVIOUS
  <2> QED
    BY <2>1, <2>2 DEF Resolved
<1>3. ASSUME ReturnNothing(Resolved), UNCHANGED <<path, given, histories>>,
             wild' = "no" \/ (wild' = "letter" /\ request.service = "ReadFile")
      PROVE  ShellInv'
  <2>1. /\ InOrder(owner', {}) /\ Alike(Resolved, owner', {"string"}) /\ request' = NoRequest
        /\ UNCHANGED <<path, given, refused, unread, stray, forgotten>>
    BY <1>2, <1>3, ReturnNothingReturns DEF histories
  <2>2. Alike(owner, owner', InHand)
    BY <1>2, <2>1 DEF Alike, InHand
  <2>3. /\ Cardinality(UsedFor("kept")') = refused' /\ refused' \in Nat
        /\ Alike(owner, owner', InHand \cup {"kept"})
    BY <2>1, <2>2, KeptStays
  <2>4. InBuffer = {} /\ request.step # "idle"
    BY <1>1, NoBufferYet
  <2> QED
    BY <1>1, <1>3, <2>1, <2>3, <2>4, ReturningKeepsShell
<1>4. CASE RefuseLetter
  BY <1>1, <1>3, <1>4 DEF RefuseLetter
<1>5. CASE CopyDevice
  <2>1. /\ wild' = "no" \/ (wild' = "letter" /\ request.service = "ReadFile")
        /\ UNCHANGED <<path, given, histories>>
    BY <1>5 DEF CopyDevice, IsChecked
  <2>2. CASE ~Has(Resolved, "free")
    BY <1>3, <1>5, <2>1, <2>2 DEF CopyDevice
  <2>3. CASE Has(Resolved, "free")
    <3>1. owner' = New(Resolved, "device") /\ Goto("channel")
      BY <1>5, <2>3 DEF CopyDevice, Goto
    <3>2. InOrder(owner', {"string"} \cup {"device"}) /\ Alike(Resolved, owner', {"device"})
      BY <1>2, <3>1, NewIsInOrder DEF InHand
    <3>3. Has(owner', "device")
      <4>1. Resolved \in [Frames -> Owners] /\ "device" \in Owners
        BY <1>2 DEF InOrder, Owners, InHand
      <4>2. \E f \in Uses(Resolved, "free") :
              Uses(New(Resolved, "device"), "device") = Uses(Resolved, "device") \cup {f}
        BY <2>3, <4>1, NewTakesOne DEF Has
      <4> QED
        BY <3>1, <4>2 DEF Has
    <3>4. InOrder(owner', HeldAt("channel"))
      <4>1. {"string"} \cup {"device"} = HeldAt("channel")
        BY HeldAtSteps
      <4> QED
        BY <3>2, <4>1
    <3>5. Alike(owner, owner', InHand)
      BY <1>2, <3>2 DEF Alike, InHand
    <3>6. UNCHANGED <<path, given, refused, unread, stray, forgotten>>
      BY <2>1 DEF histories
    <3>7. /\ Cardinality(UsedFor("lost")') = forgotten'
          /\ Alike(owner, owner', InHand \cup {"lost"})
      BY <3>5, <3>6, LostStays
    <3>8. forgotten' \in 0 .. MaxForgotten + 1
      BY <3>6 DEF ShellInv, ShellTypes
    <3> QED
      BY <1>1, <2>1, <3>1, <3>3, <3>4, <3>6, <3>7, <3>8, GoingOnKeepsShell DEF Unbuffered, Steps
  <2> QED
    BY <2>2, <2>3
<1> QED
  BY <1>4, <1>5

LEMMA CopyChannelKeepsShell ==
  ASSUME ShellInv, Sound, UNCHANGED shellVars, CopyChannel
  PROVE  ShellInv'
<1>1. /\ stray = {} /\ wild = "no" /\ request.step = "channel" /\ Has(owner, "device")
      /\ InOrder(owner, {"string", "device"}) /\ request.step \in Unbuffered
      /\ UNCHANGED <<path, given, forgotten, unread, stray, wild>>
  BY HeldAtSteps DEF Sound, ShellInv, ObjectsHeld, CopyChannel, Unbuffered
<1>2. CASE ~Has(owner, "free")
  <2> DEFINE o == Rename(owner, "device", "kept")
  <2>1. refused' = refused + 1 /\ ReturnNothing(o)
    BY <1>1, <1>2 DEF CopyChannel
  <2>2. /\ InOrder(o, {"string", "device"} \ {"device"}) /\ Alike(owner, o, {"device", "kept"})
        /\ Uses(o, "kept") = Uses(owner, "kept") \cup Uses(owner, "device")
    <3>1. "device" \in InHand /\ "kept" \in Owners /\ "kept" \notin InHand /\ "kept" # "free"
      BY DEF InHand, Owners, Lasting
    <3> QED
      BY <1>1, <3>1, RenameForGood
  <2> HIDE DEF o
  <2>3. InOrder(o, {"string"})
    <3>1. {"string", "device"} \ {"device"} = {"string"}
      OBVIOUS
    <3> QED
      BY <2>2, <3>1
  <2>4. InOrder(owner', {}) /\ Alike(o, owner', {"string"}) /\ request' = NoRequest
    BY <2>1, <2>3, ReturnNothingReturns
  <2>5. Alike(owner, owner', InHand \cup {"kept"})
    BY <2>2, <2>4 DEF Alike, InHand
  <2>6. Uses(owner', "kept") = Uses(o, "kept")
    BY <2>4, OwnersAreKnown DEF Alike
  <2>7. PICK f \in Frames : owner[f] = "device"
    BY <1>1 DEF Has, Uses
  <2>8. Uses(owner, "device") = {f}
    BY <1>1, <2>7 DEF InOrder, InHand, Uses
  <2>9. UsedFor("kept")' = UsedFor("kept") \cup {f} /\ f \notin UsedFor("kept")
    BY <2>2, <2>6, <2>7, <2>8 DEF UsedFor, Uses
  <2>10. IsFiniteSet(UsedFor("kept"))
    <3>1. UsedFor("kept") \in SUBSET Frames
      BY DEF UsedFor, Uses
    <3> QED
      BY <3>1, FramesAreFinite
  <2>11. Cardinality(UsedFor("kept") \cup {f}) = Cardinality(UsedFor("kept")) + 1
    BY <2>9, <2>10, FS_AddElement
  <2>12. refused' \in Nat /\ Cardinality(UsedFor("kept")') = refused'
    <3>1. refused \in Nat /\ Cardinality(UsedFor("kept")) = refused
      BY DEF ShellInv, ShellTypes, FramesHeld
    <3>2. Cardinality(UsedFor("kept")') = refused + 1
      BY <2>9, <2>11, <3>1, Zenon
    <3> QED
      BY <2>1, <3>1, <3>2
  <2>13. InBuffer = {}
    BY <1>1, NoBufferYet
  <2> QED
    BY <1>1, <2>4, <2>5, <2>12, <2>13, ReturningKeepsShell
<1>3. CASE Has(owner, "free")
  <2>1. owner' = New(owner, "channel") /\ Goto("look_up") /\ refused' = refused
    BY <1>3 DEF CopyChannel
  <2>2. InOrder(owner', {"string", "device"} \cup {"channel"}) /\ Alike(owner, owner', {"channel"})
    BY <1>1, <2>1, NewIsInOrder DEF InHand
  <2>3. InOrder(owner', HeldAt("look_up"))
    <3>1. {"string", "device"} \cup {"channel"} = HeldAt("look_up")
      BY HeldAtSteps
    <3> QED
      BY <2>2, <3>1
  <2>4. Alike(owner, owner', InHand)
    BY <2>2 DEF Alike, InHand
  <2>5. /\ Cardinality(UsedFor("lost")') = forgotten'
        /\ Alike(owner, owner', InHand \cup {"lost"})
    BY <1>1, <2>4, LostStays
  <2>6. forgotten' \in 0 .. MaxForgotten + 1
    BY <1>1 DEF ShellInv, ShellTypes
  <2> QED
    BY <1>1, <2>1, <2>3, <2>5, <2>6, GoingOnKeepsShell DEF Unbuffered, Steps
<1> QED
  BY <1>2, <1>3

LEMMA ReleaseKeepsShell ==
  ASSUME ShellInv, Sound, UNCHANGED shellVars, Release
  PROVE  ShellInv'
<1>1. /\ stray = {} /\ wild = "no" /\ request.step = "release"
      /\ InOrder(owner, {"string", "device", "channel"})
      /\ owner' = DeleteAll(owner, Released) /\ request' = NoRequest
      /\ UNCHANGED <<path, given, refused, forgotten, unread, stray, wild>>
  BY HeldAtSteps DEF Sound, ShellInv, ObjectsHeld, Release, histories
<1>2. Released \in SUBSET InHand
  BY DEF Released, InHand
<1>3. /\ InOrder(owner', {"string", "device", "channel"} \ Released)
      /\ Alike(owner, owner', Released)
  BY <1>1, <1>2, DeleteAllIsInOrder
<1>4. InOrder(owner', {})
  <2>1. {"string", "device", "channel"} \ Released = {}
    BY DEF Released
  <2> QED
    BY <1>3, <2>1
<1>5. Alike(owner, owner', InHand)
  BY <1>2, <1>3, AlikeBeyond
<1>6. /\ Cardinality(UsedFor("kept")') = refused' /\ refused' \in Nat
      /\ Alike(owner, owner', InHand \cup {"kept"})
  BY <1>1, <1>5, KeptStays
<1>7. InBuffer = {}
  BY <1>1 DEF InBuffer
<1> QED
  BY <1>1, <1>4, <1>6, <1>7, ReturningKeepsShell

(* A call whose work is done. *)
LEMMA ReleasingKeepsShell ==
  ASSUME ShellInv, UNCHANGED shellVars, UNCHANGED <<path, refused, forgotten>>,
         wild = "no", wild' = "no",
         request.step \notin {"idle", "release"},
         InOrder(owner', {"string", "device", "channel"}), Alike(owner, owner', InHand),
         request' \in Requests, request'.step = "release", request'.service = request.service,
         request'.buffer = request.buffer, stray' \subseteq Owners, FilesAreMisplaced',
         \/ unread' = unread \cup PagesOf(request.buffer) /\ given' = given
         \/ unread' = unread /\ given' = request.buffer /\ request.buffer # NoBuffer
  PROVE  ShellInv'
<1>1. UNCHANGED <<path, refused, forgotten, command, lines, turn, text>>
  BY DEF shellVars
<1>2. turn \in {"called", "listing"} /\ command # Prompt
  BY WhileServed
<1>3. given = NoBuffer
  BY DEF ShellInv, ShellControl
<1>4. request.buffer # NoBuffer => command = "txtread" /\ turn = "called"
  BY <1>2 DEF ShellInv, ShellControl, BufferHeld
<1>5. PagesOf(request.buffer) \subseteq Frames
  BY DEF PagesOf
<1>6. ShellTypes'
  BY <1>1, <1>5 DEF ShellInv, ShellTypes
<1>7. ShellControl'
  BY <1>1, <1>2, <1>3, <1>4 DEF ShellInv, ShellControl
<1>8. ObjectsHeld'
  BY HeldAtSteps DEF ObjectsHeld
<1>9. FramesHeld'
  <2>1. \A u \in {"path", "text", "elsewhere", "lost", "kept", "file"} : UsedFor(u)' = UsedFor(u)
    BY UsesOfOwner, OwnersAreKnown
  <2>2. PagesOf(path)' = PagesOf(path) /\ PagesOf(text)' = PagesOf(text)
    BY <1>1 DEF PagesOf, FramesOf
  <2>3. InBuffer' = {} /\ InBuffer = PagesOf(request.buffer)
    BY DEF InBuffer
  <2>4. PagesOf(given) = {}
    BY <1>3, NothingInBuffer
  <2>5. /\ UsedFor("file") = unread \cup PagesOf(request.buffer)
        /\ unread \cap PagesOf(request.buffer) = {}
    BY <2>3, <2>4 DEF ShellInv, FramesHeld
  <2>6. CASE unread' = unread \cup PagesOf(request.buffer) /\ given' = given
    <3>1. PagesOf(given)' = {}
      BY <2>4, <2>6 DEF PagesOf, FramesOf
    <3> QED
      BY <1>1, <2>1, <2>2, <2>3, <2>5, <2>6, <3>1 DEF ShellInv, FramesHeld
  <2>7. CASE unread' = unread /\ given' = request.buffer
    <3>1. PagesOf(given)' = PagesOf(request.buffer)
      BY <2>7 DEF PagesOf, FramesOf
    <3> QED
      BY <1>1, <2>1, <2>2, <2>3, <2>5, <2>7, <3>1 DEF ShellInv, FramesHeld
  <2> QED
    BY <2>6, <2>7
<1>10. BufferHeld'
  <2>1. /\ IsSpread(request.buffer) /\ FramesOf(request.buffer) \subseteq Frames
        /\ request.buffer # NoBuffer => request.service = "ReadFile"
    BY DEF ShellInv, BufferHeld
  <2>2. IsSpread(request.buffer)' /\ FramesOf(request.buffer)' \subseteq Frames
    BY <2>1 DEF IsSpread, FramesOf
  <2> QED
    BY <2>1, <2>2 DEF BufferHeld, Unbuffered
<1>11. OthersKeepToTheTable'
  BY DEF OthersKeepToTheTable
<1> QED
  BY <1>6, <1>7, <1>8, <1>9, <1>10, <1>11 DEF ShellInv

LEMMA LookedUpIsInOrder ==
  ASSUME ShellInv, request.step \in {"look_up", "partitions", "compared", "names"}
  PROVE  InOrder(LookedUp, {"string", "device", "channel"}) /\ Alike(owner, LookedUp, InHand)
<1> DEFINE held == {"string", "device", "channel", "object", "names", "part"}
           gone == {"object", "names", "part"}
<1>1. InOrder(owner, held)
  <2>1. InOrder(owner, HeldAt(request.step))
    BY DEF ShellInv, ObjectsHeld
  <2>2. HeldAt(request.step) \subseteq held
    BY HeldAtSteps
  <2> HIDE DEF held
  <2> QED
    BY <2>1, <2>2, MoreMayBeHeld
<1>2. gone \in SUBSET InHand /\ held \ gone = {"string", "device", "channel"}
  BY DEF InHand
<1> HIDE DEF held
<1>3. InOrder(LookedUp, held \ gone) /\ Alike(owner, LookedUp, gone)
  BY <1>1, <1>2, DeleteAllIsInOrder DEF LookedUp
<1> HIDE DEF gone
<1> QED
  BY <1>2, <1>3, AlikeBeyond

LEMMA FailLookUpKeepsShell ==
  ASSUME ShellInv, Sound, UNCHANGED shellVars, FailLookUp
  PROVE  ShellInv'
<1>1. /\ stray = {} /\ wild = "no" /\ request.step \in {"look_up", "partitions", "compared", "names"}
      /\ owner' = LookedUp /\ Goto("release")
      /\ unread' = unread \cup PagesOf(request.buffer)
      /\ UNCHANGED <<path, given, refused, forgotten, stray, wild>>
  BY DEF Sound, FailLookUp
<1>2. request \in Requests /\ request.written = 0 /\ Len(request.buffer) \in Nat /\ FilesAreMisplaced
  BY <1>1 DEF ShellInv, ShellTypes, BufferHeld, IsSpread
<1>3. /\ request' \in Requests /\ request'.step = "release" /\ request'.service = request.service
      /\ request'.buffer = request.buffer /\ request'.written = 0
  BY <1>1, <1>2 DEF Goto, Requests, Steps
<1>4. InOrder(owner', {"string", "device", "channel"}) /\ Alike(owner, owner', InHand)
  BY <1>1, LookedUpIsInOrder
<1>5. FilesAreMisplaced'
  BY <1>1, <1>2, <1>3 DEF FilesAreMisplaced
<1> QED
  BY <1>1, <1>3, <1>4, <1>5, ReleasingKeepsShell

LEMMA EndLookUpKeepsShell ==
  ASSUME ShellInv, Sound, UNCHANGED shellVars, EndLookUp
  PROVE  ShellInv'
<1>1. /\ stray = {} /\ wild = "no" /\ request.step \in {"look_up", "partitions", "compared", "names"}
      /\ request.buffer = NoBuffer /\ owner' = LookedUp
      /\ UNCHANGED <<path, given, refused, forgotten, unread, stray, wild>>
  BY DEF Sound, EndLookUp, histories
<1>2. /\ request \in Requests /\ request.written = 0 /\ FilesAreMisplaced
      /\ forgotten \in 0 .. MaxForgotten + 1
  BY <1>1 DEF ShellInv, ShellTypes, BufferHeld
<1>3. InOrder(owner', {"string", "device", "channel"}) /\ Alike(owner, owner', InHand)
  BY <1>1, LookedUpIsInOrder
<1>4. CASE Goto("release")
  <2>1. /\ request' \in Requests /\ request'.step = "release" /\ request'.service = request.service
        /\ request'.buffer = request.buffer /\ request'.written = 0
    BY <1>2, <1>4 DEF Goto, Requests, Steps
  <2>2. FilesAreMisplaced'
    BY <1>1, <2>1, NothingInBuffer DEF FilesAreMisplaced
  <2>3. unread' = unread \cup PagesOf(request.buffer) /\ stray' \subseteq Owners
    BY <1>1, NothingInBuffer
  <2> QED
    BY <1>1, <1>3, <2>1, <2>2, <2>3, ReleasingKeepsShell
<1>5. CASE request' = [request EXCEPT !.step = "allocate", !.found = request.step]
  <2>1. /\ request' \in Requests /\ request'.step = "allocate" /\ request'.service = request.service
        /\ request'.buffer = NoBuffer /\ request'.written = 0
    BY <1>1, <1>2, <1>5 DEF Requests, Steps
  <2>2. UNCHANGED <<path, given, refused, forgotten, unread, stray, wild, command, lines, turn, text>>
    BY <1>1 DEF shellVars
  <2>3. turn \in {"called", "listing"} /\ command # Prompt
    BY <1>1, WhileServed
  <2>4. ShellTypes'
    BY <2>1, <2>2, NothingInBuffer, FramesAssumption DEF ShellInv, ShellTypes
  <2>5. ShellControl'
    BY <1>1, <2>1, <2>2, <2>3 DEF ShellInv, ShellControl
  <2>6. ObjectsHeld'
    BY <1>3, <2>1, HeldAtSteps DEF ObjectsHeld
  <2>7. FramesHeld'
    <3>1. /\ Cardinality(UsedFor("lost")') = forgotten'
          /\ Alike(owner, owner', InHand \cup {"lost"})
      BY <1>1, <1>3, LostStays
    <3>2. InBuffer' = InBuffer
      BY <1>1, <2>1, NothingInBuffer DEF InBuffer, PagesOf, FramesOf
    <3> QED
      BY <2>2, <3>1, <3>2, FramesStay
  <2>8. BufferHeld'
    <3>1. IsSpread(request.buffer)' /\ FramesOf(request.buffer)' \subseteq Frames /\ Len(request'.buffer) = 0
      BY <2>1, NothingInBuffer DEF IsSpread, FramesOf
    <3>2. FilesAreMisplaced'
      BY <2>1, <3>1 DEF FilesAreMisplaced
    <3> QED
      BY <1>1, <2>1, <3>1, <3>2 DEF BufferHeld, Unbuffered
  <2>9. OthersKeepToTheTable'
    BY <1>1 DEF OthersKeepToTheTable
  <2> QED
    BY <2>4, <2>5, <2>6, <2>7, <2>8, <2>9 DEF ShellInv
<1> QED
  BY <1>4, <1>5 DEF EndLookUp

LEMMA ReadFileKeepsShell ==
  ASSUME ShellInv, Sound, UNCHANGED shellVars, ReadFile
  PROVE  ShellInv'
<1>1. /\ stray = {} /\ wild = "no" /\ request.step = "names" /\ request.buffer # NoBuffer
      /\ owner' = LookedUp /\ UNCHANGED <<path, refused, forgotten, wild>>
  BY DEF Sound, ReadFile
<1>2. PICK count \in 0 .. Len(request.buffer) + 1 :
        /\ request' = [request EXCEPT !.step = "release", !.written = count]
        /\ stray' = {owner[f] : f \in Missed(request.buffer, count)}
  BY DEF ReadFile
<1>3. /\ request \in Requests /\ Len(request.buffer) \in Nat /\ Len(request.buffer) <= MaxPages
      /\ IsSpread(request.buffer) /\ FramesOf(request.buffer) \subseteq Frames /\ FilesAreMisplaced
      /\ owner \in [Frames -> Owners]
  BY DEF ShellInv, ShellTypes, BufferHeld, IsSpread, ObjectsHeld, InOrder
<1>4. Len(request.buffer) >= 1
  <2> SUFFICES ASSUME Len(request.buffer) = 0 PROVE FALSE
    BY <1>3
  <2>1. request.buffer = <<>>
    BY <1>3 DEF IsSpread
  <2> QED
    BY <1>1, <2>1 DEF NoBuffer
<1>5. /\ request' \in Requests /\ request'.step = "release" /\ request'.service = request.service
      /\ request'.buffer = request.buffer /\ request'.written = count
  <2>1. count \in 0 .. MaxPages + 1
    BY <1>3, FramesAssumption
  <2> QED
    BY <1>2, <1>3, <2>1 DEF Requests, Steps
<1>6. stray' # {} <=> Missed(request.buffer, count) # {}
  BY <1>2
<1>7. stray' \subseteq Owners
  BY <1>2, <1>3 DEF Missed
<1>8. FilesAreMisplaced'
  <2>1. Missed(request.buffer, count) # {} <=>
          \E n \in 2 .. Len(request.buffer) :
            request.buffer[n] # request.buffer[1] + 2 * (n - 1) /\ 2 * (n - 1) < count
    BY <1>3, <1>4, MissedAreKnown
  <2>2. \A n \in 2 .. Len(request.buffer) : request.buffer[n] # request.buffer[1] + n - 1
    BY <1>3 DEF FilesAreMisplaced
  <2> QED
    BY <1>5, <1>6, <2>1, <2>2 DEF FilesAreMisplaced
<1>9. InOrder(owner', {"string", "device", "channel"}) /\ Alike(owner, owner', InHand)
  BY <1>1, LookedUpIsInOrder
<1>10. \/ unread' = unread \cup PagesOf(request.buffer) /\ given' = given
       \/ unread' = unread /\ given' = request.buffer /\ request.buffer # NoBuffer
  BY <1>1 DEF ReadFile
<1> QED
  BY <1>1, <1>5, <1>7, <1>8, <1>9, <1>10, ReleasingKeepsShell

-----------------------------------------------------------------------------
(* Buffers taken and given back.                                           *)
LEMMA TakesPages ==
  ASSUME NEW o \in [Frames -> Owners], NEW use \in Owners, use # "free",
         NEW F \in SUBSET Uses(o, "free")
  PROVE  /\ Give(o, F, use) \in [Frames -> Owners] /\ Alike(o, Give(o, F, use), {use})
         /\ Uses(Give(o, F, use), use) = Uses(o, use) \cup F
<1>1. Give(o, F, use) \in [Frames -> Owners]
  BY GiveGives
<1>2. Uses(Give(o, F, use), use) = Uses(o, use) \cup (F \cap Frames)
  BY GiveGives
<1>3. \A u \in Owners : u # use => Uses(Give(o, F, use), u) = Uses(o, u) \ F
  BY GiveGives
<1>4. F \cap Frames = F /\ \A u \in Owners : u # "free" => Uses(o, u) \ F = Uses(o, u)
  BY DEF Uses
<1> QED
  BY <1>1, <1>2, <1>3, <1>4 DEF Alike

LEMMA FreesPages ==
  ASSUME NEW o \in [Frames -> Owners], NEW use \in Owners, use # "free", NEW F \in SUBSET Uses(o, use)
  PROVE  /\ Give(o, F, "free") \in [Frames -> Owners] /\ Alike(o, Give(o, F, "free"), {use})
         /\ Uses(Give(o, F, "free"), use) = Uses(o, use) \ F
<1>1. Give(o, F, "free") \in [Frames -> Owners]
  BY GiveGives, OwnersAreKnown
<1>2. \A u \in Owners : u # "free" => Uses(Give(o, F, "free"), u) = Uses(o, u) \ F
  BY GiveGives, OwnersAreKnown
<1>3. \A u \in Owners : u # use => Uses(o, u) \ F = Uses(o, u)
  BY DEF Uses
<1> QED
  BY <1>1, <1>2, <1>3 DEF Alike

LEMMA NewBufferIsFree ==
  ASSUME NEW pages \in Nat, Allocated(pages) # WrongIndex
  PROVE  /\ IsSpread(Allocated(pages)) /\ Allocated(pages) \in Seq(Frames)
         /\ Len(Allocated(pages)) = pages /\ FramesOf(Allocated(pages)) \subseteq Frames
         /\ PagesOf(Allocated(pages)) \subseteq Uses(owner, "free")
<1>1. IsNew(Allocated(pages), pages)
  BY AllocatedIsNew
<1> QED
  BY <1>1, FreeIsFrames DEF IsNew, IsSpread, PagesOf, Free, UsedFor

LEMMA OrderStays ==
  ASSUME NEW o, NEW p \in [Frames -> Owners], NEW held, NEW touched, InOrder(o, held),
         Alike(o, p, touched), touched \cap InHand = {}
  PROVE  InOrder(p, held)
<1>1. \A x \in InHand : Uses(p, x) = Uses(o, x)
  BY OwnersAreKnown DEF Alike
<1> QED
  BY <1>1 DEF InOrder

LEMMA ChangePathKeepsShell ==
  ASSUME ShellInv, Sound, UNCHANGED shellVars, ChangePath
  PROVE  ShellInv'
<1> DEFINE buffer == Allocated(1)
           left == Delete(owner, "path")
           three == {"string", "device", "channel"}
<1>1. /\ stray = {} /\ wild = "no" /\ request.step = "allocate" /\ request.service = "SetPath"
      /\ InOrder(owner, three) /\ request.step \in Unbuffered
  BY HeldAtSteps DEF Sound, ShellInv, ObjectsHeld, ChangePath, Unbuffered
<1>2. CASE buffer = WrongIndex
  BY <1>2, StopKeepsShell DEF ChangePath
<1>3. CASE buffer # WrongIndex
  <2>1. /\ path' = buffer /\ owner' = Give(left, PagesOf(path'), "path") /\ Goto("release")
        /\ UNCHANGED <<given, refused, forgotten, unread, stray, wild>>
    BY <1>3 DEF ChangePath, histories
  <2>2. /\ buffer \in Seq(Frames) /\ Len(buffer) = 1 /\ PagesOf(buffer) \subseteq Uses(owner, "free")
    BY <1>3, NewBufferIsFree
  <2> HIDE DEF buffer
  <2>3. owner \in [Frames -> Owners] /\ "path" \in Owners /\ "path" # "free" /\ "path" \notin InHand
    BY <1>1, OwnersAreKnown DEF InOrder
  <2>4. left \in [Frames -> Owners] /\ Alike(owner, left, {"path"}) /\ Uses(left, "path") = {}
    BY <2>3, DeleteFrees
  <2>5. PagesOf(buffer) \in SUBSET Uses(left, "free")
    <3>1. \A f \in Frames : owner[f] = "free" => left[f] = "free"
      BY DEF Delete, Rename, Give
    <3> QED
      BY <2>2, <3>1 DEF Uses
  <2> HIDE DEF left
  <2>6. /\ owner' \in [Frames -> Owners] /\ Alike(left, owner', {"path"})
        /\ Uses(owner', "path") = Uses(left, "path") \cup PagesOf(buffer)
    <3> DEFINE F == PagesOf(buffer)
    <3>1. owner' = Give(left, F, "path") /\ F \in SUBSET Uses(left, "free")
      BY <2>1, <2>5
    <3> HIDE DEF F
    <3>2. owner' \in [Frames -> Owners] /\ Alike(left, owner', {"path"})
      BY <2>3, <2>4, <3>1, TakesPages
    <3>3. Uses(owner', "path") = Uses(left, "path") \cup F
      <4>1. Uses(Give(left, F, "path"), "path") = Uses(left, "path") \cup (F \cap Frames)
        BY <2>3, <2>4, GiveGives
      <4>2. F \cap Frames = F
        BY <3>1 DEF Uses
      <4> QED
        BY <3>1, <4>1, <4>2
    <3> QED
      BY <3>2, <3>3 DEF F
  <2>7. Alike(owner, owner', {"path"}) /\ Uses(owner', "path") = PagesOf(buffer)
    BY <2>4, <2>6 DEF Alike
  <2>8. InOrder(owner', three)
    BY <1>1, <2>3, <2>6, <2>7, OrderStays
  <2>9. request \in Requests /\ request.buffer = NoBuffer
    BY <1>1, NoBufferYet DEF ShellInv, ShellTypes
  <2>10. /\ request' \in Requests /\ request'.step = "release" /\ request'.service = "SetPath"
         /\ request'.buffer = NoBuffer
    BY <1>1, <2>1, <2>9 DEF Goto, Requests, Steps
  <2>11. UNCHANGED <<given, refused, forgotten, unread, stray, wild, command, lines, turn, text>>
    BY <2>1 DEF shellVars
  <2>12. turn \in {"called", "listing"} /\ command # Prompt
    BY <1>1, WhileServed
  <2>13. ShellTypes'
    BY <2>1, <2>2, <2>10, <2>11, NothingInBuffer, FramesAssumption DEF ShellInv, ShellTypes
  <2>14. ShellControl'
    BY <1>1, <2>10, <2>11, <2>12 DEF ShellInv, ShellControl
  <2>15. ObjectsHeld'
    BY <2>8, <2>10, HeldAtSteps DEF ObjectsHeld
  <2>16. FramesHeld'
    <3>1. \A u \in {"text", "elsewhere", "lost", "kept", "file"} : UsedFor(u)' = UsedFor(u)
      <4>1. \A u \in {"text", "elsewhere", "lost", "kept", "file"} : u \in Owners \ {"path"} /\ u # "free"
        BY OwnersAreKnown
      <4> QED
        BY <2>7, <4>1, UsesOfOwner
    <3>2. UsedFor("path")' = PagesOf(path)'
      BY <2>1, <2>7 DEF UsedFor, Uses, PagesOf, FramesOf
    <3>3. PagesOf(text)' = PagesOf(text) /\ PagesOf(given)' = PagesOf(given)
      BY <2>11 DEF PagesOf, FramesOf
    <3>4. InBuffer' = {} /\ InBuffer = {}
      BY <1>1, <2>10, NoBufferYet DEF InBuffer
    <3> QED
      BY <2>11, <3>1, <3>2, <3>3, <3>4 DEF ShellInv, FramesHeld
  <2>17. BufferHeld'
    <3>1. IsSpread(request.buffer)' /\ FramesOf(request.buffer)' \subseteq Frames /\ Len(request'.buffer) = 0
      BY <2>10, NothingInBuffer DEF IsSpread, FramesOf
    <3>2. FilesAreMisplaced'
      BY <1>1, <2>10, <2>11, <3>1 DEF FilesAreMisplaced
    <3> QED
      BY <2>10, <3>1, <3>2 DEF BufferHeld, Unbuffered
  <2>18. OthersKeepToTheTable'
    BY <1>1, <2>11 DEF OthersKeepToTheTable
  <2> QED
    BY <2>13, <2>14, <2>15, <2>16, <2>17, <2>18 DEF ShellInv
<1> QED
  BY <1>2, <1>3

LEMMA AllocateFileKeepsShell ==
  ASSUME ShellInv, Sound, UNCHANGED shellVars, AllocateFile
  PROVE  ShellInv'
<1> DEFINE three == {"string", "device", "channel"}
<1>1. /\ stray = {} /\ wild = "no" /\ request.step = "allocate" /\ request.service = "ReadFile"
      /\ InOrder(owner, three) /\ request.step \in Unbuffered
  BY HeldAtSteps DEF Sound, ShellInv, ObjectsHeld, AllocateFile, Unbuffered
<1>2. PICK pages \in 1 .. MaxPages :
       IF Allocated(pages) = WrongIndex THEN Stop("memory")
       ELSE /\ owner' = Give(owner, PagesOf(Allocated(pages)), "file")
            /\ request' = [request EXCEPT !.step = "look_up", !.buffer = Allocated(pages)]
            /\ UNCHANGED <<path, answer, given, histories, wild>>
  BY DEF AllocateFile
<1> DEFINE buffer == Allocated(pages)
<1>3. CASE buffer = WrongIndex
  BY <1>2, <1>3, StopKeepsShell
<1>4. CASE buffer # WrongIndex
  <2>1. /\ owner' = Give(owner, PagesOf(buffer), "file")
        /\ request' = [request EXCEPT !.step = "look_up", !.buffer = buffer]
        /\ UNCHANGED <<path, given, refused, forgotten, unread, stray, wild>>
    BY <1>2, <1>4 DEF histories
  <2>2. /\ IsSpread(buffer) /\ buffer \in Seq(Frames) /\ Len(buffer) = pages
        /\ FramesOf(buffer) \subseteq Frames /\ PagesOf(buffer) \in SUBSET Uses(owner, "free")
        /\ pages \in Nat /\ pages <= MaxPages
    <3>1. pages \in Nat /\ pages <= MaxPages
      BY FramesAssumption
    <3> QED
      BY <1>4, <3>1, NewBufferIsFree
  <2> HIDE DEF buffer
  <2>3. owner \in [Frames -> Owners] /\ "file" \in Owners /\ "file" # "free" /\ "file" \notin InHand
    BY <1>1, OwnersAreKnown DEF InOrder
  <2>4. /\ owner' \in [Frames -> Owners] /\ Alike(owner, owner', {"file"})
        /\ Uses(owner', "file") = Uses(owner, "file") \cup PagesOf(buffer)
    <3> DEFINE F == PagesOf(buffer)
    <3>1. owner' = Give(owner, F, "file") /\ F \in SUBSET Uses(owner, "free")
      BY <2>1, <2>2
    <3> HIDE DEF F
    <3>2. owner' \in [Frames -> Owners] /\ Alike(owner, owner', {"file"})
      BY <2>3, <3>1, TakesPages
    <3>3. Uses(owner', "file") = Uses(owner, "file") \cup F
      <4>1. Uses(Give(owner, F, "file"), "file") = Uses(owner, "file") \cup (F \cap Frames)
        BY <2>3, GiveGives
      <4>2. F \cap Frames = F
        BY <3>1 DEF Uses
      <4> QED
        BY <3>1, <4>1, <4>2
    <3> QED
      BY <3>2, <3>3 DEF F
  <2>5. InOrder(owner', three)
    BY <1>1, <2>3, <2>4, OrderStays
  <2>6. request \in Requests /\ request.written = 0
    BY <1>1 DEF ShellInv, ShellTypes, BufferHeld
  <2>7. /\ request' \in Requests /\ request'.step = "look_up" /\ request'.service = "ReadFile"
        /\ request'.buffer = buffer /\ request'.written = 0
    BY <1>1, <2>1, <2>2, <2>6 DEF Requests, Steps
  <2>8. UNCHANGED <<path, given, refused, forgotten, unread, stray, wild, command, lines, turn, text>>
    BY <2>1 DEF shellVars
  <2>9. turn \in {"called", "listing"} /\ command # Prompt
    BY <1>1, WhileServed
  <2>10. ShellTypes'
    BY <2>2, <2>7, <2>8 DEF ShellInv, ShellTypes
  <2>11. ShellControl'
    BY <1>1, <2>7, <2>8, <2>9 DEF ShellInv, ShellControl
  <2>12. ObjectsHeld'
    BY <2>5, <2>7, HeldAtSteps DEF ObjectsHeld
  <2>13. FramesHeld'
    <3>1. \A u \in {"path", "text", "elsewhere", "lost", "kept"} : UsedFor(u)' = UsedFor(u)
      <4>1. \A u \in {"path", "text", "elsewhere", "lost", "kept"} : u \in Owners \ {"file"} /\ u # "free"
        BY OwnersAreKnown
      <4> QED
        BY <2>4, <4>1, UsesOfOwner
    <3>2. UsedFor("file")' = UsedFor("file") \cup PagesOf(buffer)
      BY <2>4 DEF UsedFor, Uses
    <3>3. /\ PagesOf(path)' = PagesOf(path) /\ PagesOf(text)' = PagesOf(text)
          /\ PagesOf(given)' = PagesOf(given)
      BY <2>8 DEF PagesOf, FramesOf
    <3>4. InBuffer' = PagesOf(buffer) /\ InBuffer = {}
      BY <1>1, <2>7, NoBufferYet DEF InBuffer, PagesOf, FramesOf
    <3>5. unread \subseteq UsedFor("file") /\ UsedFor("file") \cap PagesOf(buffer) = {}
      BY <2>2 DEF ShellInv, FramesHeld, UsedFor, Uses
    <3> QED
      BY <2>8, <3>1, <3>2, <3>3, <3>4, <3>5 DEF ShellInv, FramesHeld
  <2>14. BufferHeld'
    <3>1. IsSpread(request.buffer)' /\ FramesOf(request.buffer)' \subseteq Frames /\ Len(request.buffer)' = pages
      BY <2>2, <2>7 DEF IsSpread, FramesOf
    <3>2. FilesAreMisplaced'
      <4>1. \A n \in 2 .. pages : buffer[n] # buffer[1] + n - 1
        <5> SUFFICES ASSUME NEW n \in 2 .. pages PROVE buffer[n] # buffer[1] + n - 1
          OBVIOUS
        <5>1. n \in 1 .. Len(buffer)
          BY <2>2
        <5>2. buffer[n] \in Nat /\ buffer[1] \in Nat /\ buffer[n] >= buffer[1] + 2 * (n - 1)
          BY <2>2, <5>1, SpreadIsWide
        <5> QED
          BY <5>2
      <4> QED
        BY <2>7, <3>1, <4>1 DEF FilesAreMisplaced
    <3> QED
      BY <1>1, <2>7, <2>8, <3>1, <3>2 DEF BufferHeld, Unbuffered
  <2>15. OthersKeepToTheTable'
    BY <1>1, <2>8 DEF OthersKeepToTheTable
  <2> QED
    BY <2>10, <2>11, <2>12, <2>13, <2>14, <2>15 DEF ShellInv
<1> QED
  BY <1>3, <1>4

-----------------------------------------------------------------------------
(* The steps of the shell itself, between calls.                           *)
LEMMA RequestStays ==
  ASSUME ShellInv, Sound, UNCHANGED <<request, stray, wild>>
  PROVE  BufferHeld' /\ OthersKeepToTheTable' /\ InBuffer' = InBuffer
<1>1. BufferHeld /\ wild' = "no"
  BY DEF ShellInv, Sound
<1>2. BufferHeld'
  BY <1>1 DEF BufferHeld, IsSpread, FramesOf, FilesAreMisplaced
<1>3. InBuffer' = InBuffer
  BY DEF InBuffer, PagesOf, FramesOf
<1> QED
  BY <1>1, <1>2, <1>3 DEF OthersKeepToTheTable

LEMMA ObjectsStay ==
  ASSUME ShellInv, request' = request, owner' \in [Frames -> Owners],
         NEW touched, Alike(owner, owner', touched), touched \cap InHand = {}
  PROVE  ObjectsHeld'
<1>1. InOrder(owner', HeldAt(request.step))
  BY OrderStays DEF ShellInv, ObjectsHeld
<1>2. \A x \in InHand : Uses(owner', x) = Uses(owner, x)
  BY OwnersAreKnown DEF Alike
<1>3. "device" \in InHand /\ "parts" \in InHand
  BY DEF InHand
<1> QED
  BY <1>1, <1>2, <1>3 DEF ShellInv, ObjectsHeld, Has

(* Only the variables of the shell have changed, and not its text. *)
LEMMA TurningKeepsShell ==
  ASSUME ShellInv, Sound, UNCHANGED fileVars, text' = text, lines' \in 0 .. MaxCommands,
         command' \in Commands \cup {Prompt}, turn' \in {"typed", "free"}, ShellControl'
  PROVE  ShellInv'
<1>1. UNCHANGED <<owner, path, request, given, refused, forgotten, unread, stray, wild, text>>
  BY DEF fileVars
<1>2. ShellTypes'
  BY <1>1 DEF ShellInv, ShellTypes
<1>3. ObjectsHeld'
  BY <1>1 DEF ShellInv, ObjectsHeld
<1>4. BufferHeld' /\ OthersKeepToTheTable' /\ InBuffer' = InBuffer
  BY <1>1, RequestStays
<1>5. FramesHeld'
  BY <1>1, <1>4 DEF ShellInv, FramesHeld, UsedFor, PagesOf, FramesOf
<1> QED
  BY <1>2, <1>3, <1>4, <1>5 DEF ShellInv

LEMMA TypeKeepsShell ==
  ASSUME ShellInv, Sound, Type
  PROVE  ShellInv'
<1>1. /\ command = Prompt /\ lines' = lines + 1 /\ lines < MaxCommands /\ command' \in Commands
      /\ turn' = "typed" /\ UNCHANGED fileVars /\ text' = text
  BY DEF Type, Commands
<1>2. UNCHANGED <<request, given, forgotten>>
  BY <1>1 DEF fileVars
<1>3. lines' \in 0 .. MaxCommands
  BY <1>1, CommandsAssumption DEF ShellInv, ShellTypes
<1>4. ShellControl'
  <2>1. /\ turn = "typed" /\ request.step = "idle" /\ text = NoBuffer /\ given = NoBuffer
        /\ request = NoRequest /\ command' # Prompt
    BY <1>1 DEF ShellInv, ShellControl, Commands, Prompt
  <2> QED
    BY <1>1, <1>2, <2>1, NoRequestIsIdle DEF ShellControl
<1> QED
  BY <1>1, <1>3, <1>4, TurningKeepsShell

LEMMA EndListingKeepsShell ==
  ASSUME ShellInv, Sound, EndListing
  PROVE  ShellInv'
<1>1. /\ command = "ls" /\ turn = "listing" /\ request.step = "idle" /\ turn' = "free"
      /\ UNCHANGED <<command, lines, text>> /\ UNCHANGED fileVars
  BY DEF EndListing, Served, Continue
<1>2. UNCHANGED <<request, given, forgotten>>
  BY <1>1 DEF fileVars
<1>3. ShellControl'
  BY <1>1, <1>2 DEF ShellInv, ShellControl, Prompt
<1>4. lines' \in 0 .. MaxCommands /\ command' \in Commands \cup {Prompt}
  BY <1>1 DEF ShellInv, ShellTypes
<1> QED
  BY <1>1, <1>3, <1>4, TurningKeepsShell

LEMMA GetCurrentPathKeepsShell ==
  ASSUME ShellInv, Sound, GetCurrentPath
  PROVE  ShellInv'
<1> DEFINE pages == IF command = "vmtest" THEN 3 ELSE 1
           buffer == Allocated(pages)
           F == PagesOf(buffer)
<1>1. CASE buffer = WrongIndex
  BY <1>1, StopKeepsShell DEF GetCurrentPath
<1>2. CASE buffer # WrongIndex
  <2>1. /\ command \in {"path", "ls", "vmtest"} /\ turn = "typed"
        /\ text' = buffer /\ owner' = Give(owner, F, "text")
        /\ turn' = (IF command = "ls" THEN "open" ELSE "free")
        /\ UNCHANGED <<path, request, given, refused, forgotten, unread, stray, wild, command, lines>>
    BY <1>2 DEF GetCurrentPath, Continue, histories
  <2>2. pages \in Nat /\ pages <= 3
    OBVIOUS
  <2>3. buffer \in Seq(Frames) /\ Len(buffer) <= 3 /\ F \subseteq Uses(owner, "free") /\ F \subseteq Frames
    <3>1. buffer \in Seq(Frames) /\ Len(buffer) = pages /\ F \subseteq Uses(owner, "free")
      BY <1>2, <2>2, NewBufferIsFree
    <3> HIDE DEF F, buffer, pages
    <3> QED
      BY <2>2, <3>1 DEF Uses
  <2> HIDE DEF buffer, pages
  <2>4. F = PagesOf(buffer)
    OBVIOUS
  <2> HIDE DEF F
  <2>5. owner \in [Frames -> Owners] /\ "text" \in Owners /\ "text" # "free"
    BY OwnersAreKnown DEF ShellInv, ObjectsHeld, InOrder
  <2>6. owner' \in [Frames -> Owners] /\ Alike(owner, owner', {"text"})
    BY <2>1, <2>3, <2>5, TakesPages
  <2>7. Uses(owner', "text") = Uses(owner, "text") \cup F
    <3>1. Uses(Give(owner, F, "text"), "text") = Uses(owner, "text") \cup (F \cap Frames)
      BY <2>5, GiveGives
    <3>2. F \cap Frames = F
      BY <2>3
    <3> QED
      BY <2>1, <3>1, <3>2
  <2>8. text = NoBuffer /\ request.step = "idle" /\ given = NoBuffer /\ request = NoRequest
    BY <2>1 DEF ShellInv, ShellControl
  <2>9. ShellTypes'
    BY <2>1, <2>3 DEF ShellInv, ShellTypes
  <2>10. ShellControl'
    BY <2>1, <2>8, NoRequestIsIdle DEF ShellControl, Prompt
  <2>11. ObjectsHeld'
    BY <2>1, <2>6, ObjectsStay, OwnersAreKnown
  <2>12. BufferHeld' /\ OthersKeepToTheTable' /\ InBuffer' = InBuffer
    BY <2>1, RequestStays
  <2>13. FramesHeld'
    <3>1. \A u \in {"path", "elsewhere", "lost", "kept", "file"} : UsedFor(u)' = UsedFor(u)
      <4>1. \A u \in {"path", "elsewhere", "lost", "kept", "file"} : u \in Owners \ {"text"} /\ u # "free"
        BY OwnersAreKnown
      <4> QED
        BY <2>6, <4>1, UsesOfOwner
    <3>2. UsedFor("text")' = F
      BY <2>7, <2>8, NothingInBuffer DEF ShellInv, FramesHeld, UsedFor, Uses
    <3>3. /\ PagesOf(path)' = PagesOf(path) /\ PagesOf(given)' = PagesOf(given)
          /\ PagesOf(text)' = F
      BY <2>1, <2>4 DEF PagesOf, FramesOf
    <3> QED
      BY <2>1, <2>12, <3>1, <3>2, <3>3 DEF ShellInv, FramesHeld
  <2> QED
    BY <2>9, <2>10, <2>11, <2>12, <2>13 DEF ShellInv
<1> QED
  BY <1>1, <1>2

LEMMA FreeTextKeepsShell ==
  ASSUME ShellInv, Sound, FreeText
  PROVE  ShellInv'
<1> DEFINE F == PagesOf(text)
<1>1. /\ turn = "free" /\ owner' = Give(owner, F, "free") /\ text' = NoBuffer
      /\ command' = Prompt /\ turn' = "typed" /\ lines' = lines
      /\ UNCHANGED <<path, request, given, refused, forgotten, unread, stray, wild>>
  BY DEF FreeText, Finish, histories
<1>2. F = UsedFor("text")
  BY DEF ShellInv, FramesHeld
<1> HIDE DEF F
<1>3. F \subseteq Uses(owner, "text") /\ "text" \in Owners /\ "text" # "free" /\ owner \in [Frames -> Owners]
  BY <1>2, OwnersAreKnown DEF UsedFor, ShellInv, ObjectsHeld, InOrder
<1>4. owner' \in [Frames -> Owners] /\ Alike(owner, owner', {"text"})
  BY <1>1, <1>3, FreesPages
<1>5. Uses(owner', "text") = {}
  <2>1. Uses(Give(owner, F, "free"), "text") = Uses(owner, "text") \ F
    BY <1>3, GiveGives, OwnersAreKnown
  <2> QED
    BY <1>1, <1>2, <2>1 DEF UsedFor
<1>6. request.step = "idle" /\ given = NoBuffer /\ request = NoRequest
  BY <1>1 DEF ShellInv, ShellControl
<1>7. ShellTypes'
  BY <1>1, NothingInBuffer DEF ShellInv, ShellTypes
<1>8. ShellControl'
  BY <1>1, <1>6, NoRequestIsIdle DEF ShellControl
<1>9. ObjectsHeld'
  BY <1>1, <1>4, ObjectsStay, OwnersAreKnown
<1>10. BufferHeld' /\ OthersKeepToTheTable' /\ InBuffer' = InBuffer
  BY <1>1, RequestStays
<1>11. FramesHeld'
  <2>1. \A u \in {"path", "elsewhere", "lost", "kept", "file"} : UsedFor(u)' = UsedFor(u)
    <3>1. \A u \in {"path", "elsewhere", "lost", "kept", "file"} : u \in Owners \ {"text"} /\ u # "free"
      BY OwnersAreKnown
    <3> QED
      BY <1>4, <3>1, UsesOfOwner
  <2>2. UsedFor("text")' = {} /\ PagesOf(text)' = {}
    BY <1>1, <1>5, NothingInBuffer DEF UsedFor, Uses, PagesOf, FramesOf
  <2>3. PagesOf(path)' = PagesOf(path) /\ PagesOf(given)' = PagesOf(given)
    BY <1>1 DEF PagesOf, FramesOf
  <2> QED
    BY <1>1, <1>10, <2>1, <2>2, <2>3 DEF ShellInv, FramesHeld
<1> QED
  BY <1>7, <1>8, <1>9, <1>10, <1>11 DEF ShellInv

LEMMA EndCommandKeepsShell ==
  ASSUME ShellInv, Sound, EndCommand
  PROVE  ShellInv'
<1> DEFINE F == PagesOf(given)
<1>1. /\ command \in {"cd", "info", "txtread"} /\ turn = "called" /\ request.step = "idle"
      /\ owner' = Give(owner, F, "free") /\ given' = NoBuffer
      /\ command' = Prompt /\ turn' = "typed" /\ lines' = lines
      /\ UNCHANGED <<path, request, refused, forgotten, unread, stray, wild, text>>
  BY DEF EndCommand, Served, Returned, Finish, histories
<1>2. /\ UsedFor("file") = unread \cup F \cup InBuffer /\ unread \cap F = {} /\ InBuffer = {}
      /\ text = NoBuffer /\ request = NoRequest
  BY <1>1, NoBufferYet DEF ShellInv, FramesHeld, ShellControl, Unbuffered
<1> HIDE DEF F
<1>3. F \subseteq Uses(owner, "file") /\ "file" \in Owners /\ "file" # "free" /\ owner \in [Frames -> Owners]
  BY <1>2, OwnersAreKnown DEF UsedFor, ShellInv, ObjectsHeld, InOrder
<1>4. owner' \in [Frames -> Owners] /\ Alike(owner, owner', {"file"})
  BY <1>1, <1>3, FreesPages
<1>5. Uses(owner', "file") = unread
  <2>1. Uses(Give(owner, F, "free"), "file") = Uses(owner, "file") \ F
    BY <1>3, GiveGives, OwnersAreKnown
  <2> QED
    BY <1>1, <1>2, <2>1 DEF UsedFor
<1>6. ShellTypes'
  BY <1>1 DEF ShellInv, ShellTypes
<1>7. ShellControl'
  BY <1>1, <1>2, NoRequestIsIdle DEF ShellControl
<1>8. ObjectsHeld'
  BY <1>1, <1>4, ObjectsStay, OwnersAreKnown
<1>9. BufferHeld' /\ OthersKeepToTheTable' /\ InBuffer' = {}
  BY <1>1, <1>2, RequestStays
<1>10. FramesHeld'
  <2>1. \A u \in {"path", "elsewhere", "lost", "kept", "text"} : UsedFor(u)' = UsedFor(u)
    <3>1. \A u \in {"path", "elsewhere", "lost", "kept", "text"} : u \in Owners \ {"file"} /\ u # "free"
      BY OwnersAreKnown
    <3> QED
      BY <1>4, <3>1, UsesOfOwner
  <2>2. UsedFor("file")' = unread /\ PagesOf(given)' = {}
    BY <1>1, <1>5, NothingInBuffer DEF UsedFor, Uses, PagesOf, FramesOf
  <2>3. PagesOf(path)' = PagesOf(path) /\ PagesOf(text)' = PagesOf(text)
    BY <1>1 DEF PagesOf, FramesOf
  <2> QED
    BY <1>1, <1>9, <2>1, <2>2, <2>3 DEF ShellInv, FramesHeld
<1> QED
  BY <1>6, <1>7, <1>8, <1>9, <1>10 DEF ShellInv

LEMMA BeginKeepsShell ==
  ASSUME ShellInv, Sound, NEW service \in Services, Begin(service), text' = text,
         NEW part \in {"called", "listing"}, Continue(part), turn \in {"typed", "open", "listing"},
         part = "called" => turn = "typed" /\ command \in {"cd", "info", "txtread"},
         part = "listing" => command = "ls", service = "ReadFile" => command = "txtread"
  PROVE  ShellInv'
<1>1. /\ stray = {} /\ wild = "no" /\ request.step = "idle" /\ InOrder(owner, {})
      /\ turn' = part /\ UNCHANGED <<command, lines>>
  BY HeldAtSteps DEF Sound, ShellInv, ObjectsHeld, Begin, Continue
<1>2. given = NoBuffer /\ request = NoRequest /\ (part = "called" => text = NoBuffer) /\ command # Prompt
  BY <1>1 DEF ShellInv, ShellControl, Prompt
<1>3. PICK whole \in {Absolute, Relative} :
       IF TakesPath(service) /\ (~Has(whole, "string") \/ Short(whole, "Split"))
       THEN Stop("memory")
       ELSE /\ owner' = IF TakesPath(service) THEN SplitInto(whole, "parts") ELSE owner
            /\ request' = [NoRequest EXCEPT !.service = service, !.step = "parts"]
            /\ UNCHANGED <<path, answer, given, histories, wild>>
  BY DEF Begin
<1>4. CASE Stop("memory")
  <2>1. /\ wild' = "memory"
        /\ UNCHANGED <<owner, path, request, given, refused, forgotten, unread, stray>>
    BY <1>4 DEF Stop, histories
  <2>2. ShellTypes'
    BY <1>1, <2>1 DEF ShellInv, ShellTypes
  <2>3. ShellControl'
    BY <1>1, <1>2, <2>1, NoRequestIsIdle DEF ShellControl
  <2>4. ObjectsHeld'
    BY <2>1 DEF ShellInv, ObjectsHeld
  <2>5. FramesHeld'
    BY <2>1 DEF ShellInv, FramesHeld, UsedFor, InBuffer, PagesOf, FramesOf
  <2>6. BufferHeld'
    BY <2>1 DEF ShellInv, BufferHeld, IsSpread, FramesOf, FilesAreMisplaced
  <2> QED
    BY <2>1, <2>2, <2>3, <2>4, <2>5, <2>6 DEF ShellInv, OthersKeepToTheTable
<1>5. CASE ~Stop("memory")
  <2>1. /\ owner' = IF TakesPath(service) THEN SplitInto(whole, "parts") ELSE owner
        /\ request' = [NoRequest EXCEPT !.service = service, !.step = "parts"]
        /\ UNCHANGED <<path, given, refused, forgotten, unread, stray, wild>>
    BY <1>3, <1>5 DEF histories
  <2>2. InOrder(owner', {"string", "parts"}) /\ Alike(owner, owner', InHand)
    <3>1. CASE TakesPath(service)
      <4>1. /\ InOrder(owner', {"string", "parts"})
            /\ Alike(owner, owner', Scratch \cup {"parts"})
        BY <1>1, <2>1, <3>1, NewPathIsInOrder
      <4>2. Scratch \cup {"parts"} \subseteq InHand
        BY DEF Scratch, InHand
      <4> QED
        BY <4>1, <4>2, AlikeBeyond
    <3>2. CASE ~TakesPath(service)
      <4>1. InOrder(owner, {"string", "parts"})
        BY <1>1, MoreMayBeHeld
      <4> QED
        BY <2>1, <3>2, <4>1 DEF Alike
    <3> QED
      BY <3>1, <3>2
  <2>3. /\ request' \in Requests /\ request'.step = "parts" /\ request'.service = service
        /\ request'.buffer = NoBuffer /\ request'.written = 0
    BY <2>1, NoRequestIsIdle DEF Requests, Steps
  <2>4. UNCHANGED <<path, given, refused, forgotten, unread, stray, wild, command, lines, text>>
    BY <1>1, <2>1
  <2>5. ShellTypes'
    BY <1>1, <2>3, <2>4, NothingInBuffer, FramesAssumption DEF ShellInv, ShellTypes
  <2>6. ShellControl'
    BY <1>1, <1>2, <2>3, <2>4 DEF ShellControl
  <2>7. ObjectsHeld'
    BY <2>2, <2>3, HeldAtSteps DEF ObjectsHeld
  <2>8. FramesHeld'
    <3>1. /\ Cardinality(UsedFor("lost")') = forgotten'
          /\ Alike(owner, owner', InHand \cup {"lost"})
      BY <2>2, <2>4, LostStays
    <3>2. InBuffer' = InBuffer
      BY <1>2, <2>3, NoRequestIsIdle, NothingInBuffer DEF InBuffer, PagesOf, FramesOf
    <3> QED
      BY <2>4, <3>1, <3>2, FramesStay
  <2>9. BufferHeld'
    <3>1. IsSpread(request.buffer)' /\ FramesOf(request.buffer)' \subseteq Frames /\ Len(request'.buffer) = 0
      BY <2>3, NothingInBuffer DEF IsSpread, FramesOf
    <3>2. FilesAreMisplaced'
      BY <2>3, <3>1 DEF FilesAreMisplaced
    <3> QED
      BY <1>1, <2>3, <2>4, <3>1, <3>2 DEF BufferHeld, Unbuffered
  <2>10. OthersKeepToTheTable'
    BY <1>1, <2>4 DEF OthersKeepToTheTable
  <2> QED
    BY <2>5, <2>6, <2>7, <2>8, <2>9, <2>10 DEF ShellInv
<1> QED
  BY <1>4, <1>5

LEMMA CallsKeepShell ==
  ASSUME ShellInv, Sound,
         \/ SetCurrentPath \/ GetObjectInformation \/ ReadTextFile
         \/ CreateDirectoryIterator \/ GetNextObject
  PROVE  ShellInv'
<1>1. CASE SetCurrentPath
  BY <1>1, BeginKeepsShell DEF SetCurrentPath, Call, Services
<1>2. CASE GetObjectInformation
  BY <1>2, BeginKeepsShell DEF GetObjectInformation, Call, Services
<1>3. CASE ReadTextFile
  BY <1>3, BeginKeepsShell DEF ReadTextFile, Call, Services
<1>4. CASE CreateDirectoryIterator
  BY <1>4, BeginKeepsShell DEF CreateDirectoryIterator, Call, Services
<1>5. CASE GetNextObject
  BY <1>5, BeginKeepsShell DEF GetNextObject, Call, Services
<1> QED
  BY <1>1, <1>2, <1>3, <1>4, <1>5

-----------------------------------------------------------------------------
(* Every step of the shell keeps the invariant.                            *)
LEMMA ShellStep ==
  ASSUME ShellInv, Next
  PROVE  ShellInv'
<1>1. Sound
  BY DEF Next
<1>2. CASE Type
  BY <1>1, <1>2, TypeKeepsShell
<1>3. CASE Command
  BY <1>1, <1>3, GetCurrentPathKeepsShell, CallsKeepShell, EndListingKeepsShell,
     FreeTextKeepsShell, EndCommandKeepsShell, Zenon DEF Command
<1>4. CASE Serve /\ UNCHANGED shellVars
  BY <1>1, <1>4, PathStepsKeepShell, LetterStepsKeepShell, CopyChannelKeepsShell,
     StartLookUpKeepsShell, ComparingKeepsShell, FailLookUpKeepsShell, EndLookUpKeepsShell,
     ChangePathKeepsShell, AllocateFileKeepsShell, ReadFileKeepsShell, ReleaseKeepsShell,
     Zenon DEF Serve
<1> QED
  BY <1>2, <1>3, <1>4 DEF Next

LEMMA ServicesStepKeepsShell ==
  ShellInv /\ [ServicesNext]_servicesVars => ShellInv'
<1> SUFFICES ASSUME ShellInv, [ServicesNext]_servicesVars PROVE ShellInv'
  OBVIOUS
<1>1. CASE Work
  BY <1>1, ShellStep DEF Work
<1>2. CASE UNCHANGED vars
  <2>1. UNCHANGED <<owner, path, request, given, refused, forgotten, unread, stray, wild,
                    command, lines, turn, text>>
    BY <1>2 DEF vars, fileVars, shellVars
  <2>2. ShellTypes' /\ ShellControl' /\ ObjectsHeld'
    BY <2>1 DEF ShellInv, ShellTypes, ShellControl, ObjectsHeld
  <2>3. FramesHeld'
    BY <2>1 DEF ShellInv, FramesHeld, UsedFor, InBuffer, PagesOf, FramesOf
  <2>4. BufferHeld' /\ OthersKeepToTheTable'
    BY <2>1 DEF ShellInv, BufferHeld, IsSpread, FramesOf, FilesAreMisplaced, OthersKeepToTheTable
  <2> QED
    BY <2>2, <2>3, <2>4 DEF ShellInv
<1> QED
  BY <1>1, <1>2 DEF ServicesNext, Resolve, KeepList, Handle, servicesVars

(* At the prompt memory holds the path of the thread, one frame for each   *)
(* block the path's resolution and the look-ups have forgotten, and what   *)
(* refusals and unreadable files have left behind, and nothing else; no    *)
(* object is lost sight of on the way (string.cxx:109-127, list.hxx:103,   *)
(* kernel.cxx:446-552): for every number of frames and size of file.       *)
THEOREM MemoryIsReturnedAlways == ServicesSpec => []MemoryIsReturned
<1>1. ServicesInit => ShellInv
  BY ShellInvInitially DEF ServicesInit
<1>2. ShellInv => MemoryIsReturned
  BY ShellInvImplies DEF MemoryIsReturned
<1> QED
  BY <1>1, <1>2, ServicesStepKeepsShell, PTL DEF ServicesSpec

(* No page of a file but the first is where the program looks for it, and  *)
(* other memory is written over exactly when a page the file reaches is    *)
(* not behind the slack of the one before (kernel.cxx:446, vmm.cxx:297,    *)
(* pmm.cxx:62); only the reading of a file uses a letter no device has.    *)
THEOREM StrayWritesAreKnownAlways == ServicesSpec => []StrayWritesAreKnown
<1>1. ServicesInit => ShellInv
  BY ShellInvInitially DEF ServicesInit
<1>2. ShellInv => StrayWritesAreKnown
  BY ShellInvImplies DEF StrayWritesAreKnown
<1> QED
  BY <1>1, <1>2, ServicesStepKeepsShell, PTL DEF ServicesSpec
=============================================================================
