------------------------ MODULE VirtualMemoryProofs ------------------------
(***************************************************************************)
(* Theorems about VirtualMemory, for any number of directories, tables,    *)
(* pages and frames and for any requests.  What is given to a directory    *)
(* and what is taken from it are followed once for all operations; the     *)
(* operations are then shown to be nothing else.                           *)
(***************************************************************************)
EXTENDS VirtualMemory, FiniteSetTheorems, TLAPS

LEMMA VmmConstants ==
  /\ Tables \in Nat \ {0} /\ Pages \in Nat \ {0} /\ FrameSize \in Nat \ {0}
  /\ IsFiniteSet(Frame) /\ NoFrame \notin Frame
  /\ NoTable \notin Frame /\ Stale \notin Frame
  /\ Reserved \subseteq PageIndex
BY VmmAssumption

-----------------------------------------------------------------------------
(* Demands are met with different frames when there are enough. *)
LEMMA InjectionExists ==
  ASSUME NEW S, NEW T, IsFiniteSet(S), IsFiniteSet(T), Cardinality(S) <= Cardinality(T)
  PROVE  \E f \in [S -> T] : IsInjective(f)
<1>1. Cardinality(S) \in Nat /\ ExistsBijection(1 .. Cardinality(S), S)
  BY FS_CardinalityType
<1>2. Cardinality(T) \in Nat /\ ExistsBijection(1 .. Cardinality(T), T)
  BY FS_CardinalityType
<1>3. PICK n \in Nat : n = Cardinality(S)
  BY <1>1
<1>4. PICK m \in Nat : m = Cardinality(T) /\ n <= m
  BY <1>2, <1>3
<1>5. PICK b \in Bijection(1 .. n, S) : TRUE
  BY <1>1, <1>3, Zenon DEF ExistsBijection
<1>6. PICK c \in Bijection(1 .. m, T) : TRUE
  BY <1>2, <1>4, Zenon DEF ExistsBijection
<1>7. /\ b \in [1 .. n -> S] /\ \A s \in S : \E k \in 1 .. n : b[k] = s
      /\ c \in [1 .. m -> T] /\ \A k, l \in 1 .. m : c[k] = c[l] => k = l
  BY <1>5, <1>6, Zenon DEF Bijection, Injection, Surjection, IsInjective
<1> DEFINE At(s) == CHOOSE k \in 1 .. n : b[k] = s
           f == [s \in S |-> c[At(s)]]
<1>8. \A s \in S : At(s) \in 1 .. n /\ b[At(s)] = s
  BY <1>7, Zenon
<1>9. \A s \in S : At(s) \in 1 .. m
  BY <1>4, <1>8
<1> HIDE DEF At
<1>10. f \in [S -> T]
  BY <1>7, <1>9
<1>11. ASSUME NEW s \in S, NEW t \in S, f[s] = f[t] PROVE s = t
  BY <1>7, <1>8, <1>9, <1>11
<1>12. IsInjective(f)
  BY <1>11 DEF IsInjective
<1>13. QED
  BY <1>10, <1>12

LEMMA SupplyMeets ==
  ASSUME NEW demands, IsFiniteSet(demands), Cardinality(demands) <= Cardinality(Free)
  PROVE  /\ Supply(demands) \in [demands -> Free]
         /\ \A x, y \in demands : Supply(demands)[x] = Supply(demands)[y] => x = y
<1>1. IsFiniteSet(Free)
  BY VmmConstants, FS_Difference DEF Free
<1>2. \E f \in [demands -> Free] : IsInjective(f)
  BY <1>1, InjectionExists
<1>3. Supply(demands) \in [demands -> Free] /\ IsInjective(Supply(demands))
  BY <1>2, Zenon DEF Supply
<1>4. QED
  BY <1>3, Zenon DEF IsInjective
-----------------------------------------------------------------------------
(* What every page that has a frame, and every page that is busy, has. *)
PagesAreWhole ==
  /\ \A d \in Directory, p \in PageIndex : backing[d][p] # NoFrame => p \in busy[d]
  /\ \A d \in Directory : \A p \in busy[d] : HasTable(d, TableOf(p))
  /\ \A d \in Directory : \A p \in busy[d] : p \in Reserved \/ backing[d][p] \in Frame

(* A directory that has not been created has nothing. *)
NothingBefore == \A d \in Directory : ~Created(d) =>
  /\ busy[d] = {} /\ closing[d] = {}
  /\ \A t \in TableIndex : ~HasTable(d, t)
  /\ \A b \in live : b[1] # d

(* The pages still to be loaded are a program's. *)
LoadingOK ==
  /\ loading = [directory |-> loading.directory, program |-> loading.program, next |-> loading.next]
  /\ loading.next \in Nat
  /\ loading.program.first \in Nat /\ loading.program.count \in Nat
  /\ Busy => /\ loading.directory \in Directory /\ Created(loading.directory)
             /\ loading.program \in Programs /\ loading.program.first <= loading.next

Core == TypeOK /\ PagesAreWhole /\ FramesNotShared /\ NoFrameLost

(* Owners by their kind. *)
LEMMA FrameOfOwner ==
  /\ \A d : FrameOf(<<"directory", d, 0>>) = root[d] /\ FrameOf(<<"directory", d, 0>>)' = root'[d]
  /\ \A d, t : FrameOf(<<"table", d, t>>) = table[d][t] /\ FrameOf(<<"table", d, t>>)' = table'[d][t]
  /\ \A d, p : FrameOf(<<"page", d, p>>) = backing[d][p] /\ FrameOf(<<"page", d, p>>)' = backing'[d][p]
BY DEF FrameOf

LEMMA OwnersByKind ==
  ASSUME NEW o \in Owners
  PROVE  \/ \E d \in Directory : o = <<"directory", d, 0>> /\ Created(d)
         \/ \E d \in Directory, t \in TableIndex : o = <<"table", d, t>>
         \/ \E d \in Directory, p \in PageIndex : o = <<"page", d, p>>
BY DEF Owners

LEMMA OwnersByKindLater ==
  ASSUME NEW o, o \in Owners'
  PROVE  \/ \E d \in Directory : o = <<"directory", d, 0>> /\ Created(d)'
         \/ \E d \in Directory, t \in TableIndex : o = <<"table", d, t>>
         \/ \E d \in Directory, p \in PageIndex : o = <<"page", d, p>>
BY DEF Owners

(* Who owns a frame. *)
LEMMA OwningByKind ==
  /\ \A d \in Directory : root[d] \in Frame => <<"directory", d, 0>> \in Owning
  /\ \A d \in Directory, t \in TableIndex : table[d][t] \in Frame => <<"table", d, t>> \in Owning
  /\ \A d \in Directory, p \in PageIndex : backing[d][p] \in Frame => <<"page", d, p>> \in Owning
<1>1. \A d \in Directory : root[d] \in Frame => <<"directory", d, 0>> \in Owners
  BY VmmConstants DEF Owners, Created
<1>2. \A d \in Directory, t \in TableIndex : <<"table", d, t>> \in Owners
  BY DEF Owners
<1>3. \A d \in Directory, p \in PageIndex : <<"page", d, p>> \in Owners
  BY DEF Owners
<1>4. QED
  BY <1>1, <1>2, <1>3, FrameOfOwner DEF Owning

LEMMA OwningByKindLater ==
  /\ \A d \in Directory : root'[d] \in Frame => <<"directory", d, 0>> \in Owning'
  /\ \A d \in Directory, t \in TableIndex : table'[d][t] \in Frame => <<"table", d, t>> \in Owning'
  /\ \A d \in Directory, p \in PageIndex : backing'[d][p] \in Frame => <<"page", d, p>> \in Owning'
<1>1. \A d \in Directory : root'[d] \in Frame => <<"directory", d, 0>> \in Owners'
  BY VmmConstants DEF Owners, Created
<1>2. \A d \in Directory, t \in TableIndex : <<"table", d, t>> \in Owners'
  BY DEF Owners
<1>3. \A d \in Directory, p \in PageIndex : <<"page", d, p>> \in Owners'
  BY DEF Owners
<1>4. QED
  BY <1>1, <1>2, <1>3, FrameOfOwner DEF Owning

(* Nothing is shared after a step that gives free frames, each to one, and *)
(* leaves the others who own some what they own.                           *)
LEMMA StillNotShared ==
  ASSUME FramesNotShared, NEW given,
         \A o \in Owning' : FrameOf(o)' \in used',
         \A o \in Owning' : o \in given \/ (o \in Owning /\ FrameOf(o)' = FrameOf(o)),
         \A o \in given : FrameOf(o)' \in Free,
         \A o, p \in given : FrameOf(o)' = FrameOf(p)' => o = p
  PROVE  FramesNotShared'
<1>1. \A o \in Owning : FrameOf(o) \in used
  BY DEF FramesNotShared
<1>2. \A o, p \in Owning : o # p => FrameOf(o) # FrameOf(p)
  BY DEF FramesNotShared
<1>3. ASSUME NEW o \in Owning', NEW p \in Owning', FrameOf(o)' = FrameOf(p)'
      PROVE  o = p
  <2>1. CASE o \in given /\ p \in given
    BY <1>3, <2>1
  <2>2. CASE o \notin given /\ p \notin given
    BY <1>2, <1>3, <2>2
  <2>3. CASE o \in given /\ p \notin given
    <3>1. FrameOf(o)' \in Free /\ FrameOf(p)' = FrameOf(p) /\ FrameOf(p) \in used
      BY <1>1, <2>3
    <3>2. QED
      BY <1>3, <3>1 DEF Free
  <2>4. CASE o \notin given /\ p \in given
    <3>1. FrameOf(p)' \in Free /\ FrameOf(o)' = FrameOf(o) /\ FrameOf(o) \in used
      BY <1>1, <2>4
    <3>2. QED
      BY <1>3, <3>1 DEF Free
  <2>5. QED
    BY <2>1, <2>2, <2>3, <2>4
<1>4. QED
  BY <1>3 DEF FramesNotShared
-----------------------------------------------------------------------------
(* What is given: tables to some table entries of a directory that had     *)
(* none, and frames to some of its pages.                                  *)
Wanted(tables, pages) == {<<"table", t>> : t \in tables} \cup {<<"page", p>> : p \in pages}

Gives(d, tables, pages, supply) ==
  /\ used'    = used \cup {supply[x] : x \in Wanted(tables, pages)}
  /\ table'   = [table EXCEPT ![d] = [t \in TableIndex |->
                   IF t \in tables THEN supply[<<"table", t>>] ELSE @[t]]]
  /\ busy'    = [busy EXCEPT ![d] = @ \cup pages]
  /\ backing' = [backing EXCEPT ![d] = [p \in PageIndex |->
                   IF p \in pages THEN supply[<<"page", p>>] ELSE @[p]]]
  /\ UNCHANGED root

(* The supply is of free frames, different ones for different demands. *)
Supplies(supply, demands) ==
  /\ supply \in [demands -> Free]
  /\ \A x, y \in demands : supply[x] = supply[y] => x = y

(* A gift: to entries without a table, and only to pages that then have    *)
(* one.                                                                    *)
Gift(d, tables, pages, supply) ==
  /\ d \in Directory /\ tables \subseteq TableIndex /\ pages \subseteq PageIndex
  /\ \A t \in tables : ~HasTable(d, t)
  /\ \A p \in pages : HasTable(d, TableOf(p)) \/ TableOf(p) \in tables
  /\ Supplies(supply, Wanted(tables, pages))
  /\ Gives(d, tables, pages, supply)

LEMMA TypesOfState ==
  ASSUME TypeOK
  PROVE  /\ used \subseteq Frame
         /\ root \in [Directory -> Frame \cup {NoFrame}]
         /\ table \in [Directory -> [TableIndex -> Frame \cup {NoTable, Stale}]]
         /\ busy \in [Directory -> SUBSET PageIndex]
         /\ closing \in [Directory -> SUBSET PageIndex]
         /\ backing \in [Directory -> [PageIndex -> Frame \cup {NoFrame}]]
BY DEF TypeOK

LEMMA TableOfPage == \A p \in PageIndex : TableOf(p) \in TableIndex
<1> SUFFICES ASSUME NEW p \in PageIndex
             PROVE  TableOf(p) \in TableIndex
  OBVIOUS
<1>1. p \in Nat /\ p < Tables * Pages /\ Tables * Pages \in Nat
  BY VmmConstants DEF PageIndex
<1>2. PICK q \in Int : q = p \div Pages
  BY <1>1, VmmConstants
<1>3. Pages * q <= p /\ p < Pages * q + Pages
  BY <1>1, <1>2, VmmConstants
<1>4. q >= 0
  <2>1. ASSUME q <= -1 PROVE FALSE
    <3>1. Pages * q <= Pages * (-1)
      BY <2>1, VmmConstants
    <3>2. QED
      BY <1>1, <1>3, <3>1, VmmConstants
  <2>2. QED
    BY <2>1
<1>5. q < Tables
  <2>1. ASSUME q >= Tables PROVE FALSE
    <3>1. Pages * q >= Pages * Tables /\ Pages * Tables = Tables * Pages
      BY <2>1, VmmConstants
    <3>2. QED
      BY <1>1, <1>3, <3>1, VmmConstants
  <2>2. QED
    BY <2>1, VmmConstants
<1>6. QED
  BY <1>2, <1>4, <1>5, VmmConstants DEF TableOf, TableIndex

(* What is where after a gift. *)
Given(d, tables, pages, supply) ==
  /\ \A t \in tables : supply[<<"table", t>>] \in Free /\ table'[d][t] = supply[<<"table", t>>]
  /\ \A p \in pages : supply[<<"page", p>>] \in Free /\ backing'[d][p] = supply[<<"page", p>>]
  /\ \A e \in Directory, t \in TableIndex : e # d \/ t \notin tables => table'[e][t] = table[e][t]
  /\ \A e \in Directory, p \in PageIndex : e # d \/ p \notin pages => backing'[e][p] = backing[e][p]
  /\ \A e \in Directory : busy'[e] = IF e = d THEN busy[d] \cup pages ELSE busy[e]

LEMMA GiftFacts ==
  ASSUME TypeOK, NEW d, NEW tables, NEW pages, NEW supply, Gift(d, tables, pages, supply)
  PROVE  /\ Given(d, tables, pages, supply)
         /\ used' \subseteq Frame /\ root' = root
         /\ table' \in [Directory -> [TableIndex -> Frame \cup {NoTable, Stale}]]
         /\ busy' \in [Directory -> SUBSET PageIndex]
         /\ backing' \in [Directory -> [PageIndex -> Frame \cup {NoFrame}]]
<1>1. /\ d \in Directory /\ tables \subseteq TableIndex /\ pages \subseteq PageIndex
      /\ supply \in [Wanted(tables, pages) -> Free]
      /\ Gives(d, tables, pages, supply)
  BY DEF Gift, Supplies
<1>2. /\ \A t \in tables : <<"table", t>> \in Wanted(tables, pages)
      /\ \A p \in pages : <<"page", p>> \in Wanted(tables, pages)
  BY DEF Wanted
<1>3. /\ \A t \in tables : supply[<<"table", t>>] \in Free
      /\ \A p \in pages : supply[<<"page", p>>] \in Free
  BY <1>1, <1>2
<1>4. Free \subseteq Frame
  BY DEF Free
<1>5. /\ table' \in [Directory -> [TableIndex -> Frame \cup {NoTable, Stale}]]
      /\ \A t \in tables : table'[d][t] = supply[<<"table", t>>]
      /\ \A e \in Directory, t \in TableIndex : e # d \/ t \notin tables => table'[e][t] = table[e][t]
  <2>1. table \in [Directory -> [TableIndex -> Frame \cup {NoTable, Stale}]]
    BY TypesOfState
  <2> DEFINE row == [t \in TableIndex |-> IF t \in tables THEN supply[<<"table", t>>] ELSE table[d][t]]
  <2>2. table' = [table EXCEPT ![d] = row]
    BY <1>1 DEF Gives
  <2>3. row \in [TableIndex -> Frame \cup {NoTable, Stale}]
    BY <1>1, <1>3, <1>4, <2>1
  <2>4. \A t \in TableIndex : row[t] = IF t \in tables THEN supply[<<"table", t>>] ELSE table[d][t]
    OBVIOUS
  <2> HIDE DEF row
  <2>5. table'[d] = row /\ \A e \in Directory : e # d => table'[e] = table[e]
    BY <1>1, <2>1, <2>2
  <2>6. QED
    BY <1>1, <2>1, <2>2, <2>3, <2>4, <2>5
<1>6. /\ backing' \in [Directory -> [PageIndex -> Frame \cup {NoFrame}]]
      /\ \A p \in pages : backing'[d][p] = supply[<<"page", p>>]
      /\ \A e \in Directory, p \in PageIndex : e # d \/ p \notin pages => backing'[e][p] = backing[e][p]
  <2>1. backing \in [Directory -> [PageIndex -> Frame \cup {NoFrame}]]
    BY TypesOfState
  <2> DEFINE row == [p \in PageIndex |-> IF p \in pages THEN supply[<<"page", p>>] ELSE backing[d][p]]
  <2>2. backing' = [backing EXCEPT ![d] = row]
    BY <1>1 DEF Gives
  <2>3. row \in [PageIndex -> Frame \cup {NoFrame}]
    BY <1>1, <1>3, <1>4, <2>1
  <2>4. \A p \in PageIndex : row[p] = IF p \in pages THEN supply[<<"page", p>>] ELSE backing[d][p]
    OBVIOUS
  <2> HIDE DEF row
  <2>5. backing'[d] = row /\ \A e \in Directory : e # d => backing'[e] = backing[e]
    BY <1>1, <2>1, <2>2
  <2>6. QED
    BY <1>1, <2>1, <2>2, <2>3, <2>4, <2>5
<1>7. /\ busy' \in [Directory -> SUBSET PageIndex]
      /\ \A e \in Directory : busy'[e] = IF e = d THEN busy[d] \cup pages ELSE busy[e]
  <2>1. busy \in [Directory -> SUBSET PageIndex] /\ busy' = [busy EXCEPT ![d] = busy[d] \cup pages]
    BY <1>1, TypesOfState DEF Gives
  <2>2. QED
    BY <1>1, <2>1
<1>8. used' \subseteq Frame /\ root' = root
  <2>1. \A x \in Wanted(tables, pages) : supply[x] \in Frame
    BY <1>1, <1>4
  <2>2. used \subseteq Frame /\ used' = used \cup {supply[x] : x \in Wanted(tables, pages)} /\ root' = root
    BY <1>1, TypesOfState DEF Gives
  <2>3. QED
    BY <2>1, <2>2
<1>9. Given(d, tables, pages, supply)
  BY <1>3, <1>5, <1>6, <1>7 DEF Given
<1>10. QED
  BY <1>5, <1>6, <1>7, <1>8, <1>9
(* A gift keeps everything but the types of what it does not mention. *)
LEMMA GiftKeeps ==
  ASSUME Core, NEW d, NEW tables, NEW pages, NEW supply, Gift(d, tables, pages, supply),
         faults \subseteq faults', pages \cap busy[d] # {} => "overlap" \in faults'
  PROVE  PagesAreWhole' /\ FramesNotShared' /\ NoFrameLost'
<1>1. TypeOK /\ PagesAreWhole /\ FramesNotShared /\ NoFrameLost
  BY DEF Core
<1>2. /\ d \in Directory /\ tables \subseteq TableIndex /\ pages \subseteq PageIndex
      /\ \A t \in tables : ~HasTable(d, t)
      /\ \A p \in pages : HasTable(d, TableOf(p)) \/ TableOf(p) \in tables
      /\ Supplies(supply, Wanted(tables, pages))
      /\ used' = used \cup {supply[x] : x \in Wanted(tables, pages)}
  BY DEF Gift, Gives
<1>3. /\ \A t \in tables : supply[<<"table", t>>] \in Free /\ table'[d][t] = supply[<<"table", t>>]
      /\ \A p \in pages : supply[<<"page", p>>] \in Free /\ backing'[d][p] = supply[<<"page", p>>]
      /\ \A e \in Directory, t \in TableIndex : e # d \/ t \notin tables => table'[e][t] = table[e][t]
      /\ \A e \in Directory, p \in PageIndex : e # d \/ p \notin pages => backing'[e][p] = backing[e][p]
      /\ \A e \in Directory : busy'[e] = IF e = d THEN busy[d] \cup pages ELSE busy[e]
      /\ root' = root
  <2>1. Given(d, tables, pages, supply) /\ root' = root
    BY <1>1, GiftFacts
  <2>2. QED
    BY <2>1 DEF Given
<1>4. Free \subseteq Frame
  BY DEF Free
<1>5. PagesAreWhole'
  <2>1. ASSUME NEW e \in Directory, NEW p \in PageIndex, backing'[e][p] # NoFrame
        PROVE  p \in busy'[e]
    BY <1>1, <1>2, <1>3, <2>1 DEF PagesAreWhole
  <2>2. ASSUME NEW e \in Directory, NEW p \in busy'[e] PROVE table'[e][TableOf(p)] \in Frame
    <3>1. p \in PageIndex /\ TableOf(p) \in TableIndex
      BY <1>1, <1>2, <1>3, TypesOfState, TableOfPage
    <3>2. CASE p \in busy[e]
      <4>1. table[e][TableOf(p)] \in Frame
        BY <1>1, <3>2 DEF PagesAreWhole, HasTable
      <4>2. e # d \/ TableOf(p) \notin tables
        BY <1>2, <4>1 DEF HasTable
      <4>3. QED
        BY <1>3, <3>1, <4>1, <4>2
    <3>3. CASE e = d /\ p \in pages
      <4>1. CASE TableOf(p) \in tables
        BY <1>3, <1>4, <3>3, <4>1
      <4>2. CASE TableOf(p) \notin tables
        BY <1>2, <1>3, <3>1, <3>3, <4>2 DEF HasTable
      <4>3. QED
        BY <4>1, <4>2
    <3>4. QED
      BY <1>3, <3>2, <3>3
  <2>3. ASSUME NEW e \in Directory, NEW p \in busy'[e], p \notin Reserved PROVE backing'[e][p] \in Frame
    <3>1. CASE e = d /\ p \in pages
      BY <1>3, <1>4, <3>1
    <3>2. CASE e # d \/ p \notin pages
      <4>1. p \in busy[e] /\ p \in PageIndex
        BY <1>1, <1>2, <1>3, <3>2, TypesOfState
      <4>2. backing[e][p] \in Frame
        BY <1>1, <2>3, <4>1 DEF PagesAreWhole
      <4>3. QED
        BY <1>3, <3>2, <4>1, <4>2
    <3>3. QED
      BY <3>1, <3>2
  <2>4. QED
    BY <2>1, <2>2, <2>3 DEF PagesAreWhole, HasTable
<1> DEFINE given == {<<"table", d, t>> : t \in tables} \cup {<<"page", d, p>> : p \in pages}
<1>6. ASSUME NEW o \in given
      PROVE  \E x \in Wanted(tables, pages) :
               FrameOf(o)' = supply[x] /\ x = <<o[1], o[3]>> /\ o[2] = d /\ o = <<o[1], o[2], o[3]>>
  <2>1. CASE \E t \in tables : o = <<"table", d, t>>
    <3>1. PICK t \in tables : o = <<"table", d, t>>
      BY <2>1
    <3>2. FrameOf(o)' = table'[d][t]
      BY <3>1, FrameOfOwner
    <3>3. <<"table", t>> \in Wanted(tables, pages) /\ FrameOf(o)' = supply[<<"table", t>>]
      BY <1>3, <3>2 DEF Wanted
    <3>4. QED
      BY <3>1, <3>3
  <2>2. CASE \E p \in pages : o = <<"page", d, p>>
    <3>1. PICK p \in pages : o = <<"page", d, p>>
      BY <2>2
    <3>2. FrameOf(o)' = backing'[d][p]
      BY <3>1, FrameOfOwner
    <3>3. <<"page", p>> \in Wanted(tables, pages) /\ FrameOf(o)' = supply[<<"page", p>>]
      BY <1>3, <3>2 DEF Wanted
    <3>4. QED
      BY <3>1, <3>3
  <2>3. QED
    BY <2>1, <2>2
<1>7. \A x \in Wanted(tables, pages) : supply[x] \in Free
  BY <1>2 DEF Supplies
<1>8. \A x, y \in Wanted(tables, pages) : supply[x] = supply[y] => x = y
  BY <1>2 DEF Supplies
<1>9. \A o \in given : FrameOf(o)' \in Free /\ FrameOf(o)' \in used'
  BY <1>2, <1>6, <1>7
<1>10. ASSUME NEW o \in given, NEW p \in given, FrameOf(o)' = FrameOf(p)'
       PROVE  o = p
  <2>1. PICK x \in Wanted(tables, pages) :
          FrameOf(o)' = supply[x] /\ x = <<o[1], o[3]>> /\ o[2] = d /\ o = <<o[1], o[2], o[3]>>
    BY <1>6
  <2>2. PICK y \in Wanted(tables, pages) :
          FrameOf(p)' = supply[y] /\ y = <<p[1], p[3]>> /\ p[2] = d /\ p = <<p[1], p[2], p[3]>>
    BY <1>6
  <2>3. x = y
    BY <1>8, <1>10, <2>1, <2>2
  <2>4. QED
    BY <2>1, <2>2, <2>3
<1>11. ASSUME NEW o \in Owning'
       PROVE  o \in given \/ (o \in Owning /\ FrameOf(o)' = FrameOf(o))
  <2>1. o \in Owners' /\ FrameOf(o)' \in Frame
    BY <1>11 DEF Owning
  <2>2. CASE \E e \in Directory : o = <<"directory", e, 0>> /\ Created(e)'
    <3>1. PICK e \in Directory : o = <<"directory", e, 0>>
      BY <2>2
    <3>2. FrameOf(o) = root[e] /\ FrameOf(o)' = root'[e]
      BY <3>1, FrameOfOwner
    <3>3. QED
      BY <1>3, <2>1, <3>1, <3>2, OwningByKind
  <2>3. CASE \E e \in Directory, t \in TableIndex : o = <<"table", e, t>>
    <3>1. PICK e \in Directory, t \in TableIndex : o = <<"table", e, t>>
      BY <2>3
    <3>2. FrameOf(o) = table[e][t] /\ FrameOf(o)' = table'[e][t]
      BY <3>1, FrameOfOwner
    <3>3. CASE e = d /\ t \in tables
      BY <3>1, <3>3
    <3>4. CASE ~(e = d /\ t \in tables)
      BY <1>3, <2>1, <3>1, <3>2, <3>4, OwningByKind
    <3>5. QED
      BY <3>3, <3>4
  <2>4. CASE \E e \in Directory, p \in PageIndex : o = <<"page", e, p>>
    <3>1. PICK e \in Directory, p \in PageIndex : o = <<"page", e, p>>
      BY <2>4
    <3>2. FrameOf(o) = backing[e][p] /\ FrameOf(o)' = backing'[e][p]
      BY <3>1, FrameOfOwner
    <3>3. CASE e = d /\ p \in pages
      BY <3>1, <3>3
    <3>4. CASE ~(e = d /\ p \in pages)
      BY <1>3, <2>1, <3>1, <3>2, <3>4, OwningByKind
    <3>5. QED
      BY <3>3, <3>4
  <2>5. QED
    BY <2>1, <2>2, <2>3, <2>4, OwnersByKindLater
<1>12. \A o \in Owning' : FrameOf(o)' \in used'
  BY <1>1, <1>2, <1>9, <1>11 DEF FramesNotShared
<1> HIDE DEF given
<1>13. FramesNotShared'
  BY <1>1, <1>9, <1>10, <1>11, <1>12, StillNotShared
<1>14. NoFrameLost'
  <2> SUFFICES ASSUME faults' \cap {"overlap", "uprooted"} = {}, NEW f \in used'
               PROVE  \E o \in Owning' : FrameOf(o)' = f
    BY DEF NoFrameLost
  <2>1. pages \cap busy[d] = {}
    OBVIOUS
  <2>2. faults \cap {"overlap", "uprooted"} = {}
    OBVIOUS
  <2>3. CASE f \in used
    <3>1. PICK o \in Owning : FrameOf(o) = f
      BY <1>1, <2>2, <2>3 DEF NoFrameLost
    <3>2. o \in Owners /\ FrameOf(o) \in Frame
      BY DEF Owning
    <3>3. CASE \E e \in Directory : o = <<"directory", e, 0>>
      <4>1. PICK e \in Directory : o = <<"directory", e, 0>>
        BY <3>3
      <4>2. root'[e] = f /\ root'[e] \in Frame
        BY <1>3, <3>1, <3>2, <4>1, FrameOfOwner
      <4>3. QED
        BY <4>1, <4>2, OwningByKindLater, FrameOfOwner
    <3>4. CASE \E e \in Directory, t \in TableIndex : o = <<"table", e, t>>
      <4>1. PICK e \in Directory, t \in TableIndex : o = <<"table", e, t>>
        BY <3>4
      <4>2. table[e][t] = f /\ table[e][t] \in Frame
        BY <3>1, <3>2, <4>1, FrameOfOwner
      <4>3. e # d \/ t \notin tables
        BY <1>2, <4>2 DEF HasTable
      <4>4. table'[e][t] = f /\ table'[e][t] \in Frame
        BY <1>3, <4>2, <4>3
      <4>5. QED
        BY <4>1, <4>4, OwningByKindLater, FrameOfOwner
    <3>5. CASE \E e \in Directory, p \in PageIndex : o = <<"page", e, p>>
      <4>1. PICK e \in Directory, p \in PageIndex : o = <<"page", e, p>>
        BY <3>5
      <4>2. backing[e][p] = f /\ backing[e][p] \in Frame
        BY <3>1, <3>2, <4>1, FrameOfOwner
      <4>3. p \in busy[e]
        BY <1>1, <4>2, VmmConstants DEF PagesAreWhole
      <4>4. e # d \/ p \notin pages
        BY <2>1, <4>3
      <4>5. backing'[e][p] = f /\ backing'[e][p] \in Frame
        BY <1>3, <4>2, <4>4
      <4>6. QED
        BY <4>1, <4>5, OwningByKindLater, FrameOfOwner
    <3>6. QED
      BY <3>2, <3>3, <3>4, <3>5, OwnersByKind
  <2>4. CASE f \notin used
    <3>1. PICK x \in Wanted(tables, pages) : f = supply[x]
      BY <1>2, <2>4
    <3>2. f \in Frame
      BY <1>4, <1>7, <3>1
    <3>3. CASE \E t \in tables : x = <<"table", t>>
      <4>1. PICK t \in tables : x = <<"table", t>>
        BY <3>3
      <4>2. table'[d][t] = f /\ t \in TableIndex
        BY <1>2, <1>3, <3>1, <4>1
      <4>3. QED
        BY <1>2, <3>2, <4>2, OwningByKindLater, FrameOfOwner
    <3>4. CASE \E p \in pages : x = <<"page", p>>
      <4>1. PICK p \in pages : x = <<"page", p>>
        BY <3>4
      <4>2. backing'[d][p] = f /\ p \in PageIndex
        BY <1>2, <1>3, <3>1, <4>1
      <4>3. QED
        BY <1>2, <3>2, <4>2, OwningByKindLater, FrameOfOwner
    <3>5. QED
      BY <3>3, <3>4 DEF Wanted
  <2>5. QED
    BY <2>3, <2>4
<1>15. QED
  BY <1>5, <1>13, <1>14
-----------------------------------------------------------------------------
(* What is taken: some tables, and the entries of some pages, of which the *)
(* frames of some are given back.                                          *)
Takes(d, tables, pages, freed) ==
  /\ used'    = used \ ({table[d][t] : t \in {u \in tables : HasTable(d, u)}} \cup Frames(d, freed))
  /\ table'   = [table EXCEPT ![d] = [t \in TableIndex |-> IF t \in tables THEN Stale ELSE @[t]]]
  /\ busy'    = [busy EXCEPT ![d] = @ \ pages]
  /\ backing' = [backing EXCEPT ![d] = [p \in PageIndex |-> IF p \in pages THEN NoFrame ELSE @[p]]]
  /\ UNCHANGED root

(* A loss: no page keeps its entry when its table goes. *)
Loss(d, tables, pages, freed) ==
  /\ d \in Directory /\ tables \subseteq TableIndex /\ pages \subseteq PageIndex /\ freed \subseteq pages
  /\ PagesOf(tables) \subseteq pages
  /\ Takes(d, tables, pages, freed)

(* What is where after a loss. *)
Taken(d, tables, pages) ==
  /\ \A t \in tables : table'[d][t] \notin Frame
  /\ \A p \in pages : backing'[d][p] = NoFrame
  /\ \A e \in Directory, t \in TableIndex : e # d \/ t \notin tables => table'[e][t] = table[e][t]
  /\ \A e \in Directory, p \in PageIndex : e # d \/ p \notin pages => backing'[e][p] = backing[e][p]
  /\ \A e \in Directory : busy'[e] = IF e = d THEN busy[d] \ pages ELSE busy[e]

LEMMA LossFacts ==
  ASSUME TypeOK, NEW d, NEW tables, NEW pages, NEW freed, Loss(d, tables, pages, freed)
  PROVE  /\ Taken(d, tables, pages)
         /\ used' \subseteq Frame /\ root' = root
         /\ table' \in [Directory -> [TableIndex -> Frame \cup {NoTable, Stale}]]
         /\ busy' \in [Directory -> SUBSET PageIndex]
         /\ backing' \in [Directory -> [PageIndex -> Frame \cup {NoFrame}]]
<1>1. /\ d \in Directory /\ tables \subseteq TableIndex /\ pages \subseteq PageIndex
      /\ Takes(d, tables, pages, freed)
  BY DEF Loss
<1>2. /\ table' \in [Directory -> [TableIndex -> Frame \cup {NoTable, Stale}]]
      /\ \A t \in tables : table'[d][t] = Stale
      /\ \A e \in Directory, t \in TableIndex : e # d \/ t \notin tables => table'[e][t] = table[e][t]
  <2>1. table \in [Directory -> [TableIndex -> Frame \cup {NoTable, Stale}]]
    BY TypesOfState
  <2> DEFINE row == [t \in TableIndex |-> IF t \in tables THEN Stale ELSE table[d][t]]
  <2>2. table' = [table EXCEPT ![d] = row]
    BY <1>1 DEF Takes
  <2>3. row \in [TableIndex -> Frame \cup {NoTable, Stale}]
    BY <1>1, <2>1
  <2>4. \A t \in TableIndex : row[t] = IF t \in tables THEN Stale ELSE table[d][t]
    OBVIOUS
  <2> HIDE DEF row
  <2>5. table'[d] = row /\ \A e \in Directory : e # d => table'[e] = table[e]
    BY <1>1, <2>1, <2>2
  <2>6. QED
    BY <1>1, <2>1, <2>2, <2>3, <2>4, <2>5
<1>3. /\ backing' \in [Directory -> [PageIndex -> Frame \cup {NoFrame}]]
      /\ \A p \in pages : backing'[d][p] = NoFrame
      /\ \A e \in Directory, p \in PageIndex : e # d \/ p \notin pages => backing'[e][p] = backing[e][p]
  <2>1. backing \in [Directory -> [PageIndex -> Frame \cup {NoFrame}]]
    BY TypesOfState
  <2> DEFINE row == [p \in PageIndex |-> IF p \in pages THEN NoFrame ELSE backing[d][p]]
  <2>2. backing' = [backing EXCEPT ![d] = row]
    BY <1>1 DEF Takes
  <2>3. row \in [PageIndex -> Frame \cup {NoFrame}]
    BY <1>1, <2>1
  <2>4. \A p \in PageIndex : row[p] = IF p \in pages THEN NoFrame ELSE backing[d][p]
    OBVIOUS
  <2> HIDE DEF row
  <2>5. backing'[d] = row /\ \A e \in Directory : e # d => backing'[e] = backing[e]
    BY <1>1, <2>1, <2>2
  <2>6. QED
    BY <1>1, <2>1, <2>2, <2>3, <2>4, <2>5
<1>4. /\ busy' \in [Directory -> SUBSET PageIndex]
      /\ \A e \in Directory : busy'[e] = IF e = d THEN busy[d] \ pages ELSE busy[e]
  <2>1. busy \in [Directory -> SUBSET PageIndex] /\ busy' = [busy EXCEPT ![d] = busy[d] \ pages]
    BY <1>1, TypesOfState DEF Takes
  <2>2. QED
    BY <1>1, <2>1
<1>5. used' \subseteq Frame /\ root' = root
  BY <1>1, TypesOfState DEF Takes
<1>6. Taken(d, tables, pages)
  BY <1>2, <1>3, <1>4, VmmConstants DEF Taken
<1>7. QED
  BY <1>2, <1>3, <1>4, <1>5, <1>6

(* A loss keeps the same, provided that no page loses a frame that is not  *)
(* given back, unless it is a fault.                                       *)
LEMMA LossKeeps ==
  ASSUME Core, NEW d, NEW tables, NEW pages, NEW freed, Loss(d, tables, pages, freed),
         faults \subseteq faults',
         faults' \cap {"overlap", "uprooted"} = {} => \A p \in pages \ freed : backing[d][p] = NoFrame
  PROVE  PagesAreWhole' /\ FramesNotShared' /\ NoFrameLost'
<1>1. TypeOK /\ PagesAreWhole /\ FramesNotShared /\ NoFrameLost
  BY DEF Core
<1>2. /\ d \in Directory /\ tables \subseteq TableIndex /\ pages \subseteq PageIndex /\ freed \subseteq pages
      /\ PagesOf(tables) \subseteq pages
      /\ used' = used \ ({table[d][t] : t \in {u \in tables : HasTable(d, u)}} \cup Frames(d, freed))
  BY DEF Loss, Takes
<1>3. /\ \A t \in tables : table'[d][t] \notin Frame
      /\ \A p \in pages : backing'[d][p] = NoFrame
      /\ \A e \in Directory, t \in TableIndex : e # d \/ t \notin tables => table'[e][t] = table[e][t]
      /\ \A e \in Directory, p \in PageIndex : e # d \/ p \notin pages => backing'[e][p] = backing[e][p]
      /\ \A e \in Directory : busy'[e] = IF e = d THEN busy[d] \ pages ELSE busy[e]
      /\ root' = root
  <2>1. Taken(d, tables, pages) /\ root' = root
    BY <1>1, LossFacts
  <2>2. QED
    BY <2>1 DEF Taken
<1>4. PagesAreWhole'
  <2>1. ASSUME NEW e \in Directory, NEW p \in PageIndex, backing'[e][p] # NoFrame
        PROVE  p \in busy'[e]
    BY <1>1, <1>2, <1>3, <2>1 DEF PagesAreWhole
  <2>2. ASSUME NEW e \in Directory, NEW p \in busy'[e] PROVE table'[e][TableOf(p)] \in Frame
    <3>1. p \in busy[e] /\ (e # d \/ p \notin pages)
      BY <1>2, <1>3, <2>2
    <3>2. p \in PageIndex /\ TableOf(p) \in TableIndex
      BY <1>1, <3>1, TypesOfState, TableOfPage
    <3>3. e # d \/ TableOf(p) \notin tables
      BY <1>2, <3>1, <3>2 DEF PagesOf
    <3>4. table[e][TableOf(p)] \in Frame
      BY <1>1, <3>1 DEF PagesAreWhole, HasTable
    <3>5. QED
      BY <1>3, <3>2, <3>3, <3>4
  <2>3. ASSUME NEW e \in Directory, NEW p \in busy'[e], p \notin Reserved PROVE backing'[e][p] \in Frame
    <3>1. p \in busy[e] /\ (e # d \/ p \notin pages)
      BY <1>2, <1>3, <2>3
    <3>2. p \in PageIndex /\ backing[e][p] \in Frame
      BY <1>1, <2>3, <3>1, TypesOfState DEF PagesAreWhole
    <3>3. QED
      BY <1>3, <3>1, <3>2
  <2>4. QED
    BY <2>1, <2>2, <2>3 DEF PagesAreWhole, HasTable
<1>5. ASSUME NEW o \in Owning'
      PROVE  /\ o \in Owning /\ FrameOf(o)' = FrameOf(o)
             /\ \A t \in tables : o # <<"table", d, t>>
             /\ \A p \in pages : o # <<"page", d, p>>
  <2>1. o \in Owners' /\ FrameOf(o)' \in Frame
    BY <1>5 DEF Owning
  <2>2. CASE \E e \in Directory : o = <<"directory", e, 0>> /\ Created(e)'
    <3>1. PICK e \in Directory : o = <<"directory", e, 0>>
      BY <2>2
    <3>2. FrameOf(o) = root[e] /\ FrameOf(o)' = root'[e]
      BY <3>1, FrameOfOwner
    <3>3. o \in Owning /\ FrameOf(o)' = FrameOf(o)
      BY <1>3, <2>1, <3>1, <3>2, OwningByKind
    <3>4. QED
      BY <3>1, <3>3
  <2>3. CASE \E e \in Directory, t \in TableIndex : o = <<"table", e, t>>
    <3>1. PICK e \in Directory, t \in TableIndex : o = <<"table", e, t>>
      BY <2>3
    <3>2. FrameOf(o) = table[e][t] /\ FrameOf(o)' = table'[e][t]
      BY <3>1, FrameOfOwner
    <3>3. ~(e = d /\ t \in tables)
      BY <1>3, <2>1, <3>2
    <3>4. o \in Owning /\ FrameOf(o)' = FrameOf(o)
      BY <1>3, <2>1, <3>1, <3>2, <3>3, OwningByKind
    <3>5. QED
      BY <3>1, <3>3, <3>4
  <2>4. CASE \E e \in Directory, p \in PageIndex : o = <<"page", e, p>>
    <3>1. PICK e \in Directory, p \in PageIndex : o = <<"page", e, p>>
      BY <2>4
    <3>2. FrameOf(o) = backing[e][p] /\ FrameOf(o)' = backing'[e][p]
      BY <3>1, FrameOfOwner
    <3>3. ~(e = d /\ p \in pages)
      BY <1>3, <2>1, <3>2, VmmConstants
    <3>4. o \in Owning /\ FrameOf(o)' = FrameOf(o)
      BY <1>3, <2>1, <3>1, <3>2, <3>3, OwningByKind
    <3>5. QED
      BY <3>1, <3>3, <3>4
  <2>5. QED
    BY <2>1, <2>2, <2>3, <2>4, OwnersByKindLater
<1>6. /\ \A o \in Owning : FrameOf(o) \in used
      /\ \A o, p \in Owning : o # p => FrameOf(o) # FrameOf(p)
  BY <1>1 DEF FramesNotShared
<1>7. ASSUME NEW o \in Owning' PROVE FrameOf(o)' \in used'
  <2>1. o \in Owning /\ FrameOf(o)' = FrameOf(o) /\ FrameOf(o) \in used
    BY <1>5, <1>6
  <2>2. ASSUME NEW t \in tables, HasTable(d, t) PROVE FrameOf(o) # table[d][t]
    <3>1. <<"table", d, t>> \in Owning /\ FrameOf(<<"table", d, t>>) = table[d][t]
      BY <1>2, <2>2, OwningByKind, FrameOfOwner DEF HasTable
    <3>2. QED
      BY <1>5, <1>6, <2>1, <3>1
  <2>3. ASSUME NEW p \in freed, backing[d][p] # NoFrame PROVE FrameOf(o) # backing[d][p]
    <3>1. p \in pages /\ p \in PageIndex
      BY <1>2
    <3>2. backing[d][p] \in Frame
      BY <1>1, <1>2, <2>3, <3>1, TypesOfState
    <3>3. <<"page", d, p>> \in Owning /\ FrameOf(<<"page", d, p>>) = backing[d][p]
      BY <1>2, <3>1, <3>2, OwningByKind, FrameOfOwner
    <3>4. QED
      BY <1>5, <1>6, <2>1, <3>1, <3>3
  <2>4. FrameOf(o) \notin {table[d][t] : t \in {u \in tables : HasTable(d, u)}}
    BY <2>2
  <2>5. FrameOf(o) \notin Frames(d, freed)
    BY <2>3 DEF Frames
  <2>6. QED
    BY <1>2, <2>1, <2>4, <2>5
<1>8. FramesNotShared'
  <2>1. ASSUME NEW o \in Owning', NEW p \in Owning', o # p PROVE FrameOf(o)' # FrameOf(p)'
    BY <1>5, <1>6, <2>1
  <2>2. QED
    BY <1>7, <2>1 DEF FramesNotShared
<1>9. NoFrameLost'
  <2> SUFFICES ASSUME faults' \cap {"overlap", "uprooted"} = {}, NEW f \in used'
               PROVE  \E o \in Owning' : FrameOf(o)' = f
    BY DEF NoFrameLost
  <2>1. faults \cap {"overlap", "uprooted"} = {} /\ \A p \in pages \ freed : backing[d][p] = NoFrame
    OBVIOUS
  <2>2. /\ f \in used /\ f \notin {table[d][t] : t \in {u \in tables : HasTable(d, u)}}
        /\ f \notin Frames(d, freed)
    BY <1>2
  <2>3. PICK o \in Owning : FrameOf(o) = f
    BY <1>1, <2>1, <2>2 DEF NoFrameLost
  <2>4. o \in Owners /\ FrameOf(o) \in Frame
    BY DEF Owning
  <2>5. CASE \E e \in Directory : o = <<"directory", e, 0>>
    <3>1. PICK e \in Directory : o = <<"directory", e, 0>>
      BY <2>5
    <3>2. root'[e] = f /\ root'[e] \in Frame
      BY <1>3, <2>3, <2>4, <3>1, FrameOfOwner
    <3>3. QED
      BY <3>1, <3>2, OwningByKindLater, FrameOfOwner
  <2>6. CASE \E e \in Directory, t \in TableIndex : o = <<"table", e, t>>
    <3>1. PICK e \in Directory, t \in TableIndex : o = <<"table", e, t>>
      BY <2>6
    <3>2. table[e][t] = f /\ table[e][t] \in Frame
      BY <2>3, <2>4, <3>1, FrameOfOwner
    <3>3. e # d \/ t \notin tables
      BY <2>2, <3>2 DEF HasTable
    <3>4. table'[e][t] = f /\ table'[e][t] \in Frame
      BY <1>3, <3>2, <3>3
    <3>5. QED
      BY <3>1, <3>4, OwningByKindLater, FrameOfOwner
  <2>7. CASE \E e \in Directory, p \in PageIndex : o = <<"page", e, p>>
    <3>1. PICK e \in Directory, p \in PageIndex : o = <<"page", e, p>>
      BY <2>7
    <3>2. backing[e][p] = f /\ backing[e][p] \in Frame
      BY <2>3, <2>4, <3>1, FrameOfOwner
    <3>3. e # d \/ p \notin pages
      <4>1. e = d => p \notin freed
        BY <2>2, <3>2, VmmConstants DEF Frames
      <4>2. QED
        BY <2>1, <3>2, <4>1, VmmConstants
    <3>4. backing'[e][p] = f /\ backing'[e][p] \in Frame
      BY <1>3, <3>2, <3>3
    <3>5. QED
      BY <3>1, <3>4, OwningByKindLater, FrameOfOwner
  <2>8. QED
    BY <2>4, <2>5, <2>6, <2>7, OwnersByKind
<1>10. QED
  BY <1>4, <1>8, <1>9
-----------------------------------------------------------------------------
(* Any request is for one page at least. *)
LEMMA PagesForIsPositive ==
  ASSUME NEW bytes \in Nat, bytes + FrameSize < Word
  PROVE  PagesFor(bytes) \in Nat \ {0}
<1>1. FrameSize \in Nat \ {0} /\ Word \in Nat \ {0}
  BY VmmConstants, WordAssumption
<1>2. PICK r \in 0 .. FrameSize - 1 : r = (bytes % FrameSize)
  BY <1>1
<1>3. r <= bytes
  <2>1. PICK q \in Int : q = bytes \div FrameSize /\ bytes = FrameSize * q + r
    BY <1>1, <1>2
  <2>2. q >= 0
    <3>1. ASSUME q <= -1 PROVE FALSE
      <4>1. FrameSize * q <= FrameSize * (-1)
        BY <1>1, <3>1
      <4>2. QED
        BY <1>1, <1>2, <2>1, <4>1
    <3>2. QED
      BY <3>1
  <2>3. FrameSize * q >= 0
    BY <1>1, <2>2
  <2>4. QED
    BY <1>1, <1>2, <2>1, <2>3
<1> DEFINE x == bytes - r + FrameSize
<1>4. x \in Nat /\ x >= FrameSize /\ x < Word
  BY <1>1, <1>2, <1>3
<1>5. AlignUp(bytes, FrameSize) = x % Word
  BY <1>2, <1>4 DEF AlignUp
<1> HIDE DEF x
<1>6. x % Word = x
  BY <1>1, <1>4
<1>7. PICK k \in Int : k = x \div FrameSize /\ FrameSize * k <= x /\ x < FrameSize * k + FrameSize
  BY <1>1, <1>4
<1>8. k >= 1
  <2>1. ASSUME k <= 0 PROVE FALSE
    <3>1. FrameSize * k <= 0
      BY <1>1, <2>1
    <3>2. QED
      BY <1>1, <1>4, <1>7, <3>1
  <2>2. QED
    BY <2>1
<1>9. QED
  BY <1>5, <1>6, <1>7, <1>8 DEF PagesFor

(* The tables from that of a page on, and those of them that exist. *)
TablesFrom(first) == TableOf(first) .. Tables - 1
Existing(d, first) == {u \in TablesFrom(first) : HasTable(d, u)}

(* What a search takes for available from a page on. *)
Available(d, first) ==
  Cardinality(Existing(d, first)) * (Pages - (first % Pages))
    + Cardinality(TablesFrom(first) \ Existing(d, first)) * Pages

LEMMA SearchCounts ==
  ASSUME NEW d, NEW first, NEW count
  PROVE  /\ IsFreeFrom(d, first, count) => Available(d, first) >= count
         /\ Existing(d, first) = {} /\ Available(d, first) >= count => IsFreeFrom(d, first, count)
BY DEF IsFreeFrom, Available, Existing, TablesFrom

LEMMA TablesAreCounted ==
  ASSUME NEW d, NEW first \in PageIndex
  PROVE  /\ IsFiniteSet(TablesFrom(first)) /\ IsFiniteSet(Existing(d, first))
         /\ IsFiniteSet(TablesFrom(first) \ Existing(d, first))
         /\ Cardinality(Existing(d, first)) \in Nat
         /\ Cardinality(TablesFrom(first) \ Existing(d, first)) \in Nat
         /\ Cardinality(Existing(d, first)) + Cardinality(TablesFrom(first) \ Existing(d, first))
              = Tables - TableOf(first)
         /\ Existing(d, first) # {} => Cardinality(Existing(d, first)) >= 1
<1>1. TableOf(first) \in TableIndex
  BY TableOfPage
<1>2. TableOf(first) \in Int /\ Tables - 1 \in Int /\ TableOf(first) <= Tables - 1
  BY <1>1, VmmConstants DEF TableIndex
<1>3. IsFiniteSet(TablesFrom(first)) /\ Cardinality(TablesFrom(first)) = Tables - TableOf(first)
  BY <1>2, VmmConstants, FS_Interval DEF TablesFrom
<1>4. Existing(d, first) \subseteq TablesFrom(first)
  BY DEF Existing
<1>5. IsFiniteSet(Existing(d, first)) /\ IsFiniteSet(TablesFrom(first) \ Existing(d, first))
  BY <1>3, <1>4, FS_Subset, FS_Difference
<1>6. /\ Cardinality(Existing(d, first)) \in Nat
      /\ Cardinality(TablesFrom(first) \ Existing(d, first)) \in Nat
  BY <1>5, FS_CardinalityType
<1>7. TablesFrom(first) \cap Existing(d, first) = Existing(d, first)
  BY <1>4
<1>8. Cardinality(TablesFrom(first) \ Existing(d, first))
        = Cardinality(TablesFrom(first)) - Cardinality(Existing(d, first))
  <2>1. Cardinality(TablesFrom(first) \ Existing(d, first))
          = Cardinality(TablesFrom(first)) - Cardinality(TablesFrom(first) \cap Existing(d, first))
    BY <1>3, FS_Difference, Zenon
  <2>2. QED
    BY <1>7, <2>1
<1>9. Existing(d, first) # {} => Cardinality(Existing(d, first)) >= 1
  BY <1>5, <1>6, FS_EmptySet
<1>10. QED
  BY <1>2, <1>3, <1>5, <1>6, <1>8, <1>9, VmmConstants

(* Where a page is in its table. *)
LEMMA PlaceOfPage ==
  ASSUME NEW first \in PageIndex
  PROVE  /\ first \in Nat /\ first < Tables * Pages
         /\ TableOf(first) \in 0 .. Tables - 1 /\ (first % Pages) \in 0 .. Pages - 1
         /\ first = TableOf(first) * Pages + (first % Pages)
<1>1. first \in Nat /\ first < Tables * Pages
  BY VmmConstants DEF PageIndex
<1>2. TableOf(first) \in 0 .. Tables - 1
  BY TableOfPage DEF TableIndex
<1>3. PICK q \in Int, r \in 0 .. Pages - 1 :
        q = first \div Pages /\ r = (first % Pages) /\ first = Pages * q + r
  BY <1>1, VmmConstants
<1>4. first = q * Pages + r
  BY <1>3, VmmConstants
<1>5. QED
  BY <1>1, <1>2, <1>3, <1>4 DEF TableOf

LEMMA PlaceIsPage ==
  ASSUME NEW t \in TableIndex, NEW s \in 0 .. Pages - 1
  PROVE  t * Pages + s \in PageIndex /\ TableOf(t * Pages + s) = t /\ ((t * Pages + s) % Pages) = s
<1>1. t \in Nat /\ s \in Nat /\ t + 1 <= Tables /\ s < Pages
  BY VmmConstants DEF TableIndex
<1>2. PICK x \in Nat : x = t * Pages
  BY <1>1, VmmConstants
<1>3. (t + 1) * Pages = x + Pages /\ (t + 1) * Pages <= Tables * Pages
  BY <1>1, <1>2, VmmConstants
<1>4. x + s \in PageIndex
  BY <1>1, <1>2, <1>3, VmmConstants DEF PageIndex
<1>5. ((x + s) % Pages) = s /\ (x + s) \div Pages = t
  BY <1>1, <1>2, VmmConstants
<1>6. QED
  BY <1>2, <1>4, <1>5 DEF TableOf
LEMMA Distributes ==
  /\ \A a, b, c \in Int : a * (b - c) = a * b - a * c
  /\ \A a, b, c \in Int : (a - b) * c = a * c - b * c
  /\ \A a, b, c \in Int : (a + b) * c = a * c + b * c
<1>1. \A a, b, c \in Int : a * (b - c) = a * b - a * c
  OBVIOUS
<1>2. \A a, b, c \in Int : (a - b) * c = a * c - b * c
  OBVIOUS
<1>3. \A a, b, c \in Int : (a + b) * c = a * c + b * c
  OBVIOUS
<1>4. QED
  BY <1>1, <1>2, <1>3

(* A page is said to be free from on as long as there is anything left:     *)
(* the first of those pages is at the start of a table, or in a table that *)
(* exists, and what is asked for fits into the directory.                  *)
LEMMA RangeIsInIndex ==
  ASSUME NEW d, NEW first \in PageIndex, NEW count \in Nat \ {0}, IsFirstFree(d, first, count)
  PROVE  first + count - 1 \in PageIndex /\ first .. first + count - 1 \subseteq PageIndex
<1>1. PICK t \in 0 .. Tables - 1, s \in 0 .. Pages - 1 :
        /\ t = TableOf(first) /\ s = (first % Pages) /\ first = t * Pages + s
        /\ first \in Nat /\ first < Tables * Pages
  BY PlaceOfPage
<1>2. PICK h \in Nat, k \in Nat :
        /\ h = Cardinality(Existing(d, first))
        /\ k = Cardinality(TablesFrom(first) \ Existing(d, first))
        /\ h + k = Tables - t
        /\ Existing(d, first) # {} => h >= 1
  BY <1>1, TablesAreCounted
<1>3. IsFreeFrom(d, first, count) /\ \A p \in PageIndex : p < first => ~IsFreeFrom(d, p, count)
  BY DEF IsFirstFree
<1>4. Available(d, first) >= count
  BY <1>3, SearchCounts
<1>5. Available(d, first) = h * (Pages - s) + k * Pages
  BY <1>1, <1>2 DEF Available
<1>6. h >= 1 \/ s = 0
  <2> SUFFICES ASSUME h = 0, s >= 1 PROVE FALSE
    BY <1>1, <1>2
  <2>1. PICK p \in PageIndex : p = t * Pages /\ TableOf(p) = t /\ p < first
    <3>1. t \in TableIndex /\ 0 \in 0 .. Pages - 1 /\ t * Pages + 0 = t * Pages
      BY <1>1, VmmConstants DEF TableIndex
    <3>2. t * Pages + 0 \in PageIndex /\ TableOf(t * Pages + 0) = t
      BY <3>1, PlaceIsPage
    <3>3. t * Pages \in Int
      BY <1>1, VmmConstants
    <3>4. t * Pages < first
      BY <1>1, <3>3
    <3>5. QED
      BY <3>1, <3>2, <3>4
  <2>2. TablesFrom(p) = TablesFrom(first)
    BY <1>1, <2>1 DEF TablesFrom
  <2>3. Existing(d, p) = Existing(d, first) /\ Existing(d, first) = {}
    BY <1>2, <2>2 DEF Existing
  <2>4. h * (Pages - s) = 0 /\ k * Pages \in Nat
    BY <1>1, <1>2, VmmConstants
  <2>5. count <= k * Pages
    BY <1>4, <1>5, <2>4
  <2>6. Pages - (p % Pages) \in Int
    <3>1. (p % Pages) \in 0 .. Pages - 1
      BY <2>1, PlaceOfPage
    <3>2. QED
      BY <3>1, VmmConstants
  <2>7. Cardinality(Existing(d, p)) * (Pages - (p % Pages)) = 0
    BY <1>2, <2>3, <2>6
  <2>8. Cardinality(TablesFrom(p) \ Existing(d, p)) * Pages = k * Pages
    BY <1>2, <2>2, <2>3
  <2>9. Available(d, p) >= count
    BY <2>4, <2>5, <2>7, <2>8 DEF Available
  <2>10. IsFreeFrom(d, p, count)
    BY <2>3, <2>9, SearchCounts
  <2>11. QED
    BY <1>3, <2>1, <2>10
<1>7. h * s >= s
  BY <1>1, <1>2, <1>6
<1>8. h * (Pages - s) = h * Pages - h * s
  BY <1>1, <1>2, VmmConstants, Distributes
<1>9. h * Pages + k * Pages = Tables * Pages - t * Pages
  <2>1. h \in Int /\ k \in Int /\ t \in Int /\ Tables \in Int /\ Pages \in Int
    BY <1>1, <1>2, VmmConstants
  <2>2. (h + k) * Pages = h * Pages + k * Pages /\ (Tables - t) * Pages = Tables * Pages - t * Pages
    BY <2>1, Distributes
  <2>3. QED
    BY <1>2, <2>2
<1>10. /\ h * Pages \in Int /\ h * s \in Int /\ k * Pages \in Int
       /\ Tables * Pages \in Int /\ t * Pages \in Int
  BY <1>1, <1>2, VmmConstants
<1>11. first + count <= Tables * Pages
  BY <1>1, <1>4, <1>5, <1>7, <1>8, <1>9, <1>10
<1>12. QED
  BY <1>1, <1>10, <1>11, VmmConstants DEF PageIndex
-----------------------------------------------------------------------------
(* Ranges, tables and demands are finite. *)
LEMMA TablesAreFinite ==
  ASSUME NEW tables \in SUBSET TableIndex
  PROVE  IsFiniteSet(tables) /\ Cardinality(tables) \in Nat
<1>1. Tables - 1 \in Int /\ IsFiniteSet(TableIndex)
  BY VmmConstants, FS_Interval DEF TableIndex
<1>2. IsFiniteSet(tables)
  BY <1>1, FS_Subset
<1>3. QED
  BY <1>2, FS_CardinalityType

LEMMA RangesAreFinite ==
  ASSUME NEW first \in Nat, NEW count \in Nat
  PROVE  /\ IsFiniteSet(first .. first + count - 1)
         /\ Cardinality(first .. first + count - 1) = count
BY FS_Interval

(* What is asked for is as much as the tables and the pages together. *)
LEMMA WantedIsFinite ==
  ASSUME NEW tables, NEW pages, IsFiniteSet(tables), IsFiniteSet(pages)
  PROVE  /\ IsFiniteSet(Wanted(tables, pages))
         /\ Cardinality(Wanted(tables, pages)) \in Nat
         /\ Cardinality(Wanted(tables, pages)) <= Cardinality(tables) + Cardinality(pages)
<1> DEFINE T == {<<"table", t>> : t \in tables}
           P == {<<"page", p>> : p \in pages}
           f == [t \in tables |-> <<"table", t>>]
           g == [p \in pages |-> <<"page", p>>]
<1>1. IsFiniteSet(T) /\ Cardinality(T) <= Cardinality(tables)
  <2>1. f \in [tables -> T] /\ \A x \in T : \E t \in tables : f[t] = x
    OBVIOUS
  <2>2. f \in Surjection(tables, T)
    BY <2>1, Zenon DEF Surjection
  <2>3. QED
    BY <2>2, FS_Surjection
<1>2. IsFiniteSet(P) /\ Cardinality(P) <= Cardinality(pages)
  <2>1. g \in [pages -> P] /\ \A x \in P : \E p \in pages : g[p] = x
    OBVIOUS
  <2>2. g \in Surjection(pages, P)
    BY <2>1, Zenon DEF Surjection
  <2>3. QED
    BY <2>2, FS_Surjection
<1> HIDE DEF T, P
<1>3. /\ IsFiniteSet(T \cup P)
      /\ Cardinality(T \cup P) = Cardinality(T) + Cardinality(P) - Cardinality(T \cap P)
  BY <1>1, <1>2, FS_Union
<1>4. IsFiniteSet(T \cap P)
  <2>1. T \cap P \in SUBSET T
    OBVIOUS
  <2>2. QED
    BY <1>1, <2>1, FS_Subset
<1>5. /\ Cardinality(T) \in Nat /\ Cardinality(P) \in Nat /\ Cardinality(T \cap P) \in Nat
      /\ Cardinality(T \cup P) \in Nat /\ Cardinality(tables) \in Nat /\ Cardinality(pages) \in Nat
  BY <1>1, <1>2, <1>3, <1>4, FS_CardinalityType
<1>6. Wanted(tables, pages) = T \cup P
  BY DEF Wanted, T, P
<1>7. QED
  BY <1>1, <1>2, <1>3, <1>5, <1>6

(* The elements of a set of tables of which there are no more than so many *)
(* up to themselves are no more than so many.                              *)
LEMMA RankBounds ==
  ASSUME NEW S \in SUBSET TableIndex, NEW n \in Nat
  PROVE  Cardinality({t \in S : Cardinality({u \in S : u <= t}) <= n}) <= n
<1> DEFINE UpTo(t) == {u \in S : u <= t}
           some == {t \in S : Cardinality(UpTo(t)) <= n}
           rank == [t \in some |-> Cardinality(UpTo(t))]
<1>1. S \subseteq Int
  BY VmmConstants DEF TableIndex
<1>2. ASSUME NEW t \in S PROVE UpTo(t) \in SUBSET TableIndex /\ t \in UpTo(t)
  <2>1. UpTo(t) \subseteq TableIndex
    OBVIOUS
  <2>2. t <= t
    BY <1>1
  <2>3. t \in UpTo(t)
    BY <2>2
  <2>4. QED
    BY <2>1, <2>3
<1>3. \A t \in S : IsFiniteSet(UpTo(t)) /\ Cardinality(UpTo(t)) \in Nat
  BY <1>2, TablesAreFinite
<1>4. \A t \in S : Cardinality(UpTo(t)) # 0
  BY <1>2, <1>3, FS_EmptySet
<1>5. ASSUME NEW t \in S, NEW u \in S, t < u
      PROVE  Cardinality(UpTo(t)) # Cardinality(UpTo(u))
  <2>1. UpTo(t) \in SUBSET UpTo(u) /\ u \in UpTo(u) /\ u \notin UpTo(t)
    <3>1. t \in Int /\ u \in Int /\ ~(u <= t)
      BY <1>1, <1>5
    <3>2. \A x \in UpTo(t) : x \in S /\ x \in Int /\ x <= t
      BY <1>1
    <3>3. \A x \in UpTo(t) : x \in S /\ x <= u
      BY <1>5, <3>1, <3>2
    <3>4. QED
      BY <1>2, <3>1, <3>3
  <2>2. UpTo(t) # UpTo(u)
    BY <2>1
  <2> HIDE DEF UpTo
  <2>3. QED
    BY <1>3, <2>1, <2>2, FS_Subset
<1> HIDE DEF UpTo
<1>6. rank \in [some -> 1 .. n]
  BY <1>3, <1>4
<1>7. ASSUME NEW t \in some, NEW u \in some, rank[t] = rank[u] PROVE t = u
  <2>1. t \in S /\ u \in S /\ Cardinality(UpTo(t)) = Cardinality(UpTo(u))
    BY <1>7
  <2>2. ~(t < u) /\ ~(u < t)
    BY <1>5, <2>1
  <2>3. QED
    BY <1>1, <2>1, <2>2
<1> HIDE DEF rank
<1>8. rank \in Injection(some, 1 .. n)
  BY <1>6, <1>7, Zenon DEF Injection, IsInjective
<1>9. IsFiniteSet(1 .. n) /\ Cardinality(1 .. n) = n
  BY FS_Interval
<1>10. Cardinality(some) <= n
  BY <1>8, <1>9, FS_Injection
<1>11. QED
  BY <1>10 DEF some, UpTo

(* Pages before others lie in tables before theirs. *)
LEMMA TablesAreInOrder ==
  ASSUME NEW p \in PageIndex, NEW q \in PageIndex, p <= q
  PROVE  TableOf(p) <= TableOf(q)
<1>1. PICK t \in 0 .. Tables - 1, r \in 0 .. Pages - 1 : t = TableOf(p) /\ p = t * Pages + r
  BY PlaceOfPage
<1>2. PICK u \in 0 .. Tables - 1, s \in 0 .. Pages - 1 : u = TableOf(q) /\ q = u * Pages + s
  BY PlaceOfPage
<1>3. ASSUME u + 1 <= t PROVE FALSE
  <2>1. (u + 1) * Pages <= t * Pages
    BY <1>1, <1>2, <1>3, VmmConstants
  <2>2. (u + 1) * Pages = u * Pages + Pages
    BY <1>2, VmmConstants
  <2>3. u * Pages \in Int /\ t * Pages \in Int
    BY <1>1, <1>2, VmmConstants
  <2>4. QED
    BY <1>1, <1>2, <2>1, <2>2, <2>3, VmmConstants
<1>4. t <= u
  BY <1>1, <1>2, <1>3
<1>5. QED
  BY <1>1, <1>2, <1>4
-----------------------------------------------------------------------------
(* A step for one directory leaves the others alone. *)
OnlyIn(d) ==
  /\ \A e \in Directory : e # d =>
       /\ busy'[e] = busy[e] /\ closing'[e] = closing[e] /\ table'[e] = table[e]
       /\ root'[e] = root[e] /\ \A b \in live' : b[1] = e => b \in live

LEMMA NothingBeforeKept ==
  ASSUME NothingBefore, NEW d \in Directory, OnlyIn(d), Created(d)'
  PROVE  NothingBefore'
<1> SUFFICES ASSUME NEW e \in Directory, ~Created(e)'
             PROVE  /\ busy'[e] = {} /\ closing'[e] = {}
                    /\ \A t \in TableIndex : ~(table'[e][t] \in Frame)
                    /\ \A b \in live' : b[1] # e
  BY DEF NothingBefore, HasTable
<1>1. e # d
  OBVIOUS
<1>2. /\ busy'[e] = busy[e] /\ closing'[e] = closing[e] /\ table'[e] = table[e]
      /\ root'[e] = root[e] /\ \A b \in live' : b[1] = e => b \in live
  BY <1>1 DEF OnlyIn
<1>3. ~Created(e)
  BY <1>2 DEF Created
<1>4. /\ busy[e] = {} /\ closing[e] = {}
      /\ \A t \in TableIndex : ~(table[e][t] \in Frame)
      /\ \A b \in live : b[1] # e
  BY <1>3 DEF NothingBefore, HasTable
<1>5. QED
  BY <1>2, <1>4

(* Granting a range that the search has found. *)
LEMMA GrantKeeps ==
  ASSUME Core, NEW d \in Directory, NEW first \in PageIndex, NEW count \in Nat \ {0},
         IsFirstFree(d, first, count),
         Cardinality(Demands(d, first .. first + count - 1)) <= Cardinality(Free),
         Grant(d, first, first .. first + count - 1), UNCHANGED root
  PROVE  Core' /\ OnlyIn(d) /\ \A p \in first .. first + count - 1 : backing'[d][p] \in Frame
<1> DEFINE range == first .. first + count - 1
           tables == Missing(d, range)
           supply == Supply(Demands(d, range))
<1>1. TypeOK
  BY DEF Core
<1>2. range \subseteq PageIndex /\ first + count - 1 \in PageIndex
  BY RangeIsInIndex
<1>3. first \in Nat /\ IsFiniteSet(range) /\ Cardinality(range) = count
  <2>1. first \in Nat
    BY PlaceOfPage
  <2>2. QED
    BY <2>1, RangesAreFinite
<1>4. /\ used'  = used \cup {supply[x] : x \in Demands(d, range)}
      /\ table' = [table EXCEPT ![d] = [t \in TableIndex |->
                     IF t \in tables THEN supply[<<"table", t>>] ELSE @[t]]]
      /\ busy'    = [busy    EXCEPT ![d] = @ \cup range]
      /\ closing' = [closing EXCEPT ![d] = @ \cup {LastOf(first, Cardinality(range))}]
      /\ backing' = [backing EXCEPT ![d] = [p \in PageIndex |->
                     IF p \in range THEN supply[<<"page", p>>] ELSE @[p]]]
      /\ live' = live \cup {<<d, first, first + Cardinality(range) - 1>>}
      /\ failed' = FALSE
      /\ faults' = faults \cup (IF range \cap busy[d] # {} THEN {"overlap"} ELSE {})
  BY Zenon DEF Grant
<1>5. Demands(d, range) = Wanted(tables, range)
  BY Zenon DEF Demands, Wanted
<1> HIDE DEF range, supply
<1>6. tables \in SUBSET TableIndex
  BY <1>2, TableOfPage DEF Missing, TablesOf
<1>7. \A t \in tables : ~HasTable(d, t)
  BY DEF Missing
<1>8. \A p \in range : HasTable(d, TableOf(p)) \/ TableOf(p) \in tables
  BY DEF Missing, TablesOf
<1> HIDE DEF tables
<1>9. IsFiniteSet(tables)
  BY <1>6, TablesAreFinite
<1>10. IsFiniteSet(Demands(d, range))
  BY <1>3, <1>5, <1>9, WantedIsFinite
<1>11. Supplies(supply, Wanted(tables, range))
  <2>1. Cardinality(Demands(d, range)) <= Cardinality(Free)
    BY DEF range
  <2>2. Supplies(supply, Demands(d, range))
    BY <1>10, <2>1, SupplyMeets DEF Supplies, supply
  <2>3. QED
    BY <1>5, <2>2
<1>12. Gives(d, tables, range, supply)
  BY <1>4, <1>5, Zenon DEF Gives
<1>13. Gift(d, tables, range, supply)
  BY <1>2, <1>6, <1>7, <1>8, <1>11, <1>12 DEF Gift
<1>14. faults \subseteq faults' /\ (range \cap busy[d] # {} => "overlap" \in faults')
  BY <1>4
<1>15. PagesAreWhole' /\ FramesNotShared' /\ NoFrameLost'
  BY <1>13, <1>14, GiftKeeps
<1>16. TypeOK'
  <2>1. /\ used' \subseteq Frame /\ root' = root
        /\ table' \in [Directory -> [TableIndex -> Frame \cup {NoTable, Stale}]]
        /\ busy' \in [Directory -> SUBSET PageIndex]
        /\ backing' \in [Directory -> [PageIndex -> Frame \cup {NoFrame}]]
    BY <1>1, <1>13, GiftFacts
  <2>2. /\ root \in [Directory -> Frame \cup {NoFrame}]
        /\ closing \in [Directory -> SUBSET PageIndex]
        /\ live \subseteq Directory \X PageIndex \X PageIndex /\ faults \subseteq Faults
    BY <1>1 DEF TypeOK
  <2>3. LastOf(first, Cardinality(range)) \in PageIndex
    BY <1>2, <1>3 DEF LastOf
  <2>4. closing' \in [Directory -> SUBSET PageIndex]
    BY <1>4, <2>2, <2>3
  <2>5. live' \subseteq Directory \X PageIndex \X PageIndex
    BY <1>2, <1>3, <1>4, <2>2
  <2>6. faults' \subseteq Faults /\ failed' \in BOOLEAN
    BY <1>4, <2>2 DEF Faults
  <2>7. QED
    BY <2>1, <2>2, <2>4, <2>5, <2>6 DEF TypeOK
<1>17. OnlyIn(d)
  <2> SUFFICES ASSUME NEW e \in Directory, e # d
               PROVE  /\ busy'[e] = busy[e] /\ closing'[e] = closing[e] /\ table'[e] = table[e]
                      /\ root'[e] = root[e] /\ \A b \in live' : b[1] = e => b \in live
    BY DEF OnlyIn
  <2>1. busy'[e] = busy[e] /\ closing'[e] = closing[e]
    BY <1>1, <1>4, TypesOfState
  <2>2. table'[e] = table[e]
    BY <1>1, <1>4, TypesOfState
  <2>3. \A b \in live' : b[1] = e => b \in live
    BY <1>4
  <2>4. QED
    BY <2>1, <2>2, <2>3
<1>18. \A p \in range : backing'[d][p] \in Frame
  <2>1. Given(d, tables, range, supply)
    BY <1>1, <1>13, GiftFacts
  <2>2. QED
    BY <2>1 DEF Given, Free
<1>19. QED
  BY <1>15, <1>16, <1>17, <1>18 DEF Core, range
(* Rolling a failed grant back.  Where no block overlaps and no table of   *)
(* others goes, the pages that lose their entries have frames only where    *)
(* these are given back.                                                   *)
LEMMA RollBackKeeps ==
  ASSUME Core, NEW d \in Directory, NEW first \in PageIndex, NEW count \in Nat \ {0},
         IsFirstFree(d, first, count), RollBack(d, first, first .. first + count - 1), UNCHANGED root
  PROVE  Core' /\ OnlyIn(d)
<1> DEFINE range == first .. first + count - 1
           need(t)  == DemandsTo(d, range, {p \in range : TableOf(p) <= t}, t)
           last     == CHOOSE t \in TablesOf(range) :
                         /\ need(t) > Cardinality(Free)
                         /\ \A u \in TablesOf(range) : u < t => need(u) <= Cardinality(Free)
           touched  == {t \in TablesOf(range) : t <= last}
           made     == {t \in Missing(d, range) :
                          DemandsTo(d, range, {p \in range : TableOf(p) < t}, t) <= Cardinality(Free)}
           uprooted == \E t \in touched : HasTable(d, t) /\ PagesOf({t}) \cap busy[d] # {}
           wild     == \E t \in Missing(d, range) \ made : table[d][t] = Stale
           tables   == {t \in touched : HasTable(d, t) \/ t \in made}
           pages    == range \cup PagesOf(touched)
           freed    == range \ Filled(d, range)
<1>1. TypeOK /\ PagesAreWhole
  BY DEF Core
<1>2. range \subseteq PageIndex
  BY RangeIsInIndex
<1>3. /\ used'  = used \ Released(d, range, touched)
      /\ table' = [table EXCEPT ![d] = [t \in TableIndex |->
                     IF t \in touched /\ (HasTable(d, t) \/ t \in made) THEN Stale ELSE @[t]]]
      /\ Cleared(d, pages)
      /\ failed' = TRUE
      /\ faults' = faults \cup (IF range \cap busy[d] # {} THEN {"overlap"} ELSE {})
                          \cup (IF uprooted THEN {"uprooted"} ELSE {})
                          \cup (IF wild THEN {"wild"} ELSE {})
      /\ live' = live
  BY Zenon DEF RollBack
<1> HIDE DEF last, made, wild
<1>4. touched \subseteq TableIndex
  BY <1>2, TableOfPage DEF TablesOf
<1>5. uprooted <=> \E t \in touched : HasTable(d, t) /\ PagesOf({t}) \cap busy[d] # {}
  OBVIOUS
<1> HIDE DEF range, touched, uprooted
<1>6. tables \subseteq TableIndex /\ pages \subseteq PageIndex /\ freed \subseteq pages
      /\ PagesOf(tables) \subseteq pages
  BY <1>2, <1>4 DEF PagesOf
<1>7. Takes(d, tables, pages, freed)
  <2>1. {t \in tables : HasTable(d, t)} = {t \in touched : HasTable(d, t)}
    OBVIOUS
  <2>2. Released(d, range, touched)
          = {table[d][t] : t \in {u \in tables : HasTable(d, u)}} \cup Frames(d, freed)
    BY <2>1, Zenon DEF Released
  <2>3. [t \in TableIndex |-> IF t \in touched /\ (HasTable(d, t) \/ t \in made) THEN Stale ELSE table[d][t]]
          = [t \in TableIndex |-> IF t \in tables THEN Stale ELSE table[d][t]]
    OBVIOUS
  <2>4. table' = [table EXCEPT ![d] = [t \in TableIndex |-> IF t \in tables THEN Stale ELSE table[d][t]]]
    <3>1. table' = [table EXCEPT ![d] = [t \in TableIndex |->
                      IF t \in touched /\ (HasTable(d, t) \/ t \in made) THEN Stale ELSE table[d][t]]]
      BY <1>3
    <3> HIDE DEF tables
    <3>2. QED
      BY <2>3, <3>1
  <2> HIDE DEF tables, pages, freed
  <2>5. /\ busy'    = [busy    EXCEPT ![d] = @ \ pages]
        /\ backing' = [backing EXCEPT ![d] = [p \in PageIndex |-> IF p \in pages THEN NoFrame ELSE @[p]]]
    BY <1>3 DEF Cleared
  <2>6. QED
    BY <1>3, <2>2, <2>4, <2>5 DEF Takes
<1> HIDE DEF tables
<1>8. Loss(d, tables, pages, freed)
  BY <1>6, <1>7 DEF Loss
<1>9. faults \subseteq faults'
  BY <1>3
<1>10. ASSUME faults' \cap {"overlap", "uprooted"} = {}, NEW p \in pages \ freed
       PROVE  backing[d][p] = NoFrame
  <2>1. range \cap busy[d] = {} /\ ~uprooted
    BY <1>3, <1>10
  <2>2. p \in PageIndex
    BY <1>6, <1>10
  <2>3. CASE p \in range
    BY <1>1, <2>1, <2>2, <2>3 DEF PagesAreWhole
  <2>4. CASE p \in PagesOf(touched)
    <3>1. TableOf(p) \in touched /\ p \in PagesOf({TableOf(p)})
      BY <2>4 DEF PagesOf
    <3>2. ~HasTable(d, TableOf(p)) \/ p \notin busy[d]
      BY <1>5, <2>1, <3>1
    <3>3. p \notin busy[d]
      BY <1>1, <3>2 DEF PagesAreWhole
    <3>4. QED
      BY <1>1, <2>2, <3>3 DEF PagesAreWhole
  <2>5. QED
    BY <1>10, <2>3, <2>4
<1> HIDE DEF pages, freed
<1>11. PagesAreWhole' /\ FramesNotShared' /\ NoFrameLost'
  BY <1>8, <1>9, <1>10, LossKeeps
<1>12. TypeOK'
  <2>1. /\ used' \subseteq Frame /\ root' = root
        /\ table' \in [Directory -> [TableIndex -> Frame \cup {NoTable, Stale}]]
        /\ busy' \in [Directory -> SUBSET PageIndex]
        /\ backing' \in [Directory -> [PageIndex -> Frame \cup {NoFrame}]]
    BY <1>1, <1>8, LossFacts
  <2>2. /\ root \in [Directory -> Frame \cup {NoFrame}]
        /\ closing \in [Directory -> SUBSET PageIndex]
        /\ live \subseteq Directory \X PageIndex \X PageIndex /\ faults \subseteq Faults
    BY <1>1 DEF TypeOK
  <2>3. closing' \in [Directory -> SUBSET PageIndex]
    BY <1>3, <2>2 DEF Cleared
  <2>4. faults' \subseteq Faults /\ failed' \in BOOLEAN
    BY <1>3, <2>2 DEF Faults
  <2>5. QED
    BY <1>3, <2>1, <2>2, <2>3, <2>4 DEF TypeOK
<1>13. OnlyIn(d)
  <2> SUFFICES ASSUME NEW e \in Directory, e # d
               PROVE  /\ busy'[e] = busy[e] /\ closing'[e] = closing[e] /\ table'[e] = table[e]
                      /\ root'[e] = root[e] /\ \A b \in live' : b[1] = e => b \in live
    BY DEF OnlyIn
  <2>1. busy'[e] = busy[e] /\ closing'[e] = closing[e]
    BY <1>1, <1>3, TypesOfState DEF Cleared
  <2>2. table'[e] = table[e]
    BY <1>1, <1>7, TypesOfState DEF Takes
  <2>3. QED
    BY <1>3, <2>1, <2>2
<1>14. QED
  BY <1>11, <1>12, <1>13 DEF Core

(* A release. *)
LEMMA FreeKeeps ==
  ASSUME Core, NEW d \in Directory, NEW page \in PageIndex, FreeVirtualMemory(d, page)
  PROVE  Core' /\ OnlyIn(d)
<1>1. TypeOK
  BY DEF Core
<1>2. CASE \E last \in PageIndex :
             /\ EndsBlock(d, page, last)
             /\ used' = used \ Frames(d, page .. last)
             /\ Cleared(d, page .. last)
             /\ failed' = FALSE
             /\ live' = live \ {<<d, page, last>>}
             /\ faults' = faults \cup (IF <<d, page, last>> \in live THEN {} ELSE {"misuse"})
  <2>1. PICK last \in PageIndex :
             /\ used' = used \ Frames(d, page .. last)
             /\ Cleared(d, page .. last)
             /\ failed' = FALSE
             /\ live' = live \ {<<d, page, last>>}
             /\ faults' = faults \cup (IF <<d, page, last>> \in live THEN {} ELSE {"misuse"})
    BY <1>2
  <2>2. table' = table /\ root' = root
    BY DEF FreeVirtualMemory
  <2> DEFINE pages == page .. last
             gone == {table[d][t] : t \in {u \in {} : HasTable(d, u)}}
  <2>3. pages \subseteq PageIndex /\ PagesOf({}) \subseteq pages
    BY VmmConstants DEF PageIndex, PagesOf
  <2>4. /\ busy'    = [busy    EXCEPT ![d] = @ \ pages]
        /\ closing' = [closing EXCEPT ![d] = @ \ pages]
        /\ backing' = [backing EXCEPT ![d] = [p \in PageIndex |-> IF p \in pages THEN NoFrame ELSE @[p]]]
    BY <2>1 DEF Cleared
  <2>5. used' = used \ (gone \cup Frames(d, pages))
    BY <2>1
  <2> DEFINE row == [t \in TableIndex |-> IF t \in {} THEN Stale ELSE table[d][t]]
  <2>6. table' = [table EXCEPT ![d] = row]
    <3>1. table \in [Directory -> [TableIndex -> Frame \cup {NoTable, Stale}]]
      BY <1>1, TypesOfState
    <3>2. row = table[d]
      BY <3>1
    <3> HIDE DEF row
    <3>3. QED
      BY <2>2, <3>1, <3>2
  <2> HIDE DEF pages
  <2>7. Takes(d, {}, pages, pages)
    BY <2>2, <2>4, <2>5, <2>6 DEF Takes
  <2>8. Loss(d, {}, pages, pages)
    BY <2>3, <2>7 DEF Loss
  <2>9. faults \subseteq faults'
    BY <2>1
  <2>10. \A p \in pages \ pages : backing[d][p] = NoFrame
    OBVIOUS
  <2>11. PagesAreWhole' /\ FramesNotShared' /\ NoFrameLost'
    BY <2>8, <2>9, <2>10, LossKeeps
  <2>12. TypeOK'
    <3>1. /\ used' \subseteq Frame /\ root' = root
          /\ table' \in [Directory -> [TableIndex -> Frame \cup {NoTable, Stale}]]
          /\ busy' \in [Directory -> SUBSET PageIndex]
          /\ backing' \in [Directory -> [PageIndex -> Frame \cup {NoFrame}]]
      BY <1>1, <2>8, LossFacts
    <3>2. /\ root \in [Directory -> Frame \cup {NoFrame}]
          /\ closing \in [Directory -> SUBSET PageIndex]
          /\ live \subseteq Directory \X PageIndex \X PageIndex /\ faults \subseteq Faults
      BY <1>1 DEF TypeOK
    <3>3. closing' \in [Directory -> SUBSET PageIndex]
      BY <2>4, <3>2
    <3>4. faults' \subseteq Faults /\ failed' \in BOOLEAN
      BY <2>1, <3>2 DEF Faults
    <3>5. QED
      BY <2>1, <3>1, <3>2, <3>3, <3>4 DEF TypeOK
  <2>13. OnlyIn(d)
    BY <1>1, <2>1, <2>2, <2>4, TypesOfState DEF OnlyIn
  <2>14. QED
    BY <2>11, <2>12, <2>13 DEF Core
<1>3. CASE UNCHANGED <<used, pageVars, live, faults>> /\ failed' = TRUE
  <2>1. UNCHANGED <<used, root, table, busy, closing, backing, live, faults>>
    BY <1>3 DEF FreeVirtualMemory, pageVars
  <2>2. TypeOK'
    BY <1>1, <1>3, <2>1 DEF TypeOK
  <2>3. PagesAreWhole' /\ FramesNotShared' /\ NoFrameLost'
    BY <2>1 DEF Core, PagesAreWhole, FramesNotShared, NoFrameLost, Owning, Owners, FrameOf, HasTable, Created
  <2>4. QED
    BY <2>1, <2>2, <2>3 DEF Core, OnlyIn
<1>4. QED
  BY <1>2, <1>3 DEF FreeVirtualMemory
(* The same as before, of a step that leaves everything alone. *)
LEMMA CoreUnchanged ==
  ASSUME Core, UNCHANGED <<used, root, table, busy, closing, backing, live, faults>>, failed' \in BOOLEAN
  PROVE  Core'
<1>1. TypeOK'
  BY DEF Core, TypeOK
<1>2. PagesAreWhole'
  BY DEF Core, PagesAreWhole, HasTable
<1>3. Owners' = Owners
  BY DEF Owners, Created
<1>4. \A o \in Owners : FrameOf(o)' = FrameOf(o)
  BY FrameOfOwner, OwnersByKind
<1>5. \A o : o \in Owning' <=> o \in Owning
  BY <1>3, <1>4 DEF Owning
<1>6. \A o \in Owning : FrameOf(o)' = FrameOf(o)
  BY <1>4 DEF Owning
<1>7. FramesNotShared'
  BY <1>5, <1>6 DEF Core, FramesNotShared
<1>8. NoFrameLost'
  BY <1>5, <1>6 DEF Core, NoFrameLost
<1>9. QED
  BY <1>1, <1>2, <1>7, <1>8 DEF Core

LEMMA AllocateKeeps ==
  ASSUME Core, NEW d \in Directory, NEW bytes \in Requests, AllocateVirtualMemory(d, bytes)
  PROVE  Core' /\ OnlyIn(d)
<1> DEFINE count == PagesFor(bytes)
<1>1. count \in Nat \ {0}
  BY VmmAssumption, PagesForIsPositive
<1>2. UNCHANGED root
  BY DEF AllocateVirtualMemory
<1> HIDE DEF count
<1>3. ASSUME NEW first \in PageIndex, IsFirstFree(d, first, count),
             IF Cardinality(Demands(d, first .. first + count - 1)) <= Cardinality(Free)
               THEN Grant(d, first, first .. first + count - 1)
               ELSE RollBack(d, first, first .. first + count - 1)
      PROVE  Core' /\ OnlyIn(d)
  <2>1. CASE Cardinality(Demands(d, first .. first + count - 1)) <= Cardinality(Free)
    BY <1>1, <1>2, <1>3, <2>1, GrantKeeps
  <2>2. CASE ~(Cardinality(Demands(d, first .. first + count - 1)) <= Cardinality(Free))
    BY <1>1, <1>2, <1>3, <2>2, RollBackKeeps
  <2>3. QED
    BY <2>1, <2>2
<1>4. ASSUME failed' = TRUE, UNCHANGED <<used, table, pageVars, live, faults>>
      PROVE  Core' /\ OnlyIn(d)
  <2>1. UNCHANGED <<used, root, table, busy, closing, backing, live, faults>>
    BY <1>2, <1>4 DEF pageVars
  <2>2. Core'
    BY <1>4, <2>1, CoreUnchanged
  <2>3. QED
    BY <2>1, <2>2 DEF OnlyIn
<1>5. QED
  BY <1>3, <1>4, Zenon DEF AllocateVirtualMemory, count

(* A page that AllocateVirtualMemoryToPage may take lies in a table that it *)
(* has visited: up to there all pages were counted.                        *)
LEMMA TakenAreVisited ==
  ASSUME NEW d, NEW page \in PageIndex, NEW count \in Nat \ {0}, NEW p \in page .. page + count - 1,
         p \in PageIndex
  PROVE  TableOf(p) \in Visited(d, page, count)
<1>1. page \in Nat /\ p \in Nat
  BY PlaceOfPage
<1>2. page <= p /\ p - page < count
  BY <1>1
<1>3. TableOf(page) \in Nat /\ TableOf(p) \in TableOf(page) .. Tables - 1
  <2>1. TableOf(page) \in 0 .. Tables - 1 /\ TableOf(p) \in 0 .. Tables - 1
    BY PlaceOfPage
  <2>2. TableOf(page) <= TableOf(p)
    BY <1>2, TablesAreInOrder
  <2>3. QED
    BY <2>1, <2>2, VmmConstants
<1>4. Counted(d, page, TableOf(p)) \in SUBSET (page .. p - 1)
  <2> SUFFICES ASSUME NEW q \in PageIndex, page <= q, TableOf(q) < TableOf(p)
               PROVE  q \in page .. p - 1
    BY DEF Counted
  <2>1. q \in Nat
    BY PlaceOfPage
  <2>2. TableOf(q) \in Int /\ TableOf(p) \in Int
    BY PlaceOfPage
  <2>3. ~(p <= q)
    BY <2>2, TablesAreInOrder
  <2>4. QED
    BY <1>1, <2>1, <2>3
<1>5. IsFiniteSet(page .. p - 1) /\ Cardinality(page .. p - 1) = p - page
  <2>1. p - 1 \in Int /\ page \in Int
    BY <1>1
  <2>2. /\ IsFiniteSet(page .. p - 1)
        /\ Cardinality(page .. p - 1) = IF page > p - 1 THEN 0 ELSE (p - 1) - page + 1
    BY <2>1, FS_Interval
  <2>3. QED
    BY <1>1, <1>2, <2>2
<1>6. Cardinality(Counted(d, page, TableOf(p))) <= p - page
  BY <1>4, <1>5, FS_Subset
<1>7. Cardinality(Counted(d, page, TableOf(p))) \in Nat
  BY <1>4, <1>5, FS_Subset, FS_CardinalityType
<1>8. Cardinality(Counted(d, page, TableOf(p))) < count
  BY <1>1, <1>2, <1>6, <1>7
<1>9. QED
  BY <1>3, <1>8 DEF Visited
(* Allocation to a page: what it takes, tables first and then pages, is no *)
(* more than there is.                                                     *)
LEMMA ToPageKeeps ==
  ASSUME Core, NEW d \in Directory, NEW page \in PageIndex, NEW bytes \in Nat, bytes + FrameSize < Word,
         AllocateVirtualMemoryToPage(d, page, bytes), UNCHANGED root
  PROVE  /\ Core' /\ OnlyIn(d)
         /\ ~failed' => \A p \in page .. page + PagesFor(bytes) - 1 : backing'[d][p] \in Frame
<1> DEFINE count  == PagesFor(bytes)
           range  == page .. page + count - 1
           lacked == {t \in Visited(d, page, count) : ~HasTable(d, t)}
           tables == {t \in lacked : Cardinality({u \in lacked : u <= t}) <= Cardinality(Free)}
           pages  == IF tables # lacked \/ ~MayTake(d, range) THEN {}
                     ELSE {p \in range : Cardinality(tables) + p - page + 1 <= Cardinality(Free)}
           supply == Supply(Wanted(tables, pages))
<1>1. TypeOK
  BY DEF Core
<1>2. count \in Nat \ {0}
  BY PagesForIsPositive
<1>3. page \in Nat /\ TableOf(page) \in 0 .. Tables - 1
  BY PlaceOfPage
<1> HIDE DEF count
<1>4. /\ used'  = used \cup {supply[x] : x \in Wanted(tables, pages)}
      /\ table' = [table EXCEPT ![d] = [t \in TableIndex |->
                     IF t \in tables THEN supply[<<"table", t>>] ELSE @[t]]]
      /\ busy'    = [busy EXCEPT ![d] = @ \cup pages]
      /\ closing' = [closing EXCEPT ![d] = @ \cup (IF pages = range THEN {LastOf(page, count)} ELSE {})]
      /\ backing' = [backing EXCEPT ![d] = [p \in PageIndex |->
                     IF p \in pages THEN supply[<<"page", p>>] ELSE @[p]]]
      /\ failed'  = (pages # range)
      /\ live'    = live \cup (IF pages = range THEN {<<d, page, page + count - 1>>} ELSE {})
      /\ faults'  = faults \cup (IF tables # lacked \/ (pages # range /\ MayTake(d, range))
                                   THEN {"starved"} ELSE {})
  BY Zenon DEF AllocateVirtualMemoryToPage, Wanted, count
<1> HIDE DEF supply
<1>5. lacked \in SUBSET TableIndex
  <2>1. Visited(d, page, count) \subseteq TableIndex
    BY <1>3, VmmConstants DEF Visited, TableIndex
  <2>2. QED
    BY <2>1
<1>6. \A t \in lacked : ~HasTable(d, t)
  OBVIOUS
<1>7. PICK n \in Nat : n = Cardinality(Free)
  <2>1. IsFiniteSet(Free)
    BY VmmConstants, FS_Difference DEF Free
  <2>2. QED
    BY <2>1, FS_CardinalityType
<1>8. range # {} /\ page \in range /\ page + count - 1 \in range
  BY <1>2, <1>3
<1>9. ASSUME range \subseteq PageIndex, NEW p \in range
      PROVE  TableOf(p) \in lacked \/ HasTable(d, TableOf(p))
  <2>1. TableOf(p) \in Visited(d, page, count)
    BY <1>2, <1>9, TakenAreVisited
  <2>2. QED
    BY <2>1
<1> HIDE DEF lacked
<1>10. tables \in SUBSET TableIndex /\ tables \subseteq lacked
  BY <1>5
<1>11. IsFiniteSet(tables) /\ Cardinality(tables) \in Nat /\ Cardinality(tables) <= n
  <2>1. Cardinality(tables) <= n
    BY <1>5, <1>7, RankBounds
  <2>2. QED
    BY <1>10, <2>1, TablesAreFinite
<1> HIDE DEF tables
<1>12. /\ pages \subseteq range
       /\ pages # {} => tables = lacked /\ range \subseteq PageIndex /\ range \cap busy[d] = {}
  BY DEF MayTake
<1>13. pages \in SUBSET PageIndex
  BY <1>12
<1>14. pages \in SUBSET (page .. page + (n - Cardinality(tables)) - 1)
  <2> SUFFICES ASSUME NEW p \in pages
               PROVE  p \in page .. page + (n - Cardinality(tables)) - 1
    OBVIOUS
  <2>1. p \in range /\ Cardinality(tables) + p - page + 1 <= n
    BY <1>7
  <2>2. PICK m \in Nat : m = Cardinality(tables) /\ m <= n
    BY <1>11
  <2>3. p \in Int /\ page <= p /\ m + p - page + 1 <= n
    BY <1>3, <2>1, <2>2
  <2>4. QED
    BY <1>3, <2>2, <2>3
<1> HIDE DEF pages, range
<1>15. PICK m \in Nat : m = n - Cardinality(tables) /\ Cardinality(tables) + m = n
  BY <1>11
<1>16. IsFiniteSet(page .. page + m - 1) /\ Cardinality(page .. page + m - 1) = m
  BY <1>3, RangesAreFinite
<1>17. IsFiniteSet(pages) /\ Cardinality(pages) <= m /\ Cardinality(pages) \in Nat
  BY <1>14, <1>15, <1>16, FS_Subset, FS_CardinalityType
<1>18. Supplies(supply, Wanted(tables, pages))
  <2>1. /\ IsFiniteSet(Wanted(tables, pages))
        /\ Cardinality(Wanted(tables, pages)) \in Nat
        /\ Cardinality(Wanted(tables, pages)) <= Cardinality(tables) + Cardinality(pages)
    BY <1>11, <1>17, WantedIsFinite
  <2>2. Cardinality(Wanted(tables, pages)) <= Cardinality(Free)
    BY <1>7, <1>11, <1>15, <1>17, <2>1
  <2>3. QED
    BY <2>1, <2>2, SupplyMeets DEF Supplies, supply
<1>19. Gives(d, tables, pages, supply)
  BY <1>4 DEF Gives
<1>20. \A t \in tables : ~HasTable(d, t)
  BY <1>6, <1>10
<1>21. \A p \in pages : HasTable(d, TableOf(p)) \/ TableOf(p) \in tables
  BY <1>9, <1>12
<1>22. Gift(d, tables, pages, supply)
  BY <1>10, <1>13, <1>18, <1>19, <1>20, <1>21 DEF Gift
<1>23. faults \subseteq faults' /\ (pages \cap busy[d] # {} => "overlap" \in faults')
  BY <1>4, <1>12
<1>24. PagesAreWhole' /\ FramesNotShared' /\ NoFrameLost'
  BY <1>22, <1>23, GiftKeeps
<1>25. pages = range => page + count - 1 \in PageIndex /\ LastOf(page, count) \in PageIndex
  BY <1>8, <1>12 DEF LastOf
<1>26. TypeOK'
  <2>1. /\ used' \subseteq Frame /\ root' = root
        /\ table' \in [Directory -> [TableIndex -> Frame \cup {NoTable, Stale}]]
        /\ busy' \in [Directory -> SUBSET PageIndex]
        /\ backing' \in [Directory -> [PageIndex -> Frame \cup {NoFrame}]]
    BY <1>1, <1>22, GiftFacts
  <2>2. /\ root \in [Directory -> Frame \cup {NoFrame}]
        /\ closing \in [Directory -> SUBSET PageIndex]
        /\ live \subseteq Directory \X PageIndex \X PageIndex /\ faults \subseteq Faults
    BY <1>1 DEF TypeOK
  <2>3. closing' \in [Directory -> SUBSET PageIndex]
    BY <1>4, <1>25, <2>2
  <2>4. live' \subseteq Directory \X PageIndex \X PageIndex
    BY <1>4, <1>25, <2>2
  <2>5. faults' \subseteq Faults /\ failed' \in BOOLEAN
    BY <1>4, <2>2 DEF Faults
  <2>6. QED
    BY <2>1, <2>2, <2>3, <2>4, <2>5 DEF TypeOK
<1>27. OnlyIn(d)
  <2> SUFFICES ASSUME NEW e \in Directory, e # d
               PROVE  /\ busy'[e] = busy[e] /\ closing'[e] = closing[e] /\ table'[e] = table[e]
                      /\ root'[e] = root[e] /\ \A b \in live' : b[1] = e => b \in live
    BY DEF OnlyIn
  <2>1. busy'[e] = busy[e] /\ closing'[e] = closing[e]
    BY <1>1, <1>4, TypesOfState
  <2>2. table'[e] = table[e]
    BY <1>1, <1>4, TypesOfState
  <2>3. \A b \in live' : b[1] = e => b \in live
    BY <1>4
  <2>4. QED
    BY <2>1, <2>2, <2>3
<1>28. ~failed' => \A p \in range : backing'[d][p] \in Frame
  <2>1. Given(d, tables, pages, supply)
    BY <1>1, <1>22, GiftFacts
  <2>2. \A p \in pages : backing'[d][p] \in Frame
    BY <2>1 DEF Given, Free
  <2>3. QED
    BY <1>4, <2>2
<1>29. QED
  BY <1>24, <1>26, <1>27, <1>28 DEF Core, range, count
(* What is where after a directory has been created: it has tables for the *)
(* kernel's pages, all of them its own, and pages of nobody else.          *)
Founded(d, tables, supply) ==
  /\ supply[<<"directory", d>>] \in Free /\ root'[d] = supply[<<"directory", d>>]
  /\ \A e \in Directory : e # d =>
       root'[e] = root[e] /\ table'[e] = table[e] /\ busy'[e] = busy[e]
  /\ \A t \in tables : supply[<<"table", t>>] \in Free /\ table'[d][t] = supply[<<"table", t>>]
  /\ \A t \in TableIndex \ tables : table'[d][t] = NoTable
  /\ busy'[d] = Reserved

LEMMA CreateKeeps ==
  ASSUME Core, NothingBefore, NEW d \in Directory, CreateDirectory(d)
  PROVE  Core' /\ OnlyIn(d) /\ Created(d)'
<1> DEFINE tables == TablesOf(Reserved)
           wanted == {<<"table", t>> : t \in tables} \cup {<<"directory", d>>}
           supply == Supply(wanted)
<1>1. TypeOK /\ PagesAreWhole /\ FramesNotShared /\ NoFrameLost
  BY DEF Core
<1>2. /\ ~Created(d) /\ Cardinality(wanted) <= Cardinality(Free)
      /\ used'  = used \cup {supply[x] : x \in wanted}
      /\ root'  = [root EXCEPT ![d] = supply[<<"directory", d>>]]
      /\ table' = [table EXCEPT ![d] = [t \in TableIndex |->
                     IF t \in tables THEN supply[<<"table", t>>] ELSE NoTable]]
      /\ busy'  = [busy EXCEPT ![d] = Reserved]
      /\ failed' = FALSE
      /\ closing' = closing /\ backing' = backing /\ live' = live /\ faults' = faults
  BY Zenon DEF CreateDirectory
<1>3. tables \in SUBSET TableIndex
  BY VmmConstants, TableOfPage DEF TablesOf
<1>4. \A p \in Reserved : TableOf(p) \in tables
  BY DEF TablesOf
<1> HIDE DEF tables, supply
<1>5. /\ \A t \in tables : <<"table", t>> \in wanted
      /\ <<"directory", d>> \in wanted
      /\ \A x \in wanted : x = <<"directory", d>> \/ \E t \in tables : x = <<"table", t>>
  OBVIOUS
<1>6. IsFiniteSet(wanted)
  <2>1. IsFiniteSet(tables) /\ IsFiniteSet({})
    BY <1>3, TablesAreFinite, FS_EmptySet
  <2>2. IsFiniteSet(Wanted(tables, {}))
    BY <2>1, WantedIsFinite
  <2>3. wanted = Wanted(tables, {}) \cup {<<"directory", d>>}
    BY DEF Wanted
  <2>4. IsFiniteSet(Wanted(tables, {}) \cup {<<"directory", d>>})
    BY <2>2, FS_AddElement
  <2>5. QED
    BY <2>3, <2>4
<1> HIDE DEF wanted
<1>7. /\ supply \in [wanted -> Free]
      /\ \A x, y \in wanted : supply[x] = supply[y] => x = y
  BY <1>2, <1>6, SupplyMeets DEF supply
<1>8. Free \subseteq Frame
  BY DEF Free
<1>9. Founded(d, tables, supply)
  <2>1. /\ supply[<<"directory", d>>] \in Free
        /\ \A t \in tables : supply[<<"table", t>>] \in Free
    BY <1>5, <1>7
  <2>2. root'[d] = supply[<<"directory", d>>] /\ \A e \in Directory : e # d => root'[e] = root[e]
    BY <1>1, <1>2, TypesOfState
  <2>3. busy'[d] = Reserved /\ \A e \in Directory : e # d => busy'[e] = busy[e]
    BY <1>1, <1>2, TypesOfState
  <2> DEFINE row == [t \in TableIndex |-> IF t \in tables THEN supply[<<"table", t>>] ELSE NoTable]
  <2>4. \A t \in TableIndex : row[t] = IF t \in tables THEN supply[<<"table", t>>] ELSE NoTable
    OBVIOUS
  <2>5. table' = [table EXCEPT ![d] = row]
    BY <1>2
  <2> HIDE DEF row
  <2>6. table'[d] = row /\ \A e \in Directory : e # d => table'[e] = table[e]
    BY <1>1, <2>5, TypesOfState
  <2>7. QED
    BY <1>3, <2>1, <2>2, <2>3, <2>4, <2>6 DEF Founded
<1>10. /\ supply[<<"directory", d>>] \in Free /\ root'[d] = supply[<<"directory", d>>]
       /\ \A e \in Directory : e # d =>
            root'[e] = root[e] /\ table'[e] = table[e] /\ busy'[e] = busy[e]
       /\ \A t \in tables : supply[<<"table", t>>] \in Free /\ table'[d][t] = supply[<<"table", t>>]
       /\ \A t \in TableIndex \ tables : table'[d][t] = NoTable
       /\ busy'[d] = Reserved
  BY <1>9 DEF Founded
<1>11. /\ root[d] = NoFrame /\ \A t \in TableIndex : table[d][t] \notin Frame
       /\ \A p \in PageIndex : backing[d][p] = NoFrame
  <2>1. busy[d] = {} /\ \A t \in TableIndex : table[d][t] \notin Frame
    BY <1>2 DEF NothingBefore, HasTable
  <2>2. \A p \in PageIndex : backing[d][p] = NoFrame
    BY <1>1, <2>1 DEF PagesAreWhole
  <2>3. QED
    BY <1>2, <2>1, <2>2 DEF Created
<1>12. TypeOK'
  <2>1. TypeOK
    BY <1>1
  <2>2. used' \subseteq Frame
    <3>1. \A x \in wanted : supply[x] \in Frame
      BY <1>7, <1>8
    <3>2. QED
      BY <1>1, <1>2, <3>1, TypesOfState
  <2>3. root' \in [Directory -> Frame \cup {NoFrame}]
    BY <1>1, <1>2, <1>8, <1>10, TypesOfState
  <2>4. busy' \in [Directory -> SUBSET PageIndex]
    BY <1>1, <1>2, VmmConstants, TypesOfState
  <2>5. table' \in [Directory -> [TableIndex -> Frame \cup {NoTable, Stale}]]
    <3> DEFINE row == [t \in TableIndex |-> IF t \in tables THEN supply[<<"table", t>>] ELSE NoTable]
    <3>1. row \in [TableIndex -> Frame \cup {NoTable, Stale}]
      BY <1>8, <1>10
    <3>2. table' = [table EXCEPT ![d] = row]
      BY <1>2
    <3> HIDE DEF row
    <3>3. QED
      BY <1>1, <3>1, <3>2, TypesOfState
  <2>6. QED
    BY <1>2, <2>1, <2>2, <2>3, <2>4, <2>5 DEF TypeOK
<1>13. PagesAreWhole'
  <2>1. ASSUME NEW e \in Directory, NEW p \in PageIndex, backing'[e][p] # NoFrame
        PROVE  p \in busy'[e]
    <3>1. e # d /\ busy'[e] = busy[e] /\ backing[e][p] # NoFrame
      BY <1>2, <1>10, <1>11, <2>1
    <3>2. QED
      BY <1>1, <3>1 DEF PagesAreWhole
  <2>2. ASSUME NEW e \in Directory, NEW p \in busy'[e] PROVE table'[e][TableOf(p)] \in Frame
    <3>1. CASE e = d
      <4>1. p \in Reserved
        BY <1>10, <2>2, <3>1
      <4>2. TableOf(p) \in tables
        BY <1>4, <4>1
      <4>3. QED
        BY <1>8, <1>10, <3>1, <4>2
    <3>2. CASE e # d
      <4>1. p \in busy[e] /\ table'[e] = table[e]
        BY <1>10, <2>2, <3>2
      <4>2. QED
        BY <1>1, <4>1 DEF PagesAreWhole, HasTable
    <3>3. QED
      BY <3>1, <3>2
  <2>3. ASSUME NEW e \in Directory, NEW p \in busy'[e], p \notin Reserved PROVE backing'[e][p] \in Frame
    <3>1. e # d /\ p \in busy[e]
      BY <1>10, <2>3
    <3>2. QED
      BY <1>1, <1>2, <2>3, <3>1 DEF PagesAreWhole
  <2>4. QED
    BY <2>1, <2>2, <2>3 DEF PagesAreWhole, HasTable
<1> DEFINE given == {<<"table", d, t>> : t \in tables} \cup {<<"directory", d, 0>>}
<1>14. ASSUME NEW o \in given
       PROVE  \E x \in wanted : /\ FrameOf(o)' = supply[x]
                                /\ o = <<"directory", d, 0>> => x = <<"directory", d>>
                                /\ \A t \in tables : o = <<"table", d, t>> => x = <<"table", t>>
  <2>1. CASE o = <<"directory", d, 0>>
    <3>1. FrameOf(o)' = supply[<<"directory", d>>]
      BY <1>10, <2>1, FrameOfOwner
    <3>2. \A t \in tables : o # <<"table", d, t>>
      BY <2>1
    <3>3. QED
      BY <1>5, <3>1, <3>2
  <2>2. CASE \E t \in tables : o = <<"table", d, t>>
    <3>1. PICK t \in tables : o = <<"table", d, t>>
      BY <2>2
    <3>2. FrameOf(o)' = supply[<<"table", t>>]
      BY <1>10, <3>1, FrameOfOwner
    <3>3. o # <<"directory", d, 0>> /\ \A u \in tables : o = <<"table", d, u>> => u = t
      BY <3>1
    <3>4. QED
      BY <1>5, <3>2, <3>3
  <2>3. QED
    BY <2>1, <2>2
<1>15. \A o \in given : FrameOf(o)' \in Free
  BY <1>7, <1>14
<1>16. ASSUME NEW o \in given, NEW p \in given, FrameOf(o)' = FrameOf(p)' PROVE o = p
  <2>1. PICK x \in wanted : /\ FrameOf(o)' = supply[x]
                            /\ o = <<"directory", d, 0>> => x = <<"directory", d>>
                            /\ \A t \in tables : o = <<"table", d, t>> => x = <<"table", t>>
    BY <1>14
  <2>2. PICK y \in wanted : /\ FrameOf(p)' = supply[y]
                            /\ p = <<"directory", d, 0>> => y = <<"directory", d>>
                            /\ \A t \in tables : p = <<"table", d, t>> => y = <<"table", t>>
    BY <1>14
  <2>3. x = y
    BY <1>7, <1>16, <2>1, <2>2
  <2>4. CASE o = <<"directory", d, 0>>
    <3>1. x = <<"directory", d>>
      BY <2>1, <2>4
    <3>2. \A t \in tables : p # <<"table", d, t>>
      BY <2>2, <2>3, <3>1
    <3>3. QED
      BY <2>4, <3>2
  <2>5. CASE \E t \in tables : o = <<"table", d, t>>
    <3>1. PICK t \in tables : o = <<"table", d, t>>
      BY <2>5
    <3>2. x = <<"table", t>>
      BY <2>1, <3>1
    <3>3. p # <<"directory", d, 0>>
      BY <2>2, <2>3, <3>2
    <3>4. PICK u \in tables : p = <<"table", d, u>>
      BY <3>3
    <3>5. u = t
      BY <2>2, <2>3, <3>2, <3>4
    <3>6. QED
      BY <3>1, <3>4, <3>5
  <2>6. QED
    BY <2>4, <2>5
<1>17. ASSUME NEW o \in Owning'
       PROVE  o \in given \/ (o \in Owning /\ FrameOf(o)' = FrameOf(o))
  <2>1. o \in Owners' /\ FrameOf(o)' \in Frame
    BY <1>17 DEF Owning
  <2>2. CASE \E e \in Directory : o = <<"directory", e, 0>> /\ Created(e)'
    <3>1. PICK e \in Directory : o = <<"directory", e, 0>>
      BY <2>2
    <3>2. FrameOf(o) = root[e] /\ FrameOf(o)' = root'[e]
      BY <3>1, FrameOfOwner
    <3>3. CASE e = d
      BY <3>1, <3>3
    <3>4. CASE e # d
      BY <1>10, <2>1, <3>1, <3>2, <3>4, OwningByKind
    <3>5. QED
      BY <3>3, <3>4
  <2>3. CASE \E e \in Directory, t \in TableIndex : o = <<"table", e, t>>
    <3>1. PICK e \in Directory, t \in TableIndex : o = <<"table", e, t>>
      BY <2>3
    <3>2. FrameOf(o) = table[e][t] /\ FrameOf(o)' = table'[e][t]
      BY <3>1, FrameOfOwner
    <3>3. CASE e = d
      <4>1. t \in tables
        BY <1>10, <2>1, <3>2, <3>3, VmmConstants
      <4>2. QED
        BY <3>1, <3>3, <4>1
    <3>4. CASE e # d
      BY <1>10, <2>1, <3>1, <3>2, <3>4, OwningByKind
    <3>5. QED
      BY <3>3, <3>4
  <2>4. CASE \E e \in Directory, p \in PageIndex : o = <<"page", e, p>>
    <3>1. PICK e \in Directory, p \in PageIndex : o = <<"page", e, p>>
      BY <2>4
    <3>2. FrameOf(o) = backing[e][p] /\ FrameOf(o)' = backing'[e][p]
      BY <3>1, FrameOfOwner
    <3>3. QED
      BY <1>2, <2>1, <3>1, <3>2, OwningByKind
  <2>5. QED
    BY <2>1, <2>2, <2>3, <2>4, OwnersByKindLater
<1> HIDE DEF given
<1>18. \A o \in Owning' : FrameOf(o)' \in used'
  <2> SUFFICES ASSUME NEW o \in Owning' PROVE FrameOf(o)' \in used'
    OBVIOUS
  <2>1. CASE o \in given
    BY <1>2, <1>14, <2>1
  <2>2. CASE o \in Owning /\ FrameOf(o)' = FrameOf(o)
    BY <1>1, <1>2, <2>2 DEF FramesNotShared
  <2>3. QED
    BY <1>17, <2>1, <2>2
<1>19. FramesNotShared'
  BY <1>1, <1>15, <1>16, <1>17, <1>18, StillNotShared
<1>20. NoFrameLost'
  <2> SUFFICES ASSUME faults \cap {"overlap", "uprooted"} = {}, NEW f \in used'
               PROVE  \E o \in Owning' : FrameOf(o)' = f
    BY <1>2 DEF NoFrameLost
  <2>1. CASE f \in used
    <3>1. PICK o \in Owning : FrameOf(o) = f
      BY <1>1, <2>1 DEF NoFrameLost
    <3>2. o \in Owners /\ FrameOf(o) \in Frame
      BY DEF Owning
    <3>3. CASE \E e \in Directory : o = <<"directory", e, 0>>
      <4>1. PICK e \in Directory : o = <<"directory", e, 0>>
        BY <3>3
      <4>2. root[e] = f /\ root[e] \in Frame
        BY <3>1, <3>2, <4>1, FrameOfOwner
      <4>3. root'[e] = f /\ root'[e] \in Frame
        BY <1>10, <1>11, <4>2, VmmConstants
      <4>4. QED
        BY <4>1, <4>3, OwningByKindLater, FrameOfOwner
    <3>4. CASE \E e \in Directory, t \in TableIndex : o = <<"table", e, t>>
      <4>1. PICK e \in Directory, t \in TableIndex : o = <<"table", e, t>>
        BY <3>4
      <4>2. table[e][t] = f /\ table[e][t] \in Frame
        BY <3>1, <3>2, <4>1, FrameOfOwner
      <4>3. table'[e][t] = f /\ table'[e][t] \in Frame
        BY <1>10, <1>11, <4>2
      <4>4. QED
        BY <4>1, <4>3, OwningByKindLater, FrameOfOwner
    <3>5. CASE \E e \in Directory, p \in PageIndex : o = <<"page", e, p>>
      <4>1. PICK e \in Directory, p \in PageIndex : o = <<"page", e, p>>
        BY <3>5
      <4>2. backing'[e][p] = f /\ backing'[e][p] \in Frame
        BY <1>2, <3>1, <3>2, <4>1, FrameOfOwner
      <4>3. QED
        BY <4>1, <4>2, OwningByKindLater, FrameOfOwner
    <3>6. QED
      BY <3>2, <3>3, <3>4, <3>5, OwnersByKind
  <2>2. CASE f \notin used
    <3>1. PICK x \in wanted : f = supply[x]
      BY <1>2, <2>2
    <3>2. f \in Frame
      BY <1>7, <1>8, <3>1
    <3>3. CASE x = <<"directory", d>>
      <4>1. root'[d] = f
        BY <1>10, <3>1, <3>3
      <4>2. QED
        BY <3>2, <4>1, OwningByKindLater, FrameOfOwner
    <3>4. CASE \E t \in tables : x = <<"table", t>>
      <4>1. PICK t \in tables : x = <<"table", t>>
        BY <3>4
      <4>2. table'[d][t] = f /\ t \in TableIndex
        BY <1>3, <1>10, <3>1, <4>1
      <4>3. QED
        BY <3>2, <4>2, OwningByKindLater, FrameOfOwner
    <3>5. QED
      BY <1>5, <3>3, <3>4
  <2>3. QED
    BY <2>1, <2>2
<1>21. OnlyIn(d)
  BY <1>2, <1>10 DEF OnlyIn
<1>22. Created(d)'
  BY <1>8, <1>10, VmmConstants DEF Created
<1>23. QED
  BY <1>12, <1>13, <1>19, <1>20, <1>21, <1>22 DEF Core
-----------------------------------------------------------------------------
(* The inductive invariant. *)
KeptInv == Core /\ NothingBefore /\ LoadingOK

LEMMA KeptInit == Init => KeptInv
<1> SUFFICES ASSUME Init PROVE KeptInv
  OBVIOUS
<1>1. /\ used = {}
      /\ root    = [d \in Directory |-> NoFrame]
      /\ table   = [d \in Directory |-> [t \in TableIndex |-> NoTable]]
      /\ busy    = [d \in Directory |-> {}]
      /\ closing = [d \in Directory |-> {}]
      /\ backing = [d \in Directory |-> [p \in PageIndex |-> NoFrame]]
      /\ live = {} /\ failed = FALSE /\ faults = {}
  BY DEF Init
<1>2. TypeOK
  BY <1>1 DEF TypeOK
<1>3. PagesAreWhole
  BY <1>1 DEF PagesAreWhole
<1>4. Owning = {}
  <2>1. ASSUME NEW o \in Owning PROVE FALSE
    <3>1. o \in Owners /\ FrameOf(o) \in Frame
      BY DEF Owning
    <3>2. ~\E d \in Directory : o = <<"directory", d, 0>>
      BY <1>1, <3>1, FrameOfOwner, VmmConstants
    <3>3. ~\E d \in Directory, t \in TableIndex : o = <<"table", d, t>>
      BY <1>1, <3>1, FrameOfOwner, VmmConstants
    <3>4. ~\E d \in Directory, p \in PageIndex : o = <<"page", d, p>>
      BY <1>1, <3>1, FrameOfOwner, VmmConstants
    <3>5. QED
      BY <3>1, <3>2, <3>3, <3>4, OwnersByKind
  <2>2. QED
    BY <2>1
<1>5. FramesNotShared /\ NoFrameLost
  BY <1>1, <1>4 DEF FramesNotShared, NoFrameLost
<1>6. NothingBefore
  BY <1>1, VmmConstants DEF NothingBefore, HasTable
<1>7. LoadingOK
  <2>1. loading = Idle
    BY DEF Init
  <2>2. /\ loading.next = 0 /\ loading.program = [first |-> 0, count |-> 0]
    BY <2>1 DEF Idle
  <2>3. loading.program.first = 0 /\ loading.program.count = 0
    BY <2>2
  <2>4. loading = [directory |-> loading.directory, program |-> loading.program, next |-> loading.next]
    BY <2>1 DEF Idle
  <2>5. QED
    BY <2>2, <2>3, <2>4 DEF LoadingOK, Busy
<1>8. QED
  BY <1>2, <1>3, <1>5, <1>6, <1>7 DEF KeptInv, Core

(* The next page of the program being loaded is one of its pages. *)
LEMMA NextIsPage ==
  ASSUME LoadingOK, Busy
  PROVE  /\ loading.directory \in Directory /\ Created(loading.directory)
         /\ loading.next \in PageIndex /\ loading.next \notin Reserved
<1>1. /\ loading.next \in Nat /\ loading.program \in Programs
      /\ loading.program.first <= loading.next
      /\ loading.next < loading.program.first + loading.program.count
      /\ loading.directory \in Directory /\ Created(loading.directory)
  BY DEF LoadingOK, Busy
<1>2. PICK a \in Nat, c \in Nat : /\ a = loading.program.first /\ c = loading.program.count
                                  /\ a .. a + c - 1 \subseteq PageIndex \ Reserved
  BY <1>1, ProgramAssumption
<1>3. loading.next \in a .. a + c - 1
  BY <1>1, <1>2
<1>4. QED
  BY <1>1, <1>2, <1>3

LEMMA LoadingUnchanged ==
  ASSUME LoadingOK, UNCHANGED loading, \A d \in Directory : Created(d) => Created(d)'
  PROVE  LoadingOK'
BY DEF LoadingOK, Busy

LEMMA KeptStep == KeptInv /\ [Next]_vars => KeptInv'
<1> SUFFICES ASSUME KeptInv, [Next]_vars PROVE KeptInv'
  OBVIOUS
<1>1. Core /\ NothingBefore /\ LoadingOK /\ TypeOK
  BY DEF KeptInv, Core
<1>2. ASSUME NEW d \in Directory, CreateDirectory(d) PROVE KeptInv'
  <2>1. Core' /\ OnlyIn(d) /\ Created(d)'
    BY <1>1, <1>2, CreateKeeps
  <2>2. NothingBefore'
    BY <1>1, <2>1, NothingBeforeKept
  <2>3. loading' = loading
    BY <1>2 DEF CreateDirectory
  <2>4. \A e \in Directory : Created(e) => Created(e)'
    BY <2>1 DEF OnlyIn, Created
  <2>5. QED
    BY <1>1, <2>1, <2>2, <2>3, <2>4, LoadingUnchanged DEF KeptInv
<1>3. ASSUME NEW d \in Directory, NEW program \in Programs, StartLoading(d, program) PROVE KeptInv'
  <2>1. /\ UNCHANGED <<used, root, table, busy, closing, backing, live, failed, faults>>
        /\ Created(d) /\ loading' = [directory |-> d, program |-> program, next |-> program.first]
    BY <1>3 DEF StartLoading, pageVars
  <2>2. Core'
    BY <1>1, <2>1, CoreUnchanged DEF TypeOK
  <2>3. NothingBefore'
    BY <1>1, <2>1 DEF NothingBefore, Created, HasTable
  <2>4. /\ loading'.directory = d /\ loading'.program = program /\ loading'.next = program.first
    BY <2>1
  <2>5. program.first \in Nat /\ program.count \in Nat
    BY ProgramAssumption
  <2>6. Created(d)'
    BY <2>1 DEF Created
  <2>7. LoadingOK'
    <3>1. loading' = [directory |-> loading'.directory, program |-> loading'.program, next |-> loading'.next]
      BY <2>1
    <3>2. QED
      BY <2>4, <2>5, <2>6, <3>1 DEF LoadingOK
  <2>8. QED
    BY <2>2, <2>3, <2>7 DEF KeptInv
<1>4. ASSUME LoadPage PROVE KeptInv'
  <2>1. /\ Busy /\ root' = root /\ loading' = [loading EXCEPT !.next = @ + 1]
        /\ AllocateVirtualMemoryToPage(loading.directory, loading.next, FrameSize)
    BY <1>4 DEF LoadPage
  <2>2. PICK d \in Directory, page \in PageIndex : d = loading.directory /\ page = loading.next /\ Created(d)
    BY <1>1, <2>1, NextIsPage
  <2>3. FrameSize \in Nat /\ FrameSize + FrameSize < Word
    BY VmmAssumption
  <2>4. Core' /\ OnlyIn(d)
    BY <1>1, <2>1, <2>2, <2>3, ToPageKeeps
  <2>5. \A e \in Directory : Created(e)' <=> Created(e)
    BY <2>1 DEF Created
  <2>6. NothingBefore'
    BY <1>1, <2>2, <2>4, <2>5, NothingBeforeKept
  <2>7. LoadingOK'
    BY <1>1, <2>1, <2>5 DEF LoadingOK, Busy
  <2>8. QED
    BY <2>4, <2>6, <2>7 DEF KeptInv
<1>5. ASSUME NEW d \in Directory, NEW bytes \in Requests, AllocateVirtualMemory(d, bytes) PROVE KeptInv'
  <2>1. Core' /\ OnlyIn(d)
    BY <1>1, <1>5, AllocateKeeps
  <2>2. Created(d) /\ root' = root /\ loading' = loading
    BY <1>5 DEF AllocateVirtualMemory
  <2>3. \A e \in Directory : Created(e)' <=> Created(e)
    BY <2>2 DEF Created
  <2>4. NothingBefore'
    BY <1>1, <2>1, <2>2, <2>3, NothingBeforeKept
  <2>5. QED
    BY <1>1, <2>1, <2>2, <2>3, <2>4, LoadingUnchanged DEF KeptInv
<1>6. ASSUME NEW d \in Directory, NEW page \in PageIndex, FreeVirtualMemory(d, page) PROVE KeptInv'
  <2>1. Core' /\ OnlyIn(d)
    BY <1>1, <1>6, FreeKeeps
  <2>2. Created(d) /\ root' = root /\ loading' = loading
    BY <1>6 DEF FreeVirtualMemory
  <2>3. \A e \in Directory : Created(e)' <=> Created(e)
    BY <2>2 DEF Created
  <2>4. NothingBefore'
    BY <1>1, <2>1, <2>2, <2>3, NothingBeforeKept
  <2>5. QED
    BY <1>1, <2>1, <2>2, <2>3, <2>4, LoadingUnchanged DEF KeptInv
<1>7. ASSUME UNCHANGED vars PROVE KeptInv'
  <2>1. UNCHANGED <<used, root, table, busy, closing, backing, loading, live, failed, faults>>
    BY <1>7 DEF vars, pageVars
  <2>2. Core'
    BY <1>1, <2>1, CoreUnchanged DEF TypeOK
  <2>3. NothingBefore'
    BY <1>1, <2>1 DEF NothingBefore, Created, HasTable
  <2>4. QED
    BY <1>1, <2>1, <2>2, <2>3, LoadingUnchanged DEF KeptInv, Created
<1>8. QED
  BY <1>2, <1>3, <1>4, <1>5, <1>6, <1>7, Zenon DEF Next

(* Every frame in use has one owner: a directory, a table or a page of one *)
(* address space.  Nothing owns a frame that was given back, and none is   *)
(* lost but with the faults named; whatever callers release, and however   *)
(* often memory runs out.                                                  *)
THEOREM FramesAreKeptAlways == Spec => []FramesAreKept
<1>1. Init => KeptInv
  BY KeptInit
<1>2. KeptInv /\ [Next]_vars => KeptInv'
  BY KeptStep
<1>3. KeptInv => FramesAreKept
  BY DEF KeptInv, Core, FramesAreKept
<1>4. QED
  BY <1>1, <1>2, <1>3, PTL DEF Spec
-----------------------------------------------------------------------------
(* The blocks of a directory are where its entries say. *)
Blocks(d) ==
  /\ \A b \in live : b[1] = d =>
       b[2] <= b[3] /\ \A p \in BlockPages(b) : p \notin Reserved /\ p \in busy[d] /\ backing[d][p] # NoFrame
  /\ \A b, c \in live : b[1] = d /\ c[1] = d /\ b # c => BlockPages(b) \cap BlockPages(c) = {}
  /\ \A b \in live : b[1] = d => b[3] \in closing[d]
  /\ \A c \in closing[d] : \E b \in live : b[1] = d /\ b[3] = c
  /\ \A p \in PageIndex : backing[d][p] # NoFrame => \E b \in live : b[1] = d /\ p \in BlockPages(b)
  /\ \A p \in busy[d] : p \in Reserved \/ \E b \in live : b[1] = d /\ p \in BlockPages(b)
  /\ Reserved \subseteq busy[d]

BlocksInv == faults = {} => \A d \in Directory : Created(d) => Blocks(d)

(* A step that leaves a directory and its blocks as they are. *)
SameIn(d) ==
  /\ busy'[d] = busy[d] /\ closing'[d] = closing[d]
  /\ \A p \in PageIndex : backing'[d][p] = backing[d][p]
  /\ \A b \in live : b[1] = d => b \in live'
  /\ \A b \in live' : b[1] = d => b \in live

LEMMA BlocksOfLive ==
  ASSUME TypeOK, NEW b \in live
  PROVE  /\ b = <<b[1], b[2], b[3]>> /\ b[1] \in Directory
         /\ b[2] \in PageIndex /\ b[3] \in PageIndex /\ b[2] \in Nat /\ b[3] \in Nat
         /\ BlockPages(b) \subseteq PageIndex
<1>1. b \in Directory \X PageIndex \X PageIndex
  BY DEF TypeOK
<1>2. b = <<b[1], b[2], b[3]>> /\ b[1] \in Directory /\ b[2] \in PageIndex /\ b[3] \in PageIndex
  BY <1>1
<1>3. b[2] \in Nat /\ b[3] \in Nat
  BY <1>2, PlaceOfPage
<1>4. BlockPages(b) \subseteq PageIndex
  BY <1>2, <1>3, VmmConstants DEF BlockPages, PageIndex
<1>5. QED
  BY <1>2, <1>3, <1>4

LEMMA BlocksStay ==
  ASSUME TypeOK, NEW d \in Directory, Blocks(d), SameIn(d)
  PROVE  Blocks(d)'
<1>1. /\ busy'[d] = busy[d] /\ closing'[d] = closing[d]
      /\ \A p \in PageIndex : backing'[d][p] = backing[d][p]
      /\ \A b \in live : b[1] = d => b \in live'
      /\ \A b \in live' : b[1] = d => b \in live
  BY DEF SameIn
<1>2. /\ \A b \in live : b[1] = d =>
           b[2] <= b[3] /\ \A p \in BlockPages(b) : p \notin Reserved /\ p \in busy[d] /\ backing[d][p] # NoFrame
      /\ \A b, c \in live : b[1] = d /\ c[1] = d /\ b # c => BlockPages(b) \cap BlockPages(c) = {}
      /\ \A b \in live : b[1] = d => b[3] \in closing[d]
      /\ \A c \in closing[d] : \E b \in live : b[1] = d /\ b[3] = c
      /\ \A p \in PageIndex : backing[d][p] # NoFrame => \E b \in live : b[1] = d /\ p \in BlockPages(b)
      /\ \A p \in busy[d] : p \in Reserved \/ \E b \in live : b[1] = d /\ p \in BlockPages(b)
      /\ Reserved \subseteq busy[d]
  BY DEF Blocks
<1>3. ASSUME NEW b \in live', b[1] = d
      PROVE  b[2] <= b[3] /\ \A p \in BlockPages(b) : p \notin Reserved /\ p \in busy'[d] /\ backing'[d][p] # NoFrame
  BY <1>1, <1>2, <1>3, BlocksOfLive
<1>4. \A b, c \in live' : b[1] = d /\ c[1] = d /\ b # c => BlockPages(b) \cap BlockPages(c) = {}
  BY <1>1, <1>2
<1>5. /\ \A b \in live' : b[1] = d => b[3] \in closing'[d]
      /\ \A c \in closing'[d] : \E b \in live' : b[1] = d /\ b[3] = c
  BY <1>1, <1>2
<1>6. /\ \A p \in PageIndex : backing'[d][p] # NoFrame => \E b \in live' : b[1] = d /\ p \in BlockPages(b)
      /\ \A p \in busy'[d] : p \in Reserved \/ \E b \in live' : b[1] = d /\ p \in BlockPages(b)
      /\ Reserved \subseteq busy'[d]
  BY <1>1, <1>2
<1>7. QED
  BY <1>3, <1>4, <1>5, <1>6 DEF Blocks, BlockPages

(* A block more. *)
LEMMA BlocksGrow ==
  ASSUME TypeOK, NEW d \in Directory, Blocks(d), NEW first \in PageIndex, NEW last \in PageIndex,
         first <= last, first .. last \cap busy[d] = {},
         live' = live \cup {<<d, first, last>>},
         busy'[d] = busy[d] \cup (first .. last), closing'[d] = closing[d] \cup {last},
         \A p \in PageIndex : backing'[d][p] # NoFrame <=> (p \in first .. last \/ backing[d][p] # NoFrame)
  PROVE  Blocks(d)'
<1> DEFINE new == <<d, first, last>>
<1>1. /\ \A b \in live : b[1] = d =>
           b[2] <= b[3] /\ \A p \in BlockPages(b) : p \notin Reserved /\ p \in busy[d] /\ backing[d][p] # NoFrame
      /\ \A b, c \in live : b[1] = d /\ c[1] = d /\ b # c => BlockPages(b) \cap BlockPages(c) = {}
      /\ \A b \in live : b[1] = d => b[3] \in closing[d]
      /\ \A c \in closing[d] : \E b \in live : b[1] = d /\ b[3] = c
      /\ \A p \in PageIndex : backing[d][p] # NoFrame => \E b \in live : b[1] = d /\ p \in BlockPages(b)
      /\ \A p \in busy[d] : p \in Reserved \/ \E b \in live : b[1] = d /\ p \in BlockPages(b)
      /\ Reserved \subseteq busy[d]
  BY DEF Blocks
<1>2. /\ new[1] = d /\ new[2] = first /\ new[3] = last /\ BlockPages(new) = first .. last
      /\ new \in live' /\ \A b \in live' : b \in live \/ b = new
  BY DEF BlockPages
<1>3. first .. last \subseteq PageIndex
  BY VmmConstants DEF PageIndex
<1> HIDE DEF new
<1>4. ASSUME NEW b \in live, b[1] = d
      PROVE  /\ BlockPages(b) \cap BlockPages(new) = {} /\ BlockPages(b) \subseteq PageIndex
  BY <1>1, <1>2, <1>4, BlocksOfLive
<1>5. ASSUME NEW b \in live', b[1] = d
      PROVE  b[2] <= b[3] /\ \A p \in BlockPages(b) : p \notin Reserved /\ p \in busy'[d] /\ backing'[d][p] # NoFrame
  <2>1. CASE b = new
    BY <1>1, <1>2, <1>3, <2>1
  <2>2. CASE b \in live
    BY <1>1, <1>4, <1>5, <2>2
  <2>3. QED
    BY <1>2, <2>1, <2>2
<1>6. ASSUME NEW b \in live', NEW c \in live', b[1] = d, c[1] = d, b # c
      PROVE  BlockPages(b) \cap BlockPages(c) = {}
  <2>1. CASE b \in live /\ c \in live
    BY <1>1, <1>6, <2>1
  <2>2. CASE b = new
    BY <1>2, <1>4, <1>6, <2>2
  <2>3. CASE c = new
    BY <1>2, <1>4, <1>6, <2>3
  <2>4. QED
    BY <1>2, <2>1, <2>2, <2>3
<1>7. /\ \A b \in live' : b[1] = d => b[3] \in closing'[d]
      /\ \A c \in closing'[d] : \E b \in live' : b[1] = d /\ b[3] = c
  BY <1>1, <1>2
<1>8. /\ \A p \in PageIndex : backing'[d][p] # NoFrame => \E b \in live' : b[1] = d /\ p \in BlockPages(b)
      /\ \A p \in busy'[d] : p \in Reserved \/ \E b \in live' : b[1] = d /\ p \in BlockPages(b)
      /\ Reserved \subseteq busy'[d]
  <2>1. ASSUME NEW p \in PageIndex, backing'[d][p] # NoFrame
        PROVE  \E b \in live' : b[1] = d /\ p \in BlockPages(b)
    BY <1>1, <1>2, <2>1
  <2>2. ASSUME NEW p \in busy'[d]
        PROVE  p \in Reserved \/ \E b \in live' : b[1] = d /\ p \in BlockPages(b)
    BY <1>1, <1>2, <2>2
  <2>3. QED
    BY <1>1, <2>1, <2>2
<1>9. QED
  BY <1>5, <1>6, <1>7, <1>8 DEF Blocks, BlockPages

(* A block less. *)
LEMMA BlocksShrink ==
  ASSUME TypeOK, NEW d \in Directory, Blocks(d), NEW first \in PageIndex, NEW last \in PageIndex,
         <<d, first, last>> \in live, live' = live \ {<<d, first, last>>},
         busy'[d] = busy[d] \ (first .. last), closing'[d] = closing[d] \ (first .. last),
         \A p \in PageIndex : backing'[d][p] = IF p \in first .. last THEN NoFrame ELSE backing[d][p]
  PROVE  Blocks(d)'
<1> DEFINE old == <<d, first, last>>
<1>1. /\ \A b \in live : b[1] = d =>
           b[2] <= b[3] /\ \A p \in BlockPages(b) : p \notin Reserved /\ p \in busy[d] /\ backing[d][p] # NoFrame
      /\ \A b, c \in live : b[1] = d /\ c[1] = d /\ b # c => BlockPages(b) \cap BlockPages(c) = {}
      /\ \A b \in live : b[1] = d => b[3] \in closing[d]
      /\ \A c \in closing[d] : \E b \in live : b[1] = d /\ b[3] = c
      /\ \A p \in PageIndex : backing[d][p] # NoFrame => \E b \in live : b[1] = d /\ p \in BlockPages(b)
      /\ \A p \in busy[d] : p \in Reserved \/ \E b \in live : b[1] = d /\ p \in BlockPages(b)
      /\ Reserved \subseteq busy[d]
  BY DEF Blocks
<1>2. /\ old[1] = d /\ old[2] = first /\ old[3] = last /\ BlockPages(old) = first .. last
      /\ old \in live /\ live' = live \ {old}
  BY DEF BlockPages
<1> HIDE DEF old
<1>3. ASSUME NEW b \in live', b[1] = d
      PROVE  /\ BlockPages(b) \cap (first .. last) = {} /\ BlockPages(b) \subseteq PageIndex
             /\ b[3] \in BlockPages(b)
  <2>1. b \in live /\ b # old
    BY <1>2
  <2>2. BlockPages(b) \cap BlockPages(old) = {}
    BY <1>1, <1>2, <1>3, <2>1
  <2>3. b[2] \in Nat /\ b[3] \in Nat /\ b[2] <= b[3] /\ BlockPages(b) \subseteq PageIndex
    BY <1>1, <1>3, <2>1, BlocksOfLive
  <2>4. QED
    BY <1>2, <2>2, <2>3 DEF BlockPages
<1>4. last \in first .. last
  <2>1. first <= last
    BY <1>1, <1>2
  <2>2. QED
    BY <2>1, PlaceOfPage
<1>5. ASSUME NEW b \in live', b[1] = d
      PROVE  b[2] <= b[3] /\ \A p \in BlockPages(b) : p \notin Reserved /\ p \in busy'[d] /\ backing'[d][p] # NoFrame
  <2>1. b \in live
    BY <1>2
  <2>2. b[2] <= b[3] /\ \A p \in BlockPages(b) : p \notin Reserved /\ p \in busy[d] /\ backing[d][p] # NoFrame
    BY <1>1, <1>5, <2>1
  <2>3. \A p \in BlockPages(b) : p \in PageIndex /\ p \notin first .. last
    BY <1>3, <1>5
  <2>4. QED
    BY <2>2, <2>3
<1>6. \A b, c \in live' : b[1] = d /\ c[1] = d /\ b # c => BlockPages(b) \cap BlockPages(c) = {}
  BY <1>1, <1>2
<1>7. \A b \in live' : b[1] = d => b[3] \in closing'[d]
  <2> SUFFICES ASSUME NEW b \in live', b[1] = d PROVE b[3] \in closing'[d]
    OBVIOUS
  <2>1. b[3] \in closing[d]
    BY <1>1, <1>2
  <2>2. b[3] \notin first .. last
    BY <1>3
  <2>3. QED
    BY <2>1, <2>2
<1>8. \A c \in closing'[d] : \E b \in live' : b[1] = d /\ b[3] = c
  <2> SUFFICES ASSUME NEW c \in closing'[d] PROVE \E b \in live' : b[1] = d /\ b[3] = c
    OBVIOUS
  <2>1. c \in closing[d] /\ c \notin first .. last
    OBVIOUS
  <2>2. PICK b \in live : b[1] = d /\ b[3] = c
    BY <1>1, <2>1
  <2>3. b # old
    BY <1>2, <1>4, <2>1, <2>2
  <2>4. QED
    BY <1>2, <2>2, <2>3
<1>9. ASSUME NEW p \in PageIndex, p \notin first .. last,
             \E b \in live : b[1] = d /\ p \in BlockPages(b)
      PROVE  \E b \in live' : b[1] = d /\ p \in BlockPages(b)
  <2>1. PICK b \in live : b[1] = d /\ p \in BlockPages(b)
    BY <1>9
  <2>2. b # old
    BY <1>2, <1>9, <2>1
  <2>3. QED
    BY <1>2, <2>1, <2>2
<1>10. \A p \in PageIndex : backing'[d][p] # NoFrame => \E b \in live' : b[1] = d /\ p \in BlockPages(b)
  <2> SUFFICES ASSUME NEW p \in PageIndex, backing'[d][p] # NoFrame
               PROVE  \E b \in live' : b[1] = d /\ p \in BlockPages(b)
    OBVIOUS
  <2>1. p \notin first .. last /\ backing[d][p] # NoFrame
    OBVIOUS
  <2>2. QED
    BY <1>1, <1>9, <2>1
<1>11. \A p \in busy'[d] : p \in Reserved \/ \E b \in live' : b[1] = d /\ p \in BlockPages(b)
  <2> SUFFICES ASSUME NEW p \in busy'[d], p \notin Reserved
               PROVE  \E b \in live' : b[1] = d /\ p \in BlockPages(b)
    OBVIOUS
  <2>1. p \in busy[d] /\ p \notin first .. last /\ p \in PageIndex
    BY TypesOfState
  <2>2. QED
    BY <1>1, <1>9, <2>1
<1>12. Reserved \subseteq busy'[d]
  BY <1>1, <1>2
<1>13. QED
  BY <1>5, <1>6, <1>7, <1>8, <1>10, <1>11, <1>12 DEF Blocks, BlockPages
(* A grant without an overlap is a block more. *)
LEMMA GrantBlocks ==
  ASSUME Core, NEW d \in Directory, NEW first \in PageIndex, NEW count \in Nat \ {0},
         IsFirstFree(d, first, count),
         Cardinality(Demands(d, first .. first + count - 1)) <= Cardinality(Free),
         Grant(d, first, first .. first + count - 1), UNCHANGED root, faults' = {}, Blocks(d)
  PROVE  Blocks(d)' /\ \A e \in Directory : e # d => SameIn(e)
<1> DEFINE range == first .. first + count - 1
<1>1. TypeOK
  BY DEF Core
<1>2. first + count - 1 \in PageIndex /\ range \subseteq PageIndex
  BY RangeIsInIndex
<1>3. first \in Nat /\ first <= first + count - 1 /\ Cardinality(range) = count
  <2>1. first \in Nat
    BY PlaceOfPage
  <2>2. QED
    BY <2>1, RangesAreFinite
<1>4. \A p \in range : backing'[d][p] \in Frame
  BY GrantKeeps
<1>5. PICK row :
      /\ busy'    = [busy    EXCEPT ![d] = @ \cup range]
      /\ closing' = [closing EXCEPT ![d] = @ \cup {LastOf(first, Cardinality(range))}]
      /\ backing' = [backing EXCEPT ![d] = row]
      /\ \A p \in PageIndex \ range : row[p] = backing[d][p]
      /\ live' = live \cup {<<d, first, first + Cardinality(range) - 1>>}
      /\ faults' = faults \cup (IF range \cap busy[d] # {} THEN {"overlap"} ELSE {})
  <2> DEFINE supply == Supply(Demands(d, range))
             new == [p \in PageIndex |-> IF p \in range THEN supply[<<"page", p>>] ELSE backing[d][p]]
  <2>1. /\ busy'    = [busy    EXCEPT ![d] = @ \cup range]
        /\ closing' = [closing EXCEPT ![d] = @ \cup {LastOf(first, Cardinality(range))}]
        /\ backing' = [backing EXCEPT ![d] = new]
        /\ live' = live \cup {<<d, first, first + Cardinality(range) - 1>>}
        /\ faults' = faults \cup (IF range \cap busy[d] # {} THEN {"overlap"} ELSE {})
    BY DEF Grant
  <2>2. \A p \in PageIndex \ range : new[p] = backing[d][p]
    OBVIOUS
  <2> HIDE DEF new, supply, range
  <2>3. QED
    BY <2>1, <2>2
<1>6. range \cap busy[d] = {}
  BY <1>5
<1>7. live' = live \cup {<<d, first, first + count - 1>>}
  BY <1>3, <1>5
<1> HIDE DEF range
<1>8. busy'[d] = busy[d] \cup range /\ closing'[d] = closing[d] \cup {first + count - 1}
  BY <1>1, <1>3, <1>5, TypesOfState DEF LastOf
<1>9. \A p \in PageIndex \ range : backing'[d][p] = backing[d][p]
  BY <1>1, <1>5, TypesOfState
<1>10. \A p \in PageIndex : backing'[d][p] # NoFrame <=> (p \in range \/ backing[d][p] # NoFrame)
  BY <1>4, <1>9, VmmConstants
<1>11. Blocks(d)'
  BY <1>1, <1>2, <1>3, <1>6, <1>7, <1>8, <1>10, BlocksGrow DEF range
<1>12. ASSUME NEW e \in Directory, e # d PROVE SameIn(e)
  <2>1. busy'[e] = busy[e] /\ closing'[e] = closing[e] /\ backing'[e] = backing[e]
    BY <1>1, <1>5, <1>12, TypesOfState
  <2>2. QED
    BY <1>7, <1>12, <2>1 DEF SameIn
<1>13. QED
  BY <1>11, <1>12

(* A roll-back that overlaps and uproots nothing clears nothing. *)
LEMMA RollBackBlocks ==
  ASSUME Core, NEW d \in Directory, NEW first \in PageIndex, NEW count \in Nat \ {0},
         IsFirstFree(d, first, count), RollBack(d, first, first .. first + count - 1),
         faults' = {}, Blocks(d)
  PROVE  Blocks(d)' /\ \A e \in Directory : e # d => SameIn(e)
<1> DEFINE range == first .. first + count - 1
           need(t)  == DemandsTo(d, range, {p \in range : TableOf(p) <= t}, t)
           last     == CHOOSE t \in TablesOf(range) :
                         /\ need(t) > Cardinality(Free)
                         /\ \A u \in TablesOf(range) : u < t => need(u) <= Cardinality(Free)
           touched  == {t \in TablesOf(range) : t <= last}
           made     == {t \in Missing(d, range) :
                          DemandsTo(d, range, {p \in range : TableOf(p) < t}, t) <= Cardinality(Free)}
           uprooted == \E t \in touched : HasTable(d, t) /\ PagesOf({t}) \cap busy[d] # {}
           wild     == \E t \in Missing(d, range) \ made : table[d][t] = Stale
           pages    == range \cup PagesOf(touched)
<1>1. TypeOK /\ PagesAreWhole
  BY DEF Core
<1>2. /\ Cleared(d, pages)
      /\ faults' = faults \cup (IF range \cap busy[d] # {} THEN {"overlap"} ELSE {})
                          \cup (IF uprooted THEN {"uprooted"} ELSE {})
                          \cup (IF wild THEN {"wild"} ELSE {})
      /\ live' = live
  BY Zenon DEF RollBack
<1> HIDE DEF last, made, wild
<1>3. uprooted <=> \E t \in touched : HasTable(d, t) /\ PagesOf({t}) \cap busy[d] # {}
  OBVIOUS
<1> HIDE DEF range, touched, uprooted
<1>4. range \cap busy[d] = {} /\ ~uprooted
  BY <1>2
<1>5. ASSUME NEW p \in busy[d] PROVE p \notin pages
  <2>1. HasTable(d, TableOf(p))
    BY <1>1, <1>5 DEF PagesAreWhole
  <2>2. ASSUME p \in PagesOf(touched) PROVE FALSE
    <3>1. TableOf(p) \in touched /\ p \in PagesOf({TableOf(p)})
      BY <2>2 DEF PagesOf
    <3>2. QED
      BY <1>3, <1>4, <1>5, <2>1, <3>1
  <2>3. QED
    BY <1>4, <1>5, <2>2
<1> HIDE DEF pages
<1>6. \A p \in PageIndex : p \in pages => backing[d][p] = NoFrame
  BY <1>1, <1>5 DEF PagesAreWhole
<1>7. closing[d] \subseteq busy[d]
  <2> SUFFICES ASSUME NEW c \in closing[d] PROVE c \in busy[d]
    OBVIOUS
  <2>1. PICK b \in live : b[1] = d /\ b[3] = c
    BY DEF Blocks
  <2>2. b[2] \in Nat /\ b[3] \in Nat /\ b[2] <= b[3]
    BY <1>1, <2>1, BlocksOfLive DEF Blocks
  <2>3. c \in BlockPages(b)
    BY <2>1, <2>2 DEF BlockPages
  <2>4. QED
    BY <2>1, <2>3 DEF Blocks
<1>8. /\ busy'    = [busy    EXCEPT ![d] = @ \ pages]
      /\ closing' = [closing EXCEPT ![d] = @ \ pages]
      /\ backing' = [backing EXCEPT ![d] = [p \in PageIndex |-> IF p \in pages THEN NoFrame ELSE @[p]]]
  BY <1>2 DEF Cleared
<1>9. busy'[d] = busy[d] /\ closing'[d] = closing[d]
  BY <1>1, <1>5, <1>7, <1>8, TypesOfState
<1>10. \A p \in PageIndex : backing'[d][p] = backing[d][p]
  <2> DEFINE row == [p \in PageIndex |-> IF p \in pages THEN NoFrame ELSE backing[d][p]]
  <2>1. \A p \in PageIndex : row[p] = backing[d][p]
    BY <1>6
  <2>2. backing' = [backing EXCEPT ![d] = row]
    BY <1>8
  <2> HIDE DEF row
  <2>3. QED
    BY <1>1, <2>1, <2>2, TypesOfState
<1>11. SameIn(d)
  BY <1>2, <1>9, <1>10 DEF SameIn
<1>12. ASSUME NEW e \in Directory, e # d PROVE SameIn(e)
  <2>1. busy'[e] = busy[e] /\ closing'[e] = closing[e] /\ backing'[e] = backing[e]
    BY <1>1, <1>8, <1>12, TypesOfState
  <2>2. QED
    BY <1>2, <2>1 DEF SameIn
<1>13. QED
  BY <1>1, <1>11, <1>12, BlocksStay

LEMMA AllocateBlocks ==
  ASSUME Core, NEW d \in Directory, NEW bytes \in Requests, AllocateVirtualMemory(d, bytes),
         faults' = {}, Blocks(d)
  PROVE  Blocks(d)' /\ \A e \in Directory : e # d => SameIn(e)
<1> DEFINE count == PagesFor(bytes)
<1>1. count \in Nat \ {0}
  BY VmmAssumption, PagesForIsPositive
<1>2. UNCHANGED root
  BY DEF AllocateVirtualMemory
<1> HIDE DEF count
<1>3. ASSUME NEW first \in PageIndex, IsFirstFree(d, first, count),
             IF Cardinality(Demands(d, first .. first + count - 1)) <= Cardinality(Free)
               THEN Grant(d, first, first .. first + count - 1)
               ELSE RollBack(d, first, first .. first + count - 1)
      PROVE  Blocks(d)' /\ \A e \in Directory : e # d => SameIn(e)
  <2>1. CASE Cardinality(Demands(d, first .. first + count - 1)) <= Cardinality(Free)
    BY <1>1, <1>2, <1>3, <2>1, GrantBlocks
  <2>2. CASE ~(Cardinality(Demands(d, first .. first + count - 1)) <= Cardinality(Free))
    BY <1>1, <1>2, <1>3, <2>2, RollBackBlocks
  <2>3. QED
    BY <2>1, <2>2
<1>4. ASSUME failed' = TRUE, UNCHANGED <<used, table, pageVars, live, faults>>
      PROVE  Blocks(d)' /\ \A e \in Directory : e # d => SameIn(e)
  <2>1. UNCHANGED <<busy, closing, backing, live>>
    BY <1>4 DEF pageVars
  <2>2. \A e \in Directory : SameIn(e)
    BY <2>1 DEF SameIn
  <2>3. QED
    BY <2>2, BlocksStay DEF Core
<1>5. QED
  BY <1>3, <1>4, Zenon DEF AllocateVirtualMemory, count
(* Allocation to a page is a block more, or, when a page is taken, nothing *)
(* but tables.                                                             *)
LEMMA ToPageBlocks ==
  ASSUME Core, NEW d \in Directory, NEW page \in PageIndex, NEW bytes \in Nat, bytes + FrameSize < Word,
         AllocateVirtualMemoryToPage(d, page, bytes), UNCHANGED root, faults' = {}, Blocks(d)
  PROVE  Blocks(d)' /\ \A e \in Directory : e # d => SameIn(e)
<1> DEFINE count  == PagesFor(bytes)
           range  == page .. page + count - 1
           lacked == {t \in Visited(d, page, count) : ~HasTable(d, t)}
           tables == {t \in lacked : Cardinality({u \in lacked : u <= t}) <= Cardinality(Free)}
           pages  == IF tables # lacked \/ ~MayTake(d, range) THEN {}
                     ELSE {p \in range : Cardinality(tables) + p - page + 1 <= Cardinality(Free)}
           supply == Supply(Wanted(tables, pages))
           new    == [p \in PageIndex |-> IF p \in pages THEN supply[<<"page", p>>] ELSE backing[d][p]]
<1>1. TypeOK
  BY DEF Core
<1>2. count \in Nat \ {0} /\ page \in Nat
  BY PagesForIsPositive, PlaceOfPage
<1>3. ~failed' => \A p \in range : backing'[d][p] \in Frame
  BY ToPageKeeps
<1> HIDE DEF count
<1>4. /\ busy'    = [busy EXCEPT ![d] = @ \cup pages]
      /\ closing' = [closing EXCEPT ![d] = @ \cup (IF pages = range THEN {LastOf(page, count)} ELSE {})]
      /\ backing' = [backing EXCEPT ![d] = new]
      /\ failed'  = (pages # range)
      /\ live'    = live \cup (IF pages = range THEN {<<d, page, page + count - 1>>} ELSE {})
      /\ faults'  = faults \cup (IF tables # lacked \/ (pages # range /\ MayTake(d, range))
                                   THEN {"starved"} ELSE {})
  BY Zenon DEF AllocateVirtualMemoryToPage, Wanted, count
<1>5. \A p \in PageIndex \ pages : new[p] = backing[d][p]
  OBVIOUS
<1> HIDE DEF supply, tables, lacked, new
<1>6. range # {} /\ page + count - 1 \in range /\ page <= page + count - 1
  <2>1. page <= page + count - 1 /\ page + count - 1 \in Nat
    BY <1>2
  <2>2. page \in range /\ page + count - 1 \in range
    BY <1>2, <2>1
  <2>3. QED
    BY <2>1, <2>2
<1>7. pages = range \/ ~MayTake(d, range)
  BY <1>4
<1>8. ~MayTake(d, range) => pages = {}
  OBVIOUS
<1>9. \A e \in Directory : e # d => SameIn(e)
  <2> SUFFICES ASSUME NEW e \in Directory, e # d PROVE SameIn(e)
    OBVIOUS
  <2> HIDE DEF pages, range
  <2>1. busy'[e] = busy[e] /\ closing'[e] = closing[e] /\ backing'[e] = backing[e]
    BY <1>1, <1>4, TypesOfState
  <2>2. \A b \in live' : b[1] = e => b \in live
    BY <1>4
  <2>3. live \subseteq live'
    BY <1>4
  <2>4. QED
    BY <2>1, <2>2, <2>3 DEF SameIn
<1>10. CASE pages = range
  <2>1. MayTake(d, range)
    BY <1>6, <1>8, <1>10
  <2>2. range \cap busy[d] = {} /\ page + count - 1 \in PageIndex
    BY <1>6, <2>1 DEF MayTake
  <2>3. live' = live \cup {<<d, page, page + count - 1>>}
    BY <1>4, <1>10
  <2> HIDE DEF pages, range
  <2>4. busy'[d] = busy[d] \cup range /\ closing'[d] = closing[d] \cup {page + count - 1}
    BY <1>1, <1>4, <1>10, TypesOfState DEF LastOf
  <2>5. \A p \in PageIndex \ range : backing'[d][p] = backing[d][p]
    BY <1>1, <1>4, <1>5, <1>10, TypesOfState
  <2>6. \A p \in PageIndex : backing'[d][p] # NoFrame <=> (p \in range \/ backing[d][p] # NoFrame)
    BY <1>3, <1>4, <1>10, <2>5, VmmConstants
  <2>7. Blocks(d)'
    BY <1>1, <1>6, <2>2, <2>3, <2>4, <2>6, BlocksGrow DEF range
  <2>8. QED
    BY <1>9, <2>7
<1>11. CASE ~MayTake(d, range)
  <2>1. pages = {} /\ pages # range
    BY <1>6, <1>8, <1>11
  <2> HIDE DEF pages, range
  <2>2. busy'[d] = busy[d] /\ closing'[d] = closing[d] /\ live' = live
    BY <1>1, <1>4, <2>1, TypesOfState
  <2>3. \A p \in PageIndex : backing'[d][p] = backing[d][p]
    BY <1>1, <1>4, <1>5, <2>1, TypesOfState
  <2>4. SameIn(d)
    BY <2>2, <2>3 DEF SameIn
  <2>5. QED
    BY <1>1, <1>9, <2>4, BlocksStay
<1>12. QED
  BY <1>7, <1>10, <1>11

(* A release of what is a block is a block less. *)
LEMMA FreeBlocks ==
  ASSUME Core, NEW d \in Directory, NEW page \in PageIndex, FreeVirtualMemory(d, page),
         faults' = {}, Blocks(d)
  PROVE  Blocks(d)' /\ \A e \in Directory : e # d => SameIn(e)
<1>1. TypeOK
  BY DEF Core
<1>2. CASE \E last \in PageIndex :
             /\ EndsBlock(d, page, last)
             /\ used' = used \ Frames(d, page .. last)
             /\ Cleared(d, page .. last)
             /\ failed' = FALSE
             /\ live' = live \ {<<d, page, last>>}
             /\ faults' = faults \cup (IF <<d, page, last>> \in live THEN {} ELSE {"misuse"})
  <2>1. PICK last \in PageIndex :
             /\ Cleared(d, page .. last)
             /\ live' = live \ {<<d, page, last>>}
             /\ faults' = faults \cup (IF <<d, page, last>> \in live THEN {} ELSE {"misuse"})
    BY <1>2
  <2>2. <<d, page, last>> \in live
    BY <2>1
  <2> DEFINE pages == page .. last
             row == [p \in PageIndex |-> IF p \in pages THEN NoFrame ELSE backing[d][p]]
  <2>3. /\ busy'    = [busy    EXCEPT ![d] = @ \ pages]
        /\ closing' = [closing EXCEPT ![d] = @ \ pages]
        /\ backing' = [backing EXCEPT ![d] = row]
    BY <2>1 DEF Cleared
  <2>4. \A p \in PageIndex : row[p] = IF p \in pages THEN NoFrame ELSE backing[d][p]
    OBVIOUS
  <2> HIDE DEF row, pages
  <2>5. /\ busy'[d] = busy[d] \ pages /\ closing'[d] = closing[d] \ pages
        /\ \A p \in PageIndex : backing'[d][p] = IF p \in pages THEN NoFrame ELSE backing[d][p]
    BY <1>1, <2>3, <2>4, TypesOfState
  <2>6. Blocks(d)'
    BY <1>1, <2>1, <2>2, <2>5, BlocksShrink DEF pages
  <2>7. ASSUME NEW e \in Directory, e # d PROVE SameIn(e)
    <3>1. busy'[e] = busy[e] /\ closing'[e] = closing[e] /\ backing'[e] = backing[e]
      BY <1>1, <2>3, <2>7, TypesOfState
    <3>2. QED
      BY <2>1, <2>7, <3>1 DEF SameIn
  <2>8. QED
    BY <2>6, <2>7
<1>3. CASE UNCHANGED <<used, pageVars, live, faults>> /\ failed' = TRUE
  <2>1. UNCHANGED <<busy, closing, backing, live>>
    BY <1>3 DEF pageVars
  <2>2. \A e \in Directory : SameIn(e)
    BY <2>1 DEF SameIn
  <2>3. QED
    BY <1>1, <2>2, BlocksStay
<1>4. QED
  BY <1>2, <1>3 DEF FreeVirtualMemory

(* A directory is created without blocks. *)
LEMMA CreateBlocks ==
  ASSUME Core, NothingBefore, NEW d \in Directory, CreateDirectory(d)
  PROVE  Blocks(d)' /\ \A e \in Directory : e # d => SameIn(e)
<1>1. /\ TypeOK /\ PagesAreWhole /\ ~Created(d) /\ busy' = [busy EXCEPT ![d] = Reserved]
      /\ UNCHANGED <<closing, backing, live>>
  BY DEF Core, CreateDirectory
<1>2. /\ busy[d] = {} /\ closing[d] = {} /\ \A b \in live : b[1] # d
  BY <1>1 DEF NothingBefore
<1>3. \A p \in PageIndex : backing[d][p] = NoFrame
  BY <1>1, <1>2 DEF PagesAreWhole
<1>4. busy'[d] = Reserved /\ \A e \in Directory : e # d => busy'[e] = busy[e]
  BY <1>1, TypesOfState
<1>5. Blocks(d)'
  BY <1>1, <1>2, <1>3, <1>4 DEF Blocks
<1>6. QED
  BY <1>1, <1>4, <1>5 DEF SameIn

LEMMA FaultsStay ==
  ASSUME KeptInv, [Next]_vars
  PROVE  faults \subseteq faults'
<1>1. ASSUME NEW d \in Directory, CreateDirectory(d) PROVE faults \subseteq faults'
  BY <1>1 DEF CreateDirectory
<1>2. ASSUME NEW d \in Directory, NEW program \in Programs, StartLoading(d, program)
      PROVE  faults \subseteq faults'
  BY <1>2 DEF StartLoading
<1>3. ASSUME LoadPage PROVE faults \subseteq faults'
  <2>1. \E s : faults' = faults \cup s
    BY <1>3 DEF LoadPage, AllocateVirtualMemoryToPage
  <2>2. QED
    BY <2>1
<1>4. ASSUME NEW d \in Directory, NEW bytes \in Requests, AllocateVirtualMemory(d, bytes)
      PROVE  faults \subseteq faults'
  <2>1. ASSUME NEW first, NEW range, Grant(d, first, range) \/ RollBack(d, first, range)
        PROVE  faults \subseteq faults'
    <3>1. CASE Grant(d, first, range)
      <4>1. \E s : faults' = faults \cup s
        BY <3>1 DEF Grant
      <4>2. QED
        BY <4>1
    <3>2. CASE RollBack(d, first, range)
      <4>1. \E s, t, u : faults' = faults \cup s \cup t \cup u
        BY <3>2, Zenon DEF RollBack
      <4>2. QED
        BY <4>1
    <3>3. QED
      BY <2>1, <3>1, <3>2
  <2>2. QED
    BY <1>4, <2>1 DEF AllocateVirtualMemory
<1>5. ASSUME NEW d \in Directory, NEW page \in PageIndex, FreeVirtualMemory(d, page)
      PROVE  faults \subseteq faults'
  BY <1>5 DEF FreeVirtualMemory
<1>6. CASE UNCHANGED vars
  BY <1>6 DEF vars
<1>7. QED
  BY <1>1, <1>2, <1>3, <1>4, <1>5, <1>6, Zenon DEF Next

(* The step for the blocks, from the one directory it is for. *)
LEMMA BlocksFollow ==
  ASSUME Core, BlocksInv, faults = {}, NEW d \in Directory, Blocks(d)',
         \A e \in Directory : e # d => SameIn(e), \A e \in Directory : e # d => root'[e] = root[e]
  PROVE  BlocksInv'
<1> SUFFICES ASSUME NEW e \in Directory, Created(e)' PROVE Blocks(e)'
  BY DEF BlocksInv
<1>1. CASE e = d
  BY <1>1
<1>2. CASE e # d
  <2>1. Created(e) /\ SameIn(e)
    BY <1>2 DEF Created
  <2>2. Blocks(e)
    BY <2>1 DEF BlocksInv
  <2>3. QED
    BY <2>1, <2>2, BlocksStay DEF Core
<1>3. QED
  BY <1>1, <1>2

LEMMA BlocksStep == KeptInv /\ BlocksInv /\ [Next]_vars => BlocksInv'
<1> SUFFICES ASSUME KeptInv, BlocksInv, [Next]_vars, faults' = {} PROVE BlocksInv'
  BY DEF BlocksInv
<1>1. Core /\ NothingBefore /\ LoadingOK /\ TypeOK
  BY DEF KeptInv, Core
<1>2. faults = {}
  BY FaultsStay
<1>3. \A d \in Directory : Created(d) => Blocks(d)
  BY <1>2 DEF BlocksInv
<1>4. ASSUME NEW d \in Directory, CreateDirectory(d) PROVE BlocksInv'
  <2>1. Blocks(d)' /\ \A e \in Directory : e # d => SameIn(e)
    BY <1>1, <1>4, CreateBlocks
  <2>2. \A e \in Directory : e # d => root'[e] = root[e]
    BY <1>1, <1>4, CreateKeeps DEF OnlyIn
  <2>3. QED
    BY <1>1, <1>2, <2>1, <2>2, BlocksFollow
<1>5. ASSUME LoadPage PROVE BlocksInv'
  <2>1. /\ Busy /\ root' = root
        /\ AllocateVirtualMemoryToPage(loading.directory, loading.next, FrameSize)
    BY <1>5 DEF LoadPage
  <2>2. PICK d \in Directory, page \in PageIndex : d = loading.directory /\ page = loading.next /\ Created(d)
    BY <1>1, <2>1, NextIsPage
  <2>3. FrameSize \in Nat /\ FrameSize + FrameSize < Word
    BY VmmAssumption
  <2>4. Blocks(d)' /\ \A e \in Directory : e # d => SameIn(e)
    BY <1>1, <1>3, <2>1, <2>2, <2>3, ToPageBlocks
  <2>5. QED
    BY <1>1, <1>2, <2>1, <2>4, BlocksFollow
<1>6. ASSUME NEW d \in Directory, NEW bytes \in Requests, AllocateVirtualMemory(d, bytes) PROVE BlocksInv'
  <2>1. Created(d) /\ root' = root
    BY <1>6 DEF AllocateVirtualMemory
  <2>2. Blocks(d)' /\ \A e \in Directory : e # d => SameIn(e)
    BY <1>1, <1>3, <1>6, <2>1, AllocateBlocks
  <2>3. QED
    BY <1>1, <1>2, <2>1, <2>2, BlocksFollow
<1>7. ASSUME NEW d \in Directory, NEW page \in PageIndex, FreeVirtualMemory(d, page) PROVE BlocksInv'
  <2>1. Created(d) /\ root' = root
    BY <1>7 DEF FreeVirtualMemory
  <2>2. Blocks(d)' /\ \A e \in Directory : e # d => SameIn(e)
    BY <1>1, <1>3, <1>7, <2>1, FreeBlocks
  <2>3. QED
    BY <1>1, <1>2, <2>1, <2>2, BlocksFollow
<1>8. ASSUME UNCHANGED <<root, busy, closing, backing, live>> PROVE BlocksInv'
  <2>1. \A e \in Directory : SameIn(e) /\ (Created(e)' <=> Created(e))
    BY <1>8 DEF SameIn, Created
  <2>2. QED
    BY <1>1, <1>3, <2>1, BlocksStay DEF BlocksInv
<1>9. ASSUME NEW d \in Directory, NEW program \in Programs, StartLoading(d, program) PROVE BlocksInv'
  BY <1>8, <1>9 DEF StartLoading, pageVars
<1>10. CASE UNCHANGED vars
  BY <1>8, <1>10 DEF vars, pageVars
<1>11. QED
  BY <1>4, <1>5, <1>6, <1>7, <1>9, <1>10, Zenon DEF Next

LEMMA BlocksAreIntact == KeptInv /\ BlocksInv => BlocksIntact
<1> SUFFICES ASSUME KeptInv, BlocksInv, faults = {}, NEW d \in Directory, Created(d)
             PROVE  /\ \A b, c \in LiveIn(d) : b # c => BlockPages(b) \cap BlockPages(c) = {}
                    /\ closing[d] = {b[3] : b \in LiveIn(d)}
                    /\ {p \in PageIndex : backing[d][p] # NoFrame} = UNION {BlockPages(b) : b \in LiveIn(d)}
                    /\ busy[d] = Reserved \cup UNION {BlockPages(b) : b \in LiveIn(d)}
                    /\ \A p \in busy[d] : HasTable(d, TableOf(p))
  BY DEF BlocksIntact
<1>1. TypeOK /\ PagesAreWhole
  BY DEF KeptInv, Core
<1>2. /\ \A b \in live : b[1] = d =>
           b[2] <= b[3] /\ \A p \in BlockPages(b) : p \notin Reserved /\ p \in busy[d] /\ backing[d][p] # NoFrame
      /\ \A b, c \in live : b[1] = d /\ c[1] = d /\ b # c => BlockPages(b) \cap BlockPages(c) = {}
      /\ \A b \in live : b[1] = d => b[3] \in closing[d]
      /\ \A c \in closing[d] : \E b \in live : b[1] = d /\ b[3] = c
      /\ \A p \in PageIndex : backing[d][p] # NoFrame => \E b \in live : b[1] = d /\ p \in BlockPages(b)
      /\ \A p \in busy[d] : p \in Reserved \/ \E b \in live : b[1] = d /\ p \in BlockPages(b)
      /\ Reserved \subseteq busy[d]
  <2>1. Blocks(d)
    BY DEF BlocksInv
  <2>2. QED
    BY <2>1 DEF Blocks
<1>3. \A b : b \in LiveIn(d) <=> b \in live /\ b[1] = d
  BY DEF LiveIn
<1>4. \A b \in LiveIn(d) : BlockPages(b) \subseteq PageIndex
  BY <1>1, <1>3, BlocksOfLive
<1>5. \A b, c \in LiveIn(d) : b # c => BlockPages(b) \cap BlockPages(c) = {}
  BY <1>2, <1>3
<1>6. closing[d] = {b[3] : b \in LiveIn(d)}
  BY <1>2, <1>3
<1>7. {p \in PageIndex : backing[d][p] # NoFrame} = UNION {BlockPages(b) : b \in LiveIn(d)}
  BY <1>2, <1>3, <1>4
<1>8. busy[d] = Reserved \cup UNION {BlockPages(b) : b \in LiveIn(d)}
  BY <1>2, <1>3
<1>9. \A p \in busy[d] : HasTable(d, TableOf(p))
  BY <1>1 DEF PagesAreWhole
<1>10. QED
  BY <1>5, <1>6, <1>7, <1>8, <1>9

(* As long as nothing has gone wrong, an address space consists of the     *)
(* kernel's pages and of blocks that do not overlap, each with a table and *)
(* a frame for every page and closed at its end and nowhere else.          *)
THEOREM BlocksIntactAlways == Spec => []BlocksIntact
<1>1. Init => KeptInv /\ BlocksInv
  <2>1. Init => BlocksInv
    BY DEF Init, BlocksInv, Created
  <2>2. QED
    BY <2>1, KeptInit
<1>2. KeptInv /\ BlocksInv /\ [Next]_vars => KeptInv' /\ BlocksInv'
  BY KeptStep, BlocksStep
<1>3. KeptInv /\ BlocksInv => BlocksIntact
  BY BlocksAreIntact
<1>4. QED
  BY <1>1, <1>2, <1>3, PTL DEF Spec
-----------------------------------------------------------------------------
(* What the search takes for counted when it comes to a table. *)
Passed(first, t) == TableOf(first) .. t - 1
PassedExisting(d, first, t) == {u \in Passed(first, t) : HasTable(d, u)}

CountedBefore(d, first, t) ==
  Cardinality(PassedExisting(d, first, t)) * (Pages - (first % Pages))
    + Cardinality(Passed(first, t) \ PassedExisting(d, first, t)) * Pages

LEMMA SearchExamines ==
  ASSUME NEW d, NEW first, NEW count
  PROVE  IsFreeFrom(d, first, count) <=>
           /\ CountedBefore(d, first, Tables) >= count
           /\ \A t \in TableOf(first) .. Tables - 1 : HasTable(d, t) =>
                \A p \in PagesOf({t}) :
                  (first % Pages) <= (p % Pages)
                    /\ (p % Pages) < (first % Pages) + count - CountedBefore(d, first, t)
                    => p \notin busy[d]
<1> DEFINE Examined(t) == {p \in PagesOf({t}) :
             (first % Pages) <= (p % Pages) /\ (p % Pages) < (first % Pages) + count - CountedBefore(d, first, t)}
<1>1. IsFreeFrom(d, first, count) <=>
        /\ CountedBefore(d, first, Tables) >= count
        /\ \A t \in TableOf(first) .. Tables - 1 : HasTable(d, t) => Examined(t) \cap busy[d] = {}
  BY DEF IsFreeFrom, CountedBefore, PassedExisting, Passed
<1>2. ASSUME NEW t
      PROVE  Examined(t) \cap busy[d] = {} <=>
               \A p \in PagesOf({t}) :
                 (first % Pages) <= (p % Pages)
                   /\ (p % Pages) < (first % Pages) + count - CountedBefore(d, first, t)
                   => p \notin busy[d]
  OBVIOUS
<1> HIDE DEF Examined
<1>3. QED
  BY <1>1, <1>2

(* In its own table that is nothing, in all others at least what its own    *)
(* table has left.                                                         *)
LEMMA BeforeCounts ==
  ASSUME NEW d, NEW first \in PageIndex, NEW t \in Int, TableOf(first) <= t
  PROVE  /\ CountedBefore(d, first, t) \in Int
         /\ t = TableOf(first) => CountedBefore(d, first, t) = 0
         /\ t # TableOf(first) => CountedBefore(d, first, t) >= Pages - (first % Pages)
<1>1. PICK s \in 0 .. Pages - 1 : s = (first % Pages)
  BY PlaceOfPage
<1>2. TableOf(first) \in Int
  BY PlaceOfPage
<1>3. IsFiniteSet(Passed(first, t)) /\ Cardinality(Passed(first, t)) = t - TableOf(first)
  <2>1. t - 1 \in Int
    OBVIOUS
  <2>2. /\ IsFiniteSet(Passed(first, t))
        /\ Cardinality(Passed(first, t)) = IF TableOf(first) > t - 1 THEN 0 ELSE (t - 1) - TableOf(first) + 1
    BY <1>2, <2>1, FS_Interval DEF Passed
  <2>3. QED
    BY <1>2, <2>2
<1>4. PassedExisting(d, first, t) \in SUBSET Passed(first, t)
  BY DEF PassedExisting
<1>5. /\ IsFiniteSet(PassedExisting(d, first, t))
      /\ IsFiniteSet(Passed(first, t) \ PassedExisting(d, first, t))
  BY <1>3, <1>4, FS_Subset, FS_Difference
<1>6. Cardinality(Passed(first, t) \ PassedExisting(d, first, t))
        = Cardinality(Passed(first, t)) - Cardinality(PassedExisting(d, first, t))
  <2>1. Passed(first, t) \cap PassedExisting(d, first, t) = PassedExisting(d, first, t)
    BY <1>4
  <2>2. Cardinality(Passed(first, t) \ PassedExisting(d, first, t))
          = Cardinality(Passed(first, t)) - Cardinality(Passed(first, t) \cap PassedExisting(d, first, t))
    BY <1>3, FS_Difference, Zenon
  <2>3. QED
    BY <2>1, <2>2
<1>7. /\ Cardinality(PassedExisting(d, first, t)) \in Nat
      /\ Cardinality(Passed(first, t) \ PassedExisting(d, first, t)) \in Nat
  BY <1>5, FS_CardinalityType
<1>8. PICK h \in Nat : h = Cardinality(PassedExisting(d, first, t))
  BY <1>7
<1>9. PICK k \in Nat : /\ k = Cardinality(Passed(first, t) \ PassedExisting(d, first, t))
                       /\ h + k = t - TableOf(first)
  BY <1>2, <1>3, <1>6, <1>7, <1>8
<1>10. CountedBefore(d, first, t) = h * (Pages - s) + k * Pages
  BY <1>1, <1>8, <1>9 DEF CountedBefore
<1>11. h * (Pages - s) \in Nat /\ k * Pages \in Nat
  BY <1>1, VmmConstants
<1>12. t = TableOf(first) => h = 0 /\ k = 0
  BY <1>2, <1>9
<1>13. h = 0 /\ k = 0 => h * (Pages - s) = 0 /\ k * Pages = 0
  BY <1>1, VmmConstants
<1>14. t # TableOf(first) => h >= 1 \/ k >= 1
  <2>1. ASSUME h = 0, k = 0 PROVE t = TableOf(first)
    BY <1>2, <1>9, <2>1
  <2>2. QED
    BY <2>1
<1>15. h >= 1 => h * (Pages - s) >= Pages - s
  BY <1>1, VmmConstants
<1>16. k >= 1 => k * Pages >= Pages - s
  <2>1. k >= 1 => k * Pages >= Pages
    BY VmmConstants
  <2>2. QED
    BY <1>1, <1>11, <2>1, VmmConstants
<1>17. QED
  BY <1>1, <1>10, <1>11, <1>12, <1>13, <1>14, <1>15, <1>16, VmmConstants

(* A run of pages within the table of its first. *)
LEMMA RunInTable ==
  ASSUME NEW first \in PageIndex, NEW count \in Nat \ {0},
         first .. first + count - 1 \subseteq PagesOf({TableOf(first)})
  PROVE  /\ count <= Pages - (first % Pages)
         /\ \A p \in first .. first + count - 1 :
              /\ p \in PagesOf({TableOf(first)})
              /\ (p % Pages) = (first % Pages) + (p - first)
         /\ \A p \in PagesOf({TableOf(first)}) :
              (first % Pages) <= (p % Pages) /\ (p % Pages) < (first % Pages) + count => p \in first .. first + count - 1
<1>1. PICK t \in 0 .. Tables - 1, s \in 0 .. Pages - 1 :
        t = TableOf(first) /\ s = (first % Pages) /\ first = t * Pages + s /\ first \in Nat
  BY PlaceOfPage
<1>2. PICK x \in Int : x = t * Pages /\ first = x + s
  <2>1. t * Pages \in Int
    BY <1>1, VmmConstants
  <2>2. QED
    BY <1>1, <2>1
<1>3. ASSUME NEW p \in PagesOf({TableOf(first)})
      PROVE  /\ p \in PageIndex /\ p \in Nat /\ (p % Pages) \in 0 .. Pages - 1 /\ p = x + (p % Pages)
  <2>1. p \in PageIndex /\ TableOf(p) = t
    BY <1>1 DEF PagesOf
  <2>2. p \in Nat /\ (p % Pages) \in 0 .. Pages - 1 /\ p = TableOf(p) * Pages + (p % Pages)
    BY <2>1, PlaceOfPage
  <2>3. QED
    BY <1>2, <2>1, <2>2
<1>4. \A p \in first .. first + count - 1 :
        p \in PagesOf({TableOf(first)}) /\ (p % Pages) = (first % Pages) + (p - first)
  <2> SUFFICES ASSUME NEW p \in first .. first + count - 1
               PROVE  p \in PagesOf({TableOf(first)}) /\ (p % Pages) = (first % Pages) + (p - first)
    OBVIOUS
  <2>1. p \in PagesOf({TableOf(first)})
    OBVIOUS
  <2>2. PICK r \in 0 .. Pages - 1 : r = (p % Pages) /\ p = x + r /\ p \in Nat
    BY <1>3, <2>1
  <2>3. r = s + (p - first)
    <3>1. first = x + s /\ p = x + r /\ first \in Int /\ p \in Int /\ r \in Int /\ s \in Int
      BY <1>1, <1>2, <2>2
    <3>2. QED
      BY <3>1
  <2>4. QED
    BY <1>1, <2>1, <2>2, <2>3
<1>5. count <= Pages - (first % Pages)
  <2>1. first + count - 1 \in first .. first + count - 1
    BY <1>1
  <2>2. first + count - 1 \in PagesOf({TableOf(first)})
    BY <2>1
  <2>3. PICK r \in 0 .. Pages - 1 : first + count - 1 = x + r
    BY <1>3, <2>2
  <2>4. first = x + s /\ first \in Int /\ s \in Int /\ r \in Int /\ r <= Pages - 1 /\ Pages \in Int /\ count \in Int
    BY <1>1, <1>2, <2>3, VmmConstants
  <2>5. count <= Pages - s
    BY <2>3, <2>4
  <2>6. QED
    BY <1>1, <2>5
<1>6. ASSUME NEW p \in PagesOf({TableOf(first)}),
             (first % Pages) <= (p % Pages) /\ (p % Pages) < (first % Pages) + count
      PROVE  p \in first .. first + count - 1
  <2>1. PICK r \in 0 .. Pages - 1 : r = (p % Pages) /\ p = x + r /\ p \in Nat
    BY <1>3
  <2>2. s <= r /\ r < s + count
    BY <1>1, <1>6, <2>1
  <2>3. first = x + s /\ p = x + r /\ first \in Int /\ p \in Int /\ r \in Int /\ s \in Int /\ count \in Int
    BY <1>1, <1>2, <2>1
  <2>4. first <= p /\ p <= first + count - 1
    BY <2>2, <2>3
  <2>5. QED
    BY <2>3, <2>4
<1>7. QED
  BY <1>4, <1>5, <1>6

(* The search is right within a table. *)
LEMMA FreeRunIsFound ==
  ASSUME NEW d, NEW first \in PageIndex, NEW count \in Nat \ {0},
         first .. first + count - 1 \subseteq PagesOf({TableOf(first)}),
         first .. first + count - 1 \cap busy[d] = {}
  PROVE  IsFreeFrom(d, first, count)
<1>1. PICK s \in 0 .. Pages - 1, t \in 0 .. Tables - 1 : s = (first % Pages) /\ t = TableOf(first)
  BY PlaceOfPage
<1>2. /\ count <= Pages - s
      /\ \A p \in PagesOf({t}) :
           s <= (p % Pages) /\ (p % Pages) < s + count => p \in first .. first + count - 1
  BY <1>1, RunInTable
<1>3. CountedBefore(d, first, Tables) >= count
  <2>1. Tables \in Int /\ t <= Tables /\ t # Tables
    BY <1>1, VmmConstants
  <2>2. CountedBefore(d, first, Tables) \in Int /\ CountedBefore(d, first, Tables) >= Pages - s
    BY <1>1, <2>1, BeforeCounts
  <2>3. QED
    BY <1>1, <1>2, <2>2, VmmConstants
<1>4. ASSUME NEW u \in t .. Tables - 1, NEW p \in PagesOf({u}), s <= (p % Pages),
             (p % Pages) < s + count - CountedBefore(d, first, u)
      PROVE  p \notin busy[d]
  <2>1. u \in Int /\ t <= u
    BY <1>1, VmmConstants
  <2>2. p \in PageIndex
    BY DEF PagesOf
  <2>3. (p % Pages) \in 0 .. Pages - 1
    BY <2>2, PlaceOfPage
  <2>4. u = t
    <3>1. ASSUME u # t PROVE FALSE
      <4>1. CountedBefore(d, first, u) \in Int /\ CountedBefore(d, first, u) >= Pages - s
        BY <1>1, <2>1, <3>1, BeforeCounts
      <4>2. s + count - CountedBefore(d, first, u) <= s
        BY <1>1, <1>2, <4>1, VmmConstants
      <4>3. QED
        BY <1>1, <1>4, <2>3, <4>1, <4>2
    <3>2. QED
      BY <3>1
  <2>5. CountedBefore(d, first, u) = 0
    BY <1>1, <2>1, <2>4, BeforeCounts
  <2>6. (p % Pages) < s + count
    BY <1>1, <1>4, <2>5
  <2>7. p \in first .. first + count - 1
    BY <1>2, <1>4, <2>4, <2>6
  <2>8. QED
    BY <2>7
<1>5. QED
  BY <1>1, <1>3, <1>4, SearchExamines

LEMMA FoundRunIsFree ==
  ASSUME PagesAreWhole, NEW d \in Directory, NEW first \in PageIndex, NEW count \in Nat \ {0},
         first .. first + count - 1 \subseteq PagesOf({TableOf(first)}), IsFreeFrom(d, first, count)
  PROVE  first .. first + count - 1 \cap busy[d] = {}
<1>1. PICK s \in 0 .. Pages - 1, t \in 0 .. Tables - 1 : s = (first % Pages) /\ t = TableOf(first)
  BY PlaceOfPage
<1>2. SUFFICES ASSUME NEW p \in first .. first + count - 1, p \in busy[d] PROVE FALSE
  OBVIOUS
<1>3. first \in Nat
  BY PlaceOfPage
<1>4. p \in PagesOf({t}) /\ (p % Pages) = s + (p - first)
  BY <1>1, RunInTable
<1>5. p \in PageIndex /\ TableOf(p) = t
  BY <1>4 DEF PagesOf
<1>6. HasTable(d, t)
  BY <1>2, <1>5 DEF PagesAreWhole
<1>7. CountedBefore(d, first, t) = 0
  BY <1>1, BeforeCounts
<1>8. s <= (p % Pages) /\ (p % Pages) < s + count - CountedBefore(d, first, t)
  BY <1>1, <1>3, <1>4, <1>7
<1>9. t \in t .. Tables - 1
  BY <1>1, VmmConstants
<1>10. QED
  BY <1>1, <1>2, <1>4, <1>6, <1>8, <1>9, SearchExamines

LEMMA SearchIsRight == KeptInv => SearchWithinTable
<1> SUFFICES ASSUME KeptInv, NEW d \in Directory, NEW bytes \in Requests, Created(d)
             PROVE  LET count     == PagesFor(bytes)
                        Run(f)    == f .. f + count - 1
                        InTable(f) == Run(f) \subseteq PagesOf({TableOf(f)})
                        IsFree(f) == Run(f) \cap busy[d] = {}
                    IN  /\ (\E f \in PageIndex : InTable(f) /\ IsFree(f)) => \E f \in PageIndex : IsFreeFrom(d, f, count)
                        /\ \A f \in PageIndex : InTable(f) /\ IsFirstFree(d, f, count) => IsFree(f)
  BY DEF SearchWithinTable
<1> DEFINE count == PagesFor(bytes)
<1>1. count \in Nat \ {0}
  BY VmmAssumption, PagesForIsPositive
<1>2. PagesAreWhole
  BY DEF KeptInv, Core
<1> HIDE DEF count
<1>3. ASSUME NEW f \in PageIndex, f .. f + count - 1 \subseteq PagesOf({TableOf(f)}),
             f .. f + count - 1 \cap busy[d] = {}
      PROVE  IsFreeFrom(d, f, count)
  BY <1>1, <1>3, FreeRunIsFound
<1>4. ASSUME NEW f \in PageIndex, f .. f + count - 1 \subseteq PagesOf({TableOf(f)}),
             IsFirstFree(d, f, count)
      PROVE  f .. f + count - 1 \cap busy[d] = {}
  <2>1. IsFreeFrom(d, f, count)
    BY <1>4 DEF IsFirstFree
  <2>2. QED
    BY <1>1, <1>2, <1>4, <2>1, FoundRunIsFree
<1>5. QED
  BY <1>3, <1>4 DEF count

(* When as many free pages as asked for lie in one table, the search finds *)
(* some, and what it finds in one table is free.                           *)
THEOREM SearchWithinTableAlways == Spec => []SearchWithinTable
<1>1. Init => KeptInv
  BY KeptInit
<1>2. KeptInv /\ [Next]_vars => KeptInv'
  BY KeptStep
<1>3. KeptInv => SearchWithinTable
  BY SearchIsRight
<1>4. QED
  BY <1>1, <1>2, <1>3, PTL DEF Spec
-----------------------------------------------------------------------------
(* The pages that the loader has not yet come to are free, but for the next *)
(* one, which comes with the page before it.                               *)
AheadIsFree ==
  Busy => \A q \in loading.next + 1 .. loading.program.first + loading.program.count :
            q \notin busy[loading.directory]

(* Asked for as many bytes as a page has, the manager takes two pages. *)
LEMMA PagesForAFrame == PagesFor(FrameSize) = 2
<1>1. FrameSize \in Nat \ {0} /\ Word \in Nat \ {0} /\ FrameSize + FrameSize < Word
  BY VmmAssumption, WordAssumption
<1>2. FrameSize % FrameSize = 0
  BY <1>1
<1>3. PICK x \in Nat : x = FrameSize + FrameSize
  BY <1>1
<1>4. AlignUp(FrameSize, FrameSize) = x % Word
  BY <1>1, <1>2, <1>3 DEF AlignUp
<1>5. x % Word = x
  BY <1>1, <1>3
<1>6. x \div FrameSize = 2
  <2>1. PICK k \in Int : k = x \div FrameSize /\ FrameSize * k <= x /\ x < FrameSize * k + FrameSize
    BY <1>1, <1>3
  <2>2. ASSUME k <= 1 PROVE FALSE
    <3>1. FrameSize * k <= FrameSize * 1
      BY <1>1, <2>2
    <3>2. QED
      BY <1>1, <1>3, <2>1, <3>1
  <2>3. ASSUME k >= 3 PROVE FALSE
    <3>1. FrameSize * k >= FrameSize * 3
      BY <1>1, <2>3
    <3>2. QED
      BY <1>1, <1>3, <2>1, <3>1
  <2>4. QED
    BY <2>1, <2>2, <2>3
<1>7. QED
  BY <1>4, <1>5, <1>6 DEF PagesFor

(* Unless memory runs out, an allocation to pages that are free succeeds,  *)
(* and one to pages that are not leaves the pages as they are.             *)
LEMMA ToPageMaps ==
  ASSUME TypeOK, NEW d \in Directory, NEW page \in PageIndex, NEW bytes \in Nat,
         AllocateVirtualMemoryToPage(d, page, bytes)
  PROVE  /\ busy'[d] \subseteq busy[d] \cup (page .. page + PagesFor(bytes) - 1)
         /\ "starved" \notin faults' =>
              \/ ~failed'
              \/ /\ ~MayTake(d, page .. page + PagesFor(bytes) - 1)
                 /\ \A p \in PageIndex : backing'[d][p] = backing[d][p]
<1> DEFINE count  == PagesFor(bytes)
           range  == page .. page + count - 1
           lacked == {t \in Visited(d, page, count) : ~HasTable(d, t)}
           tables == {t \in lacked : Cardinality({u \in lacked : u <= t}) <= Cardinality(Free)}
           pages  == IF tables # lacked \/ ~MayTake(d, range) THEN {}
                     ELSE {p \in range : Cardinality(tables) + p - page + 1 <= Cardinality(Free)}
           supply == Supply(Wanted(tables, pages))
           new    == [p \in PageIndex |-> IF p \in pages THEN supply[<<"page", p>>] ELSE backing[d][p]]
<1> HIDE DEF count
<1>1. /\ busy'    = [busy EXCEPT ![d] = @ \cup pages]
      /\ backing' = [backing EXCEPT ![d] = new]
      /\ failed'  = (pages # range)
      /\ faults'  = faults \cup (IF tables # lacked \/ (pages # range /\ MayTake(d, range))
                                   THEN {"starved"} ELSE {})
  BY Zenon DEF AllocateVirtualMemoryToPage, Wanted, count
<1>2. \A p \in PageIndex \ pages : new[p] = backing[d][p]
  OBVIOUS
<1> HIDE DEF supply, tables, lacked, new
<1>3. pages \subseteq range /\ (~MayTake(d, range) => pages = {})
  OBVIOUS
<1> HIDE DEF pages, range
<1>4. busy'[d] = busy[d] \cup pages
  BY <1>1, TypesOfState
<1>5. \A p \in PageIndex \ pages : backing'[d][p] = backing[d][p]
  BY <1>1, <1>2, TypesOfState
<1>6. ASSUME "starved" \notin faults', failed'
      PROVE  ~MayTake(d, range) /\ \A p \in PageIndex : backing'[d][p] = backing[d][p]
  <2>1. ~MayTake(d, range)
    BY <1>1, <1>6
  <2>2. QED
    BY <1>3, <1>5, <2>1
<1>7. QED
  BY <1>3, <1>4, <1>6 DEF range, count

LEMMA AheadStep == KeptInv /\ AheadIsFree /\ [Next]_vars => AheadIsFree'
<1> SUFFICES ASSUME KeptInv, AheadIsFree, [Next]_vars, Busy' PROVE AheadIsFree'
  BY DEF AheadIsFree
<1>1. TypeOK /\ LoadingOK /\ NothingBefore
  BY DEF KeptInv, Core
<1>2. ASSUME UNCHANGED <<loading, busy>> PROVE AheadIsFree'
  BY <1>2 DEF AheadIsFree, Busy
<1>3. ASSUME loading' = loading, ~Busy PROVE FALSE
  BY <1>3 DEF Busy
<1>4. ASSUME NEW d \in Directory, CreateDirectory(d) PROVE AheadIsFree'
  BY <1>3, <1>4 DEF CreateDirectory
<1>5. ASSUME NEW d \in Directory, NEW program \in Programs, StartLoading(d, program) PROVE AheadIsFree'
  <2>1. /\ busy' = busy /\ loading' = [directory |-> d, program |-> program, next |-> program.first]
        /\ program.first .. program.first + program.count \cap busy[d] = {}
    BY <1>5 DEF StartLoading, pageVars
  <2>2. loading'.directory = d /\ loading'.program = program /\ loading'.next = program.first
    BY <2>1
  <2>3. program.first \in Nat /\ program.count \in Nat
    BY ProgramAssumption
  <2>4. \A q \in program.first + 1 .. program.first + program.count :
          q \in program.first .. program.first + program.count
    BY <2>3
  <2>5. QED
    BY <2>1, <2>2, <2>4 DEF AheadIsFree
<1>6. ASSUME LoadPage PROVE AheadIsFree'
  <2>1. /\ Busy /\ loading' = [loading EXCEPT !.next = @ + 1]
        /\ AllocateVirtualMemoryToPage(loading.directory, loading.next, FrameSize)
    BY <1>6 DEF LoadPage
  <2>2. PICK d \in Directory, page \in PageIndex : d = loading.directory /\ page = loading.next
    BY <1>1, <2>1, NextIsPage
  <2>3. FrameSize \in Nat /\ page \in Nat
    BY VmmConstants, PlaceOfPage
  <2>4. busy'[d] \subseteq busy[d] \cup (page .. page + 1)
    <3>1. busy'[d] \subseteq busy[d] \cup (page .. page + PagesFor(FrameSize) - 1)
      BY <1>1, <2>1, <2>2, <2>3, ToPageMaps
    <3>2. page + PagesFor(FrameSize) - 1 = page + 1
      BY <2>3, PagesForAFrame
    <3>3. QED
      BY <3>1, <3>2
  <2>5. /\ loading'.directory = d /\ loading'.program = loading.program /\ loading'.next = page + 1
    BY <1>1, <2>1, <2>2 DEF LoadingOK
  <2>6. PICK n \in Nat : n = loading.program.first + loading.program.count
    BY <1>1 DEF LoadingOK
  <2>7. \A q \in page + 1 .. n : q \notin busy[d]
    BY <2>1, <2>2, <2>6 DEF AheadIsFree
  <2>8. \A q \in page + 2 .. n : q \notin busy'[d]
    <3> SUFFICES ASSUME NEW q \in page + 2 .. n PROVE q \notin busy'[d]
      OBVIOUS
    <3>1. q \in page + 1 .. n /\ q \notin page .. page + 1
      BY <2>3, <2>6
    <3>2. QED
      BY <2>4, <2>7, <3>1
  <2>9. (page + 1) + 1 = page + 2
    BY <2>3
  <2>10. QED
    BY <2>5, <2>6, <2>8, <2>9 DEF AheadIsFree
<1>7. ASSUME NEW d \in Directory, NEW bytes \in Requests, ~Busy, AllocateVirtualMemory(d, bytes)
      PROVE  AheadIsFree'
  BY <1>3, <1>7 DEF AllocateVirtualMemory
<1>8. ASSUME NEW d \in Directory, NEW page \in PageIndex, ~Busy, FreeVirtualMemory(d, page)
      PROVE  AheadIsFree'
  BY <1>3, <1>8 DEF FreeVirtualMemory
<1>9. CASE UNCHANGED vars
  BY <1>2, <1>9 DEF vars, pageVars
<1>10. QED
  BY <1>4, <1>5, <1>6, <1>7, <1>8, <1>9, Zenon DEF Next

(* A step of the loader leaves a frame behind. *)
LEMMA LoadPageMaps ==
  ASSUME KeptInv, AheadIsFree, LoadPage, "starved" \notin faults'
  PROVE  backing'[loading.directory][loading.next] # NoFrame
<1>1. TypeOK /\ LoadingOK /\ PagesAreWhole /\ Core
  BY DEF KeptInv, Core
<1>2. /\ Busy /\ root' = root
      /\ AllocateVirtualMemoryToPage(loading.directory, loading.next, FrameSize)
  BY DEF LoadPage
<1>3. PICK d \in Directory, page \in PageIndex :
        d = loading.directory /\ page = loading.next /\ page \notin Reserved
  BY <1>1, <1>2, NextIsPage
<1>4. page \in Nat /\ FrameSize \in Nat /\ FrameSize + FrameSize < Word
  BY VmmAssumption, PlaceOfPage
<1>5. page + PagesFor(FrameSize) - 1 = page + 1
  BY <1>4, PagesForAFrame
<1>6. CASE ~failed'
  <2>1. \A p \in page .. page + 1 : backing'[d][p] \in Frame
    BY <1>1, <1>2, <1>3, <1>4, <1>5, <1>6, ToPageKeeps
  <2>2. QED
    BY <1>3, <1>4, <2>1, VmmConstants
<1>7. CASE failed'
  <2>1. /\ ~MayTake(d, page .. page + 1)
        /\ \A p \in PageIndex : backing'[d][p] = backing[d][p]
    BY <1>1, <1>2, <1>3, <1>4, <1>5, <1>7, ToPageMaps
  <2>2. PICK n \in Nat : /\ n = loading.program.first + loading.program.count
                         /\ n \in PageIndex /\ page < n
    BY <1>1, <1>2, <1>3, ProgramAssumption DEF LoadingOK, Busy
  <2>3. page + 1 \in PageIndex /\ page + 1 \notin busy[d]
    <3>1. page + 1 \in PageIndex
      BY <1>4, <2>2, VmmConstants DEF PageIndex
    <3>2. page + 1 \in page + 1 .. n
      BY <1>4, <2>2
    <3>3. QED
      BY <1>2, <1>3, <2>2, <3>1, <3>2 DEF AheadIsFree
  <2>4. page \in busy[d]
    <3>1. page .. page + 1 = {page, page + 1}
      BY <1>4
    <3>2. QED
      BY <2>1, <2>3, <3>1 DEF MayTake
  <2>5. backing[d][page] \in Frame
    BY <1>1, <1>3, <2>4 DEF PagesAreWhole
  <2>6. QED
    BY <1>3, <2>1, <2>5, VmmConstants
<1>8. QED
  BY <1>6, <1>7

(* Every page of a program has a frame by the time it is copied, unless     *)
(* memory runs out, although every other call of the loader fails.         *)
THEOREM ProgramIsMappedAlways == Spec => ProgramIsMapped
<1>1. Init => KeptInv /\ AheadIsFree
  <2>1. Init => AheadIsFree
    <3> SUFFICES ASSUME Init PROVE ~Busy
      BY DEF AheadIsFree
    <3>1. loading.next = 0 /\ loading.program = [first |-> 0, count |-> 0]
      BY DEF Init, Idle
    <3>2. loading.program.first = 0 /\ loading.program.count = 0
      BY <3>1
    <3>3. QED
      BY <3>1, <3>2 DEF Busy
  <2>2. QED
    BY <2>1, KeptInit
<1>2. KeptInv /\ AheadIsFree /\ [Next]_vars => KeptInv' /\ AheadIsFree'
  BY KeptStep, AheadStep
<1>3. KeptInv /\ AheadIsFree /\ [Next]_vars =>
        [Busy /\ loading'.next = loading.next + 1 /\ "starved" \notin faults'
           => backing'[loading.directory][loading.next] # NoFrame]_vars
  <2> SUFFICES ASSUME KeptInv, AheadIsFree, [Next]_vars, Busy, loading'.next = loading.next + 1,
                      "starved" \notin faults'
               PROVE  backing'[loading.directory][loading.next] # NoFrame
    OBVIOUS
  <2>1. loading' # loading
    <3>1. loading.next \in Nat
      BY DEF KeptInv, LoadingOK
    <3>2. loading.next # loading.next + 1
      BY <3>1
    <3>3. QED
      BY <3>2
  <2>2. ASSUME NEW d \in Directory, NEW program \in Programs, StartLoading(d, program) PROVE FALSE
    <3>1. loading = Idle
      BY <2>2 DEF StartLoading
    <3>2. loading.next = 0 /\ loading.program = [first |-> 0, count |-> 0]
      BY <3>1 DEF Idle
    <3>3. loading.program.first = 0 /\ loading.program.count = 0
      BY <3>2
    <3>4. QED
      BY <3>2, <3>3 DEF Busy
  <2>3. ~\E d \in Directory : CreateDirectory(d)
    BY <2>1 DEF CreateDirectory
  <2>4. ~UNCHANGED vars
    BY <2>1 DEF vars
  <2>5. LoadPage
    BY <2>2, <2>3, <2>4, Zenon DEF Next
  <2>6. QED
    BY <2>5, LoadPageMaps
<1>4. QED
  BY <1>1, <1>2, <1>3, PTL DEF Spec, ProgramIsMapped
=============================================================================
