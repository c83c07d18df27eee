------------------------ MODULE PhysicalMemoryProofs ------------------------
(***************************************************************************)
(* Theorems about PhysicalMemory.  The inductive invariant is TypeOK and   *)
(* Consistent together: disjointness of the blocks is preserved by an      *)
(* allocation only because every frame of a block carries FRAME_BUSY, and  *)
(* by a free only because no other block reaches into the freed frames.    *)
(***************************************************************************)
EXTENDS PhysicalMemory, TLAPS

(* TypeOK and Consistent of any flags and counts, so that the two halves   *)
(* of a reallocation can be taken one after the other.                     *)
Good(flags, counts) ==
  /\ flags \subseteq Frame
  /\ counts \in [Frame -> 0 .. Frames]
  /\ \A f \in Frame : counts[f] > 0 => IsRun(f, counts[f]) /\ Run(f, counts[f]) \subseteq flags
  /\ \A f, g \in Frame :
       counts[f] > 0 /\ counts[g] > 0 /\ f # g =>
         Run(f, counts[f]) \cap Run(g, counts[g]) = {}
  /\ \A x \in flags : \E f \in Frame : counts[f] > 0 /\ x \in Run(f, counts[f])

(* Rounding up reserves at least the bytes asked for, and one frame more   *)
(* than needed at most.                                                    *)
LEMMA FramesForBounds ==
  ASSUME NEW bytes \in Requests
  PROVE  /\ FramesFor(bytes) \in Nat \ {0}
         /\ FramesFor(bytes) * FrameSize >= bytes
         /\ FramesFor(bytes) * FrameSize <= bytes + FrameSize
<1> DEFINE q == bytes \div FrameSize
           r == bytes % FrameSize
<1>1. bytes \in Nat /\ FrameSize \in Nat \ {0} /\ bytes + FrameSize < Word /\ Word \in Nat \ {0}
  BY PmmAssumption, RequestAssumption, WordAssumption
<1>2. q \in Nat /\ r \in 0 .. FrameSize - 1 /\ bytes = FrameSize * q + r
  BY <1>1
<1>3. AlignUp(bytes, FrameSize) = FrameSize * (q + 1)
  <2>1. bytes - r + FrameSize = FrameSize * (q + 1)
    BY <1>1, <1>2
  <2>2. bytes - r + FrameSize \in 0 .. Word - 1
    BY <1>1, <1>2
  <2>3. (bytes - r + FrameSize) % Word = bytes - r + FrameSize
    BY <2>2, <1>1
  <2>4. QED
    BY <2>1, <2>3 DEF AlignUp
<1>4. (FrameSize * (q + 1)) \div FrameSize = q + 1
  BY <1>1, <1>2
<1>5. FramesFor(bytes) = q + 1
  BY <1>3, <1>4 DEF FramesFor
<1>6. (q + 1) * FrameSize = FrameSize * q + FrameSize
  BY <1>1, <1>2
<1>7. QED
  BY <1>1, <1>2, <1>5, <1>6

(* Setting the flags and the count of a run of free frames keeps the       *)
(* descriptors consistent.                                                 *)
LEMMA ReserveKeepsGood ==
  ASSUME NEW flags, NEW counts, Good(flags, counts),
         NEW count \in Nat \ {0},
         NEW f \in Fits(Frame \ flags, count)
  PROVE  /\ Good(flags \cup Run(f, count), [counts EXCEPT ![f] = count])
         /\ counts[f] = 0
<1> DEFINE nflags  == flags \cup Run(f, count)
           ncounts == [counts EXCEPT ![f] = count]
<1>1. f \in Frame /\ IsRun(f, count) /\ Run(f, count) \subseteq Frame \ flags
  BY DEF Fits
<1>2. count \in 1 .. Frames
  BY <1>1, PmmAssumption DEF IsRun, Frame
<1>3. counts[f] = 0
  <2>1. counts[f] \in Nat /\ f \in Nat
    BY <1>1, PmmAssumption DEF Good, Frame
  <2>2. f \in Run(f, count)
    BY <2>1, <1>1, <1>2, PmmAssumption DEF Run
  <2>3. counts[f] > 0 => f \in Run(f, counts[f])
    BY <2>1 DEF Run
  <2>4. counts[f] > 0 => Run(f, counts[f]) \subseteq flags
    BY <1>1 DEF Good
  <2>5. QED
    BY <2>1, <2>2, <2>3, <2>4, <1>1
<1>4. nflags \subseteq Frame /\ ncounts \in [Frame -> 0 .. Frames]
  BY <1>1, <1>2 DEF Good
<1>5. \A g \in Frame : ncounts[g] = IF g = f THEN count ELSE counts[g]
  BY DEF Good
<1>6. \A g \in Frame : ncounts[g] > 0 => IsRun(g, ncounts[g]) /\ Run(g, ncounts[g]) \subseteq nflags
  BY <1>1, <1>5 DEF Good
<1>7. \A g, h \in Frame :
        ncounts[g] > 0 /\ ncounts[h] > 0 /\ g # h =>
          Run(g, ncounts[g]) \cap Run(h, ncounts[h]) = {}
  <2> SUFFICES ASSUME NEW g \in Frame, NEW h \in Frame,
                      ncounts[g] > 0, ncounts[h] > 0, g # h
               PROVE  Run(g, ncounts[g]) \cap Run(h, ncounts[h]) = {}
    OBVIOUS
  <2>1. CASE g # f /\ h # f
    BY <2>1, <1>5 DEF Good
  <2>2. CASE g = f
    <3>1. Run(h, ncounts[h]) \subseteq flags
      BY <2>2, <1>5 DEF Good
    <3>2. QED
      BY <2>2, <3>1, <1>1, <1>5
  <2>3. CASE h = f
    <3>1. Run(g, ncounts[g]) \subseteq flags
      BY <2>3, <1>5 DEF Good
    <3>2. QED
      BY <2>3, <3>1, <1>1, <1>5
  <2>4. QED
    BY <2>1, <2>2, <2>3
<1>8. \A x \in nflags : \E g \in Frame : ncounts[g] > 0 /\ x \in Run(g, ncounts[g])
  <2> SUFFICES ASSUME NEW x \in nflags
               PROVE  \E g \in Frame : ncounts[g] > 0 /\ x \in Run(g, ncounts[g])
    OBVIOUS
  <2>1. CASE x \in Run(f, count)
    BY <2>1, <1>1, <1>5
  <2>2. CASE x \in flags
    <3>1. PICK g \in Frame : counts[g] > 0 /\ x \in Run(g, counts[g])
      BY <2>2 DEF Good
    <3>2. g # f
      BY <3>1, <1>3
    <3>3. QED
      BY <3>1, <3>2, <1>5
  <2>3. QED
    BY <2>1, <2>2
<1>9. QED
  BY <1>3, <1>4, <1>6, <1>7, <1>8 DEF Good

(* Freeing any address, a block's or not, keeps the descriptors consistent. *)
LEMMA ReleaseKeepsGood ==
  ASSUME NEW flags, NEW counts, Good(flags, counts), NEW p \in Pointer
  PROVE  Good(BusyWithout(p, flags, counts), CountsWithout(p, counts))
<1>1. CASE p \notin Frame
  BY <1>1 DEF BusyWithout, CountsWithout
<1>2. CASE p \in Frame
  <2> DEFINE nflags  == flags \ Run(p, counts[p])
             ncounts == [counts EXCEPT ![p] = 0]
  <2>1. BusyWithout(p, flags, counts) = nflags /\ CountsWithout(p, counts) = ncounts
    BY <1>2 DEF BusyWithout, CountsWithout
  <2>2. nflags \subseteq Frame /\ ncounts \in [Frame -> 0 .. Frames]
    <3>1. 0 \in 0 .. Frames
      BY PmmAssumption
    <3>2. QED
      BY <3>1 DEF Good
  <2>3. \A g \in Frame : ncounts[g] = IF g = p THEN 0 ELSE counts[g]
    BY DEF Good
  <2>4. \A g \in Frame : ncounts[g] > 0 => Run(g, counts[g]) \cap Run(p, counts[p]) = {}
    <3> SUFFICES ASSUME NEW g \in Frame, ncounts[g] > 0
                 PROVE  Run(g, counts[g]) \cap Run(p, counts[p]) = {}
      OBVIOUS
    <3>1. g # p /\ counts[g] > 0
      BY <2>3
    <3>2. CASE counts[p] > 0
      BY <3>1, <3>2, <1>2 DEF Good
    <3>3. CASE counts[p] = 0
      BY <3>3, <1>2, PmmAssumption DEF Run, Frame
    <3>4. QED
      BY <3>2, <3>3, <1>2, PmmAssumption DEF Good
  <2>5. \A g \in Frame : ncounts[g] > 0 => IsRun(g, ncounts[g]) /\ Run(g, ncounts[g]) \subseteq nflags
    BY <2>3, <2>4 DEF Good
  <2>6. \A g, h \in Frame :
          ncounts[g] > 0 /\ ncounts[h] > 0 /\ g # h =>
            Run(g, ncounts[g]) \cap Run(h, ncounts[h]) = {}
    BY <2>3 DEF Good
  <2>7. \A x \in nflags : \E g \in Frame : ncounts[g] > 0 /\ x \in Run(g, ncounts[g])
    <3> SUFFICES ASSUME NEW x \in nflags
                 PROVE  \E g \in Frame : ncounts[g] > 0 /\ x \in Run(g, ncounts[g])
      OBVIOUS
    <3>1. PICK g \in Frame : counts[g] > 0 /\ x \in Run(g, counts[g])
      BY DEF Good
    <3>2. g # p
      BY <3>1
    <3>3. QED
      BY <3>1, <3>2, <2>3
  <2>8. QED
    BY <2>1, <2>2, <2>5, <2>6, <2>7 DEF Good
<1>3. QED
  BY <1>1, <1>2

-----------------------------------------------------------------------------
LEMMA GoodIsInvariant ==
  ASSUME Good(busy, busyCount)
  PROVE  Consistent
BY DEF Good, Consistent, BlocksAreBusyRuns, BlocksAreDisjoint, NoFrameLost, Heads

(* What a call may return: a pointer, or a number of frames. *)
Returns(value) == value \in Pointer \cup 0 .. Frames

LEMMA InitGood == Init => Good(busy, busyCount) /\ Returns(result)
<1> SUFFICES ASSUME Init
             PROVE  Good(busy, busyCount) /\ Returns(result)
  OBVIOUS
<1>1. busyCount \in [Frame -> 0 .. Frames] /\ \A f \in Frame : ~(busyCount[f] > 0)
  BY PmmAssumption DEF Init
<1>2. QED
  BY <1>1 DEF Init, Good, Returns, Pointer

LEMMA AllocateKeepsGood ==
  ASSUME Good(busy, busyCount), NEW bytes \in Requests, AllocatePhysicalMemory(bytes)
  PROVE  Good(busy, busyCount)' /\ Returns(result')
<1> DEFINE count == FramesFor(bytes)
<1>1. count \in Nat \ {0}
  BY FramesForBounds
<1>2. CASE Fits(Frame \ busy, count) = {} /\ result' = NoFrame /\ UNCHANGED <<busy, busyCount>>
  BY <1>2 DEF Good, Returns, Pointer
<1>3. ASSUME NEW f \in Frame, IsFirstFit(f, count),
             busy' = busy \cup Run(f, count),
             busyCount' = [busyCount EXCEPT ![f] = count],
             result' = f
      PROVE  Good(busy, busyCount)' /\ Returns(result')
  <2>1. f \in Fits(Frame \ busy, count)
    BY <1>3 DEF IsFirstFit
  <2>2. Good(busy \cup Run(f, count), [busyCount EXCEPT ![f] = count])
    BY <2>1, <1>1, ReserveKeepsGood
  <2>3. Good(busy', busyCount')
    BY <2>2, <1>3
  <2>4. QED
    BY <2>3, <1>3 DEF Good, Returns, Pointer
<1>4. QED
  BY <1>2, <1>3 DEF AllocatePhysicalMemory

LEMMA FreeKeepsGood ==
  ASSUME Good(busy, busyCount), NEW p \in Pointer, FreePhysicalMemory(p)
  PROVE  Good(busy, busyCount)' /\ Returns(result')
<1>1. Good(busy', busyCount')
  BY ReleaseKeepsGood DEF FreePhysicalMemory
<1>2. Returns(result')
  BY PmmAssumption DEF FreePhysicalMemory, Returns, Good
<1>3. QED
  BY <1>1, <1>2 DEF Good

LEMMA ReallocateKeepsGood ==
  ASSUME Good(busy, busyCount), NEW p \in Pointer, NEW bytes \in Requests,
         ReallocatePhysicalMemory(p, bytes)
  PROVE  Good(busy, busyCount)' /\ Returns(result')
<1> DEFINE count == FramesFor(bytes)
<1>1. count \in Nat \ {0}
  BY FramesForBounds
<1>2. CASE Fits(Frame \ busy, count) = {} /\ result' = NoFrame /\ UNCHANGED <<busy, busyCount>>
  BY <1>2 DEF Good, Returns, Pointer
<1>3. ASSUME NEW f \in Frame, IsFirstFit(f, count), NEW victim \in Pointer,
             busy' = BusyWithout(victim, busy \cup Run(f, count), [busyCount EXCEPT ![f] = count]),
             busyCount' = CountsWithout(victim, [busyCount EXCEPT ![f] = count]),
             result' \in {f, NoFrame}
      PROVE  Good(busy, busyCount)' /\ Returns(result')
  <2>1. f \in Fits(Frame \ busy, count)
    BY <1>3 DEF IsFirstFit
  <2>2. Good(busy \cup Run(f, count), [busyCount EXCEPT ![f] = count])
    BY <2>1, <1>1, ReserveKeepsGood
  <2>3. Good(busy', busyCount')
    BY <2>2, <1>3, ReleaseKeepsGood
  <2>4. QED
    BY <2>3, <1>3 DEF Good, Returns, Pointer
<1>4. QED
  BY <1>2, <1>3 DEF ReallocatePhysicalMemory, Pointer

LEMMA NextKeepsGood ==
  ASSUME Good(busy, busyCount), Returns(result), [Next]_vars
  PROVE  Good(busy, busyCount)' /\ Returns(result')
<1>1. ASSUME NEW bytes \in Requests, AllocatePhysicalMemory(bytes)
      PROVE  Good(busy, busyCount)' /\ Returns(result')
  BY <1>1, AllocateKeepsGood
<1>2. ASSUME NEW p \in Pointer, FreePhysicalMemory(p)
      PROVE  Good(busy, busyCount)' /\ Returns(result')
  BY <1>2, FreeKeepsGood
<1>3. ASSUME NEW p \in Heads \cup {NoFrame}, NEW bytes \in Requests, ReallocatePhysicalMemory(p, bytes)
      PROVE  Good(busy, busyCount)' /\ Returns(result')
  <2>1. p \in Pointer
    BY DEF Heads, Pointer
  <2>2. QED
    BY <1>3, <2>1, ReallocateKeepsGood
<1>4. CASE UNCHANGED vars
  BY <1>4 DEF vars, Good, Returns
<1>5. QED
  BY <1>1, <1>2, <1>3, <1>4 DEF Next

LEMMA GoodAlways == Spec => [](Good(busy, busyCount) /\ Returns(result))
<1>1. Init => Good(busy, busyCount) /\ Returns(result)
  BY InitGood
<1>2. Good(busy, busyCount) /\ Returns(result) /\ [Next]_vars
        => (Good(busy, busyCount) /\ Returns(result))'
  BY NextKeepsGood DEF Returns
<1>3. QED
  BY <1>1, <1>2, PTL DEF Spec

(* PMM::AllocatePhysicalMemory, FreePhysicalMemory and                     *)
(* ReallocatePhysicalMemory leave every descriptor and every returned      *)
(* value within its range.                                                 *)
THEOREM TypeCorrect == Spec => []TypeOK
<1>1. Good(busy, busyCount) /\ Returns(result) => TypeOK
  BY DEF Good, Returns, TypeOK
<1>2. QED
  BY <1>1, GoodAlways, PTL

LEMMA ConsistentAlways == Spec => []Consistent
<1>1. Good(busy, busyCount) => Consistent
  BY GoodIsInvariant
<1>2. QED
  BY <1>1, GoodAlways, PTL

(* However requests, frees and reallocations follow each other, a live     *)
(* block lies in one region and all its frames are marked busy, so that    *)
(* the scan for free frames cannot hand any of them out again.             *)
THEOREM BlocksAreBusyRunsAlways == Spec => []BlocksAreBusyRuns
<1>1. Consistent => BlocksAreBusyRuns
  BY DEF Consistent
<1>2. QED
  BY <1>1, ConsistentAlways, PTL

(* No two live blocks ever share a frame. *)
THEOREM BlocksAreDisjointAlways == Spec => []BlocksAreDisjoint
<1>1. Consistent => BlocksAreDisjoint
  BY DEF Consistent
<1>2. QED
  BY <1>1, ConsistentAlways, PTL

(* Every busy frame can be reached by freeing some live block. *)
THEOREM NoFrameLostAlways == Spec => []NoFrameLost
<1>1. Consistent => NoFrameLost
  BY DEF Consistent
<1>2. QED
  BY <1>1, ConsistentAlways, PTL

-----------------------------------------------------------------------------
(* The blocks some counts describe; Live is LiveIn(busyCount).             *)
LiveIn(counts) == {<<f, counts[f]>> : f \in {g \in Frame : counts[g] > 0}}

LEMMA LiveIsLiveIn == Live = LiveIn(busyCount) /\ Live' = LiveIn(busyCount')
BY DEF Live, LiveIn, Heads

LEMMA ReserveAddsBlock ==
  ASSUME NEW counts, NEW ncounts, NEW f \in Frame, NEW count \in Nat \ {0},
         counts[f] = 0,
         \A g \in Frame : ncounts[g] = IF g = f THEN count ELSE counts[g]
  PROVE  LiveIn(ncounts) = LiveIn(counts) \cup {<<f, count>>}
BY DEF LiveIn

LEMMA ReleaseDropsBlock ==
  ASSUME NEW counts, NEW p \in Frame, counts \in [Frame -> Nat], counts[p] > 0
  PROVE  LiveIn(CountsWithout(p, counts)) = LiveIn(counts) \ {<<p, counts[p]>>}
BY DEF LiveIn, CountsWithout

LEMMA ReleaseOfNothing ==
  ASSUME NEW counts, NEW p \in Pointer, counts \in [Frame -> Nat],
         p \in Frame => counts[p] = 0
  PROVE  CountsWithout(p, counts) = counts
BY DEF CountsWithout

(* A block is free in the abstract view exactly when none of its frames    *)
(* carries FRAME_BUSY.                                                     *)
LEMMA FreeIsUnflagged ==
  ASSUME Good(busy, busyCount), NEW b \in BlockSet
  PROVE  Allocator!Free(b) <=> Run(b[1], b[2]) \subseteq Frame \ busy
<1> DEFINE R == Run(b[1], b[2])
<1>1. R \subseteq Frame
  BY PmmAssumption DEF BlockSet, IsRun, Run, Frame
<1>2. \A f \in Frame : Allocator!Extent(<<f, busyCount[f]>>) = Run(f, busyCount[f])
  BY DEF Allocator!Extent, Allocator!First, Allocator!Length, Run
<1>3. Allocator!Extent(b) = R
  BY DEF Allocator!Extent, Allocator!First, Allocator!Length, Run
<1>4. Allocator!Free(b) <=> \A f \in Frame : busyCount[f] > 0 => R \cap Run(f, busyCount[f]) = {}
  BY <1>2, <1>3 DEF Allocator!Free, Live, Heads
<1>5. ASSUME R \cap busy = {}
      PROVE  \A f \in Frame : busyCount[f] > 0 => R \cap Run(f, busyCount[f]) = {}
  BY <1>5 DEF Good
<1>6. ASSUME \A f \in Frame : busyCount[f] > 0 => R \cap Run(f, busyCount[f]) = {}
      PROVE  R \cap busy = {}
  BY <1>6 DEF Good
<1>7. QED
  BY <1>1, <1>4, <1>5, <1>6

(* The run first fit finds is a placement of the abstract allocator.       *)
LEMMA FirstFitIsPlacement ==
  ASSUME Good(busy, busyCount), NEW bytes \in Requests, NEW f \in Frame,
         IsFirstFit(f, FramesFor(bytes))
  PROVE  <<f, FramesFor(bytes)>> \in Allocator!Placement(bytes)
<1> DEFINE b == <<f, FramesFor(bytes)>>
<1>1. FramesFor(bytes) \in Nat \ {0} /\ FramesFor(bytes) * FrameSize >= bytes
  BY FramesForBounds
<1>2. IsRun(f, FramesFor(bytes)) /\ Run(f, FramesFor(bytes)) \subseteq Frame \ busy
  BY DEF IsFirstFit, Fits
<1>3. FramesFor(bytes) \in 1 .. Frames
  BY <1>1, <1>2, PmmAssumption DEF IsRun, Frame
<1>4. b \in BlockSet
  BY <1>2, <1>3 DEF BlockSet
<1>5. Allocator!Free(b)
  BY <1>2, <1>4, FreeIsUnflagged
<1>6. QED
  BY <1>1, <1>4, <1>5 DEF Allocator!Placement, Allocator!Length

(* When first fit finds nothing, no free run could serve the request.      *)
LEMMA NoFitIsExhausted ==
  ASSUME Good(busy, busyCount), NEW bytes \in Requests,
         Fits(Frame \ busy, FramesFor(bytes)) = {}
  PROVE  Allocator!Exhausted(bytes)
<1> DEFINE count == FramesFor(bytes)
<1>1. count \in Nat \ {0} /\ count * FrameSize <= bytes + FrameSize
  BY FramesForBounds
<1> SUFFICES ASSUME NEW b \in BlockSet, b[2] * FrameSize >= bytes + FrameSize,
                    Allocator!Free(b)
             PROVE  FALSE
  BY DEF Allocator!Exhausted, Allocator!Length
<1>2. b[1] \in Frame /\ b[2] \in 1 .. Frames /\ IsRun(b[1], b[2])
  BY DEF BlockSet
<1>3. count <= b[2]
  <2>1. bytes \in Nat /\ FrameSize \in Nat \ {0} /\ Frames \in Nat
    BY PmmAssumption, RequestAssumption
  <2>2. count * FrameSize <= b[2] * FrameSize
    BY <1>1, <1>2, <2>1
  <2>3. QED
    BY <1>1, <1>2, <2>1, <2>2
<1>4. Run(b[1], b[2]) \subseteq Frame \ busy
  BY FreeIsUnflagged
<1>5. Run(b[1], count) \subseteq Run(b[1], b[2])
  BY <1>1, <1>2, <1>3, PmmAssumption DEF Run, Frame
<1>6. IsRun(b[1], count)
  <2>1. b[1] + count - 1 \in Frame
    BY <1>1, <1>2, <1>3, PmmAssumption DEF IsRun, Frame
  <2>2. QED
    BY <2>1, <1>2, <1>5 DEF IsRun
<1>7. b[1] \in Fits(Frame \ busy, count)
  BY <1>2, <1>4, <1>5, <1>6 DEF Fits
<1>8. QED
  BY <1>7

LEMMA AllocateRefines ==
  ASSUME Good(busy, busyCount), NEW bytes \in Requests, AllocatePhysicalMemory(bytes)
  PROVE  Allocator!Grant(bytes) \/ Allocator!Refuse(bytes)
<1> DEFINE count == FramesFor(bytes)
<1>1. CASE Fits(Frame \ busy, count) = {} /\ result' = NoFrame /\ UNCHANGED <<busy, busyCount>>
  <2>1. UNCHANGED Live
    BY <1>1, LiveIsLiveIn
  <2>2. QED
    BY <1>1, <2>1, NoFitIsExhausted DEF Allocator!Refuse
<1>2. ASSUME NEW f \in Frame, IsFirstFit(f, count),
             busyCount' = [busyCount EXCEPT ![f] = count], result' = f
      PROVE  Allocator!Grant(bytes)
  <2>1. count \in Nat \ {0} /\ f \in Fits(Frame \ busy, count)
    BY <1>2, FramesForBounds DEF IsFirstFit
  <2>2. busyCount[f] = 0
    BY <2>1, ReserveKeepsGood
  <2>3. busyCount \in [Frame -> 0 .. Frames]
    BY DEF Good
  <2>4. \A g \in Frame : busyCount'[g] = IF g = f THEN count ELSE busyCount[g]
    BY <1>2, <2>3
  <2>5. LiveIn(busyCount') = LiveIn(busyCount) \cup {<<f, count>>}
    BY <2>1, <2>2, <2>4, ReserveAddsBlock
  <2>6. Live' = Live \cup {<<f, count>>}
    BY <1>2, <2>5, LiveIsLiveIn
  <2>7. <<f, count>> \in Allocator!Placement(bytes)
    BY <1>2, FirstFitIsPlacement
  <2>8. QED
    BY <1>2, <2>6, <2>7 DEF Allocator!Grant, Allocator!First
<1>3. QED
  BY <1>1, <1>2 DEF AllocatePhysicalMemory

LEMMA FreeRefines ==
  ASSUME Good(busy, busyCount), NEW p \in Pointer, FreePhysicalMemory(p)
  PROVE  Allocator!Release(p)
<1>1. busyCount \in [Frame -> Nat] /\ busyCount' = CountsWithout(p, busyCount)
  BY PmmAssumption DEF Good, FreePhysicalMemory
<1>2. CASE p \in Heads
  <2>1. p \in Frame /\ busyCount[p] > 0 /\ result' = busyCount[p]
    BY <1>2 DEF Heads, FreePhysicalMemory
  <2>2. Live' = Live \ {<<p, busyCount[p]>>} /\ <<p, busyCount[p]>> \in Live
    BY <1>1, <1>2, <2>1, LiveIsLiveIn, ReleaseDropsBlock DEF Live
  <2>3. QED
    BY <2>1, <2>2 DEF Allocator!Release, Allocator!First, Allocator!Length
<1>3. CASE p \notin Heads
  <2>1. p \in Frame => busyCount[p] = 0
    BY <1>1, <1>3 DEF Heads
  <2>2. UNCHANGED Live
    BY <1>1, <2>1, LiveIsLiveIn, ReleaseOfNothing
  <2>3. result' = 0
    BY <2>1 DEF FreePhysicalMemory
  <2>4. \A b \in Live : b[1] # p
    BY <1>3 DEF Live
  <2>5. QED
    BY <2>2, <2>3, <2>4 DEF Allocator!Release, Allocator!First
<1>4. QED
  BY <1>2, <1>3

LEMMA ReallocateRefines ==
  ASSUME Good(busy, busyCount), NEW p \in Heads \cup {NoFrame}, NEW bytes \in Requests,
         ReallocatePhysicalMemory(p, bytes)
  PROVE  Allocator!Refuse(bytes) \/ Allocator!Move(p, bytes) \/ Allocator!Reject(p)
<1> DEFINE count == FramesFor(bytes)
<1>1. CASE Fits(Frame \ busy, count) = {} /\ result' = NoFrame /\ UNCHANGED <<busy, busyCount>>
  <2>1. UNCHANGED Live
    BY <1>1, LiveIsLiveIn
  <2>2. QED
    BY <1>1, <2>1, NoFitIsExhausted DEF Allocator!Refuse
<1>2. ASSUME NEW f \in Frame, IsFirstFit(f, count),
             NEW counts, counts = [busyCount EXCEPT ![f] = count]
      PROVE  /\ counts \in [Frame -> Nat]
             /\ busyCount[f] = 0
             /\ count \in Nat \ {0}
             /\ \A g \in Frame : counts[g] = IF g = f THEN count ELSE busyCount[g]
             /\ LiveIn(counts) = Live \cup {<<f, count>>}
             /\ <<f, count>> \in Allocator!Placement(bytes)
  <2>1. count \in Nat \ {0} /\ f \in Fits(Frame \ busy, count)
    BY <1>2, FramesForBounds DEF IsFirstFit
  <2>2. busyCount[f] = 0
    BY <2>1, ReserveKeepsGood
  <2>3. busyCount \in [Frame -> 0 .. Frames]
    BY DEF Good
  <2>4. \A g \in Frame : counts[g] = IF g = f THEN count ELSE busyCount[g]
    BY <1>2, <2>3
  <2>5. LiveIn(counts) = Live \cup {<<f, count>>}
    BY <2>1, <2>2, <2>4, LiveIsLiveIn, ReserveAddsBlock
  <2>6. <<f, count>> \in Allocator!Placement(bytes)
    BY <1>2, FirstFitIsPlacement
  <2>7. counts \in [Frame -> Nat]
    BY <1>2, <2>1, <2>3, PmmAssumption
  <2>8. QED
    BY <2>1, <2>2, <2>4, <2>5, <2>6, <2>7
<1>3. ASSUME NEW f \in Frame, IsFirstFit(f, count), p \in Heads,
             NEW counts, counts = [busyCount EXCEPT ![f] = count],
             busyCount' = CountsWithout(p, counts),
             result' = f
      PROVE  Allocator!Move(p, bytes)
  <2>1. /\ counts \in [Frame -> Nat]
        /\ busyCount[f] = 0
        /\ \A g \in Frame : counts[g] = IF g = f THEN count ELSE busyCount[g]
        /\ LiveIn(counts) = Live \cup {<<f, count>>}
        /\ <<f, count>> \in Allocator!Placement(bytes)
    BY <1>2, <1>3
  <2>2. p \in Frame /\ p # f /\ counts[p] = busyCount[p] /\ counts[p] > 0
    BY <1>3, <2>1 DEF Heads
  <2>3. Live' = (Live \cup {<<f, count>>}) \ {<<p, busyCount[p]>>}
    BY <1>3, <2>1, <2>2, ReleaseDropsBlock, LiveIsLiveIn
  <2>4. Live' = (Live \ {<<p, busyCount[p]>>}) \cup {<<f, count>>}
    BY <2>2, <2>3
  <2>5. <<p, busyCount[p]>> \in Live
    BY <1>3 DEF Live
  <2>6. QED
    BY <1>3, <2>1, <2>4, <2>5 DEF Allocator!Move, Allocator!First
<1>4. ASSUME NEW f \in Frame, IsFirstFit(f, count), p = NoFrame,
             NEW counts, counts = [busyCount EXCEPT ![f] = count],
             busyCount' = CountsWithout(f, counts),
             result' = NoFrame
      PROVE  Allocator!Reject(p)
  <2>1. busyCount[f] = 0 /\ busyCount \in [Frame -> 0 .. Frames]
    BY <1>2, <1>4 DEF Good
  <2>2. busyCount' = busyCount
    BY <1>4, <2>1 DEF CountsWithout
  <2>3. UNCHANGED Live
    BY <2>2, LiveIsLiveIn
  <2>4. \A b \in Live : b[1] # p
    BY <1>4, PmmAssumption DEF Live, Heads, Frame
  <2>5. QED
    BY <1>4, <2>3, <2>4 DEF Allocator!Reject, Allocator!First
<1>5. p \in Heads => p \in Frame /\ busyCount[p] > 0
  BY DEF Heads
<1>6. p = NoFrame => p \notin Frame
  BY PmmAssumption DEF Frame
<1>7. ASSUME NEW f \in Frame,
             LET flags  == busy \cup Run(f, count)
                 counts == [busyCount EXCEPT ![f] = count]
                 freed  == IF p \in Frame THEN counts[p] ELSE 0
                 victim == IF freed > 0 THEN p ELSE f
             IN  /\ IsFirstFit(f, count)
                 /\ busy' = BusyWithout(victim, flags, counts)
                 /\ busyCount' = CountsWithout(victim, counts)
                 /\ result' = IF freed > 0 THEN f ELSE NoFrame
      PROVE  Allocator!Move(p, bytes) \/ Allocator!Reject(p)
  <2> DEFINE counts == [busyCount EXCEPT ![f] = count]
             freed  == IF p \in Frame THEN counts[p] ELSE 0
  <2>1. /\ IsFirstFit(f, count)
        /\ busyCount' = CountsWithout(IF freed > 0 THEN p ELSE f, counts)
        /\ result' = IF freed > 0 THEN f ELSE NoFrame
    BY <1>7
  <2>2. counts = [busyCount EXCEPT ![f] = count]
    OBVIOUS
  <2>3. freed = IF p \in Frame THEN counts[p] ELSE 0
    OBVIOUS
  <2> HIDE DEF counts, freed
  <2>4. CASE p \in Heads
    <3> HIDE DEF count
    <3>1. count \in Nat \ {0} /\ \A g \in Frame : counts[g] = IF g = f THEN count ELSE busyCount[g]
      BY <1>2, <2>1, <2>2
    <3>2. freed > 0
      BY <1>5, <2>3, <2>4, <3>1
    <3>3. busyCount' = CountsWithout(p, counts) /\ result' = f
      BY <2>1, <3>2
    <3>4. QED
      BY <1>3, <2>1, <2>2, <2>4, <3>3
  <2>5. CASE p = NoFrame
    <3>1. ~(freed > 0)
      BY <1>6, <2>3, <2>5
    <3>2. busyCount' = CountsWithout(f, counts) /\ result' = NoFrame
      BY <2>1, <3>1
    <3>3. QED
      BY <1>4, <2>1, <2>2, <2>5, <3>2
  <2>6. QED
    BY <2>4, <2>5
<1>8. QED
  BY <1>1, <1>7 DEF ReallocatePhysicalMemory

(* The physical memory manager implements FrameAllocator: every call hands *)
(* out, gives back or replaces exactly one block, or nothing, and a        *)
(* request is refused only when no free run could hold it.                 *)
THEOREM Refinement == Spec => ImplementsAllocator
<1>1. Init => Allocator!AInit
  BY DEF Init, Allocator!AInit, Live, Heads
<1>2. ASSUME Good(busy, busyCount), [Next]_vars
      PROVE  [Allocator!ANext]_(Allocator!avars)
  <2>1. ASSUME NEW bytes \in Requests, AllocatePhysicalMemory(bytes)
        PROVE  Allocator!ANext
    BY <1>2, <2>1, AllocateRefines DEF Allocator!ANext
  <2>2. ASSUME NEW p \in Pointer, FreePhysicalMemory(p)
        PROVE  Allocator!ANext
    BY <1>2, <2>2, FreeRefines DEF Allocator!ANext
  <2>3. ASSUME NEW p \in Heads \cup {NoFrame}, NEW bytes \in Requests,
               ReallocatePhysicalMemory(p, bytes)
        PROVE  Allocator!ANext
    <3>1. p \in Pointer
      BY DEF Heads, Pointer
    <3>2. QED
      BY <1>2, <2>3, <3>1, ReallocateRefines DEF Allocator!ANext
  <2>4. CASE UNCHANGED vars
    BY <2>4 DEF vars, Allocator!avars, Live, Heads
  <2>5. QED
    BY <1>2, <2>1, <2>2, <2>3, <2>4 DEF Next
<1>3. QED
  BY <1>1, <1>2, GoodAlways, PTL DEF Spec, ImplementsAllocator, Allocator!ASpec
=============================================================================
