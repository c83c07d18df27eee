--------------------------- MODULE PhysicalMemory ---------------------------
(***************************************************************************)
(* The physical memory manager, library/pmm/pmm.cxx, from the moment       *)
(* PMM::Initialize has laid out the frame descriptors.  The frames of all  *)
(* usable and reclaimable regions are numbered in the order the two nested *)
(* loops over regions and descriptors visit them; a frame stands for its   *)
(* descriptor and for the address of its buffer.  The contents of frames   *)
(* are not modelled, so the copy in ReallocatePhysicalMemory leaves no     *)
(* trace here.                                                             *)
(***************************************************************************)
EXTENDS Typedefs

CONSTANTS
  Frames,      \* number of frame descriptors over all regions
  RegionOf,    \* the region a frame belongs to
  FrameSize,   \* PMM::FrameSize
  Requests,    \* the byte counts callers ask for
  NoFrame      \* the null pointer, or any address that is no frame's buffer

Frame   == 0 .. Frames - 1
Pointer == Frame \cup {NoFrame}

ASSUME PmmAssumption ==
  /\ Frames \in Nat
  /\ FrameSize \in Nat \ {0}
  /\ NoFrame \notin Int

(* No caller asks for so much that rounding up leaves 32 bits. *)
ASSUME RequestAssumption ==
  \A bytes \in Requests : bytes \in Nat /\ bytes + FrameSize < Word

VARIABLES
  busy,        \* the frames whose Flags hold FRAME_BUSY
  busyCount,   \* FrameDescriptor.BusyCount, non-zero in the head of a block
  result       \* what the last call returned

vars == <<busy, busyCount, result>>

-----------------------------------------------------------------------------
(* Definitions named ..._Mutant are wrong on purpose: each alters the one  *)
(* that follows it as a slip in the code would, to show that a property    *)
(* notices.  Nothing else refers to them.                                  *)
FramesFor_Mutant(bytes) == bytes \div FrameSize

FramesFor(bytes) == AlignUp(bytes, FrameSize) \div FrameSize

Run(first, count) == first .. first + count - 1

(* count frames from first on, all of one region: j + count <= framesCount *)
IsRun(first, count) ==
  /\ first + count - 1 \in Frame
  /\ \A f \in Run(first, count) : RegionOf[f] = RegionOf[first]

(* Only the first frame is examined. *)
Fits_HeadMutant(free, count) == {f \in free : IsRun(f, count)}

Fits(free, count) == {f \in Frame : IsRun(f, count) /\ Run(f, count) \subseteq free}

(* The first fit, in the order of the two scanning loops. *)
IsFirstFit(f, count) ==
  /\ f \in Fits(Frame \ busy, count)
  /\ \A g \in Fits(Frame \ busy, count) : f <= g

(* BusyCount is reset before the loop that reads it. *)
BusyWithout_Mutant(pointer, flags, counts) == flags

(* The descriptors after a free of pointer: only the head of a block has a *)
(* BusyCount, so any other address finds nothing to clear.                 *)
BusyWithout(pointer, flags, counts) ==
  IF pointer \in Frame THEN flags \ Run(pointer, counts[pointer]) ELSE flags

CountsWithout(pointer, counts) ==
  IF pointer \in Frame THEN [counts EXCEPT ![pointer] = 0] ELSE counts

Heads == {f \in Frame : busyCount[f] > 0}

-----------------------------------------------------------------------------
Init ==
  /\ busy = {}
  /\ busyCount = [f \in Frame |-> 0]
  /\ result = NoFrame

AllocatePhysicalMemory(bytes) ==
  LET count == FramesFor(bytes)
  IN  \/ \E f \in Frame :
           /\ IsFirstFit(f, count)
           /\ busy' = busy \cup Run(f, count)
           /\ busyCount' = [busyCount EXCEPT ![f] = count]
           /\ result' = f
      \/ /\ Fits(Frame \ busy, count) = {}
         /\ result' = NoFrame
         /\ UNCHANGED <<busy, busyCount>>

FreePhysicalMemory(pointer) ==
  /\ busy' = BusyWithout(pointer, busy, busyCount)
  /\ busyCount' = CountsWithout(pointer, busyCount)
  /\ result' = IF pointer \in Frame THEN busyCount[pointer] ELSE 0

(* Allocate, copy, free the old block; when the old pointer frees nothing  *)
(* the new block is freed again.                                           *)
ReallocatePhysicalMemory(pointer, bytes) ==
  LET count == FramesFor(bytes)
  IN  \/ \E f \in Frame :
           LET flags  == busy \cup Run(f, count)
               counts == [busyCount EXCEPT ![f] = count]
               freed  == IF pointer \in Frame THEN counts[pointer] ELSE 0
               victim == IF freed > 0 THEN pointer ELSE f
           IN  /\ IsFirstFit(f, count)
               /\ busy' = BusyWithout(victim, flags, counts)
               /\ busyCount' = CountsWithout(victim, counts)
               /\ result' = IF freed > 0 THEN f ELSE NoFrame
      \/ /\ Fits(Frame \ busy, count) = {}
         /\ result' = NoFrame
         /\ UNCHANGED <<busy, busyCount>>

Next ==
  \/ \E bytes \in Requests : AllocatePhysicalMemory(bytes)
  \/ \E pointer \in Pointer : FreePhysicalMemory(pointer)
  \/ \E pointer \in Heads \cup {NoFrame}, bytes \in Requests :
       ReallocatePhysicalMemory(pointer, bytes)

Spec == Init /\ [][Next]_vars

-----------------------------------------------------------------------------
TypeOK ==
  /\ busy \subseteq Frame
  /\ busyCount \in [Frame -> 0 .. Frames]
  /\ result \in Pointer \cup 0 .. Frames

(* A block never leaves its region, and all its frames carry FRAME_BUSY.   *)
BlocksAreBusyRuns ==
  \A f \in Heads : IsRun(f, busyCount[f]) /\ Run(f, busyCount[f]) \subseteq busy

(* No frame belongs to two blocks: what one client owns, no other is given *)
(* and no other can free.                                                  *)
BlocksAreDisjoint ==
  \A f, g \in Heads :
    f # g => Run(f, busyCount[f]) \cap Run(g, busyCount[g]) = {}

(* No frame is lost: a busy frame belongs to a block that can be freed.    *)
NoFrameLost == \A x \in busy : \E f \in Heads : x \in Run(f, busyCount[f])

Consistent == BlocksAreBusyRuns /\ BlocksAreDisjoint /\ NoFrameLost

-----------------------------------------------------------------------------
BlockSet == {b \in Frame \X (1 .. Frames) : IsRun(b[1], b[2])}

Live == {<<f, busyCount[f]>> : f \in Heads}

Allocator == INSTANCE FrameAllocator
  WITH Block <- BlockSet, Pointers <- Pointer, live <- Live

(* The manager keeps the promise of FrameAllocator: first fit is one way   *)
(* to place a block, and a request fails only when memory is exhausted.    *)
ImplementsAllocator == Allocator!ASpec
=============================================================================
