--------------------------- MODULE MemoryMapProofs ---------------------------
(***************************************************************************)
(* Theorems about MemoryMap, for every firmware map and every frame and    *)
(* descriptor size.  What the arithmetic of GetRegionFramesCount needs to  *)
(* come out right is that lengths are multiples of a frame by then, which  *)
(* the alignment pass establishes and the removal of regions preserves.    *)
(***************************************************************************)
EXTENDS MemoryMap, SequenceTheorems, FiniteSetTheorems, TLAPS

LEMMA Constants ==
  /\ Word \in Nat \ {0} /\ FrameSize \in Nat \ {0} /\ DescriptorSize \in 1 .. FrameSize - 1
  /\ 2 * FrameSize < Word /\ TableAddress \in Nat /\ EntrySize \in Nat
  /\ ExtraRegions \in Seq(RegionDescriptor)
  /\ \A map \in RawMaps : map \in Seq(RegionDescriptor)
BY WordAssumption, MemoryMapAssumption DEF SizeT

LEMMA MultipleOf ==
  ASSUME NEW f \in Nat \ {0}, NEW k \in Nat
  PROVE  (f * k) % f = 0
<1> DEFINE d == (f * k) \div f
           s == (f * k) % f
<1>1. f * k \in Nat /\ d \in Nat /\ s \in 0 .. f - 1 /\ f * k = f * d + s
  OBVIOUS
<1> HIDE DEF d, s
<1>2. f * k - f * d = f * (k - d)
  BY <1>1
<1>3. CASE k - d >= 1
  <2>1. f * (k - d) >= f
    BY <1>1, <1>3
  <2>2. QED
    BY <1>1, <1>2, <2>1
<1>4. CASE k - d <= -1
  <2>1. f * (k - d) <= -f
    BY <1>1, <1>4
  <2>2. QED
    BY <1>1, <1>2, <2>1
<1>5. CASE k = d
  BY <1>1, <1>5
<1>6. s = 0
  BY <1>1, <1>3, <1>4, <1>5
<1>7. QED
  BY <1>6 DEF s

LEMMA AlignDownIsAligned ==
  ASSUME NEW n \in SizeT
  PROVE  AlignDown(n, FrameSize) \in SizeT /\ AlignDown(n, FrameSize) % FrameSize = 0
<1> DEFINE q == n \div FrameSize
<1>1. n \in Nat /\ n < Word /\ FrameSize \in Nat \ {0} /\ Word \in Nat
  BY Constants DEF SizeT
<1>2. q \in Nat /\ n - (n % FrameSize) = FrameSize * q /\ FrameSize * q <= n
  BY <1>1
<1>3. CASE FrameSize * q < FrameSize
  BY <1>1, <1>2, <1>3 DEF AlignDown, SizeT
<1>4. CASE FrameSize * q >= FrameSize
  <2>1. FrameSize * q - FrameSize = FrameSize * (q - 1) /\ q >= 1
    BY <1>1, <1>2, <1>4
  <2>2. AlignDown(n, FrameSize) = FrameSize * (q - 1)
    BY <1>1, <1>2, <1>4, <2>1 DEF AlignDown
  <2>3. FrameSize * (q - 1) <= n /\ FrameSize * (q - 1) >= 0
    BY <1>1, <1>2, <1>4, <2>1
  <2>4. (FrameSize * (q - 1)) % FrameSize = 0
    <3> HIDE DEF q
    <3>1. q - 1 \in Nat
      BY <1>2, <2>1
    <3>2. QED
      BY <1>1, <3>1, MultipleOf
  <2>5. QED
    BY <1>1, <2>1, <2>2, <2>3, <2>4 DEF SizeT
<1>5. QED
  BY <1>1, <1>2, <1>3, <1>4

(* Descriptors, rounded up to whole frames, and frames never exceed an     *)
(* aligned region, unless the region is two frames long.                   *)
LEMMA FramesFitAligned ==
  ASSUME NEW r \in RegionDescriptor,
         r.length < Word, r.length % FrameSize = 0, r.length # 2 * FrameSize
  PROVE  FramesFit(r)
<1> DEFINE L == r.length
           F == FrameSize
           D == DescriptorSize
           n == GetRegionFramesCount(r)
           m == L \div F
           q == (L - F) \div (F + D)
<1>1. L \in Nat /\ L < Word /\ F \in Nat \ {0} /\ D \in 1 .. F - 1 /\ 2 * F < Word /\ Word \in Nat \ {0}
  BY Constants DEF RegionDescriptor
<1>2. AlignUp(F + D, F) = 2 * F
  <2>1. (F + D) % F = D
    BY <1>1
  <2>2. QED
    BY <1>1, <2>1 DEF AlignUp
<1>3. CASE L < 2 * F
  <2>1. n = 0
    BY <1>2, <1>3 DEF GetRegionFramesCount
  <2>2. QED
    BY <2>1 DEF FramesFit
<1>4. CASE L >= 2 * F
  <2>1. m \in Nat /\ L = F * m
    BY <1>1
  <2>2. m >= 3
    <3>1. m # 2 /\ m # 1 /\ m # 0
      BY <1>1, <1>4, <2>1
    <3>2. QED
      BY <2>1, <3>1
  <2>3. L >= 3 * F
    BY <1>1, <2>1, <2>2
  <2>4. AlignDown(L, F) = L - F
    BY <1>1, <2>3 DEF AlignDown
  <2>5. q \in Nat /\ q >= 1 /\ q * (F + D) <= L - F
    <3>1. L - F \in Nat /\ L - F >= F + D /\ F + D \in Nat \ {0}
      BY <1>1, <2>3
    <3>2. q \in Nat /\ (F + D) * q <= L - F /\ L - F < (F + D) * (q + 1)
      BY <3>1
    <3>3. q # 0
      <4>1. q = 0 => (F + D) * (q + 1) = F + D
        BY <3>1
      <4> HIDE DEF q, L, F, D
      <4>2. QED
        BY <3>1, <3>2, <4>1
    <3>4. QED
      BY <3>2, <3>3, <3>1
  <2>6. n = (q - 1) % Word
    BY <1>1, <1>2, <1>4, <2>4 DEF GetRegionFramesCount
  <2>7. q - 1 \in 0 .. Word - 1
    <3>1. q <= q * (F + D)
      BY <1>1, <2>5
    <3>2. QED
      BY <1>1, <2>5, <3>1
  <2>8. n = q - 1
    BY <1>1, <2>6, <2>7
  <2> DEFINE k == q - 1
  <2>9. k \in Nat /\ k * F + k * D + F + D <= L - F /\ k * F \in Nat /\ k * D \in Nat
    <3>1. k \in Nat /\ k * F \in Nat /\ k * D \in Nat
      BY <1>1, <2>5
    <3>2. q * (F + D) = k * F + k * D + F + D
      BY <1>1, <2>5
    <3>3. QED
      BY <2>5, <3>1, <3>2
  <2>10. AlignUp(k * D, F) <= k * D + F
    <3> DEFINE p == k * D
    <3> HIDE DEF p
    <3>1. p \in Nat /\ p + F < Word
      BY <1>1, <2>9 DEF p
    <3>2. p % F \in 0 .. F - 1 /\ p % F <= p
      BY <1>1, <3>1
    <3>3. AlignUp(p, F) = p - (p % F) + F
      BY <1>1, <3>1, <3>2 DEF AlignUp
    <3>4. AlignUp(p, F) <= p + F
      BY <1>1, <3>1, <3>2, <3>3
    <3>5. QED
      BY <3>4 DEF p
  <2>11. AlignUp(k * D, F) \in Int
    BY <1>1, <2>9 DEF AlignUp
  <2>12. AlignUp(k * D, F) + k * F <= L
    <3> HIDE DEF k, L, F, D
    <3>1. QED
      BY <1>1, <2>9, <2>10, <2>11
  <2>13. QED
    BY <2>8, <2>12 DEF FramesFit
<1>5. QED
  BY <1>1, <1>3, <1>4

-----------------------------------------------------------------------------
(* From the alignment pass on every length is a multiple of a frame.       *)
LengthsAligned == pass \in {"prune", "done"} =>
  \A n \in DOMAIN table : table[n].length \in SizeT /\ table[n].length % FrameSize = 0

IInv == TypeOK /\ LengthsAligned

(* Taking an element out of a sequence and putting some in for it. *)
LEMMA ReplacedInSeq ==
  ASSUME NEW S, NEW t \in Seq(S), NEW k \in 1 .. Len(t), NEW new \in Seq(S)
  PROVE  SubSeq(t, 1, k - 1) \o new \o SubSeq(t, k + 1, Len(t)) \in Seq(S)
<1>1. SubSeq(t, 1, k - 1) \in Seq(S) /\ SubSeq(t, k + 1, Len(t)) \in Seq(S)
  BY SubSeqProperties
<1>2. QED
  BY <1>1, ConcatProperties

LEMMA RemovedFromSeq ==
  ASSUME NEW S, NEW t \in Seq(S), NEW k \in 1 .. Len(t)
  PROVE  /\ RemoveAt(t, k) \in Seq(S)
         /\ Len(RemoveAt(t, k)) = Len(t) - 1 /\ DOMAIN RemoveAt(t, k) = 1 .. Len(t) - 1
         /\ \A n \in 1 .. Len(t) - 1 : RemoveAt(t, k)[n] = t[IF n <= k - 1 THEN n ELSE n + 1]
         /\ \A n \in DOMAIN RemoveAt(t, k) : \E m \in DOMAIN t : RemoveAt(t, k)[n] = t[m]
<1> DEFINE u == SubSeq(t, 1, k - 1)
           v == SubSeq(t, k + 1, Len(t))
<1>1. /\ u \in Seq(S) /\ Len(u) = k - 1
      /\ \A n \in 1 .. k - 1 : u[n] = t[n]
  BY SubSeqProperties
<1>2. /\ v \in Seq(S) /\ Len(v) = Len(t) - k
      /\ \A n \in 1 .. Len(t) - k : v[n] = t[k + n]
  BY SubSeqProperties
<1> HIDE DEF u, v
<1>3. /\ u \o v \in Seq(S) /\ Len(u \o v) = Len(t) - 1
      /\ \A n \in 1 .. Len(t) - 1 : (u \o v)[n] = IF n <= k - 1 THEN u[n] ELSE v[n - (k - 1)]
  <2>1. Len(u) + Len(v) = Len(t) - 1 /\ Len(u) = k - 1
    BY <1>1, <1>2
  <2>2. /\ u \o v \in Seq(S) /\ Len(u \o v) = Len(u) + Len(v)
        /\ \A n \in 1 .. Len(u) + Len(v) : (u \o v)[n] = IF n <= Len(u) THEN u[n] ELSE v[n - Len(u)]
    BY <1>1, <1>2, ConcatProperties
  <2>3. QED
    BY <2>1, <2>2
<1>4. ASSUME NEW n \in 1 .. Len(t) - 1
      PROVE  (u \o v)[n] = t[IF n <= k - 1 THEN n ELSE n + 1]
  <2>1. (u \o v)[n] = IF n <= k - 1 THEN u[n] ELSE v[n - (k - 1)]
    BY <1>3
  <2> DEFINE one == (u \o v)[n]
  <2> HIDE DEF one
  <2>2. CASE n <= k - 1
    <3>1. n \in 1 .. k - 1
      BY <2>2
    <3>2. u[n] = t[n]
      BY <1>1, <3>1
    <3>3. QED
      BY <2>1, <2>2, <3>2
  <2>3. CASE ~(n <= k - 1)
    <3>1. n - (k - 1) \in 1 .. Len(t) - k /\ k + (n - (k - 1)) = n + 1
      BY <2>3
    <3>2. v[n - (k - 1)] = t[k + (n - (k - 1))]
      BY <1>2, <3>1
    <3>3. v[n - (k - 1)] = t[n + 1]
      BY <3>1, <3>2
    <3>4. QED
      BY <2>1, <2>3, <3>3
  <2>4. QED
    BY <2>2, <2>3
<1>5. RemoveAt(t, k) = u \o v
  BY DEF RemoveAt, u, v
<1>6. \A n \in 1 .. Len(t) - 1 : (IF n <= k - 1 THEN n ELSE n + 1) \in DOMAIN t
  OBVIOUS
<1>7. DOMAIN (u \o v) = 1 .. Len(t) - 1
  BY <1>3
<1>8. \A n \in DOMAIN (u \o v) : \E m \in DOMAIN t : (u \o v)[n] = t[m]
  BY <1>4, <1>6, <1>7
<1>9. QED
  BY <1>3, <1>4, <1>5, <1>7, <1>8

LEMMA MergedTyped ==
  ASSUME NEW a \in RegionDescriptor, NEW b \in RegionDescriptor
  PROVE  Merged(a, b) \in RegionDescriptor
BY DEF Merged, RegionDescriptor

(* What is left of a region has no negative length. *)
LEMMA WithoutTyped ==
  ASSUME NEW r \in RegionDescriptor, NEW e \in RegionDescriptor
  PROVE  Without(r, e) \in Seq(RegionDescriptor)
<1> DEFINE overlap == GetRegionOverlapType(r, e)
           before  == [r EXCEPT !.length = e.address - r.address]
           after   == [r EXCEPT !.address = End(e), !.length = End(r) - End(e)]
           gone    == [r EXCEPT !.type = "reserved"]
<1>1. r.address \in Nat /\ r.length \in Nat /\ e.address \in Nat /\ e.length \in Nat
  BY DEF RegionDescriptor
<1>2. End(e) \in Nat /\ End(r) \in Nat
  BY <1>1 DEF End
<1>3. End(r) - End(e) \in Nat => after \in RegionDescriptor
  BY <1>2 DEF RegionDescriptor
<1>4. e.address - r.address \in Nat => before \in RegionDescriptor
  BY DEF RegionDescriptor
<1>5. gone \in RegionDescriptor
  BY DEF RegionDescriptor
<1>6. overlap = "start" => End(r) - End(e) \in Nat
  BY <1>1, <1>2 DEF GetRegionOverlapType
<1>7. overlap = "end" => e.address - r.address \in Nat
  BY <1>1, <1>2 DEF GetRegionOverlapType
<1>8. overlap = "inside" => e.address - r.address \in Nat /\ End(r) - End(e) \in Nat
  BY <1>1, <1>2 DEF GetRegionOverlapType
<1>9. \/ Without(r, e) = <<r>> \/ Without(r, e) = <<gone>>
      \/ (overlap = "start" /\ Without(r, e) = <<after>>)
      \/ (overlap = "end" /\ Without(r, e) = <<before>>)
      \/ (overlap = "inside" /\ Without(r, e) = <<before, after>>)
  <2>1. overlap \in {"start", "end", "inside", "outside", "none"}
    BY DEF GetRegionOverlapType
  <2> HIDE DEF overlap
  <2>2. Without(r, e) =
          IF e.length = 0 THEN <<r>>
          ELSE CASE overlap = "start"   -> <<after>>
                 [] overlap = "end"     -> <<before>>
                 [] overlap = "inside"  -> <<before, after>>
                 [] overlap = "outside" -> <<gone>>
                 [] OTHER               -> <<r>>
    BY DEF Without, overlap
  <2> HIDE DEF before, after, gone
  <2>3. QED
    BY <2>1, <2>2
<1> HIDE DEF overlap, before, after, gone
<1>10. CASE Without(r, e) = <<r>> \/ Without(r, e) = <<gone>>
  BY <1>5, <1>10
<1>11. CASE overlap = "start" /\ Without(r, e) = <<after>>
  BY <1>3, <1>6, <1>11
<1>12. CASE overlap = "end" /\ Without(r, e) = <<before>>
  BY <1>4, <1>7, <1>12
<1>13. CASE overlap = "inside" /\ Without(r, e) = <<before, after>>
  BY <1>3, <1>4, <1>8, <1>13
<1>14. QED
  BY <1>9, <1>10, <1>11, <1>12, <1>13

LEMMA AlignedTyped ==
  ASSUME NEW r \in RegionDescriptor
  PROVE  /\ Aligned(r) \in RegionDescriptor
         /\ Aligned(r).length \in SizeT /\ Aligned(r).length % FrameSize = 0
<1>1. r.address % Word \in SizeT /\ r.length % Word \in SizeT
  BY Constants DEF RegionDescriptor, SizeT
<1>2. AlignUp(r.address % Word, FrameSize) \in Nat
  BY <1>1, Constants DEF AlignUp, SizeT
<1>3. AlignDown(r.length % Word, FrameSize) \in SizeT
      /\ AlignDown(r.length % Word, FrameSize) % FrameSize = 0
  BY <1>1, AlignDownIsAligned
<1>4. Aligned(r) = [address |-> AlignUp(r.address % Word, FrameSize),
                    length  |-> AlignDown(r.length % Word, FrameSize), type |-> r.type]
  BY DEF Aligned, Region
<1>5. r.type \in {"usable", "reserved", "reclaimable"}
  BY DEF RegionDescriptor
<1>6. AlignDown(r.length % Word, FrameSize) \in Nat
  BY <1>3, Constants DEF SizeT
<1>7. QED
  BY <1>2, <1>3, <1>4, <1>5, <1>6 DEF RegionDescriptor

LEMMA TableRegionTyped ==
  ASSUME NEW count \in Nat
  PROVE  TableRegion(count) \in RegionDescriptor
<1>1. AlignUp(TableAddress, FrameSize) \in Nat
  BY Constants DEF AlignUp
<1>2. AlignUp(TableAddress + (count + 2) * EntrySize, FrameSize) \in Int
  BY Constants DEF AlignUp
<1>3. (AlignUp(TableAddress + (count + 2) * EntrySize, FrameSize) - TableAddress) % Word \in Nat
  BY <1>2, Constants
<1>4. QED
  BY <1>1, <1>3 DEF TableRegion, Region, RegionDescriptor

-----------------------------------------------------------------------------
LEMMA InitInv == Init => IInv
<1> SUFFICES ASSUME Init PROVE IInv
  OBVIOUS
<1>1. raw \in RawMaps /\ table \in Seq(RegionDescriptor) /\ extras \in Seq(RegionDescriptor)
  BY Constants DEF Init
<1>2. pass = "tweak" /\ i = 1 /\ j \in 1 .. Len(extras) + 1
  BY DEF Init
<1>3. QED
  BY <1>1, <1>2 DEF IInv, TypeOK, LengthsAligned

LEMMA NextInv ==
  ASSUME IInv, [Next]_vars
  PROVE  IInv'
<1> USE DEF IInv, TypeOK, LengthsAligned
<1>1. CASE TweakRegionDescriptors
  <2> DEFINE kept == {n \in DOMAIN table : Addressable(table[n])}
  <2>1. PICK order \in [1 .. Cardinality(kept) -> kept] :
          table' = [n \in DOMAIN order |-> table[order[n]]]
    BY <1>1 DEF TweakRegionDescriptors
  <2>2. Cardinality(kept) \in Nat
    <3>1. IsFiniteSet(1 .. Len(table)) /\ DOMAIN table = 1 .. Len(table)
      BY FS_Interval
    <3>2. QED
      BY <3>1, FS_Subset, FS_CardinalityType
  <2>3. table' \in Seq(RegionDescriptor)
    <3>1. table' \in [1 .. Cardinality(kept) -> RegionDescriptor]
      BY <2>1
    <3> HIDE DEF kept
    <3>2. QED
      BY <2>2, <3>1
  <2>4. QED
    BY <1>1, <2>3 DEF TweakRegionDescriptors, StartPass
<1>2. CASE SortRegionDescriptors
  <2>1. table' \in Seq(RegionDescriptor)
    <3>1. PICK order \in [DOMAIN table -> DOMAIN table] :
            table' = [n \in DOMAIN table |-> table[order[n]]]
      BY <1>2 DEF SortRegionDescriptors
    <3>2. DOMAIN table = 1 .. Len(table) /\ Len(table) \in Nat
      OBVIOUS
    <3>3. \A n \in DOMAIN table : table[order[n]] \in RegionDescriptor
      BY <3>2
    <3>4. table' \in [1 .. Len(table) -> RegionDescriptor]
      BY <3>1, <3>2, <3>3
    <3>5. QED
      BY <3>2, <3>4
  <2>2. QED
    BY <1>2, <2>1 DEF SortRegionDescriptors, StartPass
<1>3. CASE RemoveSimilarRegionDescriptors
  <2>1. i \in 1 .. Len(table) /\ i + 1 \in 1 .. Len(table)
    BY <1>3 DEF RemoveSimilarRegionDescriptors
  <2>2. table[i] \in RegionDescriptor /\ table[i + 1] \in RegionDescriptor
    BY <2>1
  <2> DEFINE merged == [table EXCEPT ![i] = Merged(@, table[i + 1])]
  <2>3. merged \in Seq(RegionDescriptor) /\ Len(merged) = Len(table)
    BY <2>1, <2>2, MergedTyped
  <2>4. RemoveAt(merged, i + 1) \in Seq(RegionDescriptor)
    <3> HIDE DEF merged
    <3>1. QED
      BY <2>1, <2>3, RemovedFromSeq
  <2>5. table' \in Seq(RegionDescriptor)
    BY <1>3, <2>4 DEF RemoveSimilarRegionDescriptors
  <2>6. QED
    BY <1>3, <2>5 DEF RemoveSimilarRegionDescriptors
<1>4. CASE SimilarDone
  BY <1>4, Constants DEF SimilarDone, StartPass
<1>5. CASE RemoveExtraRegion
  <2>1. i \in 1 .. Len(table) /\ j \in 1 .. Len(extras)
    BY <1>5 DEF RemoveExtraRegion, Removing
  <2>2. Without(table[i], extras[j]) \in Seq(RegionDescriptor)
    <3>1. table[i] \in RegionDescriptor /\ extras[j] \in RegionDescriptor
      BY <2>1
    <3>2. QED
      BY <3>1, WithoutTyped
  <2>3. table' \in Seq(RegionDescriptor)
    BY <1>5, <2>1, <2>2, ReplacedInSeq DEF RemoveExtraRegion
  <2>4. j' \in 1 .. Len(extras) + 1
    BY <1>5, <2>1 DEF RemoveExtraRegion
  <2>5. UNCHANGED <<raw, pass, extras, i>> /\ pass \in {"extra", "table"}
    BY <1>5 DEF RemoveExtraRegion, Removing
  <2>6. QED
    BY <2>3, <2>4, <2>5
<1>6. CASE NextRegion
  BY <1>6 DEF NextRegion, Removing, Following
<1>7. CASE Initialize
  <2>1. TableRegion(Len(table)) \in RegionDescriptor
    BY TableRegionTyped
  <2>2. extras' \in Seq(RegionDescriptor) /\ Len(extras') = 1
    BY <1>7, <2>1 DEF Initialize
  <2>3. QED
    BY <1>7, <2>2 DEF Initialize, StartPass
<1>8. CASE AlignRegions
  <2>1. \A n \in DOMAIN table :
          /\ Aligned(table[n]) \in RegionDescriptor
          /\ Aligned(table[n]).length \in SizeT /\ Aligned(table[n]).length % FrameSize = 0
    BY AlignedTyped
  <2>2. table' = [n \in 1 .. Len(table) |-> Aligned(table[n])] /\ Len(table) \in Nat
    BY <1>8 DEF AlignRegions
  <2>3. table' \in Seq(RegionDescriptor) /\ DOMAIN table' = DOMAIN table
    BY <2>1, <2>2
  <2>4. \A n \in DOMAIN table' : table'[n].length \in SizeT /\ table'[n].length % FrameSize = 0
    BY <2>1, <2>2, <2>3
  <2>5. QED
    BY <1>8, <2>3, <2>4 DEF AlignRegions, StartPass
<1>9. CASE RemoveEmptyRegion
  <2>1. i \in 1 .. Len(table) /\ pass = "prune"
    BY <1>9 DEF RemoveEmptyRegion
  <2>2. table' \in Seq(RegionDescriptor)
        /\ \A n \in DOMAIN table' : \E m \in DOMAIN table : table'[n] = table[m]
    BY <1>9, <2>1, RemovedFromSeq DEF RemoveEmptyRegion
  <2>3. LengthsAligned'
    BY <2>1, <2>2
  <2>4. QED
    BY <1>9, <2>2, <2>3 DEF RemoveEmptyRegion
<1>10. CASE DescribeFrames
  BY <1>10 DEF DescribeFrames, StartPass
<1>11. CASE UNCHANGED vars
  BY <1>11 DEF vars
<1>12. QED
  BY <1>1, <1>2, <1>3, <1>4, <1>5, <1>6, <1>7, <1>8, <1>9, <1>10, <1>11 DEF Next

LEMMA InvAlways == Spec => []IInv
<1>1. QED
  BY InitInv, NextInv, PTL DEF Spec

-----------------------------------------------------------------------------
(* Whatever map the firmware hands over, no pass leaves the table with a   *)
(* region of negative length or reads past the end of the table.           *)
THEOREM TypeCorrect == Spec => []TypeOK
<1>1. IInv => TypeOK
  BY DEF IInv
<1>2. QED
  BY <1>1, InvAlways, PTL

(* Whatever map the firmware hands over, the frame descriptors and frames  *)
(* laid out in a usable region fit into it, unless it is two frames long.  *)
THEOREM FramesFitLongerRegionAlways == Spec => []FramesFitLongerRegion
<1>1. IInv => FramesFitLongerRegion
  <2> SUFFICES ASSUME IInv, pass = "done", NEW n \in UsableRegions,
                      table[n].length # 2 * FrameSize
               PROVE  FramesFit(table[n])
    BY DEF FramesFitLongerRegion
  <2>1. n \in DOMAIN table /\ table[n] \in RegionDescriptor
    BY DEF UsableRegions, IInv, TypeOK
  <2>2. table[n].length \in SizeT /\ table[n].length % FrameSize = 0
    BY <2>1 DEF IInv, LengthsAligned
  <2>3. table[n].length < Word
    BY <2>2, Constants DEF SizeT
  <2>4. QED
    BY <2>1, <2>2, <2>3, FramesFitAligned
<1>2. QED
  BY <1>1, InvAlways, PTL

-----------------------------------------------------------------------------
(* Two regions have no byte in common; one lies within another. *)
Apart(r, s) == r.length = 0 \/ s.length = 0 \/ End(r) <= s.address \/ End(s) <= r.address
Within(r, s) == s.address <= r.address /\ End(r) <= End(s)

(* What the passes up to RemoveSimilarRegionDescriptors have kept: entries *)
(* of the firmware, among them one for every reserved entry, and no two    *)
(* that start at the same address before the place the last pass has       *)
(* reached.                                                                *)
PickedFrom(map, t) ==
  /\ Len(t) <= Len(map)
  /\ \A n \in DOMAIN t : \E m \in DOMAIN map : t[n] = map[m]
  /\ \A m \in DOMAIN map : IsReserved(map[m]) =>
       \E n \in DOMAIN t : t[n].address = map[m].address /\ IsReserved(t[n])
  /\ \A a, b, c \in DOMAIN t : a # b /\ b # c /\ a # c =>
       ~(t[a].address = t[b].address /\ t[b].address = t[c].address)

EntriesAreKept == pass \in {"tweak", "sort", "similar"} =>
  /\ pass = "tweak" => table = raw
  /\ PickedFrom(raw, table)
  /\ pass # "tweak" => \A n \in DOMAIN table : Addressable(table[n])
  /\ pass = "similar" => \A a, b \in DOMAIN table : a < b =>
       table[a].address <= table[b].address /\ (a < i => table[a].address # table[b].address)

IsFree(map, r) == r.length = 0 \/
  /\ \E m \in DOMAIN map : IsUsable(map[m]) /\ Within(r, map[m])
  /\ \A m \in DOMAIN map : IsReserved(map[m]) => Apart(r, map[m])

(* From then on the usable regions are free memory, and no two regions,    *)
(* usable or not, have a byte in common.                                   *)
OnlyFreeMemory == pass \in {"extra", "table", "prune", "done"} =>
  /\ \A n \in UsableRegions : IsFree(raw, table[n])
  /\ \A m, n \in DOMAIN table : m # n => Apart(table[m], table[n])

(* The regions still to be removed that would cut one in two: every cut    *)
(* uses one up, which bounds the length of the table.                      *)
Splits(e, r) == e.length > 0 /\ Within(e, r)
Cuttable == {k \in 1 .. Len(extras) : \E n \in DOMAIN table : Splits(extras[k], table[n])}

RegionsAreCut == pass \in {"extra", "table"} =>
  /\ \A n \in DOMAIN table : End(table[n]) <= Word
  /\ \A n \in UsableRegions, k \in 1 .. Len(extras) :
       n < i \/ (n = i /\ k < j) => Apart(table[n], extras[k])
  /\ pass = "extra" =>
       /\ extras = ExtraRegions
       /\ Len(table) + Cardinality(Cuttable) <= Len(raw) + Len(ExtraRegions)
  /\ pass = "table" => \E c \in 0 .. Len(raw) + Len(ExtraRegions) :
       extras = <<TableRegion(c)>> /\ Len(table) + Cardinality(Cuttable) <= c + 1

ExtrasAreOut == pass \in {"table", "prune", "done"} =>
  \A n \in UsableRegions, k \in 1 .. Len(ExtraRegions) : Apart(table[n], ExtraRegions[k])

(* What covers the table of c entries covers that of one more as well. *)
TableIsOut == pass \in {"prune", "done"} =>
  \E c \in 0 .. Len(raw) + Len(ExtraRegions) :
    /\ Len(table) <= c + 1
    /\ \A n \in UsableRegions :
         table[n].length = 0 \/ (FrameSize <= table[n].address /\ Apart(table[n], TableRegion(c)))

MapInv ==
  /\ IInv /\ EntriesAreKept /\ OnlyFreeMemory /\ RegionsAreCut /\ ExtrasAreOut /\ TableIsOut

LEMMA Positions ==
  ASSUME NEW r \in RegionDescriptor
  PROVE  /\ r.address \in Nat /\ r.length \in Nat /\ End(r) \in Nat
         /\ End(r) = r.address + r.length
BY DEF RegionDescriptor, End

(* What has no byte in common with a region has none with a part of it. *)
LEMMA PartIsApart ==
  ASSUME NEW r \in RegionDescriptor, NEW s \in RegionDescriptor, NEW q \in RegionDescriptor,
         Within(q, r), Apart(r, s)
  PROVE  Apart(q, s) /\ Apart(s, q)
BY Positions DEF Within, Apart

LEMMA PartIsFree ==
  ASSUME NEW map \in Seq(RegionDescriptor), NEW r \in RegionDescriptor, NEW q \in RegionDescriptor,
         Within(q, r), IsFree(map, r)
  PROVE  IsFree(map, q)
<1>1. CASE r.length = 0
  <2>1. q.length = 0
    <3>1. /\ q.address \in Nat /\ q.length \in Nat /\ End(q) = q.address + q.length
          /\ r.address \in Nat /\ End(r) = r.address + r.length
      BY Positions
    <3>2. QED
      BY <1>1, <3>1 DEF Within
  <2>2. QED
    BY <2>1 DEF IsFree
<1>2. CASE r.length # 0
  <2>1. PICK m \in DOMAIN map : IsUsable(map[m]) /\ Within(r, map[m])
    BY <1>2 DEF IsFree
  <2>2. map[m] \in RegionDescriptor
    BY <2>1
  <2>3. Within(q, map[m])
    BY <2>1, <2>2, Positions DEF Within
  <2>4. \A k \in DOMAIN map : IsReserved(map[k]) => Apart(q, map[k])
    <3> SUFFICES ASSUME NEW k \in DOMAIN map, IsReserved(map[k]) PROVE Apart(q, map[k])
      OBVIOUS
    <3>1. map[k] \in RegionDescriptor /\ Apart(r, map[k])
      BY <1>2 DEF IsFree
    <3>2. QED
      BY <3>1, PartIsApart
  <2>5. QED
    BY <2>1, <2>3, <2>4 DEF IsFree
<1>3. QED
  BY <1>1, <1>2

(* What RemoveExtraRegions leaves of a region lies in it and, if it is     *)
(* still usable, outside what was removed.                                 *)
LEMMA WithoutCuts ==
  ASSUME NEW r \in RegionDescriptor, NEW e \in RegionDescriptor
  PROVE  /\ Len(Without(r, e)) \in 1 .. 2
         /\ \A n \in 1 .. Len(Without(r, e)) :
              /\ Within(Without(r, e)[n], r)
              /\ IsUsable(Without(r, e)[n]) => IsUsable(r) /\ Apart(Without(r, e)[n], e)
         /\ Len(Without(r, e)) = 2 =>
              /\ Splits(e, r) /\ Apart(Without(r, e)[1], Without(r, e)[2])
              /\ ~Splits(e, Without(r, e)[1]) /\ ~Splits(e, Without(r, e)[2])
<1> DEFINE overlap == GetRegionOverlapType(r, e)
           before  == [r EXCEPT !.length = e.address - r.address]
           after   == [r EXCEPT !.address = End(e), !.length = End(r) - End(e)]
           gone    == [r EXCEPT !.type = "reserved"]
<1>1. /\ r.address \in Nat /\ r.length \in Nat /\ e.address \in Nat /\ e.length \in Nat
      /\ End(r) = r.address + r.length /\ End(e) = e.address + e.length
  BY Positions
<1>2. /\ before.address = r.address /\ before.length = e.address - r.address /\ before.type = r.type
      /\ after.address = End(e) /\ after.length = End(r) - End(e) /\ after.type = r.type
      /\ gone.address = r.address /\ gone.length = r.length /\ gone.type = "reserved"
  BY DEF RegionDescriptor
<1>3. /\ End(before) = e.address
      /\ End(after) = End(r)
      /\ End(gone) = End(r)
  BY <1>1, <1>2 DEF End
<1>4. overlap \in {"start", "end", "inside", "outside", "none"}
  BY DEF GetRegionOverlapType
<1>5. /\ overlap = "start" => e.address <= r.address /\ End(e) > r.address /\ End(e) < End(r)
      /\ overlap = "end" => e.address < End(r) /\ e.address > r.address /\ End(e) >= End(r)
      /\ overlap = "inside" => e.address >= r.address /\ End(e) <= End(r)
      /\ overlap = "none" => Apart(r, e)
  BY <1>1 DEF GetRegionOverlapType, Apart
<1> HIDE DEF overlap
<1>6. Without(r, e) =
        IF e.length = 0 THEN <<r>>
        ELSE CASE overlap = "start"   -> <<after>>
               [] overlap = "end"     -> <<before>>
               [] overlap = "inside"  -> <<before, after>>
               [] overlap = "outside" -> <<gone>>
               [] OTHER               -> <<r>>
  BY DEF Without, overlap
<1> HIDE DEF before, after, gone
<1>7. Within(r, r) /\ Within(gone, r) /\ ~IsUsable(gone)
  BY <1>1, <1>2, <1>3 DEF Within, IsUsable
<1>8. CASE e.length = 0
  <2>1. Without(r, e) = <<r>>
    BY <1>6, <1>8
  <2>2. Len(<<r>>) = 1 /\ <<r>>[1] = r
    OBVIOUS
  <2>3. Apart(r, e)
    BY <1>8 DEF Apart
  <2>4. QED
    BY <1>7, <2>1, <2>2, <2>3
<1>9. CASE e.length # 0 /\ overlap = "start"
  <2>1. Without(r, e) = <<after>>
    BY <1>6, <1>9
  <2>2. Len(<<after>>) = 1 /\ <<after>>[1] = after
    OBVIOUS
  <2>3. Within(after, r) /\ Apart(after, e) /\ (IsUsable(after) => IsUsable(r))
    BY <1>1, <1>2, <1>3, <1>5, <1>9 DEF Within, Apart, IsUsable
  <2>4. QED
    BY <2>1, <2>2, <2>3
<1>10. CASE e.length # 0 /\ overlap = "end"
  <2>1. Without(r, e) = <<before>>
    BY <1>6, <1>10
  <2>2. Len(<<before>>) = 1 /\ <<before>>[1] = before
    OBVIOUS
  <2>3. Within(before, r) /\ Apart(before, e) /\ (IsUsable(before) => IsUsable(r))
    BY <1>1, <1>2, <1>3, <1>5, <1>10 DEF Within, Apart, IsUsable
  <2>4. QED
    BY <2>1, <2>2, <2>3
<1>11. CASE e.length # 0 /\ overlap = "inside"
  <2>1. Without(r, e) = <<before, after>>
    BY <1>6, <1>11
  <2>2. Len(<<before, after>>) = 2 /\ <<before, after>>[1] = before /\ <<before, after>>[2] = after
    OBVIOUS
  <2>3. /\ Within(before, r) /\ Apart(before, e) /\ (IsUsable(before) => IsUsable(r))
        /\ Within(after, r) /\ Apart(after, e) /\ (IsUsable(after) => IsUsable(r))
    BY <1>1, <1>2, <1>3, <1>5, <1>11 DEF Within, Apart, IsUsable
  <2>4. Splits(e, r) /\ Apart(before, after) /\ ~Splits(e, before) /\ ~Splits(e, after)
    BY <1>1, <1>2, <1>3, <1>5, <1>11 DEF Within, Apart, Splits
  <2>5. QED
    BY <2>1, <2>2, <2>3, <2>4
<1>12. CASE e.length # 0 /\ overlap = "outside"
  <2>1. Without(r, e) = <<gone>>
    BY <1>6, <1>12
  <2>2. Len(<<gone>>) = 1 /\ <<gone>>[1] = gone
    OBVIOUS
  <2>3. QED
    BY <1>7, <2>1, <2>2
<1>13. CASE e.length # 0 /\ overlap = "none"
  <2>1. Without(r, e) = <<r>>
    BY <1>6, <1>13
  <2>2. Len(<<r>>) = 1 /\ <<r>>[1] = r
    OBVIOUS
  <2>3. Apart(r, e)
    BY <1>5, <1>13
  <2>4. QED
    BY <1>7, <2>1, <2>2, <2>3
<1>14. QED
  BY <1>4, <1>8, <1>9, <1>10, <1>11, <1>12, <1>13

(* Where the elements of a sequence come from in which some take the place *)
(* of one.                                                                 *)
Replaced(t, k, new) == SubSeq(t, 1, k - 1) \o new \o SubSeq(t, k + 1, Len(t))

LEMMA ReplacedElements ==
  ASSUME NEW S, NEW t \in Seq(S), NEW k \in 1 .. Len(t), NEW new \in Seq(S)
  PROVE  /\ Len(Replaced(t, k, new)) = Len(t) - 1 + Len(new)
         /\ DOMAIN Replaced(t, k, new) = 1 .. Len(Replaced(t, k, new))
         /\ \A n \in 1 .. Len(Replaced(t, k, new)) :
              /\ n < k => Replaced(t, k, new)[n] = t[n]
              /\ n >= k /\ n < k + Len(new) => Replaced(t, k, new)[n] = new[n - k + 1]
              /\ n >= k + Len(new) => Replaced(t, k, new)[n] = t[n - Len(new) + 1]
<1> DEFINE a == SubSeq(t, 1, k - 1)
           b == SubSeq(t, k + 1, Len(t))
           u == Replaced(t, k, new)
<1>1. a \in Seq(S) /\ Len(a) = k - 1 /\ \A n \in 1 .. k - 1 : a[n] = t[n]
  BY SubSeqProperties
<1>2. b \in Seq(S) /\ Len(b) = Len(t) - k /\ \A n \in 1 .. Len(t) - k : b[n] = t[k + n]
  BY SubSeqProperties
<1>3. u = (a \o new) \o b
  BY DEF Replaced
<1> HIDE DEF a, b, u
<1>4. /\ a \o new \in Seq(S) /\ Len(a \o new) = Len(a) + Len(new)
      /\ \A n \in 1 .. Len(a) + Len(new) : (a \o new)[n] = IF n <= Len(a) THEN a[n] ELSE new[n - Len(a)]
  BY <1>1, ConcatProperties
<1> DEFINE an == a \o new
<1> HIDE DEF an
<1>5. an \in Seq(S) /\ Len(an) = k - 1 + Len(new)
      /\ \A n \in 1 .. k - 1 + Len(new) : an[n] = IF n <= k - 1 THEN t[n] ELSE new[n - k + 1]
  <2>1. \A n \in 1 .. k - 1 + Len(new) : n - (k - 1) = n - k + 1
    OBVIOUS
  <2>2. QED
    BY <1>1, <1>4, <2>1 DEF an
<1>6. /\ u \in Seq(S) /\ Len(u) = Len(an) + Len(b)
      /\ \A n \in 1 .. Len(an) + Len(b) : u[n] = IF n <= Len(an) THEN an[n] ELSE b[n - Len(an)]
  <2>1. u = an \o b
    BY <1>3 DEF an
  <2>2. an \in Seq(S) /\ b \in Seq(S)
    BY <1>2, <1>5
  <2>3. /\ an \o b \in Seq(S) /\ Len(an \o b) = Len(an) + Len(b)
        /\ \A n \in 1 .. Len(an) + Len(b) : (an \o b)[n] = IF n <= Len(an) THEN an[n] ELSE b[n - Len(an)]
    BY <2>2, ConcatProperties
  <2>4. QED
    BY <2>1, <2>3
<1>7. Len(new) \in Nat /\ Len(t) \in Nat
  OBVIOUS
<1> DEFINE l == Len(new)
<1>8. Len(an) = k - 1 + l /\ Len(b) = Len(t) - k
  BY <1>2, <1>5
<1>9. Len(u) = Len(t) - 1 + l /\ DOMAIN u = 1 .. Len(u) /\ l \in Nat
  <2>1. DOMAIN u = 1 .. Len(u)
    BY <1>6
  <2>2. Len(u) = Len(t) - 1 + l
    <3> HIDE DEF l
    <3>1. Len(u) = Len(an) + Len(b)
      BY <1>6
    <3>2. l \in Nat
      BY <1>7 DEF l
    <3>3. QED
      BY <1>7, <1>8, <3>1, <3>2
  <2>3. QED
    BY <1>7, <2>1, <2>2
<1>10. ASSUME NEW n \in 1 .. Len(u), n < k + l
      PROVE  u[n] = IF n <= k - 1 THEN t[n] ELSE new[n - k + 1]
  <2>1. n \in 1 .. k - 1 + l /\ n \in 1 .. Len(an) + Len(b) /\ n <= Len(an)
    <3> HIDE DEF l
    <3>1. QED
      BY <1>7, <1>8, <1>9, <1>10
  <2>2. u[n] = an[n]
    BY <1>6, <2>1
  <2>3. QED
    BY <1>5, <2>1, <2>2
<1>11. ASSUME NEW n \in 1 .. Len(u), n >= k + l
       PROVE  u[n] = t[n - l + 1]
  <2>1. /\ n \in 1 .. Len(an) + Len(b) /\ ~(n <= Len(an)) /\ n - Len(an) \in 1 .. Len(t) - k
        /\ k + (n - Len(an)) = n - l + 1
    <3> HIDE DEF l
    <3>1. n \in Nat /\ k \in Nat /\ k >= 1 /\ n <= Len(u) /\ n >= k + l
      BY <1>9, <1>11
    <3>2. /\ n <= Len(an) + Len(b) /\ n >= 1 /\ n - Len(an) >= 1
          /\ n - Len(an) <= Len(t) - k
      BY <1>7, <1>8, <1>9, <3>1
    <3>3. k + (n - Len(an)) = n - l + 1
      BY <1>8, <1>9, <3>1
    <3>4. QED
      BY <1>7, <1>8, <1>9, <3>1, <3>2, <3>3
  <2>2. u[n] = b[n - Len(an)]
    BY <1>6, <2>1
  <2>3. b[n - Len(an)] = t[k + (n - Len(an))]
    BY <1>2, <2>1
  <2>4. QED
    BY <2>1, <2>2, <2>3
<1>12. \A n \in 1 .. Len(u) : n < k => n < k + l /\ n <= k - 1
  BY <1>7
<1>13. \A n \in 1 .. Len(u) : n >= k => ~(n <= k - 1)
  OBVIOUS
<1>14. ASSUME NEW n \in 1 .. Len(u)
       PROVE  /\ n < k => u[n] = t[n]
              /\ n >= k /\ n < k + l => u[n] = new[n - k + 1]
              /\ n >= k + l => u[n] = t[n - l + 1]
  <2>1. n < k => u[n] = t[n]
    BY <1>10, <1>12
  <2>2. n >= k /\ n < k + l => u[n] = new[n - k + 1]
    BY <1>10, <1>13
  <2>3. n >= k + l => u[n] = t[n - l + 1]
    BY <1>11
  <2>4. QED
    BY <2>1, <2>2, <2>3
<1>15. QED
  BY <1>9, <1>14 DEF u

(* The rounds of RemoveExtraRegions. *)
LEMMA CutKeepsMap == MapInv /\ RemoveExtraRegion => MapInv'
<1> SUFFICES ASSUME MapInv, RemoveExtraRegion PROVE MapInv'
  OBVIOUS
<1> DEFINE r == table[i]
           e == extras[j]
           new == Without(r, e)
           w == Len(new)
           o(n) == IF n < i THEN n ELSE IF n < i + w THEN i ELSE n - w + 1
<1>1. /\ raw \in Seq(RegionDescriptor)
      /\ table \in Seq(RegionDescriptor) /\ extras \in Seq(RegionDescriptor)
  BY Constants DEF MapInv, IInv, TypeOK
<1>2. /\ pass \in {"extra", "table"} /\ i \in 1 .. Len(table) /\ j \in 1 .. Len(extras)
      /\ j' = j + 1 /\ UNCHANGED <<raw, pass, extras, i>>
  BY DEF RemoveExtraRegion, Removing, MapInv, IInv, TypeOK
<1>0. table' = Replaced(table, i, new)
  BY DEF RemoveExtraRegion, Replaced
<1>3. IInv'
  BY NextInv DEF MapInv, Next
<1>4. r \in RegionDescriptor /\ e \in RegionDescriptor
  BY <1>1, <1>2
<1>5. new \in Seq(RegionDescriptor)
  BY <1>4, WithoutTyped
<1>6. /\ w \in 1 .. 2
      /\ \A n \in 1 .. w :
           /\ Within(new[n], r)
           /\ IsUsable(new[n]) => IsUsable(r) /\ Apart(new[n], e)
      /\ w = 2 =>
           /\ Splits(e, r) /\ Apart(new[1], new[2])
           /\ ~Splits(e, new[1]) /\ ~Splits(e, new[2])
  BY <1>4, WithoutCuts
<1> HIDE DEF new, r, e
<1>7. /\ Len(table') = Len(table) - 1 + w /\ DOMAIN table' = 1 .. Len(table')
      /\ \A n \in 1 .. Len(table') :
           /\ n < i => table'[n] = table[n]
           /\ n >= i /\ n < i + w => table'[n] = new[n - i + 1]
           /\ n >= i + w => table'[n] = table[n - w + 1]
  <2> DEFINE u == Replaced(table, i, new)
  <2>1. /\ Len(u) = Len(table) - 1 + Len(new) /\ DOMAIN u = 1 .. Len(u)
        /\ \A n \in 1 .. Len(u) :
             /\ n < i => u[n] = table[n]
             /\ n >= i /\ n < i + Len(new) => u[n] = new[n - i + 1]
             /\ n >= i + Len(new) => u[n] = table[n - Len(new) + 1]
    BY <1>1, <1>2, <1>5, ReplacedElements
  <2>2. u = table'
    BY <1>0
  <2> HIDE DEF u
  <2>3. QED
    BY <2>1, <2>2 DEF w
<1> HIDE DEF w
<1>8. ASSUME NEW n \in 1 .. Len(table')
      PROVE  /\ o(n) \in 1 .. Len(table)
             /\ table'[n] \in RegionDescriptor /\ table[o(n)] \in RegionDescriptor
             /\ Within(table'[n], table[o(n)])
             /\ IsUsable(table'[n]) => IsUsable(table[o(n)])
             /\ IsUsable(table'[n]) /\ o(n) = i => Apart(table'[n], e)
  <2>1. o(n) \in 1 .. Len(table)
    BY <1>1, <1>2, <1>6, <1>7
  <2>2. table'[n] \in RegionDescriptor /\ table[o(n)] \in RegionDescriptor
    <3>1. table' \in Seq(RegionDescriptor)
      BY <1>3 DEF IInv, TypeOK
    <3>2. QED
      BY <1>1, <2>1, <3>1
  <2>3. CASE n >= i /\ n < i + w
    <3>1. table'[n] = new[n - i + 1] /\ n - i + 1 \in 1 .. w /\ o(n) = i
      BY <1>2, <1>6, <1>7, <2>3
    <3>2. table[o(n)] = r
      BY <3>1 DEF r
    <3>3. QED
      BY <1>6, <2>1, <2>2, <3>1, <3>2
  <2>4. CASE ~(n >= i /\ n < i + w)
    <3>1. table'[n] = table[o(n)] /\ o(n) # i
      BY <1>2, <1>6, <1>7, <2>4
    <3>2. Within(table'[n], table[o(n)])
      BY <2>2, <3>1, Positions DEF Within
    <3>3. QED
      BY <2>1, <2>2, <3>1, <3>2
  <2>5. QED
    BY <2>3, <2>4
<1>9. ASSUME NEW m \in 1 .. Len(table'), NEW n \in 1 .. Len(table'), m # n, o(m) = o(n)
      PROVE  w = 2 /\ ((m = i /\ n = i + 1) \/ (n = i /\ m = i + 1)) /\ o(m) = i
  <2>1. \A x \in 1 .. Len(table') :
          /\ x < i => o(x) = x
          /\ x >= i /\ x < i + w => o(x) = i
          /\ x >= i + w => o(x) = x - w + 1 /\ o(x) > i
    BY <1>2, <1>6
  <2> HIDE DEF o
  <2>2. m >= i /\ m < i + w /\ n >= i /\ n < i + w
    BY <1>2, <1>6, <1>9, <2>1
  <2>3. o(m) = i
    BY <2>1, <2>2
  <2>4. QED
    <3>1. m \in Nat /\ n \in Nat /\ i \in Nat /\ w \in 1 .. 2
      BY <1>2, <1>6, <1>9
    <3>2. w = 2 /\ ((m = i /\ n = i + 1) \/ (n = i /\ m = i + 1))
      BY <1>9, <2>2, <3>1
    <3>3. QED
      BY <2>3, <3>2
<1>10. w = 2 => table'[i] = new[1] /\ table'[i + 1] = new[2]
  <2> SUFFICES ASSUME w = 2 PROVE table'[i] = new[1] /\ table'[i + 1] = new[2]
    OBVIOUS
  <2>1. /\ i \in 1 .. Len(table') /\ i >= i /\ i < i + w /\ i - i + 1 = 1
        /\ i + 1 \in 1 .. Len(table') /\ i + 1 >= i /\ i + 1 < i + w /\ i + 1 - i + 1 = 2
    BY <1>1, <1>2, <1>7
  <2>2. QED
    BY <1>7, <2>1
<1> HIDE DEF o
<1>11. \A n \in UsableRegions' : n \in 1 .. Len(table') /\ o(n) \in UsableRegions
  BY <1>1, <1>7, <1>8 DEF UsableRegions
<1>12. Apart(new[1], new[2]) => Apart(new[2], new[1])
  BY DEF Apart
<1>13. OnlyFreeMemory
  BY DEF MapInv
<1>14. OnlyFreeMemory'
  <2>1. ASSUME NEW n \in UsableRegions' PROVE IsFree(raw', table'[n])
    <3>1. IsFree(raw, table[o(n)])
      BY <1>2, <1>11, <1>13 DEF OnlyFreeMemory
    <3>2. QED
      BY <1>1, <1>2, <1>8, <1>11, <3>1, PartIsFree
  <2>2. ASSUME NEW m \in DOMAIN table', NEW n \in DOMAIN table', m # n
        PROVE  Apart(table'[m], table'[n])
    <3>0. m \in 1 .. Len(table') /\ n \in 1 .. Len(table')
      BY <1>7
    <3>1. CASE o(m) = o(n)
      BY <1>6, <1>9, <1>10, <1>12, <2>2, <3>0, <3>1
    <3>2. CASE o(m) # o(n)
      <4>1. Apart(table[o(m)], table[o(n)])
        BY <1>1, <1>2, <1>8, <1>13, <3>0, <3>2 DEF OnlyFreeMemory
      <4>2. Apart(table'[m], table[o(n)]) /\ Apart(table[o(n)], table'[m])
        BY <1>8, <3>0, <4>1, PartIsApart
      <4>3. Apart(table'[n], table'[m]) /\ Apart(table'[m], table'[n])
        BY <1>8, <3>0, <4>2, PartIsApart
      <4>4. QED
        BY <4>3
    <3>3. QED
      BY <3>1, <3>2
  <2>3. QED
    BY <2>1, <2>2 DEF OnlyFreeMemory
<1>15. EntriesAreKept' /\ TableIsOut'
  BY <1>2 DEF EntriesAreKept, TableIsOut
<1>16. ExtrasAreOut'
  <2> SUFFICES ASSUME pass = "table", NEW n \in UsableRegions', NEW k \in 1 .. Len(ExtraRegions)
               PROVE  Apart(table'[n], ExtraRegions[k])
    BY <1>2 DEF ExtrasAreOut
  <2>1. Apart(table[o(n)], ExtraRegions[k])
    BY <1>11 DEF MapInv, ExtrasAreOut
  <2>2. ExtraRegions[k] \in RegionDescriptor
    BY Constants
  <2>3. QED
    BY <1>8, <1>11, <2>1, <2>2, PartIsApart
<1>17. RegionsAreCut
  BY DEF MapInv
<1>18. \A n \in DOMAIN table' : End(table'[n]) <= Word
  <2> SUFFICES ASSUME NEW n \in DOMAIN table' PROVE End(table'[n]) <= Word
    OBVIOUS
  <2>1. n \in 1 .. Len(table')
    BY <1>7
  <2>2. End(table[o(n)]) <= Word
    BY <1>1, <1>2, <1>8, <1>17, <2>1 DEF RegionsAreCut
  <2>3. QED
    BY <1>8, <2>1, <2>2, Positions, Constants DEF Within
<1>19. ASSUME NEW n \in UsableRegions', NEW k \in 1 .. Len(extras), n < i \/ (n = i /\ k < j + 1)
       PROVE  Apart(table'[n], extras[k])
  <2>1. n \in 1 .. Len(table') /\ o(n) = n /\ n \in UsableRegions
    <3>1. o(n) = n
      BY <1>2, <1>6, <1>11, <1>19 DEF o
    <3>2. QED
      BY <1>11, <3>1
  <2>2. CASE n < i \/ (n = i /\ k < j)
    <3>1. Apart(table[n], extras[k]) /\ extras[k] \in RegionDescriptor
      BY <1>1, <1>2, <1>17, <2>1, <2>2 DEF RegionsAreCut
    <3>2. QED
      BY <1>8, <2>1, <3>1, PartIsApart
  <2>3. CASE n = i /\ k = j
    <3>1. IsUsable(table'[n])
      BY DEF UsableRegions
    <3>2. QED
      BY <1>8, <2>1, <2>3, <3>1 DEF e
  <2>4. k < j + 1 => k < j \/ k = j
    BY <1>2
  <2>5. QED
    BY <1>19, <2>2, <2>3, <2>4
<1>20. IsFiniteSet(Cuttable)
  <2>1. IsFiniteSet(1 .. Len(extras))
    BY <1>1, FS_Interval
  <2>2. QED
    BY <2>1, FS_Subset DEF Cuttable
<1>21. Cuttable' \subseteq Cuttable
  <2> SUFFICES ASSUME NEW k \in 1 .. Len(extras), NEW n \in 1 .. Len(table'), Splits(extras[k], table'[n])
               PROVE  Splits(extras[k], table[o(n)])
    BY <1>1, <1>2, <1>7, <1>8 DEF Cuttable
  <2>1. extras[k] \in RegionDescriptor
    BY <1>1
  <2>2. QED
    BY <1>8, <2>1, Positions DEF Splits, Within
<1>22. w = 2 => j \in Cuttable /\ j \notin Cuttable'
  <2> SUFFICES ASSUME w = 2 PROVE j \in Cuttable /\ j \notin Cuttable'
    OBVIOUS
  <2>1. j \in Cuttable
    BY <1>1, <1>2, <1>6 DEF Cuttable, e, r
  <2>2. ASSUME NEW n \in 1 .. Len(table'), Splits(e, table'[n]) PROVE FALSE
    <3>1. CASE o(n) = i
      <4>1. n = i \/ n = i + 1
        BY <1>1, <1>2, <1>6, <1>7, <3>1 DEF o
      <4>2. QED
        BY <1>6, <1>10, <2>2, <4>1
    <3>2. CASE o(n) # i
      <4>1. Apart(table[o(n)], r)
        BY <1>1, <1>2, <1>8, <1>13, <3>2 DEF OnlyFreeMemory, r
      <4>2. Splits(e, r) /\ Splits(e, table[o(n)])
        BY <1>4, <1>6, <1>8, <2>2, Positions DEF Splits, Within
      <4>3. /\ e.length > 0 /\ e.length \in Nat /\ e.address \in Nat /\ End(e) = e.address + e.length
            /\ r.address <= e.address /\ End(e) <= End(r)
            /\ table[o(n)].address <= e.address /\ End(e) <= End(table[o(n)])
            /\ r.length \in Nat /\ r.address \in Nat /\ End(r) = r.address + r.length
            /\ table[o(n)].length \in Nat /\ table[o(n)].address \in Nat
            /\ End(table[o(n)]) = table[o(n)].address + table[o(n)].length
        BY <1>4, <1>8, <4>2, Positions DEF Splits, Within
      <4>4. QED
        BY <4>1, <4>3 DEF Apart
    <3>3. QED
      BY <3>1, <3>2
  <2>3. j \notin Cuttable'
    BY <1>2, <1>7, <2>2 DEF Cuttable, e
  <2>4. QED
    BY <2>1, <2>3
<1>23. Len(table') + Cardinality(Cuttable)' <= Len(table) + Cardinality(Cuttable)
  <2>1. Cardinality(Cuttable) \in Nat /\ Cardinality(Cuttable') \in Nat
        /\ Cardinality(Cuttable') <= Cardinality(Cuttable)
    BY <1>20, <1>21, FS_Subset, FS_CardinalityType
  <2>2. w = 2 => Cardinality(Cuttable') <= Cardinality(Cuttable) - 1
    <3> SUFFICES ASSUME w = 2 PROVE Cardinality(Cuttable') <= Cardinality(Cuttable) - 1
      OBVIOUS
    <3>1. IsFiniteSet(Cuttable \ {j}) /\ Cardinality(Cuttable \ {j}) = Cardinality(Cuttable) - 1
      BY <1>20, <1>22, FS_RemoveElement
    <3>2. Cuttable' \subseteq Cuttable \ {j}
      BY <1>21, <1>22
    <3>3. QED
      BY <3>1, <3>2, FS_Subset
  <2>3. Len(table') = Len(table) - 1 + w /\ Len(table) \in Nat
    BY <1>1, <1>7
  <2>4. QED
    BY <1>6, <2>1, <2>2, <2>3
<1>24. Len(table') \in Nat /\ Cardinality(Cuttable)' \in Nat
       /\ Len(table) \in Nat /\ Cardinality(Cuttable) \in Nat
  <2>1. Cardinality(Cuttable') \in Nat /\ Cardinality(Cuttable) \in Nat
    BY <1>20, <1>21, FS_Subset, FS_CardinalityType
  <2>2. QED
    BY <1>1, <1>6, <1>7, <2>1
<1>25. pass = "extra" =>
         /\ extras' = ExtraRegions
         /\ Len(table') + Cardinality(Cuttable)' <= Len(raw') + Len(ExtraRegions)
  <2> SUFFICES ASSUME pass = "extra"
               PROVE  /\ extras' = ExtraRegions
                      /\ Len(table') + Cardinality(Cuttable)' <= Len(raw') + Len(ExtraRegions)
    OBVIOUS
  <2>1. /\ extras = ExtraRegions
        /\ Len(table) + Cardinality(Cuttable) <= Len(raw) + Len(ExtraRegions)
    BY <1>17 DEF RegionsAreCut
  <2>2. Len(raw) + Len(ExtraRegions) \in Nat
    BY <1>1, Constants
  <2>3. Len(table') + Cardinality(Cuttable)' <= Len(raw) + Len(ExtraRegions)
    BY <1>23, <1>24, <2>1, <2>2
  <2>4. QED
    BY <1>2, <2>1, <2>3
<1>26. pass = "table" => \E c \in 0 .. Len(raw') + Len(ExtraRegions) :
         extras' = <<TableRegion(c)>> /\ Len(table') + Cardinality(Cuttable)' <= c + 1
  <2> SUFFICES ASSUME pass = "table"
               PROVE  \E c \in 0 .. Len(raw') + Len(ExtraRegions) :
         extras' = <<TableRegion(c)>> /\ Len(table') + Cardinality(Cuttable)' <= c + 1
    OBVIOUS
  <2>1. PICK c \in 0 .. Len(raw) + Len(ExtraRegions) :
          extras = <<TableRegion(c)>> /\ Len(table) + Cardinality(Cuttable) <= c + 1
    BY <1>17 DEF RegionsAreCut
  <2>2. Len(table') + Cardinality(Cuttable)' <= c + 1
    BY <1>23, <1>24, <2>1
  <2>3. QED
    BY <1>2, <2>1, <2>2
<1>27. RegionsAreCut'
  <2>1. ASSUME NEW n \in UsableRegions', NEW k \in 1 .. Len(extras'), n < i' \/ (n = i' /\ k < j')
        PROVE  Apart(table'[n], extras'[k])
    BY <1>2, <1>19, <2>1
  <2>2. pass' = pass
    BY <1>2
  <2>3. QED
    BY <1>18, <1>25, <1>26, <2>1, <2>2 DEF RegionsAreCut
<1>28. QED
  BY <1>3, <1>14, <1>15, <1>16, <1>27 DEF MapInv

LEMMA UpTo ==
  ASSUME NEW n \in Nat
  PROVE  IsFiniteSet(1 .. n) /\ Cardinality(1 .. n) = n
<1>1. IsFiniteSet(1 .. n) /\ Cardinality(1 .. n) = IF 1 > n THEN 0 ELSE n - 1 + 1
  BY FS_Interval
<1>2. QED
  BY <1>1

LEMMA ApartExtents ==
  ASSUME NEW r \in RegionDescriptor, NEW s \in RegionDescriptor
  PROVE  Extent(r) \cap Extent(s) = {} <=> Apart(r, s)
<1>1. /\ r.address \in Nat /\ r.length \in Nat /\ End(r) = r.address + r.length
      /\ s.address \in Nat /\ s.length \in Nat /\ End(s) = s.address + s.length
  BY Positions
<1>2. ASSUME Apart(r, s) PROVE Extent(r) \cap Extent(s) = {}
  BY <1>1, <1>2 DEF Apart, Extent
<1>3. ASSUME ~Apart(r, s) PROVE Extent(r) \cap Extent(s) # {}
  <2>1. r.address <= s.address => s.address \in Extent(r) \cap Extent(s)
    BY <1>1, <1>3 DEF Apart, Extent
  <2>2. s.address <= r.address => r.address \in Extent(r) \cap Extent(s)
    BY <1>1, <1>3 DEF Apart, Extent
  <2>3. QED
    BY <1>1, <2>1, <2>2
<1>4. QED
  BY <1>2, <1>3

(* Regions that start at different addresses are apart in the firmware's   *)
(* map.                                                                    *)
LEMMA FirmwareApart ==
  ASSUME NEW map \in RawMaps, NEW a \in DOMAIN map, NEW b \in DOMAIN map,
         map[a].address # map[b].address
  PROVE  Apart(map[a], map[b])
<1>1. map \in Seq(RegionDescriptor) /\ FirmwareMap(map)
  BY MemoryMapAssumption
<1>2. map[a] \in RegionDescriptor /\ map[b] \in RegionDescriptor /\ a # b
  BY <1>1
<1>3. Extent(map[a]) \cap Extent(map[b]) = {}
  BY <1>1, <1>2 DEF FirmwareMap
<1>4. QED
  BY <1>2, <1>3, ApartExtents

LEMMA FirmwarePairs ==
  ASSUME NEW map \in RawMaps, NEW a \in DOMAIN map, NEW b \in DOMAIN map, NEW c \in DOMAIN map,
         a # b, b # c, a # c
  PROVE  ~(map[a].address = map[b].address /\ map[b].address = map[c].address)
<1> SUFFICES ASSUME map[a].address = map[b].address, map[b].address = map[c].address
             PROVE  FALSE
  OBVIOUS
<1> DEFINE same == {n \in DOMAIN map : map[n].address = map[a].address}
<1>1. map \in Seq(RegionDescriptor) /\ Cardinality(same) <= 2
  BY MemoryMapAssumption DEF FirmwareMap
<1>2. IsFiniteSet(same)
  <2>1. IsFiniteSet(1 .. Len(map)) /\ DOMAIN map = 1 .. Len(map)
    BY <1>1, FS_Interval
  <2>2. QED
    BY <2>1, FS_Subset
<1>3. Cardinality({a, b, c}) = 3
  <2>1. IsFiniteSet({a}) /\ Cardinality({a}) = 1
    BY FS_Singleton
  <2>2. IsFiniteSet({a, b}) /\ Cardinality({a, b}) = 2
    <3>1. b \notin {a} /\ {a} \cup {b} = {a, b}
      OBVIOUS
    <3>2. IsFiniteSet({a} \cup {b}) /\ Cardinality({a} \cup {b}) = Cardinality({a}) + 1
      BY <2>1, <3>1, FS_AddElement
    <3>3. QED
      BY <2>1, <3>1, <3>2
  <2>3. c \notin {a, b} /\ {a, b} \cup {c} = {a, b, c}
    OBVIOUS
  <2>4. Cardinality({a, b} \cup {c}) = Cardinality({a, b}) + 1
    BY <2>2, <2>3, FS_AddElement
  <2>5. QED
    BY <2>2, <2>3, <2>4
<1>4. {a, b, c} \subseteq same
  OBVIOUS
<1>5. Cardinality({a, b, c}) <= Cardinality(same)
  BY <1>2, <1>4, FS_Subset
<1>6. Cardinality(same) \in Nat
  BY <1>2, FS_CardinalityType
<1>7. QED
  BY <1>1, <1>3, <1>5, <1>6

LEMMA InitMap == Init => MapInv
<1> SUFFICES ASSUME Init PROVE MapInv
  OBVIOUS
<1>1. raw \in RawMaps /\ raw \in Seq(RegionDescriptor) /\ table = raw /\ pass = "tweak"
  BY Constants DEF Init
<1>2. IInv
  BY InitInv
<1>3. EntriesAreKept
  <2>1. \A a, b, c \in DOMAIN raw : a # b /\ b # c /\ a # c =>
          ~(raw[a].address = raw[b].address /\ raw[b].address = raw[c].address)
    BY <1>1, FirmwarePairs
  <2>2. Len(raw) <= Len(raw)
    BY <1>1
  <2>3. PickedFrom(raw, raw)
    BY <2>1, <2>2, Zenon DEF PickedFrom
  <2>4. QED
    BY <1>1, <2>3 DEF EntriesAreKept
<1>4. OnlyFreeMemory /\ RegionsAreCut /\ ExtrasAreOut /\ TableIsOut
  BY <1>1 DEF OnlyFreeMemory, RegionsAreCut, ExtrasAreOut, TableIsOut
<1>5. QED
  BY <1>2, <1>3, <1>4 DEF MapInv

(* A map between sets of the same finite size that repeats nothing leaves  *)
(* nothing out.                                                            *)
LEMMA NothingLeftOut ==
  ASSUME NEW T, IsFiniteSet(T), NEW f \in [1 .. Cardinality(T) -> T],
         \A a, b \in 1 .. Cardinality(T) : a # b => f[a] # f[b]
  PROVE  \A x \in T : \E a \in 1 .. Cardinality(T) : f[a] = x
<1>1. Cardinality(T) \in Nat
  BY FS_CardinalityType
<1>2. Cardinality(1 .. Cardinality(T)) = Cardinality(T)
  BY <1>1, UpTo
<1>3. f \in Injection(1 .. Cardinality(T), T)
  BY DEF Injection, IsInjective
<1>4. f \in Surjection(1 .. Cardinality(T), T)
  BY <1>2, <1>3, FS_Injection
<1>5. QED
  BY <1>4 DEF Surjection

(* A pass that only picks entries out, once each and every addressable     *)
(* one, keeps them in this sense.                                          *)
LEMMA PickingKeeps ==
  ASSUME NEW map \in Seq(RegionDescriptor), NEW t \in Seq(RegionDescriptor), PickedFrom(map, t),
         NEW chosen \in SUBSET DOMAIN t,
         \A n \in DOMAIN t : Addressable(t[n]) => n \in chosen,
         NEW order \in [1 .. Cardinality(chosen) -> chosen],
         \A a, b \in 1 .. Cardinality(chosen) : a # b => order[a] # order[b]
  PROVE  PickedFrom(map, [n \in 1 .. Cardinality(chosen) |-> t[order[n]]])
<1> DEFINE K == Cardinality(chosen)
           u == [n \in 1 .. K |-> t[order[n]]]
<1>1. DOMAIN t = 1 .. Len(t) /\ Len(t) \in Nat /\ IsFiniteSet(DOMAIN t) /\ Cardinality(DOMAIN t) = Len(t)
  <2>1. DOMAIN t = 1 .. Len(t) /\ Len(t) \in Nat
    OBVIOUS
  <2>2. QED
    BY <2>1, UpTo
<1>2. IsFiniteSet(chosen) /\ K <= Len(t) /\ K \in Nat
  BY <1>1, FS_Subset, FS_CardinalityType
<1>3. order \in [1 .. K -> chosen] /\ \A a, b \in 1 .. K : a # b => order[a] # order[b]
  OBVIOUS
<1>4. \A x \in chosen : \E a \in 1 .. K : order[a] = x
  BY <1>2, NothingLeftOut
<1> HIDE DEF K
<1>5. Len(u) = K /\ DOMAIN u = 1 .. K
  BY <1>2
<1>6. \A n \in 1 .. K : u[n] = t[order[n]] /\ order[n] \in DOMAIN t
  BY <1>3
<1> HIDE DEF u
<1>7. Len(u) <= Len(map)
  BY <1>1, <1>2, <1>5 DEF PickedFrom
<1>8. \A n \in DOMAIN u : \E m \in DOMAIN map : u[n] = map[m]
  BY <1>5, <1>6 DEF PickedFrom
<1>9. \A m \in DOMAIN map : IsReserved(map[m]) =>
        \E n \in DOMAIN u : u[n].address = map[m].address /\ IsReserved(u[n])
  <2> SUFFICES ASSUME NEW m \in DOMAIN map, IsReserved(map[m])
               PROVE  \E n \in DOMAIN u : u[n].address = map[m].address /\ IsReserved(u[n])
    OBVIOUS
  <2>1. PICK n \in DOMAIN t : t[n].address = map[m].address /\ IsReserved(t[n])
    BY DEF PickedFrom
  <2>2. PICK a \in 1 .. K : order[a] = n
    BY <1>4, <2>1 DEF IsReserved
  <2>3. QED
    BY <1>5, <1>6, <2>1, <2>2
<1>10. \A a, b, c \in DOMAIN u : a # b /\ b # c /\ a # c =>
         ~(u[a].address = u[b].address /\ u[b].address = u[c].address)
  <2> SUFFICES ASSUME NEW a \in 1 .. K, NEW b \in 1 .. K, NEW c \in 1 .. K, a # b, b # c, a # c
               PROVE  ~(t[order[a]].address = t[order[b]].address
                          /\ t[order[b]].address = t[order[c]].address)
    BY <1>5, <1>6
  <2>1. order[a] # order[b] /\ order[b] # order[c] /\ order[a] # order[c]
    BY <1>3
  <2>2. order[a] \in DOMAIN t /\ order[b] \in DOMAIN t /\ order[c] \in DOMAIN t
    BY <1>6
  <2>3. QED
    BY <2>1, <2>2 DEF PickedFrom
<1>11. PickedFrom(map, u)
  BY <1>7, <1>8, <1>9, <1>10, Zenon DEF PickedFrom
<1>12. QED
  BY <1>11 DEF u, K

LEMMA TweakKeepsMap == MapInv /\ TweakRegionDescriptors => MapInv'
<1> SUFFICES ASSUME MapInv, TweakRegionDescriptors PROVE MapInv'
  OBVIOUS
<1> DEFINE kept == {n \in DOMAIN table : Addressable(table[n])}
<1>1. raw \in Seq(RegionDescriptor) /\ table \in Seq(RegionDescriptor)
  BY Constants DEF MapInv, IInv, TypeOK
<1>2. pass = "tweak" /\ pass' = "sort" /\ UNCHANGED <<raw, extras>>
  BY DEF TweakRegionDescriptors, StartPass
<1>3. IInv'
  BY NextInv DEF MapInv, Next
<1>4. PICK order \in [1 .. Cardinality(kept) -> kept] :
        /\ \A a, b \in DOMAIN order : a < b => order[a] < order[b]
        /\ table' = [n \in DOMAIN order |-> table[order[n]]]
  BY DEF TweakRegionDescriptors
<1>5. Cardinality(kept) \in Nat /\ DOMAIN table = 1 .. Len(table)
  <2>1. IsFiniteSet(1 .. Len(table)) /\ DOMAIN table = 1 .. Len(table)
    BY <1>1, FS_Interval
  <2>2. QED
    BY <2>1, FS_Subset, FS_CardinalityType
<1>6. \A a, b \in 1 .. Cardinality(kept) : a # b => order[a] # order[b]
  <2> SUFFICES ASSUME NEW a \in 1 .. Cardinality(kept), NEW b \in 1 .. Cardinality(kept), a # b
               PROVE  order[a] # order[b]
    OBVIOUS
  <2>1. order[a] \in Int /\ order[b] \in Int
    BY <1>5
  <2>2. a < b \/ b < a
    BY <1>5
  <2>3. QED
    BY <1>4, <2>1, <2>2
<1>7. PickedFrom(raw, table)
  BY <1>2 DEF MapInv, EntriesAreKept
<1>8. PickedFrom(raw, table')
  <2>1. table' = [n \in 1 .. Cardinality(kept) |-> table[order[n]]]
    BY <1>4
  <2>2. kept \in SUBSET DOMAIN table /\ \A n \in DOMAIN table : Addressable(table[n]) => n \in kept
    OBVIOUS
  <2> HIDE DEF kept
  <2>3. PickedFrom(raw, [n \in 1 .. Cardinality(kept) |-> table[order[n]]])
    BY <1>1, <1>6, <1>7, <2>2, PickingKeeps
  <2>4. QED
    BY <2>1, <2>3
<1>9. \A n \in DOMAIN table' : Addressable(table'[n])
  BY <1>4
<1>10. EntriesAreKept'
  BY <1>2, <1>8, <1>9 DEF EntriesAreKept
<1>11. OnlyFreeMemory' /\ RegionsAreCut' /\ ExtrasAreOut' /\ TableIsOut'
  BY <1>2 DEF OnlyFreeMemory, RegionsAreCut, ExtrasAreOut, TableIsOut
<1>12. QED
  BY <1>3, <1>10, <1>11 DEF MapInv

LEMMA SortKeepsMap == MapInv /\ SortRegionDescriptors => MapInv'
<1> SUFFICES ASSUME MapInv, SortRegionDescriptors PROVE MapInv'
  OBVIOUS
<1>1. raw \in Seq(RegionDescriptor) /\ table \in Seq(RegionDescriptor)
  BY Constants DEF MapInv, IInv, TypeOK
<1>2. pass = "sort" /\ pass' = "similar" /\ i' = 1 /\ UNCHANGED <<raw, extras>>
  BY DEF SortRegionDescriptors, StartPass
<1>3. IInv'
  BY NextInv DEF MapInv, Next
<1>4. PICK order \in [DOMAIN table -> DOMAIN table] :
        /\ \A a, b \in DOMAIN table : a < b => Precedes(order[a], order[b])
        /\ table' = [n \in DOMAIN table |-> table[order[n]]]
  BY DEF SortRegionDescriptors
<1>5. DOMAIN table = 1 .. Len(table) /\ Len(table) \in Nat /\ Cardinality(DOMAIN table) = Len(table)
  <2>1. DOMAIN table = 1 .. Len(table) /\ Len(table) \in Nat
    BY <1>1
  <2>2. QED
    BY <2>1, UpTo
<1>6. \A a, b \in DOMAIN table : order[a] \in Nat /\ order[b] \in Nat
        /\ table[order[a]].address \in Nat /\ table[order[b]].address \in Nat
  <2> SUFFICES ASSUME NEW a \in DOMAIN table PROVE order[a] \in Nat /\ table[order[a]].address \in Nat
    OBVIOUS
  <2>1. order[a] \in DOMAIN table /\ table[order[a]] \in RegionDescriptor
    BY <1>1, <1>5
  <2>2. QED
    BY <1>5, <2>1, Positions
<1>7. \A a, b \in DOMAIN table : a # b => order[a] # order[b]
  <2> SUFFICES ASSUME NEW a \in DOMAIN table, NEW b \in DOMAIN table, a # b
               PROVE  order[a] # order[b]
    OBVIOUS
  <2>1. a < b \/ b < a
    BY <1>5
  <2>2. QED
    BY <1>4, <1>6, <2>1 DEF Precedes
<1>8. PickedFrom(raw, table) /\ \A n \in DOMAIN table : Addressable(table[n])
  BY <1>2 DEF MapInv, EntriesAreKept
<1>9. PickedFrom(raw, table')
  <2> DEFINE chosen == DOMAIN table
  <2>1. /\ chosen = 1 .. Cardinality(chosen)
        /\ table' = [n \in 1 .. Cardinality(chosen) |-> table[order[n]]]
        /\ order \in [1 .. Cardinality(chosen) -> chosen]
        /\ \A a, b \in 1 .. Cardinality(chosen) : a # b => order[a] # order[b]
    BY <1>4, <1>5, <1>7
  <2>2. chosen \in SUBSET DOMAIN table /\ \A n \in DOMAIN table : Addressable(table[n]) => n \in chosen
    OBVIOUS
  <2> HIDE DEF chosen
  <2>3. PickedFrom(raw, [n \in 1 .. Cardinality(chosen) |-> table[order[n]]])
    BY <1>1, <1>8, <2>1, <2>2, PickingKeeps
  <2>4. QED
    BY <2>1, <2>3
<1>10. \A n \in DOMAIN table' : Addressable(table'[n])
  BY <1>4, <1>8
<1>11. \A a, b \in DOMAIN table' : a < b =>
         table'[a].address <= table'[b].address /\ ~(a < 1)
  <2> SUFFICES ASSUME NEW a \in DOMAIN table, NEW b \in DOMAIN table, a < b
               PROVE  table[order[a]].address <= table[order[b]].address /\ ~(a < 1)
    BY <1>4
  <2>1. QED
    BY <1>4, <1>5, <1>6 DEF Precedes
<1>12. EntriesAreKept'
  BY <1>2, <1>9, <1>10, <1>11 DEF EntriesAreKept
<1>13. OnlyFreeMemory' /\ RegionsAreCut' /\ ExtrasAreOut' /\ TableIsOut'
  BY <1>2 DEF OnlyFreeMemory, RegionsAreCut, ExtrasAreOut, TableIsOut
<1>14. QED
  BY <1>3, <1>12, <1>13 DEF MapInv

(* Two regions that start at the same address become one of them, and a    *)
(* reserved one if either is.                                              *)
LEMMA MergedIsOne ==
  ASSUME NEW r \in RegionDescriptor, NEW s \in RegionDescriptor, r.address = s.address
  PROVE  /\ Merged(r, s) = r \/ Merged(r, s) = s
         /\ ~IsUsable(r) \/ ~IsUsable(s) => ~IsUsable(Merged(r, s))
         /\ Merged(r, s).address = r.address
<1>1. r.type = s.type => [r EXCEPT !.length = s.length] = s
  BY DEF RegionDescriptor
<1>2. r.type \in {"usable", "reserved", "reclaimable"} /\ s.type \in {"usable", "reserved", "reclaimable"}
  BY DEF RegionDescriptor
<1>3. CASE r.type = s.type /\ r.length < s.length
  <2>1. Merged(r, s) = s
    BY <1>1, <1>3 DEF Merged
  <2>2. QED
    BY <1>3, <2>1 DEF IsUsable
<1>4. CASE ~(r.type = s.type /\ r.length < s.length)
  <2>1. Merged(r, s) = IF IsUsable(r) THEN s ELSE r
    BY <1>4 DEF Merged
  <2>2. QED
    BY <2>1
<1>5. QED
  BY <1>3, <1>4

LEMMA SimilarKeepsMap == MapInv /\ RemoveSimilarRegionDescriptors => MapInv'
<1> SUFFICES ASSUME MapInv, RemoveSimilarRegionDescriptors PROVE MapInv'
  OBVIOUS
<1>1. raw \in Seq(RegionDescriptor) /\ table \in Seq(RegionDescriptor)
  BY Constants DEF MapInv, IInv, TypeOK
<1>2. /\ pass = "similar" /\ i \in 1 .. Len(table) /\ i + 1 \in 1 .. Len(table)
      /\ i' = i + 1 /\ UNCHANGED <<raw, pass, extras, j>>
  BY DEF RemoveSimilarRegionDescriptors, MapInv, IInv, TypeOK
<1>3. IInv'
  BY NextInv DEF MapInv, Next
<1>4. PickedFrom(raw, table) /\ \A n \in DOMAIN table : Addressable(table[n])
  BY <1>2 DEF MapInv, EntriesAreKept
<1>5. \A a, b \in DOMAIN table : a < b =>
        table[a].address <= table[b].address /\ (a < i => table[a].address # table[b].address)
  BY <1>2 DEF MapInv, EntriesAreKept
<1>6. table[i] \in RegionDescriptor /\ table[i + 1] \in RegionDescriptor /\ DOMAIN table = 1 .. Len(table)
  BY <1>1, <1>2
<1>7. \A n \in DOMAIN table : table[n].address \in Nat
  BY <1>1, Positions
<1>8. CASE table[i].address # table[i + 1].address
  <2>1. table' = table
    BY <1>8 DEF RemoveSimilarRegionDescriptors
  <2>2. ASSUME NEW a \in DOMAIN table, NEW b \in DOMAIN table, a < b, a < i + 1
        PROVE  table[a].address # table[b].address
    <3>1. CASE a < i
      BY <1>5, <2>2, <3>1
    <3>2. CASE a = i
      <4>1. table[i].address < table[i + 1].address
        BY <1>2, <1>5, <1>6, <1>7, <1>8
      <4>2. b = i + 1 \/ i + 1 < b
        BY <1>6, <2>2, <3>2
      <4>3. table[i + 1].address <= table[b].address
        BY <1>2, <1>5, <1>6, <1>7, <4>2
      <4>4. table[i].address \in Nat /\ table[i + 1].address \in Nat /\ table[b].address \in Nat
        BY <1>2, <1>6, <1>7
      <4>5. table[i].address # table[b].address
        BY <4>1, <4>3, <4>4
      <4>6. QED
        BY <3>2, <4>5
    <3>3. QED
      BY <1>2, <1>6, <2>2, <3>1, <3>2
  <2>3. EntriesAreKept'
    BY <1>2, <1>4, <1>5, <2>1, <2>2 DEF EntriesAreKept
  <2>4. OnlyFreeMemory' /\ RegionsAreCut' /\ ExtrasAreOut' /\ TableIsOut'
    BY <1>2 DEF OnlyFreeMemory, RegionsAreCut, ExtrasAreOut, TableIsOut
  <2>5. QED
    BY <1>3, <2>3, <2>4 DEF MapInv
<1>9. CASE table[i].address = table[i + 1].address
  <2> DEFINE merged == Merged(table[i], table[i + 1])
             one == [table EXCEPT ![i] = merged]
             p(n) == IF n <= i THEN n ELSE n + 1
  <2>1. /\ merged = table[i] \/ merged = table[i + 1]
        /\ ~IsUsable(table[i]) \/ ~IsUsable(table[i + 1]) => ~IsUsable(merged)
        /\ merged.address = table[i].address /\ merged \in RegionDescriptor
    BY <1>6, <1>9, MergedIsOne, MergedTyped
  <2>2. table' = RemoveAt(one, i + 1)
    BY <1>9 DEF RemoveSimilarRegionDescriptors
  <2> HIDE DEF merged
  <2>3. /\ one \in Seq(RegionDescriptor) /\ Len(one) = Len(table) /\ one[i] = merged
        /\ \A n \in DOMAIN table : n # i => one[n] = table[n]
    BY <1>1, <1>2, <1>6, <2>1
  <2> HIDE DEF one
  <2>4. /\ Len(table') = Len(table) - 1 /\ DOMAIN table' = 1 .. Len(table) - 1
        /\ \A n \in 1 .. Len(table) - 1 : table'[n] = one[p(n)]
    <3>1. i + 1 \in 1 .. Len(one)
      BY <1>2, <2>3
    <3>2. /\ Len(RemoveAt(one, i + 1)) = Len(one) - 1 /\ DOMAIN RemoveAt(one, i + 1) = 1 .. Len(one) - 1
          /\ \A n \in 1 .. Len(one) - 1 :
               RemoveAt(one, i + 1)[n] = one[IF n <= (i + 1) - 1 THEN n ELSE n + 1]
      BY <2>3, <3>1, RemovedFromSeq
    <3>3. (i + 1) - 1 = i
      BY <1>2
    <3>4. QED
      BY <2>2, <2>3, <3>2, <3>3
  <2>5. /\ \A n \in DOMAIN table' : p(n) \in DOMAIN table /\ p(n) # i + 1
        /\ \A a, b \in DOMAIN table' : a < b => p(a) < p(b)
        /\ \A a, b \in DOMAIN table' : a # b => p(a) # p(b)
        /\ p(i) = i /\ i \in DOMAIN table'
        /\ \A n \in DOMAIN table' : p(n) = i => n = i
        /\ \A n \in DOMAIN table' : n > i => p(n) > i + 1
        /\ \A n \in DOMAIN table' : n < i => p(n) < i
        /\ \A m \in DOMAIN table : m # i + 1 => \E n \in DOMAIN table' : p(n) = m
    <3>1. Len(table) \in Nat /\ i \in Nat
      BY <1>1, <1>2
    <3>2. \A m \in DOMAIN table : m # i + 1 => \E n \in DOMAIN table' : p(n) = m
      <4> SUFFICES ASSUME NEW m \in DOMAIN table, m # i + 1
                   PROVE  \E n \in DOMAIN table' : p(n) = m
        OBVIOUS
      <4>1. CASE m <= i
        <5>1. m \in DOMAIN table' /\ p(m) = m
          BY <1>2, <1>6, <2>4, <3>1, <4>1
        <5>2. QED
          BY <5>1
      <4>2. CASE m > i + 1
        <5>1. m - 1 \in DOMAIN table' /\ p(m - 1) = m
          BY <1>2, <1>6, <2>4, <3>1, <4>2
        <5>2. QED
          BY <5>1
      <4>3. QED
        BY <1>2, <1>6, <4>1, <4>2
    <3>3. QED
      BY <1>2, <1>6, <2>4, <3>1, <3>2
  <2> HIDE DEF p
  <2>6. \A n \in DOMAIN table' :
          /\ p(n) = i => table'[n] = merged
          /\ p(n) # i => table'[n] = table[p(n)]
          /\ table'[n].address = table[p(n)].address
    BY <1>6, <2>1, <2>3, <2>4, <2>5
  <2>7. \A n \in DOMAIN table' : \E m \in DOMAIN table : table'[n] = table[m]
    BY <1>2, <1>6, <2>1, <2>5, <2>6
  <2>8. \A n \in DOMAIN table' : Addressable(table'[n])
    BY <1>4, <2>7
  <2>9. PickedFrom(raw, table')
    <3>1. Len(table') <= Len(raw)
      BY <1>1, <1>4, <2>4 DEF PickedFrom
    <3>2. \A n \in DOMAIN table' : \E m \in DOMAIN raw : table'[n] = raw[m]
      BY <1>4, <2>7 DEF PickedFrom
    <3>3. ASSUME NEW m \in DOMAIN raw, IsReserved(raw[m])
          PROVE  \E n \in DOMAIN table' : table'[n].address = raw[m].address /\ IsReserved(table'[n])
      <4>1. PICK n \in DOMAIN table : table[n].address = raw[m].address /\ IsReserved(table[n])
        BY <1>4, <3>3 DEF PickedFrom
      <4>2. CASE n = i \/ n = i + 1
        <5>1. table'[i] = merged /\ merged.address = raw[m].address
          BY <1>9, <2>1, <2>5, <2>6, <4>1, <4>2
        <5>2. ~IsUsable(merged)
          BY <2>1, <4>1, <4>2 DEF IsReserved
        <5>3. QED
          BY <2>5, <2>8, <5>1, <5>2 DEF IsReserved
      <4>3. CASE n # i /\ n # i + 1
        <5>1. PICK k \in DOMAIN table' : p(k) = n
          BY <2>5, <4>3
        <5>2. table'[k] = table[n]
          BY <2>6, <4>3, <5>1
        <5>3. QED
          BY <4>1, <5>1, <5>2
      <4>4. QED
        BY <4>2, <4>3
    <3>4. ASSUME NEW a \in DOMAIN table', NEW b \in DOMAIN table', NEW c \in DOMAIN table',
                 a # b, b # c, a # c
          PROVE  ~(table'[a].address = table'[b].address /\ table'[b].address = table'[c].address)
      <4>1. /\ p(a) # p(b) /\ p(b) # p(c) /\ p(a) # p(c)
            /\ p(a) \in DOMAIN table /\ p(b) \in DOMAIN table /\ p(c) \in DOMAIN table
        BY <2>5, <3>4
      <4>2. ~(table[p(a)].address = table[p(b)].address /\ table[p(b)].address = table[p(c)].address)
        BY <1>4, <4>1 DEF PickedFrom
      <4>3. QED
        BY <2>6, <4>2
    <3>5. QED
      BY <3>1, <3>2, <3>3, <3>4, Zenon DEF PickedFrom
  <2>10. ASSUME NEW a \in DOMAIN table', NEW b \in DOMAIN table', a < b
         PROVE  /\ table'[a].address <= table'[b].address
                /\ a < i + 1 => table'[a].address # table'[b].address
    <3>1. p(a) < p(b) /\ p(a) \in DOMAIN table /\ p(b) \in DOMAIN table
      BY <2>5, <2>10
    <3>2. table[p(a)].address <= table[p(b)].address
      BY <1>5, <3>1
    <3>3. a < i => table[p(a)].address # table[p(b)].address
      BY <1>5, <2>5, <3>1
    <3>4. ASSUME a = i PROVE table[p(a)].address # table[p(b)].address
      <4>1. p(a) = i /\ p(b) > i + 1
        BY <2>5, <2>10, <3>4
      <4>2. i \in DOMAIN table /\ i + 1 \in DOMAIN table /\ i # i + 1 /\ i + 1 # p(b) /\ i # p(b)
        BY <1>2, <1>6, <3>1, <4>1
      <4>3. ~(table[i].address = table[i + 1].address /\ table[i + 1].address = table[p(b)].address)
        BY <1>4, <3>1, <4>2 DEF PickedFrom
      <4>4. QED
        BY <1>9, <4>1, <4>3
    <3>5. a < i + 1 => a < i \/ a = i
      BY <1>2, <2>4
    <3>6. QED
      BY <2>6, <3>2, <3>3, <3>4, <3>5
  <2>11. EntriesAreKept'
    BY <1>2, <2>8, <2>9, <2>10 DEF EntriesAreKept
  <2>12. OnlyFreeMemory' /\ RegionsAreCut' /\ ExtrasAreOut' /\ TableIsOut'
    BY <1>2 DEF OnlyFreeMemory, RegionsAreCut, ExtrasAreOut, TableIsOut
  <2>13. QED
    BY <1>3, <2>11, <2>12 DEF MapInv
<1>10. QED
  BY <1>8, <1>9

LEMMA SimilarDoneKeepsMap == MapInv /\ SimilarDone => MapInv'
<1> SUFFICES ASSUME MapInv, SimilarDone PROVE MapInv'
  OBVIOUS
<1>1. raw \in RawMaps /\ raw \in Seq(RegionDescriptor) /\ table \in Seq(RegionDescriptor)
  BY Constants DEF MapInv, IInv, TypeOK
<1>2. /\ pass = "similar" /\ i >= Len(table) /\ i \in Nat /\ pass' = "extra" /\ extras' = ExtraRegions
      /\ i' = 1 /\ j' = 1 /\ UNCHANGED <<raw, table>>
  BY DEF SimilarDone, StartPass, MapInv, IInv, TypeOK
<1>3. IInv'
  BY NextInv DEF MapInv, Next
<1>4. PickedFrom(raw, table) /\ \A n \in DOMAIN table : Addressable(table[n])
  BY <1>2 DEF MapInv, EntriesAreKept
<1>5. \A a, b \in DOMAIN table : a # b => table[a].address # table[b].address
  <2>1. \A a, b \in DOMAIN table : a < b /\ a < i => table[a].address # table[b].address
    BY <1>2 DEF MapInv, EntriesAreKept
  <2>2. \A a, b \in DOMAIN table : a # b => (a < b /\ a < i) \/ (b < a /\ b < i)
    BY <1>1, <1>2
  <2>3. QED
    BY <2>1, <2>2
<1>6. ASSUME NEW m \in DOMAIN table, NEW n \in DOMAIN table, m # n
      PROVE  Apart(table[m], table[n])
  <2>1. PICK a \in DOMAIN raw, b \in DOMAIN raw : table[m] = raw[a] /\ table[n] = raw[b]
    BY <1>4 DEF PickedFrom
  <2>2. raw[a].address # raw[b].address
    BY <1>5, <1>6, <2>1
  <2>3. QED
    BY <1>1, <2>1, <2>2, FirmwareApart
<1>7. ASSUME NEW n \in UsableRegions
      PROVE  IsFree(raw, table[n])
  <2>1. n \in DOMAIN table /\ IsUsable(table[n])
    BY DEF UsableRegions
  <2>2. PICK a \in DOMAIN raw : table[n] = raw[a]
    BY <1>4, <2>1 DEF PickedFrom
  <2>3. IsUsable(raw[a]) /\ Within(table[n], raw[a])
    BY <1>1, <2>1, <2>2, Positions DEF Within
  <2>4. ASSUME NEW q \in DOMAIN raw, IsReserved(raw[q])
        PROVE  Apart(table[n], raw[q])
    <3>1. PICK m \in DOMAIN table : table[m].address = raw[q].address /\ IsReserved(table[m])
      BY <1>4, <2>4 DEF PickedFrom
    <3>2. m # n
      BY <2>1, <3>1 DEF IsReserved
    <3>3. raw[a].address # raw[q].address
      BY <1>5, <2>1, <2>2, <3>1, <3>2
    <3>4. QED
      BY <1>1, <2>2, <3>3, FirmwareApart
  <2>5. QED
    BY <2>3, <2>4 DEF IsFree
<1>8. OnlyFreeMemory'
  BY <1>2, <1>6, <1>7 DEF OnlyFreeMemory, UsableRegions
<1>9. Len(table) + Cardinality(Cuttable') <= Len(raw) + Len(ExtraRegions)
  <2>1. IsFiniteSet(1 .. Len(ExtraRegions)) /\ Cardinality(1 .. Len(ExtraRegions)) = Len(ExtraRegions)
    BY Constants, UpTo
  <2>2. Cuttable' \subseteq 1 .. Len(ExtraRegions)
    BY <1>2 DEF Cuttable
  <2>3. Cardinality(Cuttable') <= Len(ExtraRegions) /\ Cardinality(Cuttable') \in Nat
    BY <2>1, <2>2, FS_Subset, FS_CardinalityType
  <2>4. Len(table) <= Len(raw) /\ Len(table) \in Nat /\ Len(raw) \in Nat /\ Len(ExtraRegions) \in Nat
    BY <1>1, <1>4, Constants DEF PickedFrom
  <2>5. QED
    BY <2>3, <2>4
<1>10. RegionsAreCut'
  <2>1. \A n \in DOMAIN table : End(table[n]) <= Word
    BY <1>4 DEF Addressable
  <2>2. \A n \in UsableRegions', k \in 1 .. Len(extras') : ~(n < 1 \/ (n = 1 /\ k < 1))
    BY <1>1, <1>2 DEF UsableRegions
  <2>3. QED
    BY <1>2, <1>9, <2>1, <2>2 DEF RegionsAreCut
<1>11. EntriesAreKept' /\ ExtrasAreOut' /\ TableIsOut'
  BY <1>2 DEF EntriesAreKept, ExtrasAreOut, TableIsOut
<1>12. QED
  BY <1>3, <1>8, <1>10, <1>11 DEF MapInv

LEMMA NextRegionKeepsMap == MapInv /\ NextRegion => MapInv'
<1> SUFFICES ASSUME MapInv, NextRegion PROVE MapInv'
  OBVIOUS
<1>1. table \in Seq(RegionDescriptor) /\ i \in Nat /\ j \in Nat
  BY DEF MapInv, IInv, TypeOK
<1>2. /\ pass \in {"extra", "table"} /\ i' = i + 1 /\ j' = 1
      /\ UNCHANGED <<raw, table, pass, extras>>
      /\ j > Len(extras) \/ ~IsUsable(table[i])
  BY DEF NextRegion, Removing, Following
<1>3. IInv'
  BY NextInv DEF MapInv, Next
<1>4. RegionsAreCut
  BY DEF MapInv
<1>5. ASSUME NEW n \in UsableRegions, NEW k \in 1 .. Len(extras), n < i + 1 \/ (n = i + 1 /\ k < 1)
      PROVE  Apart(table[n], extras[k])
  <2>1. n \in Nat /\ IsUsable(table[n]) /\ extras \in Seq(RegionDescriptor)
    BY <1>1 DEF UsableRegions, MapInv, IInv, TypeOK
  <2>2. n < i \/ (n = i /\ k < j)
    BY <1>1, <1>2, <1>5, <2>1
  <2>3. QED
    BY <1>2, <1>4, <2>2 DEF RegionsAreCut
<1>6. Cuttable' = Cuttable /\ UsableRegions' = UsableRegions
  BY <1>2 DEF Cuttable, UsableRegions
<1>7. Cardinality(Cuttable)' = Cardinality(Cuttable)
  BY <1>6
<1>8. RegionsAreCut'
  BY <1>2, <1>4, <1>5, <1>6, <1>7 DEF RegionsAreCut
<1>9. EntriesAreKept' /\ OnlyFreeMemory' /\ ExtrasAreOut' /\ TableIsOut'
  BY <1>2, <1>6 DEF MapInv, EntriesAreKept, OnlyFreeMemory, ExtrasAreOut, TableIsOut
<1>10. QED
  BY <1>3, <1>8, <1>9 DEF MapInv

LEMMA InitializeKeepsMap == MapInv /\ Initialize => MapInv'
<1> SUFFICES ASSUME MapInv, Initialize PROVE MapInv'
  OBVIOUS
<1>1. raw \in Seq(RegionDescriptor) /\ table \in Seq(RegionDescriptor) /\ i \in Nat
  BY Constants DEF MapInv, IInv, TypeOK
<1>2. /\ pass = "extra" /\ i > Len(table) /\ extras' = <<TableRegion(Len(table))>>
      /\ pass' = "table" /\ i' = 1 /\ j' = 1 /\ UNCHANGED <<raw, table>>
  BY DEF Initialize, StartPass
<1>3. IInv'
  BY NextInv DEF MapInv, Next
<1>4. RegionsAreCut
  BY DEF MapInv
<1>5. UsableRegions' = UsableRegions /\ \A n \in UsableRegions : n \in 1 .. Len(table)
  BY <1>1, <1>2 DEF UsableRegions
<1>6. ExtrasAreOut'
  <2> SUFFICES ASSUME NEW n \in UsableRegions, NEW k \in 1 .. Len(ExtraRegions)
               PROVE  Apart(table[n], ExtraRegions[k])
    BY <1>2, <1>5 DEF ExtrasAreOut
  <2>1. n < i /\ extras = ExtraRegions
    BY <1>1, <1>2, <1>4, <1>5 DEF RegionsAreCut
  <2>2. QED
    BY <1>2, <1>4, <2>1 DEF RegionsAreCut
<1>7. Len(table) \in 0 .. Len(raw) + Len(ExtraRegions)
  <2>1. Len(table) + Cardinality(Cuttable) <= Len(raw) + Len(ExtraRegions)
    BY <1>2, <1>4 DEF RegionsAreCut
  <2>2. Cardinality(Cuttable) \in Nat
    <3>1. extras \in Seq(RegionDescriptor)
      BY DEF MapInv, IInv, TypeOK
    <3>2. IsFiniteSet(1 .. Len(extras))
      BY <3>1, UpTo
    <3>3. Cuttable \subseteq 1 .. Len(extras)
      BY DEF Cuttable
    <3>4. QED
      BY <3>2, <3>3, FS_Subset, FS_CardinalityType
  <2>3. Len(table) \in Nat /\ Len(raw) \in Nat /\ Len(ExtraRegions) \in Nat
    BY <1>1, Constants
  <2>4. QED
    BY <2>1, <2>2, <2>3
<1>8. Cardinality(Cuttable)' <= 1 /\ Cardinality(Cuttable)' \in Nat
  <2>1. Len(extras') = 1
    BY <1>2
  <2>2. Cuttable' \subseteq 1 .. 1
    BY <2>1 DEF Cuttable
  <2>3. IsFiniteSet(1 .. 1) /\ Cardinality(1 .. 1) = 1
    BY UpTo
  <2>4. Cardinality(Cuttable') <= 1 /\ Cardinality(Cuttable') \in Nat
    BY <2>2, <2>3, FS_Subset, FS_CardinalityType
  <2>5. QED
    BY <2>4
<1>9. RegionsAreCut'
  <2>1. \A n \in DOMAIN table' : End(table'[n]) <= Word
    BY <1>2, <1>4 DEF RegionsAreCut
  <2>2. \A n \in UsableRegions', k \in 1 .. Len(extras') : ~(n < i' \/ (n = i' /\ k < j'))
    BY <1>1, <1>2, <1>5
  <2>3. /\ extras' = <<TableRegion(Len(table))>>
        /\ Len(table') + Cardinality(Cuttable)' <= Len(table) + 1
    BY <1>1, <1>2, <1>8
  <2>4. QED
    BY <1>2, <1>7, <2>1, <2>2, <2>3 DEF RegionsAreCut
<1>10. EntriesAreKept' /\ OnlyFreeMemory' /\ TableIsOut'
  BY <1>2, <1>5 DEF MapInv, EntriesAreKept, OnlyFreeMemory, TableIsOut
<1>11. QED
  BY <1>3, <1>6, <1>9, <1>10 DEF MapInv

(* Aligning a region does not move it outside what it was, though the      *)
(* start of an aligned region moves up as well.                            *)
LEMMA AlignedWithin ==
  ASSUME NEW r \in RegionDescriptor, End(r) <= Word
  PROVE  \/ Aligned(r).length = 0
         \/ Within(Aligned(r), r) /\ FrameSize <= Aligned(r).address
<1> DEFINE a == r.address
           l == r.length
           F == FrameSize
           up == AlignUp(a % Word, F)
           down == AlignDown(l % Word, F)
<1>1. a \in Nat /\ l \in Nat /\ a + l <= Word /\ F \in Nat \ {0} /\ Word \in Nat \ {0}
  BY Positions, Constants
<1>2. Aligned(r).address = up /\ Aligned(r).length = down
  BY DEF Aligned, Region
<1> SUFFICES ASSUME down # 0 PROVE Within(Aligned(r), r) /\ F <= up
  BY <1>2
<1>3. End(r) = a + l /\ End(Aligned(r)) = up + down
  BY <1>2 DEF End
<1> HIDE DEF a, l, F
<1>4. l < Word /\ l % Word = l
  <2>1. l = Word => l % Word = 0
    BY <1>1
  <2>2. l = Word => down = 0
    BY <1>1, <2>1 DEF AlignDown
  <2>3. l < Word
    BY <1>1, <2>2
  <2>4. QED
    BY <1>1, <2>3
<1>5. l % F \in 0 .. F - 1
  BY <1>1
<1>6. down = l - (l % F) - F /\ l - (l % F) >= F /\ down > 0
  <2>1. down = IF l - (l % F) < F THEN 0 ELSE l - (l % F) - F
    BY <1>4 DEF AlignDown
  <2>2. l - (l % F) >= F
    BY <1>1, <1>5, <2>1
  <2>3. QED
    BY <1>1, <1>5, <2>1, <2>2
<1>7. a + F < Word /\ a % Word = a /\ a % F \in 0 .. F - 1 /\ a % F <= a
  <2>1. a + F < Word
    BY <1>1, <1>5, <1>6
  <2>2. QED
    BY <1>1, <2>1
<1>8. up = a - (a % F) + F
  <2>1. up = (a - (a % F) + F) % Word
    BY <1>7 DEF AlignUp
  <2>2. a - (a % F) + F \in 0 .. Word - 1
    BY <1>1, <1>7
  <2>3. QED
    BY <1>1, <2>1, <2>2
<1> HIDE DEF up, down
<1>9. a <= up /\ up + down <= a + l /\ F <= up
  BY <1>1, <1>5, <1>6, <1>7, <1>8
<1>10. QED
  BY <1>2, <1>3, <1>9 DEF Within, a

(* The memory taken out for a table of c entries has room for one more,    *)
(* but for the first frame, which no aligned region reaches.               *)
LEMMA TableHasRoom ==
  ASSUME NEW map \in RawMaps, NEW c \in 0 .. Len(map) + Len(ExtraRegions)
  PROVE  /\ TableRegion(c).address = FrameSize /\ TableRegion(c).length > 0
         /\ TableAddress + (c + 3) * EntrySize <= End(TableRegion(c))
<1> DEFINE F == FrameSize
           T == TableAddress
           X == T + (c + 2) * EntrySize
           most == Len(map) + Len(ExtraRegions)
<1>1. /\ F \in Nat \ {0} /\ T \in Nat /\ EntrySize \in Nat /\ EntrySize > 0
      /\ Word \in Nat \ {0} /\ 2 * F < Word /\ T + EntrySize <= F
  BY Constants, MemoryMapAssumption, TableAssumption
<1>2. most \in Nat /\ c \in Nat /\ c <= most
  BY Constants
<1>3. T + (most + 2) * EntrySize + F < Word
  BY TableAssumption
<1> HIDE DEF most
<1>4. (c + 2) * EntrySize <= (most + 2) * EntrySize /\ (c + 2) * EntrySize \in Nat
      /\ (most + 2) * EntrySize \in Nat
  <2>1. (most + 2) * EntrySize - (c + 2) * EntrySize = (most - c) * EntrySize
    BY <1>1, <1>2
  <2>2. most - c \in Nat
    BY <1>2
  <2>3. (most - c) * EntrySize \in Nat /\ (c + 2) * EntrySize \in Nat
    BY <1>1, <1>2, <2>2
  <2>4. (most + 2) * EntrySize \in Nat
    BY <1>1, <1>2
  <2>5. QED
    BY <2>1, <2>3, <2>4
<1> DEFINE P == (c + 2) * EntrySize
<1>5. (c + 3) * EntrySize = P + EntrySize
  BY <1>1, <1>2
<1>6. X = T + P /\ P \in Nat /\ X + F < Word /\ X \in Nat
  BY <1>1, <1>3, <1>4
<1> HIDE DEF F, T, X, P
<1>7. X % F \in 0 .. F - 1 /\ X % F <= X
  BY <1>1, <1>6
<1>8. AlignUp(X, F) = X - (X % F) + F
  <2>1. X - (X % F) + F \in 0 .. Word - 1
    BY <1>1, <1>6, <1>7
  <2>2. QED
    BY <1>1, <2>1 DEF AlignUp
<1>9. AlignUp(T, F) = F
  <2>1. T < F /\ T % F = T
    BY <1>1
  <2>2. AlignUp(T, F) = F % Word
    BY <1>1, <2>1 DEF AlignUp
  <2>3. QED
    BY <1>1, <2>2
<1>10. (AlignUp(X, F) - T) % Word = X - (X % F) + F - T
  <2>1. X - (X % F) + F - T \in 0 .. Word - 1
    BY <1>1, <1>6, <1>7
  <2>2. QED
    <3> DEFINE y == X - (X % F) + F - T
    <3>1. y \in 0 .. Word - 1 /\ AlignUp(X, F) - T = y
      BY <1>1, <1>6, <1>7, <1>8, <2>1
    <3> HIDE DEF y
    <3>2. y % Word = y
      BY <1>1, <3>1
    <3>3. QED
      BY <3>1, <3>2 DEF y
<1>11. TableRegion(c).address = AlignUp(T, F) /\ TableRegion(c).length = (AlignUp(X, F) - T) % Word
  BY DEF TableRegion, Region, F, T, X
<1>12. X - (X % F) + F - T >= P + 1
  BY <1>1, <1>6, <1>7
<1>13. TableRegion(c).address = F /\ TableRegion(c).length >= P + 1 /\ TableRegion(c).length \in Int
  BY <1>1, <1>6, <1>7, <1>9, <1>10, <1>11, <1>12
<1>14. End(TableRegion(c)) = TableRegion(c).address + TableRegion(c).length
  BY DEF End
<1>15. TableRegion(c).length > 0
  BY <1>6, <1>13
<1>16. T + (c + 3) * EntrySize <= End(TableRegion(c))
  BY <1>1, <1>5, <1>6, <1>13, <1>14
<1>17. QED
  BY <1>13, <1>15, <1>16 DEF F, T

LEMMA AlignKeepsMap == MapInv /\ AlignRegions => MapInv'
<1> SUFFICES ASSUME MapInv, AlignRegions PROVE MapInv'
  OBVIOUS
<1>1. raw \in Seq(RegionDescriptor) /\ table \in Seq(RegionDescriptor) /\ i \in Nat
  BY Constants DEF MapInv, IInv, TypeOK
<1>2. /\ pass = "table" /\ i > Len(table) /\ pass' = "prune" /\ UNCHANGED <<raw, extras>>
      /\ table' = [n \in DOMAIN table |-> Aligned(table[n])]
  BY DEF AlignRegions, StartPass
<1>3. IInv'
  BY NextInv DEF MapInv, Next
<1>4. RegionsAreCut /\ OnlyFreeMemory /\ ExtrasAreOut
  BY DEF MapInv
<1>5. \A n \in DOMAIN table :
        /\ table[n] \in RegionDescriptor /\ Aligned(table[n]) \in RegionDescriptor
        /\ Aligned(table[n]).length = 0 \/
             (Within(Aligned(table[n]), table[n]) /\ FrameSize <= Aligned(table[n]).address)
  BY <1>1, <1>2, <1>4, AlignedTyped, AlignedWithin DEF RegionsAreCut
<1>6. DOMAIN table' = DOMAIN table /\ \A n \in DOMAIN table : table'[n] = Aligned(table[n])
  BY <1>2
<1>7. \A n \in DOMAIN table : IsUsable(Aligned(table[n])) <=> IsUsable(table[n])
  BY DEF Aligned, Region, IsUsable
<1>8. UsableRegions' = UsableRegions /\ UsableRegions \subseteq DOMAIN table
  BY <1>6, <1>7 DEF UsableRegions
<1>9. DOMAIN table = 1 .. Len(table) /\ Len(table') = Len(table) /\ Len(table) \in Nat
  <2>1. DOMAIN table = 1 .. Len(table) /\ Len(table) \in Nat
    BY <1>1
  <2>2. table' \in Seq(RegionDescriptor)
    BY <1>3 DEF IInv, TypeOK
  <2>3. Len(table') \in Nat /\ DOMAIN table' = 1 .. Len(table')
    BY <2>2
  <2>4. QED
    BY <1>6, <2>1, <2>3
<1>10. OnlyFreeMemory'
  <2>1. ASSUME NEW n \in UsableRegions PROVE IsFree(raw, table'[n])
    <3>1. IsFree(raw, table[n]) /\ n \in DOMAIN table
      BY <1>2, <1>4, <1>8 DEF OnlyFreeMemory
    <3>2. CASE Aligned(table[n]).length = 0
      BY <1>6, <3>1, <3>2 DEF IsFree
    <3>3. CASE Within(Aligned(table[n]), table[n])
      BY <1>1, <1>5, <1>6, <3>1, <3>3, PartIsFree
    <3>4. QED
      BY <1>5, <3>1, <3>2, <3>3
  <2>2. ASSUME NEW m \in DOMAIN table, NEW n \in DOMAIN table, m # n
        PROVE  Apart(table'[m], table'[n])
    <3>1. Apart(table[m], table[n])
      BY <1>2, <1>4, <2>2 DEF OnlyFreeMemory
    <3>2. CASE Aligned(table[m]).length = 0 \/ Aligned(table[n]).length = 0
      BY <1>6, <3>2 DEF Apart
    <3>3. CASE Within(Aligned(table[m]), table[m]) /\ Within(Aligned(table[n]), table[n])
      <4>1. Apart(table[n], Aligned(table[m]))
        BY <1>5, <3>1, <3>3, PartIsApart
      <4>2. Apart(Aligned(table[m]), Aligned(table[n]))
        BY <1>5, <3>3, <4>1, PartIsApart
      <4>3. QED
        BY <1>6, <4>2
    <3>4. QED
      BY <1>5, <3>2, <3>3
  <2>3. QED
    BY <1>2, <1>6, <1>8, <2>1, <2>2 DEF OnlyFreeMemory
<1>11. ASSUME NEW n \in UsableRegions, NEW s \in RegionDescriptor, Apart(table[n], s)
       PROVE  Apart(table'[n], s)
  <2>1. n \in DOMAIN table
    BY <1>8
  <2>2. CASE Aligned(table[n]).length = 0
    BY <1>6, <2>1, <2>2 DEF Apart
  <2>3. CASE Within(Aligned(table[n]), table[n])
    BY <1>5, <1>6, <1>11, <2>1, <2>3, PartIsApart
  <2>4. QED
    BY <1>5, <2>1, <2>2, <2>3
<1>12. ExtrasAreOut'
  <2> SUFFICES ASSUME NEW n \in UsableRegions, NEW k \in 1 .. Len(ExtraRegions)
               PROVE  Apart(table'[n], ExtraRegions[k])
    BY <1>8 DEF ExtrasAreOut
  <2>1. Apart(table[n], ExtraRegions[k]) /\ ExtraRegions[k] \in RegionDescriptor
    BY <1>2, <1>4, Constants DEF ExtrasAreOut
  <2>2. QED
    BY <1>11, <2>1
<1>13. TableIsOut'
  <2>1. PICK c \in 0 .. Len(raw) + Len(ExtraRegions) :
          extras = <<TableRegion(c)>> /\ Len(table) + Cardinality(Cuttable) <= c + 1
    BY <1>2, <1>4 DEF RegionsAreCut
  <2>2. Len(table) <= c + 1
    <3>1. IsFiniteSet(1 .. Len(extras)) /\ Cuttable \subseteq 1 .. Len(extras)
      BY <2>1, UpTo DEF Cuttable
    <3>2. Cardinality(Cuttable) \in Nat
      BY <3>1, FS_Subset, FS_CardinalityType
    <3>3. QED
      BY <1>9, <2>1, <3>2
  <2>3. c \in Nat /\ TableRegion(c) \in RegionDescriptor
    BY TableRegionTyped
  <2>4. ASSUME NEW n \in UsableRegions
        PROVE  table'[n].length = 0 \/
                 (FrameSize <= table'[n].address /\ Apart(table'[n], TableRegion(c)))
    <3>1. n \in 1 .. Len(table) /\ n < i
      BY <1>1, <1>2, <1>8, <1>9
    <3>2. Len(extras) = 1 /\ extras[1] = TableRegion(c)
      BY <2>1
    <3>3. 1 \in 1 .. Len(extras)
      BY <3>2
    <3>4. Apart(table[n], extras[1])
      BY <1>2, <1>4, <3>1, <3>3 DEF RegionsAreCut
    <3>5. Apart(table'[n], TableRegion(c))
      BY <1>11, <2>3, <3>2, <3>4
    <3>6. QED
      BY <1>5, <1>6, <1>9, <3>1, <3>5
  <2>5. QED
    BY <1>2, <1>8, <1>9, <2>2, <2>4 DEF TableIsOut
<1>14. EntriesAreKept' /\ RegionsAreCut'
  BY <1>2 DEF EntriesAreKept, RegionsAreCut
<1>15. QED
  BY <1>3, <1>10, <1>12, <1>13, <1>14 DEF MapInv

LEMMA RemoveEmptyKeepsMap == MapInv /\ RemoveEmptyRegion => MapInv'
<1> SUFFICES ASSUME MapInv, RemoveEmptyRegion PROVE MapInv'
  OBVIOUS
<1>1. raw \in Seq(RegionDescriptor) /\ table \in Seq(RegionDescriptor) /\ i \in 1 .. Len(table)
  BY Constants DEF MapInv, IInv, TypeOK, RemoveEmptyRegion
<1>2. pass = "prune" /\ UNCHANGED <<raw, pass, extras>>
  BY DEF RemoveEmptyRegion
<1>3. IInv'
  BY NextInv DEF MapInv, Next
<1>4. PICK f \in [DOMAIN table' -> DOMAIN table] :
        /\ \A n \in DOMAIN table' : table'[n] = table[f[n]]
        /\ \A m, n \in DOMAIN table' : m # n => f[m] # f[n]
  <2>1. CASE table' = table
    <3>1. [n \in DOMAIN table' |-> n] \in [DOMAIN table' -> DOMAIN table]
      BY <2>1
    <3>2. QED
      BY <2>1, <3>1
  <2>2. CASE table' = RemoveAt(table, i)
    <3> DEFINE f == [n \in DOMAIN table' |-> IF n <= i - 1 THEN n ELSE n + 1]
    <3>1. /\ Len(RemoveAt(table, i)) = Len(table) - 1
          /\ DOMAIN RemoveAt(table, i) = 1 .. Len(table) - 1
          /\ \A n \in 1 .. Len(table) - 1 :
               RemoveAt(table, i)[n] = table[IF n <= i - 1 THEN n ELSE n + 1]
      BY <1>1, RemovedFromSeq
    <3>2. DOMAIN table' = 1 .. Len(table) - 1 /\ DOMAIN table = 1 .. Len(table) /\ Len(table) \in Nat
      BY <1>1, <2>2, <3>1
    <3>3. f \in [DOMAIN table' -> DOMAIN table]
      BY <1>1, <3>2
    <3>4. \A n \in DOMAIN table' : table'[n] = table[f[n]]
      BY <2>2, <3>1, <3>2
    <3>5. \A m, n \in DOMAIN table' : m # n => f[m] # f[n]
      BY <1>1, <3>2
    <3>6. QED
      BY <3>3, <3>4, <3>5
  <2>3. QED
    BY <2>1, <2>2 DEF RemoveEmptyRegion
<1>5. Len(table') <= Len(table) /\ Len(table') \in Nat /\ Len(table) \in Nat
  <2>1. Len(RemoveAt(table, i)) = Len(table) - 1 /\ RemoveAt(table, i) \in Seq(RegionDescriptor)
    BY <1>1, RemovedFromSeq
  <2>2. table' = table \/ table' = RemoveAt(table, i)
    BY DEF RemoveEmptyRegion
  <2>3. QED
    BY <1>1, <2>1, <2>2
<1>6. \A n \in UsableRegions' : n \in DOMAIN table' /\ f[n] \in UsableRegions /\ table'[n] = table[f[n]]
  BY <1>4 DEF UsableRegions
<1>7. OnlyFreeMemory /\ ExtrasAreOut /\ TableIsOut
  BY DEF MapInv
<1>8. OnlyFreeMemory'
  BY <1>2, <1>4, <1>6, <1>7 DEF OnlyFreeMemory
<1>9. ExtrasAreOut'
  BY <1>2, <1>6, <1>7 DEF ExtrasAreOut
<1>10. TableIsOut'
  <2>1. PICK c \in 0 .. Len(raw) + Len(ExtraRegions) :
          /\ Len(table) <= c + 1
          /\ \A n \in UsableRegions :
               table[n].length = 0 \/ (FrameSize <= table[n].address /\ Apart(table[n], TableRegion(c)))
    BY <1>2, <1>7 DEF TableIsOut
  <2>2. Len(table') <= c + 1
    BY <1>5, <2>1
  <2>3. QED
    BY <1>2, <1>6, <2>1, <2>2 DEF TableIsOut
<1>11. EntriesAreKept' /\ RegionsAreCut'
  BY <1>2 DEF EntriesAreKept, RegionsAreCut
<1>12. QED
  BY <1>3, <1>8, <1>9, <1>10, <1>11 DEF MapInv

LEMMA MapStep == MapInv /\ [Next]_vars => MapInv'
<1> SUFFICES ASSUME MapInv, [Next]_vars PROVE MapInv'
  OBVIOUS
<1>1. CASE DescribeFrames
  <2>1. IInv'
    BY NextInv DEF MapInv
  <2>2. pass = "prune" /\ pass' = "done" /\ UNCHANGED <<raw, table, extras>>
    BY <1>1 DEF DescribeFrames, StartPass
  <2>3. QED
    BY <2>1, <2>2 DEF MapInv, EntriesAreKept, OnlyFreeMemory, RegionsAreCut, ExtrasAreOut, TableIsOut,
                      UsableRegions
<1>2. CASE UNCHANGED vars
  <2>1. IInv'
    BY NextInv DEF MapInv
  <2>2. UNCHANGED <<raw, table, pass, extras, i, j>>
    BY <1>2 DEF vars
  <2>3. QED
    BY <2>1, <2>2 DEF MapInv, EntriesAreKept, OnlyFreeMemory, RegionsAreCut, ExtrasAreOut, TableIsOut,
                      UsableRegions, Cuttable
<1>3. QED
  BY <1>1, <1>2, TweakKeepsMap, SortKeepsMap, SimilarKeepsMap, SimilarDoneKeepsMap, CutKeepsMap,
     NextRegionKeepsMap, InitializeKeepsMap, AlignKeepsMap, RemoveEmptyKeepsMap, Zenon DEF Next

(* What the invariant says of the memory map's properties.                 *)
LEMMA MapIsSound == MapInv => TypeOK /\ RegionsAreFreeMemory /\ RegionsAreDisjoint
<1> SUFFICES ASSUME MapInv PROVE TypeOK /\ RegionsAreFreeMemory /\ RegionsAreDisjoint
  OBVIOUS
<1>1. raw \in RawMaps /\ raw \in Seq(RegionDescriptor) /\ table \in Seq(RegionDescriptor) /\ TypeOK
  BY Constants DEF MapInv, IInv, TypeOK
<1>2. \A n \in UsableRegions : n \in DOMAIN table /\ table[n] \in RegionDescriptor
  BY <1>1 DEF UsableRegions
<1>3. RegionsAreDisjoint
  <2> SUFFICES ASSUME pass \in {"extra", "table", "prune", "done"},
                      NEW m \in UsableRegions, NEW n \in UsableRegions, m # n
               PROVE  Extent(table[m]) \cap Extent(table[n]) = {}
    BY DEF RegionsAreDisjoint
  <2>1. Apart(table[m], table[n])
    BY <1>2 DEF MapInv, OnlyFreeMemory
  <2>2. QED
    BY <1>2, <2>1, ApartExtents
<1>4. RegionsAreFreeMemory
  <2> SUFFICES ASSUME pass = "done", NEW n \in UsableRegions, NEW x \in Extent(table[n])
               PROVE  /\ x \in Memory(raw, IsUsable) /\ x \notin Memory(raw, IsReserved)
                      /\ x \notin Memory(ExtraRegions, IsRegion) /\ x \notin TableBytes
    BY DEF RegionsAreFreeMemory
  <2> DEFINE r == table[n]
  <2>1. r \in RegionDescriptor
    BY <1>2
  <2>2. /\ r.address \in Nat /\ r.length \in Nat /\ End(r) = r.address + r.length
        /\ x \in Int /\ r.address <= x /\ x < End(r) /\ r.length # 0
    BY <2>1, Positions DEF Extent
  <2>3. IsFree(raw, r)
    BY DEF MapInv, OnlyFreeMemory
  <2> HIDE DEF r
  <2>4. x \in Memory(raw, IsUsable)
    <3>1. PICK m \in DOMAIN raw : IsUsable(raw[m]) /\ Within(r, raw[m])
      BY <2>2, <2>3 DEF IsFree
    <3>2. raw[m] \in RegionDescriptor
      BY <1>1
    <3>3. x \in Extent(raw[m])
      BY <2>2, <3>1, <3>2, Positions DEF Within, Extent
    <3>4. QED
      BY <3>1, <3>3 DEF Memory
  <2>5. ASSUME NEW s \in RegionDescriptor, Apart(r, s) PROVE x \notin Extent(s)
    <3>1. Extent(r) \cap Extent(s) = {}
      BY <2>1, <2>5, ApartExtents
    <3>2. x \in Extent(r)
      BY DEF r
    <3>3. QED
      BY <3>1, <3>2
  <2>6. x \notin Memory(raw, IsReserved)
    <3> SUFFICES ASSUME NEW m \in DOMAIN raw, IsReserved(raw[m]) PROVE x \notin Extent(raw[m])
      BY DEF Memory
    <3>1. Apart(r, raw[m]) /\ raw[m] \in RegionDescriptor
      BY <1>1, <2>2, <2>3 DEF IsFree
    <3>2. QED
      BY <2>5, <3>1
  <2>7. x \notin Memory(ExtraRegions, IsRegion)
    <3> SUFFICES ASSUME NEW k \in DOMAIN ExtraRegions PROVE x \notin Extent(ExtraRegions[k])
      BY DEF Memory
    <3>1. k \in 1 .. Len(ExtraRegions) /\ ExtraRegions[k] \in RegionDescriptor
      BY Constants
    <3>2. Apart(r, ExtraRegions[k])
      BY <3>1 DEF MapInv, ExtrasAreOut, r
    <3>3. QED
      BY <2>5, <3>1, <3>2
  <2>8. x \notin TableBytes
    <3>1. PICK c \in 0 .. Len(raw) + Len(ExtraRegions) :
            /\ Len(table) <= c + 1
            /\ r.length = 0 \/ (FrameSize <= r.address /\ Apart(r, TableRegion(c)))
      BY DEF MapInv, TableIsOut, r
    <3>2. c \in Nat /\ TableRegion(c) \in RegionDescriptor
      BY TableRegionTyped
    <3>3. /\ TableRegion(c).address = FrameSize
          /\ TableAddress + (c + 3) * EntrySize <= End(TableRegion(c))
      BY <1>1, <3>1, TableHasRoom
    <3>4. x \notin Extent(TableRegion(c)) /\ FrameSize <= x
      BY <2>2, <2>5, <3>1, <3>2, Constants
    <3>5. x >= End(TableRegion(c)) /\ End(TableRegion(c)) \in Nat
      BY <2>2, <3>2, <3>3, <3>4, Positions, Constants DEF Extent
    <3>6. (Len(table) + 2) * EntrySize <= (c + 3) * EntrySize
          /\ (Len(table) + 2) * EntrySize \in Nat /\ (c + 3) * EntrySize \in Nat
      <4> DEFINE l == Len(table)
      <4>1. l \in Nat /\ EntrySize \in Nat /\ c + 1 - l \in Nat
        BY <1>1, <3>1, <3>2, Constants
      <4> HIDE DEF l
      <4>2. (c + 3) * EntrySize - (l + 2) * EntrySize = (c + 1 - l) * EntrySize
        BY <3>2, <4>1
      <4>3. (c + 1 - l) * EntrySize \in Nat /\ (l + 2) * EntrySize \in Nat
        BY <4>1
      <4>4. (c + 3) * EntrySize \in Nat
        BY <3>2, <4>1
      <4>5. (l + 2) * EntrySize <= (c + 3) * EntrySize
        BY <4>2, <4>3, <4>4
      <4>6. QED
        BY <4>3, <4>4, <4>5 DEF l
    <3> DEFINE p == (Len(table) + 2) * EntrySize
               q == (c + 3) * EntrySize
    <3>7. p <= q /\ p \in Nat /\ q \in Nat /\ TableAddress \in Nat /\ TableAddress + q <= End(TableRegion(c))
      BY <3>3, <3>6, Constants
    <3>8. TableBytes = TableAddress .. TableAddress + p - 1
      BY DEF TableBytes
    <3> HIDE DEF p, q
    <3>9. QED
      BY <2>2, <3>5, <3>7, <3>8
  <2>9. QED
    BY <2>4, <2>6, <2>7, <2>8
<1>5. QED
  BY <1>1, <1>3, <1>4

(* Whatever map the firmware hands over, what is left for the physical     *)
(* memory manager is free memory that is nobody else's: all its usable     *)
(* regions lie in the firmware's usable ones and outside its reserved      *)
(* ones, the kernel, the hardware and the table, and overlap no other.     *)
THEOREM MapIsSoundAlways == Spec => [](TypeOK /\ RegionsAreFreeMemory /\ RegionsAreDisjoint)
<1>1. Init => MapInv
  BY InitMap
<1>2. MapInv /\ [Next]_vars => MapInv'
  BY MapStep
<1>3. QED
  BY <1>1, <1>2, MapIsSound, PTL DEF Spec
=============================================================================
