------------------------------ MODULE MemoryMap ------------------------------
(***************************************************************************)
(* From the firmware's memory map to the regions the physical memory       *)
(* manager cuts into frames: the passes kernel.cxx makes over the region   *)
(* descriptors at boot and those of PMM::Initialize, in library/pmm/pmm.cxx*)
(* The table is changed in place; a step is one iteration of a pass whose  *)
(* loop changes the table it runs over, or a whole pass otherwise.         *)
(***************************************************************************)
EXTENDS Typedefs, FiniteSets, SequencesExt

CONSTANTS
  RawMaps,          \* the tables the boot loader can hand over
  ExtraRegions,     \* the sequence extraRegions of kernel.cxx
  TableAddress,     \* BootInformation::GetARDTableAddress()
  EntrySize,        \* sizeof(RegionDescriptor)
  FrameSize,        \* PMM::FrameSize
  DescriptorSize    \* sizeof(FrameDescriptor)

VARIABLES
  raw,       \* history: the table as it was handed over
  table,     \* the region descriptors
  pass,      \* what is being done to the table
  extras,    \* the regions the running RemoveExtraRegions removes
  i, j       \* its loop counters, and i also that of the other passes

vars == <<raw, table, pass, extras, i, j>>

Region(address, length, type) == [address |-> address, length |-> length, type |-> type]

RegionDescriptor ==
  [address : Nat, length : Nat, type : {"usable", "reserved", "reclaimable"}]

End(r)      == r.address + r.length
Extent(r)   == r.address .. End(r) - 1
IsUsable(r) == r.type \in {"usable", "reclaimable"}

(* Firmware does not contradict itself, but for two entries that start at  *)
(* the same address: the case RemoveSimilarRegionDescriptors is there for. *)
FirmwareMap(map) ==
  /\ \A a, b \in DOMAIN map :
       a # b /\ Extent(map[a]) \cap Extent(map[b]) # {} => map[a].address = map[b].address
  /\ \A a \in DOMAIN map : Cardinality({b \in DOMAIN map : map[b].address = map[a].address}) <= 2

ASSUME MemoryMapAssumption ==
  /\ FrameSize \in Nat \ {0} /\ DescriptorSize \in 1 .. FrameSize - 1
  /\ 2 * FrameSize < Word
  /\ TableAddress \in SizeT /\ EntrySize \in Nat \ {0}
  /\ ExtraRegions \in Seq(RegionDescriptor)
  /\ \A map \in RawMaps : map \in Seq(RegionDescriptor) /\ FirmwareMap(map)

(* main.asm puts the table at 0xE00, so its first entry lies in the first  *)
(* frame, and counts its entries in 16 bits.                               *)
ASSUME TableAssumption ==
  /\ TableAddress + EntrySize <= FrameSize
  /\ \A map \in RawMaps :
       TableAddress + (Len(map) + Len(ExtraRegions) + 2) * EntrySize + FrameSize < Word

-----------------------------------------------------------------------------
Init ==
  /\ raw \in RawMaps
  /\ table = raw
  /\ pass = "tweak" /\ extras = <<>> /\ i = 1 /\ j = 1

StartPass(name) == pass' = name /\ i' = 1 /\ j' = 1

(* Only what lies below 4 GiB is kept, in its order. *)
Addressable(r) == r.address < Word /\ End(r) <= Word

TweakRegionDescriptors ==
  /\ pass = "tweak"
  /\ LET kept == {n \in DOMAIN table : Addressable(table[n])}
     IN  \E order \in [1 .. Cardinality(kept) -> kept] :
           /\ \A a, b \in DOMAIN order : a < b => order[a] < order[b]
           /\ table' = [n \in DOMAIN order |-> table[order[n]]]
  /\ StartPass("sort")
  /\ UNCHANGED <<raw, extras>>

Precedes(a, b) ==
  \/ table[a].address < table[b].address
  \/ table[a].address = table[b].address /\ a < b

(* Bubble sort swaps neighbours that are out of order and no others. *)
SortRegionDescriptors ==
  /\ pass = "sort"
  /\ \E order \in [DOMAIN table -> DOMAIN table] :
       /\ \A a, b \in DOMAIN table : a < b => Precedes(order[a], order[b])
       /\ table' = [n \in DOMAIN table |-> table[order[n]]]
  /\ StartPass("similar")
  /\ UNCHANGED <<raw, extras>>

Merged(first, second) ==
  IF first.type = second.type /\ first.length < second.length
    THEN [first EXCEPT !.length = second.length]
    ELSE IF IsUsable(first) THEN second ELSE first

(* Two neighbours become one; the loop counter advances all the same. *)
RemoveSimilarRegionDescriptors ==
  /\ pass = "similar" /\ i < Len(table)
  /\ table' = IF table[i].address = table[i + 1].address
                THEN RemoveAt([table EXCEPT ![i] = Merged(@, table[i + 1])], i + 1)
                ELSE table
  /\ i' = i + 1
  /\ UNCHANGED <<raw, pass, extras, j>>

SimilarDone ==
  /\ pass = "similar" /\ i >= Len(table)
  /\ extras' = ExtraRegions
  /\ StartPass("extra")
  /\ UNCHANGED <<raw, table>>

-----------------------------------------------------------------------------
(* The conditions in the order of the code: the first that holds decides. *)
GetRegionOverlapType(r, e) ==
  IF      e.address <= r.address /\ End(e) > r.address /\ End(e) < End(r)  THEN "start"
  ELSE IF e.address < End(r) /\ e.address > r.address /\ End(e) >= End(r)  THEN "end"
  ELSE IF e.address >= r.address /\ End(e) <= End(r)                       THEN "inside"
  ELSE IF e.address <= r.address /\ End(e) >= End(r)                       THEN "outside"
  ELSE "none"

(* A region cut in two keeps its length. *)
Without_Mutant(r, e) ==
  LET overlap == GetRegionOverlapType(r, e)
      before  == [r EXCEPT !.length = e.address - r.address]
      after   == [r EXCEPT !.address = End(e), !.length = End(r) - End(e)]
  IN  IF e.length = 0 THEN <<r>>
      ELSE CASE overlap = "start"   -> <<after>>
             [] overlap = "end"     -> <<before>>
             [] overlap = "inside"  -> <<r, after>>
             [] overlap = "outside" -> <<[r EXCEPT !.type = "reserved"]>>
             [] OTHER               -> <<r>>

(* What is left of a region without another: one descriptor or two. *)
Without(r, e) ==
  LET overlap == GetRegionOverlapType(r, e)
      before  == [r EXCEPT !.length = e.address - r.address]
      after   == [r EXCEPT !.address = End(e), !.length = End(r) - End(e)]
  IN  IF e.length = 0 THEN <<r>>
      ELSE CASE overlap = "start"   -> <<after>>
             [] overlap = "end"     -> <<before>>
             [] overlap = "inside"  -> <<before, after>>
             [] overlap = "outside" -> <<[r EXCEPT !.type = "reserved"]>>
             [] OTHER               -> <<r>>

Following(n) == n + 1

Removing == pass \in {"extra", "table"} /\ i <= Len(table)

(* One round of the inner loop of RemoveExtraRegions.  Whether the region  *)
(* is usable is only asked before the first.                               *)
RemoveExtraRegion ==
  /\ Removing /\ j <= Len(extras) /\ (j = 1 => IsUsable(table[i]))
  /\ table' = SubSeq(table, 1, i - 1) \o Without(table[i], extras[j]) \o SubSeq(table, i + 1, Len(table))
  /\ j' = j + 1
  /\ UNCHANGED <<raw, pass, extras, i>>

NextRegion ==
  /\ Removing /\ (j > Len(extras) \/ (j = 1 /\ ~IsUsable(table[i])))
  /\ i' = Following(i) /\ j' = 1
  /\ UNCHANGED <<raw, table, pass, extras>>

(* PMM::Initialize: the memory from the frame boundary behind the start of *)
(* the table on, long enough for the table and two entries more.           *)
TableRegion(count) ==
  Region(AlignUp(TableAddress, FrameSize),
         (AlignUp(TableAddress + (count + 2) * EntrySize, FrameSize) - TableAddress) % Word,
         "reserved")

Initialize ==
  /\ pass = "extra" /\ i > Len(table)
  /\ extras' = <<TableRegion(Len(table))>>
  /\ StartPass("table")
  /\ UNCHANGED <<raw, table>>

Aligned(r) ==
  Region(AlignUp(r.address % Word, FrameSize), AlignDown(r.length % Word, FrameSize), r.type)

AlignRegions ==
  /\ pass = "table" /\ i > Len(table)
  /\ table' = [n \in DOMAIN table |-> Aligned(table[n])]
  /\ StartPass("prune")
  /\ UNCHANGED <<raw, extras>>

(* The descriptors are not counted in. *)
GetRegionFramesCount_Mutant(r) == r.length \div FrameSize

(* Each frame costs its buffer and its descriptor, and one frame is left   *)
(* for rounding up the descriptors.                                        *)
GetRegionFramesCount(r) ==
  IF r.length < AlignUp(FrameSize + DescriptorSize, FrameSize) THEN 0
  ELSE (AlignDown(r.length, FrameSize) \div (FrameSize + DescriptorSize) - 1) % Word

(* Here, too, the counter advances after a removal. *)
RemoveEmptyRegion ==
  /\ pass = "prune" /\ i <= Len(table)
  /\ table' = IF GetRegionFramesCount(table[i]) = 0 THEN RemoveAt(table, i) ELSE table
  /\ i' = i + 1
  /\ UNCHANGED <<raw, pass, extras, j>>

(* Lays out the frame descriptors; Descriptors and Frame say where.        *)
DescribeFrames ==
  /\ pass = "prune" /\ i > Len(table)
  /\ StartPass("done")
  /\ UNCHANGED <<raw, table, extras>>

Next ==
  \/ TweakRegionDescriptors \/ SortRegionDescriptors
  \/ RemoveSimilarRegionDescriptors \/ SimilarDone
  \/ RemoveExtraRegion \/ NextRegion \/ Initialize
  \/ AlignRegions \/ RemoveEmptyRegion \/ DescribeFrames

Spec == Init /\ [][Next]_vars /\ WF_vars(Next)

-----------------------------------------------------------------------------
(* The descriptors of a region lie at its start, its frames behind them.   *)
(* A region that escaped RemoveEmptyRegion has neither.                    *)
FramesFit(r) ==
  LET count == GetRegionFramesCount(r)
  IN  count > 0 => AlignUp(count * DescriptorSize, FrameSize) + count * FrameSize <= r.length

UsableRegions == {n \in DOMAIN table : IsUsable(table[n])}

Memory(map, Test(_)) == UNION {Extent(map[n]) : n \in {m \in DOMAIN map : Test(map[m])}}

(* A reserved entry that reaches beyond 4 GiB is gone before it could be   *)
(* compared with a usable one that starts where it does.                   *)
IsReserved(r) == ~IsUsable(r) /\ Addressable(r)
IsRegion(r) == TRUE

TableBytes == TableAddress .. TableAddress + (Len(table) + 2) * EntrySize - 1

TypeOK ==
  /\ raw \in RawMaps
  /\ table \in Seq(RegionDescriptor) /\ extras \in Seq(RegionDescriptor)
  /\ pass \in {"tweak", "sort", "similar", "extra", "table", "prune", "done"}
  /\ i \in Nat \ {0} /\ j \in 1 .. Len(extras) + 1

(* The manager only gets memory the firmware calls usable and that neither *)
(* the kernel, the hardware, nor the table of regions itself occupies.     *)
RegionsAreFreeMemory == pass = "done" =>
  \A n \in UsableRegions :
    /\ Extent(table[n]) \subseteq Memory(raw, IsUsable) \ Memory(raw, IsReserved)
    /\ Extent(table[n]) \cap (Memory(ExtraRegions, IsRegion) \cup TableBytes) = {}

(* No byte belongs to two regions, from which frames are handed out        *)
(* independently of each other.                                            *)
RegionsAreDisjoint == pass \in {"extra", "table", "prune", "done"} =>
  \A m, n \in UsableRegions : m # n => Extent(table[m]) \cap Extent(table[n]) = {}

(* The descriptors and frames of a region fit into it...                   *)
FramesFitRegion == pass = "done" =>
  \A n \in UsableRegions : FramesFit(table[n])

(* ...except in a region of exactly two frames' length.                    *)
FramesFitLongerRegion == pass = "done" =>
  \A n \in UsableRegions : table[n].length # 2 * FrameSize => FramesFit(table[n])
=============================================================================
