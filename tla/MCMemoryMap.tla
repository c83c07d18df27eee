----------------------------- MODULE MCMemoryMap -----------------------------
(* Memory of 144 bytes in frames of 4; the kernel lies in the low region,   *)
(* as it does in the memory of a PC, next to the table.                    *)
EXTENDS MemoryMap

MCExtraRegions ==
  <<Region(0, 2, "reserved"), Region(20, 9, "reserved"),
    Region(40, 12, "reserved"), Region(70, 6, "reserved")>>

Regions ==
  {Region(a, l, t) : a \in {0, 2, 52}, l \in {18, 38}, t \in {"usable", "reserved"}}
    \cup {Region(52, l, "reclaimable") : l \in {12, 13, 44}}
    \cup {Region(84, l, t) : l \in {20, 60, 61}, t \in {"usable", "reserved"}}

MCRawMaps == {map \in UNION {[1 .. n -> Regions] : n \in 1 .. 3} : FirmwareMap(map)}
=============================================================================
