-------------------------- MODULE MCPhysicalMemory --------------------------
(* Three regions of 3, 1 and 3 frames; a frame holds 4 bytes. *)
EXTENDS PhysicalMemory

MCRegionOf == [f \in 0 .. 6 |-> IF f < 3 THEN 1 ELSE IF f = 3 THEN 2 ELSE 3]
=============================================================================
