------------------------------- MODULE MCBoot -------------------------------
(* Firmwares, machines, drives, devices and texts for every stage.         *)
EXTENDS Boot, MCMemoryMap

(* Firmwares that differ in their root pointers, in the tables behind a    *)
(* good one, and in what the FADT and the DSDT tell of the modes.           *)
MCRoots ==
  [roots : SUBSET (0 .. LastPlace), revision : {0, 2}, high : BOOLEAN,
   rsdt : {"valid", "invalid", "absent"}, xsdt : {"valid", "invalid"},
   entries : {<<"FADT">>}, fadt : {"valid"}, extended : {"none"},
   plain : {"valid"}, s5 : {"package"}, smi : {TRUE}, pm1b : {FALSE},
   mode : {{"A"}}]

Lists(entries) == {<<>>} \cup [1 .. 1 -> entries] \cup [1 .. 2 -> entries]

MCTables ==
  UNION {
    [roots : {{1}}, revision : {revision}, high : {FALSE},
     rsdt : {"valid"}, xsdt : {"valid"},
     entries : Lists(IF revision = 0 THEN {"FADT", "other"} ELSE {"FADT", "other", "high"}),
     fadt : {"valid", "invalid"}, extended : {"none", "high", "valid", "invalid"},
     plain : {"valid", "invalid"}, s5 : {"package", "absent"}, smi : BOOLEAN,
     pm1b : {FALSE}, mode : {{}}]
    : revision \in {0, 2}}

MCModes ==
  [roots : {{1}}, revision : {0}, high : {FALSE}, rsdt : {"valid"}, xsdt : {"valid"},
   entries : {<<"FADT">>, <<"other", "FADT">>}, fadt : {"valid"},
   extended : {"none", "valid"}, plain : {"valid", "invalid"},
   s5 : {"package", "malformed", "last", "absent", "mimicked"},
   smi : BOOLEAN, pm1b : BOOLEAN, mode : SUBSET {"A", "B"}]

MCFirmwares == MCRoots \cup MCTables \cup MCModes

(* Three buses with three devices of two functions each.                   *)
Place(kind, to, multi) == [kind |-> kind, to |-> to, multi |-> multi]
Empty == Place("nothing", 0, TRUE)
Disk(multi) == Place("disk", 0, multi)
BridgeTo(bus) == Place("bridge", bus, TRUE)

(* A first device in every form, a second that may be a bridge, and what   *)
(* may lie behind it: another bridge, to a bus behind or back to bus 0.    *)
Hosts == {Empty, Place("host", 0, FALSE), Place("host", 0, TRUE)}
Others == {Empty, Disk(FALSE), Disk(TRUE), BridgeTo(1), BridgeTo(0)}
Seconds == {Empty, Disk(FALSE), BridgeTo(2)}

MCMachines ==
  {[p \in {0, 1, 2} \X {0, 1, 2} \X {0, 1} |->
      CASE p = <<0, 0, 0>> -> host
        [] p = <<0, 1, 0>> -> other
        [] p = <<0, 1, 1>> -> second
        [] p = <<1, 0, 0>> -> behind
        [] p = <<0, 2, 0>> -> Disk(FALSE)
        [] p = <<1, 1, 0>> -> last
        [] p \in {<<2, 1, 0>>, <<1, 0, 1>>, <<0, 0, 1>>} -> Disk(FALSE)
        [] OTHER -> Empty] :
    host \in Hosts, other \in Others, second \in Seconds, behind \in Others, last \in Seconds}

(* Drives of every kind of addressing, two of them so large that transfers *)
(* reach the last sector of the short addresses.  Sectors of two words and *)
(* operations of two sectors, so that a transfer of three takes two.       *)
Limit == 268435456
Plug(kind, lba, lba48, count) == [kind |-> kind, lba |-> lba, lba48 |-> lba48, sectors |-> count]

MCDrives ==
  {Plug("absent", FALSE, FALSE, 0), Plug("atapi", TRUE, FALSE, 0),
   Plug("ata", FALSE, FALSE, 1010), Plug("ata", TRUE, FALSE, 70000),
   Plug("ata", TRUE, TRUE, Limit + 2)}

MCSectors == {62, 1007, 65535, Limit - 1, Limit}

(* Five devices, of which two can be started from, a list that moves at    *)
(* the third and the fifth, and letters for four.                          *)
MCDevices == 1 .. 5
MCBootable == {1, 2}

(* All texts of up to seven characters: two lines of the shortest kind. *)
MCTexts == UNION {[1 .. n -> {"c", "=", "_", "/"}] : n \in 0 .. 7}
=============================================================================
