-------------------------------- MODULE Boot --------------------------------
(***************************************************************************)
(* What the function DarkCore of kernel.cxx has done before a program      *)
(* runs: ACPI's tables are searched, the memory map is made, the buses are *)
(* walked, a channel's drives are identified and used, the devices get     *)
(* letters, the configuration is read.  A stage only asks the firmware or  *)
(* the hardware and keeps what it finds to itself, so what a later one     *)
(* meets is any of the states it may begin in: a behaviour of this module  *)
(* is one stage, from any of its beginnings.                               *)
(***************************************************************************)
EXTENDS MemoryMap

CONSTANTS
  Firmwares, LastPlace, MaxWalk, MaxTries,                           \* ACPI
  Machines, BusesCount, DevicesPerBus, FunctionsCount, MaxDepth,      \* PCI
  Drives, MaxSectorsPerOperation, WordsPerSector, Sectors, Counts,   \* IDE
  Devices, CountAllocate, MaxDevicesCount, Bootable,                 \* StorageDevices
  Texts                                                              \* RPFParser

VARIABLES
  stage,   \* the stage this behaviour is about
  firmware, step, place, sdtCount, entry, tries, SCIEnabled, asked, mode, result, sent,
  machine, busIndex, calls, found,
  drive, selected, devices, driver, moved, failed,
  probed, list, letters, kernel, index, buffers, missed,
  text, part, offset, key, elements, lost, emptied

acpiVars    == <<firmware, step, place, sdtCount, entry, tries, SCIEnabled, asked, mode, result, sent>>
pciVars     == <<machine, busIndex, calls, found>>
ideVars     == <<drive, selected, devices, driver, moved, failed>>
devicesVars == <<probed, list, letters, kernel, index, buffers, missed>>
rpfVars     == <<text, part, offset, key, elements, lost, emptied>>
bootVars    == <<stage, vars, acpiVars, pciVars, ideVars, devicesVars, rpfVars>>

Acpi  == INSTANCE ACPI WITH at <- step, i <- entry
Pci   == INSTANCE PCI
Ide   == INSTANCE IDE
Store == INSTANCE StorageDevices WITH table <- letters, at <- kernel, failed <- missed
Rpf   == INSTANCE RPFParser WITH at <- part

ASSUME BootAssumption ==
  /\ Acpi!ACPIAssumption /\ Pci!PCIAssumption /\ Ide!IDEAssumption
  /\ Store!StorageDevicesAssumption /\ Rpf!TextsAssumption

-----------------------------------------------------------------------------
(* The variables of a stage the behaviour is not about. *)
NoMap ==
  /\ raw = <<>> /\ table = <<>> /\ pass = "off" /\ extras = <<>> /\ i = 0 /\ j = 0

NoACPI ==
  /\ firmware = <<>> /\ step = "off" /\ place = 0 /\ sdtCount = 0 /\ entry = 0 /\ tries = 0
  /\ SCIEnabled = FALSE /\ asked = FALSE /\ mode = {} /\ result = FALSE /\ sent = <<>>

NoPCI == machine = <<>> /\ busIndex = 0 /\ calls = <<>> /\ found = <<>>

NoIDE ==
  /\ drive = <<>> /\ selected = 0 /\ devices = <<>> /\ driver = [at |-> "off"]
  /\ moved = <<>> /\ failed = FALSE

NoDevices ==
  /\ probed = <<>> /\ list = <<>> /\ letters = <<>> /\ kernel = "off"
  /\ index = 0 /\ buffers = 0 /\ missed = {}

NoText ==
  /\ text = <<>> /\ part = "off" /\ offset = 0 /\ key = <<>>
  /\ elements = <<>> /\ lost = {} /\ emptied = FALSE

BootInit ==
  \/ stage = "acpi"    /\ Acpi!Init  /\ NoMap  /\ NoPCI /\ NoIDE /\ NoDevices /\ NoText
  \/ stage = "memory"  /\ Init       /\ NoACPI /\ NoPCI /\ NoIDE /\ NoDevices /\ NoText
  \/ stage = "buses"   /\ Pci!Init   /\ NoMap /\ NoACPI /\ NoIDE /\ NoDevices /\ NoText
  \/ stage = "drives"  /\ Ide!Init   /\ NoMap /\ NoACPI /\ NoPCI /\ NoDevices /\ NoText
  \/ stage = "devices" /\ Store!Init /\ NoMap /\ NoACPI /\ NoPCI /\ NoIDE /\ NoText
  \/ stage = "text"    /\ Rpf!Init   /\ NoMap /\ NoACPI /\ NoPCI /\ NoIDE /\ NoDevices

Tables ==
  stage = "acpi" /\ Acpi!Next /\ UNCHANGED <<stage, vars, pciVars, ideVars, devicesVars, rpfVars>>
MemoryMapping ==
  stage = "memory" /\ Next /\ UNCHANGED <<stage, acpiVars, pciVars, ideVars, devicesVars, rpfVars>>
Buses ==
  stage = "buses" /\ Pci!Next /\ UNCHANGED <<stage, vars, acpiVars, ideVars, devicesVars, rpfVars>>
Channel ==
  stage = "drives" /\ Ide!Next /\ UNCHANGED <<stage, vars, acpiVars, pciVars, devicesVars, rpfVars>>
Start ==
  stage = "devices" /\ Store!Next /\ UNCHANGED <<stage, vars, acpiVars, pciVars, ideVars, rpfVars>>
Configuration ==
  stage = "text" /\ Rpf!Next /\ UNCHANGED <<stage, vars, acpiVars, pciVars, ideVars, devicesVars>>

BootNext == Tables \/ MemoryMapping \/ Buses \/ Channel \/ Start \/ Configuration

(* The kernel's only thread runs, and interrupts come back to it; what the *)
(* kernel waits for, the ticks and the drives, comes.                      *)
BootFairness ==
  /\ WF_vars(stage = "memory" /\ Next)
  /\ WF_acpiVars(stage = "acpi" /\ Acpi!Initialize)
  /\ WF_pciVars(stage = "buses" /\ Pci!Next)
  /\ WF_ideVars(stage = "drives" /\ Ide!DriveStep)
  /\ WF_ideVars(stage = "drives" /\ Ide!DriverStep)

BootSpec == BootInit /\ [][BootNext]_bootVars /\ BootFairness

-----------------------------------------------------------------------------
(* The frame allocator only gets free memory that is nobody else's (the    *)
(* passes of pmm.cxx over the firmware's table): MemoryMap's properties.   *)
RegionsAreSound == stage = "memory" => TypeOK /\ RegionsAreFreeMemory /\ RegionsAreDisjoint

(* acpi.cxx uses what the first root pointer leads to, and neither claims  *)
(* ACPI mode nor powers off without having earned it: ACPI's properties.   *)
TablesAreUsed == stage = "acpi" =>
  /\ Acpi!TypeOK /\ Acpi!FirstRootWins /\ Acpi!ListedFADTIsUsed
  /\ Acpi!ModeIsAnswered /\ Acpi!PowerOffIsEarned

(* The walk of pci.cxx reports every function once, and which machines it  *)
(* reports nothing of: PCI's properties.                                   *)
BusesAreWalked == stage = "buses" =>
  Pci!TypeOK /\ Pci!WalkIsComplete /\ Pci!HostWithFunctionsHidesAll /\ Pci!DepthIsBounded

(* ide.cxx finds the drives of a channel and moves every word to its       *)
(* place, or says so: IDE's properties.                                    *)
TransfersAreSound == stage = "drives" =>
  Ide!TypeOK /\ Ide!DevicesAreDrives /\ Ide!WordsInPlace /\ Ide!SuccessIsComplete

(* A drive gets a command only when it is done with the one before, though *)
(* the flag that is polled is that of the drive selected before.           *)
CommandsReachIdleDrives == Ide!CommandsReachIdleDrives

(* A letter leads to its device as long as its pointer is good, which are  *)
(* not, and no device is passed over: StorageDevices' properties.          *)
LettersAreKept == stage = "devices" =>
  /\ Store!TypeOK /\ Store!LettersNameDevices
  /\ Store!GrownListStrays /\ Store!NoDeviceIsOverlooked

(* rpf-parse.cxx reads the lines its templates allow as they say, and what *)
(* becomes of the others: RPFParser's properties.                          *)
ConfigurationIsRead == stage = "text" =>
  Rpf!TypeOK /\ Rpf!TemplatesAreRead /\ Rpf!SwallowsForBareKeys /\ Rpf!EmptiedByEquals

IsOver ==
  \/ stage = "memory" /\ pass = "done"
  \/ stage = "acpi" /\ step = "done"
  \/ stage = "buses" /\ (Pci!IsTree => Pci!Ended)
  \/ stage = "drives" /\ Ide!Identified
  \/ stage \in {"devices", "text"}

(* No stage that waits or recurses goes on for ever: the passes over a     *)
(* growing table, the wait for a silent firmware, the walk over bridges,   *)
(* the loops on a drive's status register, in a transfer as well.          *)
BootEnds ==
  /\ <>IsOver
  /\ driver.at = "operation" ~> driver.at = "done"
=============================================================================
