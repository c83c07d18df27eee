--------------------------------- MODULE IDE ---------------------------------
(***************************************************************************)
(* A channel of the IDE controller, library/ide/ide.cxx, with the drives   *)
(* on it: the identification of both places when the channel is            *)
(* constructed, and transfers of sectors by polling.                       *)
(*                                                                         *)
(* The driver's loops on the status register are enabling conditions, so   *)
(* that drive and driver interleave at every poll.  A word of a sector is  *)
(* the triple of drive, sector and place.  The control register is left    *)
(* out: nothing the driver writes to it is read back, and the alternative  *)
(* status only passes the time a drive needs to become busy.               *)
(***************************************************************************)
EXTENDS Integers, Sequences, FiniteSets

CONSTANTS
  Drives,                  \* what may be plugged in
  MaxSectorsPerOperation,  \* 255
  WordsPerSector,          \* 256
  Sectors, Counts          \* what the functions are called with

(* External: an ATA drive with or without the two kinds of logical block    *)
(* addresses, an ATAPI drive, and an empty place.                          *)
Drive(lba, lba48, count) == [kind |-> "ata", lba |-> lba, lba48 |-> lba48, sectors |-> count]
Packet == [kind |-> "atapi", lba |-> TRUE, lba48 |-> FALSE, sectors |-> 0]
Absent == [kind |-> "absent", lba |-> FALSE, lba48 |-> FALSE, sectors |-> 0]

SumsHave32Bits ==
  \A lba \in Sectors, count \in Counts : (lba + count) \div 65536 < 65536   \* uint32_t

DrivesAreKnown ==
  \A d \in Drives : d.lba \in BOOLEAN /\ d \in {Absent, Packet, Drive(d.lba, d.lba48, d.sectors)}

IDEAssumption ==
  /\ MaxSectorsPerOperation \in 1 .. 255 /\ WordsPerSector \in Nat \ {0}
  /\ Sectors \subseteq Nat /\ Counts \subseteq Nat
  /\ SumsHave32Bits /\ DrivesAreKnown

-----------------------------------------------------------------------------
(* How a sector is addressed: what NativeReadSectors and its twin compute, *)
(* and what a drive makes of the registers (external).                     *)
LBA28Limit == 268435456
HeadsPerCylinder == 16
SectorsPerTrack == 63
Byte(n, unit) == (n \div unit) % 256

TransferMode(lba, hasLBA) ==
  IF lba >= LBA28Limit THEN IF hasLBA THEN "LBA48" ELSE "unsupported"
  ELSE IF hasLBA THEN "LBA28" ELSE "CHS"

SectorNumber(lba) == (lba % SectorsPerTrack) + 1

(* The head is counted from the sector behind. *)
HeadIndex_Mutant(lba) == ((lba + 1) % (HeadsPerCylinder * SectorsPerTrack)) \div SectorsPerTrack

HeadIndex(lba) ==
  ((lba + 1 - SectorNumber(lba)) % (HeadsPerCylinder * SectorsPerTrack)) \div SectorsPerTrack

Cylinder(lba) ==
  ((lba + 1 - SectorNumber(lba)) \div (HeadsPerCylinder * SectorsPerTrack)) % 65536

(* lbaInputOutput and headIndex, put together again by the drive.          *)
LinearAddress(lba, top) ==
  Byte(lba, 1) + 256 * (Byte(lba, 256) + 256 * (Byte(lba, 65536) + 256 * top))

GeometricAddress(lba) ==
  ((Byte(Cylinder(lba), 1) + 256 * Byte(Cylinder(lba), 256)) * HeadsPerCylinder + HeadIndex(lba))
    * SectorsPerTrack + SectorNumber(lba) - 1

Addressed(lba, mode) ==
  IF mode = "LBA48" THEN LinearAddress(lba, Byte(lba, 16777216))
  ELSE IF mode = "LBA28" THEN LinearAddress(lba, Byte(lba, 16777216) % 16)
  ELSE GeometricAddress(lba)

-----------------------------------------------------------------------------
VARIABLES
  drive,     \* drive[t], t = 0 the master, 1 the slave: what it is, its status
             \* register and the command it is at
  selected,  \* the drive the registers belong to
  devices,   \* Devices_: the ones found
  driver,    \* where the driver is, and in which transfer
  moved,     \* moved[n]: the word of a disk the n-th word of the caller's
             \* buffer was read from or written to
  failed     \* history: a drive has failed in this transfer

vars == <<drive, selected, devices, driver, moved, failed>>
NoWord == <<>>

Types == {0, 1}      \* TYPE_MASTER, TYPE_SLAVE

(* External: the master answers for an absent slave, with zeros; otherwise *)
(* the lines of an empty place float or are pulled down.                   *)
Flags == {"BUSY", "READY", "FAULT", "REQUEST", "ERROR"}
Plugged(d, status) == [is |-> d, status |-> status, command |-> "none", at |-> 0, left |-> 0, word |-> 0]

Init ==
  /\ \E master, slave \in Drives, floating \in {{}, Flags} :
       drive = [t \in Types |->
                  LET d == IF t = 0 THEN master ELSE slave
                  IN  Plugged(d, IF master = Absent /\ d = Absent THEN floating
                                 ELSE IF d.kind = "ata" THEN {"READY"} ELSE {})]
  /\ selected = 0 /\ devices = <<>> /\ moved = <<>> /\ failed = FALSE
  /\ driver = [at |-> "select", type |-> 0]

Status == drive[selected].status

(* External: a command makes a drive busy. *)
Commanded(type, command, at, left) ==
  IF drive[type].is = Absent THEN drive
  ELSE [drive EXCEPT ![type] = [@ EXCEPT !.status = {"BUSY"}, !.command = command,
                                         !.at = at, !.left = left, !.word = 0]]

-----------------------------------------------------------------------------
(* The drives (external).  Whether a sector can be transferred is theirs;  *)
(* one that cannot ends the command with ERROR or FAULT.                   *)
End(t, status) == drive' = [drive EXCEPT ![t] = Plugged(@.is, status)]
Fail(t) == failed' = TRUE /\ \E cause \in {"ERROR", "FAULT"} : End(t, {"READY", cause})
Offer(t) == drive' = [drive EXCEPT ![t].status = {"READY", "REQUEST"}] /\ UNCHANGED failed

AnswerIdentify(t) ==
  /\ drive[t].command = "IDENTIFY"
  /\ \/ drive[t].is.kind = "ata" /\ Offer(t)
     \/ drive[t].is.kind = "atapi" /\ End(t, {"ERROR"}) /\ UNCHANGED failed

Serves(t) ==
  /\ drive[t].is.kind = "ata"
  /\ drive[t].at < drive[t].is.sectors
  /\ drive[t].command \in {"READ", "WRITE"} => drive[t].at < LBA28Limit
  /\ drive[t].command \in {"READ_EXT", "WRITE_EXT"} => drive[t].is.lba48

NextSector(t) ==
  /\ drive[t].left > 0
  /\ \/ Serves(t) /\ Offer(t)
     \/ Fail(t)

EndCommand(t) ==
  /\ drive[t].command # "IDENTIFY" /\ drive[t].left = 0
  /\ \/ End(t, {"READY"}) /\ UNCHANGED failed
     \/ drive[t].command \in {"WRITE", "WRITE_EXT"} /\ Fail(t)

DriveStep ==
  /\ \E t \in Types :
       /\ "BUSY" \in drive[t].status /\ drive[t].command # "none"
       /\ AnswerIdentify(t) \/ NextSector(t) \/ EndCommand(t)
  /\ UNCHANGED <<selected, devices, driver, moved>>

-----------------------------------------------------------------------------
(* Device(type, channel), called for both places by the constructor of the *)
(* channel.                                                                *)
Following(type) == IF type = 0 THEN [at |-> "select", type |-> 1] ELSE [at |-> "idle"]

SelectDevice ==
  /\ driver.at = "select"
  /\ selected' = driver.type
  /\ drive' = Commanded(driver.type, "IDENTIFY", 0, 0)
  /\ driver' = [driver EXCEPT !.at = "present"]
  /\ UNCHANGED <<devices, moved, failed>>

IsPresent == Status # {}

TestPresence ==
  /\ driver.at = "present"
  /\ driver' = IF IsPresent THEN [driver EXCEPT !.at = "identify"] ELSE Following(driver.type)
  /\ UNCHANGED <<drive, selected, devices, moved, failed>>

(* Only a fault ends the wait. *)
IdentifyFailed_Mutant == "FAULT" \in Status

IdentifyFailed == "ERROR" \in Status

(* LBA_1 and LBA_2 of a drive that refuses IDENTIFY (external). *)
Signature(d) == IF d = Packet THEN <<20, 235>> ELSE <<255, 255>>

(* ch is read from LBA_1 and cl from LBA_2. *)
IsPacketDevice(d) ==
  LET ch == Signature(d)[1]
      cl == Signature(d)[2]
  IN  <<ch, cl>> \in {<<235, 20>>, <<150, 105>>}

(* The capacity, too, is a number of 28 bits: CommandSets_ was read from    *)
(* 16, so the bit that selects the other count is never set.               *)
Capacity(d) == IF d.sectors < LBA28Limit THEN d.sectors ELSE LBA28Limit - 1

Entry(d) == [type |-> selected, lba |-> d.lba, sectorsCount |-> Capacity(d),
             interface |-> IF d.kind = "ata" THEN "ATA" ELSE "ATAPI"]

Identify ==
  /\ driver.at = "identify"
  /\ LET d == drive[selected].is
         Enter == /\ devices' = Append(devices, Entry(d))
                  /\ End(selected, {"READY"})
     IN  \/ IdentifyFailed /\ IF IsPacketDevice(d) THEN Enter ELSE UNCHANGED <<devices, drive>>
         \/ ~IdentifyFailed /\ "REQUEST" \in Status /\ Enter
  /\ driver' = Following(driver.type)
  /\ UNCHANGED <<selected, moved, failed>>

-----------------------------------------------------------------------------
(* ReadSectors and WriteSectors: full operations, then the rest.           *)
FullTimes(count) == count \div MaxSectorsPerOperation
LastTimes(count) == (count - FullTimes(count) * MaxSectorsPerOperation) % 256

Operations(count) == FullTimes(count) + IF LastTimes(count) # 0 THEN 1 ELSE 0

SectorsOf(operation, count) ==
  IF operation < FullTimes(count) THEN MaxSectorsPerOperation ELSE LastTimes(count)

Start(transfer) == transfer.lba + transfer.operation * MaxSectorsPerOperation

Transfer(write, device, lba, count) ==
  /\ driver.at = "idle"
  /\ driver' = [at |-> "operation", write |-> write, device |-> device, lba |-> lba,
                count |-> count, operation |-> 0, word |-> 0, result |-> "none"]
  /\ moved' = <<>> /\ failed' = FALSE
  /\ UNCHANGED <<drive, selected, devices>>

Finished(result) == [driver EXCEPT !.at = "done", !.result = result]

EndTransfer ==
  /\ driver.at = "operation" /\ driver.operation = Operations(driver.count)
  /\ driver' = Finished("SUCCESS")
  /\ UNCHANGED <<drive, selected, devices, moved, failed>>

(* The drive is trusted to be ready. *)
MayCommand_Mutant == TRUE

(* The flag of the drive selected before, not of the one to be selected.   *)
MayCommand == "BUSY" \notin Status

CommandName(write, mode) ==
  IF mode = "LBA48" THEN IF write THEN "WRITE_EXT" ELSE "READ_EXT"
  ELSE IF write THEN "WRITE" ELSE "READ"

(* NativeReadSectors and NativeWriteSectors up to the command. *)
StartOperation ==
  /\ driver.at = "operation" /\ driver.operation < Operations(driver.count)
  /\ LET device == devices[driver.device]
         mode   == TransferMode(Start(driver), device.lba)
         name   == CommandName(driver.write, mode)
     IN  \/ /\ mode = "unsupported"
            /\ driver' = Finished("LBA48_UNSUPPORTED")
            /\ UNCHANGED <<drive, selected>>
         \/ /\ mode # "unsupported"
            /\ MayCommand
            /\ selected' = device.type
            /\ drive' = Commanded(device.type, name, Addressed(Start(driver), mode),
                                  SectorsOf(driver.operation, driver.count))
            /\ driver' = [driver EXCEPT !.at = "words", !.word = 0]
  /\ UNCHANGED <<devices, moved, failed>>

(* Polling(true), once the drive is no longer busy.  DATA_REQUEST_NOT_READY *)
(* is about the flag of a drive that is ready.                              *)
Polling ==
  IF "ERROR" \in Status THEN "ERROR"
  ELSE IF "FAULT" \in Status THEN "FAULT"
  ELSE IF "READY" \notin Status THEN "NOT_READY"
  ELSE "SUCCESS"

(* What a drive makes of a word moved through its data register (external). *)
WordMoved ==
  LET d == drive[selected]
  IN  IF "REQUEST" \notin d.status THEN drive
      ELSE IF d.word + 1 < WordsPerSector THEN [drive EXCEPT ![selected].word = @ + 1]
      ELSE [drive EXCEPT ![selected] = [d EXCEPT !.status = {"BUSY"}, !.word = 0,
                                                 !.at = d.at + 1, !.left = d.left - 1]]

WordOffered ==
  IF "REQUEST" \in Status
  THEN <<selected, drive[selected].at, drive[selected].word>> ELSE NoWord

Moved == IF driver.word + 1 < SectorsOf(driver.operation, driver.count) * WordsPerSector
         THEN [driver EXCEPT !.word = @ + 1]
         ELSE IF driver.write THEN [driver EXCEPT !.at = "flush"]
         ELSE [driver EXCEPT !.at = "operation", !.operation = @ + 1]

MoveWord ==
  /\ moved' = Append(moved, WordOffered)
  /\ drive' = WordMoved
  /\ driver' = Moved

ReadWord ==
  /\ driver.at = "words" /\ ~driver.write
  /\ "BUSY" \notin Status
  /\ IF Polling = "SUCCESS" THEN MoveWord
     ELSE driver' = Finished(Polling) /\ UNCHANGED <<moved, drive>>
  /\ UNCHANGED <<selected, devices, failed>>

(* Polling(false): what the drive says but BUSY is not asked. *)
WriteWord ==
  /\ driver.at = "words" /\ driver.write
  /\ "BUSY" \notin Status
  /\ MoveWord
  /\ UNCHANGED <<selected, devices, failed>>

EndWrite ==
  /\ driver.at = "flush"
  /\ "BUSY" \notin Status
  /\ driver' = [driver EXCEPT !.at = "operation", !.operation = @ + 1]
  /\ UNCHANGED <<drive, selected, devices, moved, failed>>

Return ==
  /\ driver.at = "done"
  /\ driver' = [at |-> "idle"] /\ moved' = <<>> /\ failed' = FALSE
  /\ UNCHANGED <<drive, selected, devices>>

DriverStep ==
  \/ SelectDevice \/ TestPresence \/ Identify
  \/ EndTransfer \/ StartOperation \/ ReadWord \/ WriteWord \/ EndWrite \/ Return

Next ==
  \/ DriveStep \/ DriverStep
  \/ \E write \in BOOLEAN, device \in DOMAIN devices, lba \in Sectors, count \in Counts :
       Transfer(write, device, lba, count)

(* Drives answer commands, and the driver's processor runs: interrupts     *)
(* come back to it and it is never switched away from.                     *)
Fairness == WF_vars(DriveStep) /\ WF_vars(DriverStep)

Spec == Init /\ [][Next]_vars /\ Fairness

-----------------------------------------------------------------------------
TypeOK ==
  /\ \A t \in Types : drive[t].status \subseteq Flags /\ drive[t].left \in 0 .. MaxSectorsPerOperation
  /\ selected \in Types
  /\ \A i \in DOMAIN devices : devices[i].type \in Types /\ devices[i].sectorsCount < LBA28Limit
  /\ driver.at \in {"select", "present", "identify", "idle", "operation", "words", "flush", "done"}

Identified == driver.at \notin {"select", "present", "identify"}
Places(kind) == {t \in Types : drive[t].is.kind = kind}

(* Every ATA drive is found, once, at its own place, whatever is beside it *)
(* and however long it takes to answer; nothing else is.                   *)
DevicesAreDrives ==
  Identified =>
    /\ {devices[i].type : i \in DOMAIN devices} = Places("ata")
    /\ Len(devices) = Cardinality(Places("ata"))

Transferring == driver.at \in {"operation", "words", "flush", "done"}

(* The word of a disk that belongs to the n-th word of the buffer. *)
Wanted(n) ==
  <<devices[driver.device].type, driver.lba + (n - 1) \div WordsPerSector, (n - 1) % WordsPerSector>>

(* Every word goes where it belongs, across operations of at most          *)
(* MaxSectorsPerOperation sectors, for each way of addressing; words that  *)
(* no drive took are only ever sent, never read, and only after a failure. *)
(* Excepted are sectors whose cylinder has more than 16 bits.              *)
WordsInPlace ==
  Transferring /\ (devices[driver.device].lba \/ driver.lba + driver.count <= 65536 * 1008) =>
    \A n \in DOMAIN moved :
      \/ moved[n] = Wanted(n)
      \/ moved[n] = NoWord /\ driver.write /\ failed

(* SUCCESS means all words and, for a read, that no drive has failed; of a *)
(* write it does not: its polls do not look at the errors.                 *)
SuccessIsComplete ==
  driver.at = "done" /\ driver.result = "SUCCESS" =>
    /\ Len(moved) = driver.count * WordsPerSector
    /\ failed => driver.write

(* A drive gets a command only when it is done with the one before, though *)
(* the flag that is polled is that of the drive selected before.           *)
CommandsReachIdleDrives ==
  [][driver.at = "operation" /\ driver'.at = "words"
       => {"BUSY", "REQUEST"} \cap drive[selected'].status = {}]_vars
=============================================================================
