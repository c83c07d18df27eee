--------------------------- MODULE StorageDevices ---------------------------
(***************************************************************************)
(* The table of storage devices (library/storage-device), which the probe  *)
(* of the IDE channels fills, and the search of kernel.cxx for a device to *)
(* start from.  A device's letter is its place in the table; the table has *)
(* pointers to the devices, which are kept in a List that moves to another *)
(* block of memory each time it grows.                                     *)
(***************************************************************************)
EXTENDS Integers, Sequences

CONSTANTS
  Devices,           \* the devices there may be
  CountAllocate,     \* List::CountAllocate, 10
  MaxDevicesCount,   \* StorageDevice::MaxDevicesCount, 26
  Bootable           \* the devices with a configuration and a program to run

StorageDevicesAssumption ==
  /\ CountAllocate \in Nat \ {0} /\ MaxDevicesCount \in Nat
  /\ Bootable \subseteq Devices

VARIABLES
  probed,    \* history: the devices found, in order
  list,      \* IDECCDevices_: its elements and which block they are in
  table,     \* Devices_[0 .. DevicesCount_ - 1], counted from 1
  at,        \* where the kernel is: probing, looking for a device to start
             \* from, starting or running one, or halted
  index,     \* storageDeviceIndex, counted from 1
  buffers,   \* how many binaryObjectData are allocated
  failed     \* history: the devices a read of which has failed

bootVars == <<at, index, buffers, failed>>
vars == <<probed, list, table, bootVars>>

DevicesCount == Len(table)
Pointer(block, place) == [block |-> block, place |-> place]

-----------------------------------------------------------------------------
(* Where GetLastElement is. *)
LastElement_Mutant(l) == Pointer(l.block, Len(l.elements) - 1)
LastElement(l) == Pointer(l.block, Len(l.elements))

MayAppend == DevicesCount < MaxDevicesCount

(* The list has room up to a multiple of CountAllocate. *)
IsFull == Len(list.elements) = list.block * CountAllocate

AppendDevice(device) ==
  /\ at = "probing" /\ MayAppend
  /\ probed' = Append(probed, device)
  /\ list' = [elements |-> Append(list.elements, device),
              block    |-> IF IsFull THEN list.block + 1 ELSE list.block]
  /\ table' = Append(table, LastElement(list'))
  /\ UNCHANGED bootVars

(* Without memory the block to move to is WRONG_INDEX, which the list takes *)
(* for an address; to copy the elements there is an exception.             *)
Fault(device) ==
  /\ at = "probing" /\ MayAppend /\ IsFull
  /\ probed' = Append(probed, device)
  /\ at' = "halted"
  /\ UNCHANGED <<list, table, index, buffers, failed>>

(* A device more than there are letters stays unknown. *)
Refuse(device) ==
  /\ at = "probing" /\ ~MayAppend
  /\ probed' = Append(probed, device)
  /\ UNCHANGED <<list, table, bootVars>>

(* The channels are probed one after the other, each device once. *)
Probe == \E device \in Devices :
  /\ \A n \in DOMAIN probed : probed[n] # device
  /\ AppendDevice(device) \/ Fault(device) \/ Refuse(device)

-----------------------------------------------------------------------------
(* A pointer that leads to the memory the list has given up. *)
IsStray(pointer) ==
  pointer.block # list.block \/ pointer.place \notin DOMAIN list.elements
Device(pointer) == list.elements[pointer.place]

MoreDevices == index <= DevicesCount

(* Whether the device of the index has the file, and whether it may seem   *)
(* not to: a read may fail, and memory given up may hold anything.         *)
MayHold == IsStray(table[index]) \/ Device(table[index]) \in Bootable
Miss == failed' = failed \cup
  {device \in Bootable : ~IsStray(table[index]) /\ Device(table[index]) = device}

Search ==
  /\ at = "probing"
  /\ at' = "searching" /\ index' = 1
  /\ UNCHANGED <<probed, list, table, buffers, failed>>

(* The configuration cannot be found on the device, or it cannot be read   *)
(* into its buffer, which is then released.                                *)
TryNextDevice ==
  /\ at = "searching" /\ MoreDevices
  /\ index' = index + 1 /\ Miss
  /\ UNCHANGED <<probed, list, table, at, buffers>>

FindConfiguration ==
  /\ at = "searching" /\ MoreDevices /\ MayHold
  /\ at' = "starting" /\ buffers' = buffers + 1
  /\ UNCHANGED <<probed, list, table, index, failed>>

GiveUp ==
  /\ at = "searching" /\ ~MoreDevices
  /\ at' = "given_up"
  /\ UNCHANGED <<probed, list, table, index, buffers, failed>>

(* The program the configuration names is looked for on the same device;   *)
(* the configuration's buffer is released in any case.                     *)
MissProgram ==
  /\ at = "starting" /\ buffers' = buffers - 1
  /\ at' = "halted" /\ Miss
  /\ UNCHANGED <<probed, list, table, index>>

(* The program is found and cannot be read: its buffer stays allocated. *)
LoseProgram ==
  /\ at = "starting" /\ UNCHANGED buffers
  /\ at' = "halted" /\ Miss
  /\ UNCHANGED <<probed, list, table, index>>

(* The supervisor and the program's thread are made and scheduled. *)
RunProgram ==
  /\ at = "starting" /\ buffers' = buffers - 1
  /\ at' = "running"
  /\ UNCHANGED <<probed, list, table, index, failed>>

Init ==
  /\ probed = <<>> /\ table = <<>>
  /\ list = [elements |-> <<>>, block |-> 1]
  /\ at = "probing" /\ index = 1 /\ buffers = 0 /\ failed = {}

Next ==
  \/ Probe \/ Search \/ TryNextDevice \/ FindConfiguration \/ GiveUp
  \/ MissProgram \/ LoseProgram \/ RunProgram

Spec == Init /\ [][Next]_vars

-----------------------------------------------------------------------------
(* Every entry is a pointer, there are no more entries than letters, and   *)
(* the index is that of an entry or the one behind the last.               *)
TypeOK ==
  /\ probed \in Seq(Devices) /\ list.elements \in Seq(Devices)
  /\ failed \subseteq Bootable
  /\ table \in Seq([block : Nat, place : Nat]) /\ DevicesCount <= MaxDevicesCount
  /\ at \in {"probing", "searching", "starting", "running", "given_up", "halted"}
  /\ index \in 1 .. DevicesCount + 1 /\ buffers \in 0 .. 1

(* As long as a letter's pointer is good it leads to the device the letter *)
(* was given to.                                                           *)
LettersNameDevices == \A n \in DOMAIN table :
  ~IsStray(table[n]) => Device(table[n]) = probed[n]

(* What the pointers into a list that moves come to: exactly the letters   *)
(* given before the list last moved lead to memory given up; up to         *)
(* CountAllocate devices none does.                                        *)
GrownListStrays == \A n \in DOMAIN table :
  IsStray(table[n]) <=> n <= (list.block - 1) * CountAllocate

(* The kernel gives the search up only when every device with a            *)
(* configuration has failed, has no letter left or is behind a pointer     *)
(* that strays.                                                            *)
NoDeviceIsOverlooked ==
  at = "given_up" => \A n \in DOMAIN probed :
    probed[n] \in Bootable =>
      \/ probed[n] \in failed
      \/ n > MaxDevicesCount
      \/ IsStray(table[n])

=============================================================================
