------------------------------ MODULE Services ------------------------------
(***************************************************************************)
(* What serves a program in memory: the file system calls with the shell   *)
(* that makes them (Shell), and three things of library/common they stand  *)
(* on, each with all there is to call it with: the path that a call makes  *)
(* of two (PathString), the list the LiteFS driver keeps entries in (List) *)
(* and the loops over memory (MemoryUtils).  A behaviour of this module is *)
(* one of the four.                                                        *)
(***************************************************************************)
EXTENDS Shell

CONSTANTS
  CurrentPaths, RawPaths, WRONG_INDEX,                    \* PathString
  Objects, Values, CountAllocate, MaxBlocks, MaxElements, \* List
  Size, Bytes                                             \* MemoryUtils

VARIABLES
  stage,   \* the one this behaviour is about
  joined, pathString, pathParts, at,
  lists, live, promised, spoilt, overwritten,
  memory, call

pathVars     == <<joined, pathString, pathParts, at>>
listVars     == <<lists, live, promised, spoilt, overwritten>>
memoryVars   == <<memory, call>>
servicesVars == <<stage, vars, pathVars, listVars, memoryVars>>

Paths  == INSTANCE PathString WITH given <- joined, path <- pathString
Lists  == INSTANCE List
Memory == INSTANCE MemoryUtils

ASSUME ServicesAssumption == Lists!ListAssumption /\ Memory!MemoryAssumption

-----------------------------------------------------------------------------
(* The variables of those the behaviour is not about; the shell's are as   *)
(* they were at the beginning.                                             *)
NoPath == joined = <<>> /\ pathString = <<>> /\ pathParts = <<>> /\ at = "off"

NoList ==
  lists = <<>> /\ live = {} /\ promised = <<>> /\ spoilt = {} /\ overwritten = 0

NoMemory == memory = <<>> /\ call = [name |-> "none"]

ServicesInit == Init /\
  \/ stage = "shell"  /\ NoPath      /\ NoList      /\ NoMemory
  \/ stage = "path"   /\ Paths!Init  /\ NoList      /\ NoMemory
  \/ stage = "list"   /\ NoPath      /\ Lists!Init  /\ NoMemory
  \/ stage = "memory" /\ NoPath      /\ NoList      /\ Memory!Init

Work     == stage = "shell"  /\ Next        /\ UNCHANGED <<stage, pathVars, listVars, memoryVars>>
Resolve  == stage = "path"   /\ Paths!Next  /\ UNCHANGED <<stage, vars, listVars, memoryVars>>
KeepList == stage = "list"   /\ Lists!Next  /\ UNCHANGED <<stage, vars, pathVars, memoryVars>>
Handle   == stage = "memory" /\ Memory!Next /\ UNCHANGED <<stage, vars, pathVars, listVars>>

ServicesNext == Work \/ Resolve \/ KeepList \/ Handle

(* Only the loops over a path are about an end. *)
ServicesSpec ==
  ServicesInit /\ [][ServicesNext]_servicesVars /\ WF_pathVars(stage = "path" /\ Paths!Next)

-----------------------------------------------------------------------------
(* At the prompt nothing is kept but the path, a frame for each part of a  *)
(* path that was taken out or looked up, and what refusals have left       *)
(* behind: Shell's properties.                                             *)
MemoryIsReturned == TypeOK /\ NothingIsLostSight /\ NothingElseIsKept

(* Where a file is written that is not its buffer (kernel.cxx:446), and    *)
(* which call reads behind the table of devices: Shell's properties.       *)
StrayWritesAreKnown == FilesAreMisplaced /\ OthersKeepToTheTable

(* PerformPathString (kernel.cxx:518-552) makes of two plain paths the one *)
(* they lead to and of any others one on the same disk.                    *)
PathsAreResolved == stage = "path" =>
  Paths!TypeOK /\ Paths!ResultIsResolved /\ Paths!StaysOnDisk

(* It comes to an end, but for the root (kernel.cxx:550).                  *)
PathsReturnUnlessRoot == stage = "path" => Paths!ReturnsUnlessRoot

(* A List holds what was put in, in blocks of its own, until it shrinks    *)
(* too far or is refused memory (list.hxx:81-104).                         *)
ListsAreKept == stage = "list" =>
  /\ Lists!TypeOK /\ Lists!ContentsArePromised
  /\ Lists!BlocksAreOwned /\ Lists!LossesComeFromShrinking

(* Blocks of every width are copied and filled exactly, and compared too   *)
(* when their length is even (memory-utils.cxx:8-84).                      *)
BlocksAreHandled ==
  /\ Memory!CopyMovesBlock
  /\ Memory!FillSetsBlock
  /\ [][stage = "memory" => Memory!CompareKnowsEvenBlocks']_memoryVars
=============================================================================
