-------------------------------- MODULE ACPI --------------------------------
(***************************************************************************)
(* library/acpi: the search for the firmware's tables, the walk to the     *)
(* FADT, the change to ACPI mode and the power-off.  The tables are those  *)
(* of one firmware, chosen at the start; a sum of bytes that is wrong is a *)
(* table that is not valid.                                                *)
(***************************************************************************)
EXTENDS Integers, Sequences

CONSTANTS
  Firmwares,   \* the firmwares considered, each a record with the fields
               \*   roots      places of valid root pointers
               \*   revision   theirs, 0 or more
               \*   high       whether the XSDT is above 4 GB
               \*   rsdt, xsdt "valid", "invalid" or (the RSDT) "absent"
               \*   entries    the tables listed: "FADT", "other", or "high",
               \*              which only an XSDT can have
               \*   fadt       "valid" or "invalid"
               \*   extended   the FADT's 64-bit pointer to the DSDT: "none",
               \*              "high", or to a "valid" or an "invalid" one
               \*   plain      its 32-bit pointer's: "valid" or "invalid"
               \*   s5         the object _S5_ of the DSDT: a "package", not
               \*              one ("malformed"), at the "last" byte, "absent",
               \*              or "mimicked" by the bytes at the table's end
               \*   smi        whether there is a command to change the mode
               \*   pm1b       whether there is a second control block
               \*   mode       the blocks in ACPI mode from the start
  LastPlace,        \* the last place a root pointer is looked for
  MaxWalk,     \* bound of an entry count that was never set
  MaxTries     \* times the mode is polled, 300

Blocks == {"A", "B"}

ACPIAssumption ==
  /\ LastPlace \in Nat /\ MaxWalk \in Nat /\ MaxTries \in Nat \ {0}
  /\ \A f \in Firmwares :
       /\ f.roots \subseteq 0 .. LastPlace
       /\ f.entries \in Seq({"FADT", "other", "high"}) /\ f.mode \subseteq Blocks

WordSize == 4      \* bytes of a pointer in the RSDT

VARIABLES
  firmware,     \* the tables
  at,           \* the step of Initialize, or "done"
  place,        \* rsdp: first the EBDA's places, then the BIOS area's
  sdtCount, i,  \* entries to walk, and the one reached
  tries,        \* j
  SCIEnabled,   \* SCIEnabled_
  asked,        \* whether the command to change the mode was sent
  mode,         \* the control blocks that are in ACPI mode
  result,       \* what Initialize has returned
  sent          \* the sleep types written with the sleep bit, by block

tables == <<firmware, place, sdtCount>>
vars == <<tables, at, i, tries, SCIEnabled, asked, mode, result, sent>>

Return(value) == at' = "done" /\ result' = value

-----------------------------------------------------------------------------
(* Both areas are searched in steps of 8 bytes, and the place behind each  *)
(* is looked at as well.                                                   *)
IsLastPlace == place = LastPlace

Search ==
  /\ at = "search"
  /\ \/ place \in firmware.roots /\ at' = "root" /\ UNCHANGED <<place, result>>
     \/ /\ place \notin firmware.roots /\ ~IsLastPlace
        /\ place' = place + 1 /\ UNCHANGED <<at, result>>
     \/ /\ place \notin firmware.roots /\ IsLastPlace
        /\ Return(FALSE) /\ UNCHANGED place
  /\ UNCHANGED <<firmware, sdtCount, i, tries, SCIEnabled, asked, mode, sent>>

(* Whether the pointers are 64 bits wide. *)
IsWide == firmware.revision > 0 /\ ~firmware.high
Root == IF IsWide THEN firmware.xsdt ELSE firmware.rsdt

(* The RSDT's count of entries is its count of bytes.  For a later         *)
(* revision the count is never set: it is what the stack had.              *)
EntryCounts ==
  IF firmware.revision = 0 THEN {WordSize * Len(firmware.entries)} ELSE 0 .. MaxWalk

ChooseRoot ==
  /\ at = "root"
  /\ \/ Root # "valid" /\ Return(FALSE) /\ UNCHANGED sdtCount
     \/ /\ Root = "valid" /\ sdtCount' \in EntryCounts
        /\ at' = "walk" /\ UNCHANGED result
  /\ UNCHANGED <<firmware, place, i, tries, SCIEnabled, asked, mode, sent>>

-----------------------------------------------------------------------------
(* What the entry reached points to; behind the table it is anything. *)
Entries == IF i < Len(firmware.entries) THEN {firmware.entries[i + 1]}
           ELSE {"FADT", "other"}

IsFADT(entry) == entry = "FADT" /\ firmware.fadt = "valid"

PassEntry ==
  /\ at = "walk" /\ i < sdtCount
  /\ \E entry \in Entries : ~IsFADT(entry)
  /\ i' = i + 1
  /\ UNCHANGED <<tables, at, tries, SCIEnabled, asked, mode, result, sent>>

EndWalk ==
  /\ at = "walk" /\ i >= sdtCount /\ Return(TRUE)
  /\ UNCHANGED <<tables, i, tries, SCIEnabled, asked, mode, sent>>

DSDT == IF firmware.extended \in {"none", "high"} THEN firmware.plain ELSE firmware.extended

(* dsdtLength is decreased once more than bytes were looked at: it is 0    *)
(* when the object is at the last byte, not when there is none.            *)
SearchFails == DSDT # "valid" \/ firmware.s5 = "last"
IsNamed == firmware.s5 \in {"package", "mimicked"}

(* The control data is taken over and SCIEnabled_ set before the mode is   *)
(* changed.  Without an object that names the sleep type the walk goes on. *)
TakeFADT ==
  /\ at = "walk" /\ i < sdtCount
  /\ \E entry \in Entries : IsFADT(entry)
  /\ \/ /\ SearchFails /\ Return(FALSE)
        /\ UNCHANGED <<i, tries, SCIEnabled, asked>>
     \/ /\ ~SearchFails /\ ~IsNamed
        /\ i' = i + 1 /\ UNCHANGED <<at, result, tries, SCIEnabled, asked>>
     \/ /\ ~SearchFails /\ IsNamed
        /\ SCIEnabled' = TRUE
        /\ \/ /\ "A" \in mode
              /\ i' = i + 1 /\ UNCHANGED <<at, result, tries, asked>>
           \/ /\ "A" \notin mode /\ firmware.smi
              /\ asked' = TRUE /\ tries' = 0 /\ at' = "wait_A"
              /\ UNCHANGED <<i, result>>
           \/ /\ "A" \notin mode /\ ~firmware.smi
              /\ Return(FALSE) /\ UNCHANGED <<i, tries, asked>>
  /\ UNCHANGED <<tables, mode, sent>>

MayTry == tries < MaxTries

TimedOut_Mutant == tries > MaxTries
TimedOut == tries >= MaxTries

Tried == tries + 1

Waiting == [A |-> "wait_A", B |-> "wait_B"]

(* 10 ticks between two looks at the block. *)
Poll(block) ==
  /\ at = Waiting[block] /\ MayTry /\ block \notin mode
  /\ tries' = Tried
  /\ UNCHANGED <<tables, at, i, SCIEnabled, asked, mode, result, sent>>

(* The second block is polled with what the first has left of the tries. *)
PollSecond ==
  /\ at = "wait_A" /\ (~MayTry \/ "A" \in mode) /\ firmware.pm1b
  /\ at' = "wait_B"
  /\ UNCHANGED <<tables, i, tries, SCIEnabled, asked, mode, result, sent>>

EndWait ==
  /\ \/ at = "wait_A" /\ (~MayTry \/ "A" \in mode) /\ ~firmware.pm1b
     \/ at = "wait_B" /\ (~MayTry \/ "B" \in mode)
  /\ IF TimedOut THEN Return(FALSE) /\ UNCHANGED i
     ELSE at' = "walk" /\ i' = i + 1 /\ UNCHANGED result
  /\ UNCHANGED <<tables, tries, SCIEnabled, asked, mode, sent>>

-----------------------------------------------------------------------------
(* Once asked the firmware changes the mode, block by block, some time or  *)
(* never.                                                                  *)
ChangeMode ==
  /\ asked
  /\ \E block \in Blocks \ mode : mode' = mode \cup {block}
  /\ UNCHANGED <<tables, at, i, tries, SCIEnabled, asked, result, sent>>

MayPowerOff == SCIEnabled /\ "A" \in mode

(* SleepTypeB_ is never set.  Otherwise PowerOff returns false. *)
PowerOff ==
  /\ at = "done" /\ MayPowerOff
  /\ sent' = [block \in IF firmware.pm1b THEN Blocks ELSE {"A"} |->
                IF block = "A" THEN firmware.s5 ELSE "zero"]
  /\ UNCHANGED <<tables, at, i, tries, SCIEnabled, asked, mode, result>>

Init ==
  /\ firmware \in Firmwares
  /\ at = "search" /\ place = 0 /\ sdtCount = 0 /\ i = 0 /\ tries = 0
  /\ SCIEnabled = FALSE /\ asked = FALSE /\ mode = firmware.mode
  /\ result = FALSE /\ sent = <<>>

Initialize ==
  \/ Search \/ ChooseRoot \/ PassEntry \/ EndWalk \/ TakeFADT
  \/ Poll("A") \/ Poll("B") \/ PollSecond \/ EndWait

Next == Initialize \/ ChangeMode \/ PowerOff

Spec == Init /\ [][Next]_vars

(* The kernel's only thread at that time runs; the ticks it sleeps come.   *)
FairSpec == Spec /\ WF_vars(Initialize)

-----------------------------------------------------------------------------
TypeOK ==
  /\ firmware \in Firmwares
  /\ at \in {"search", "root", "walk", "wait_A", "wait_B", "done"}
  /\ place \in 0 .. LastPlace /\ i \in 0 .. sdtCount /\ tries \in 0 .. MaxTries
  /\ SCIEnabled \in BOOLEAN /\ asked \in BOOLEAN /\ result \in BOOLEAN
  /\ mode \subseteq Blocks
  /\ \A block \in DOMAIN sent : sent[block] \in {firmware.s5, "zero"}

(* The tables used are those of the first valid root pointer; without one, *)
(* and only then, the search fails (two loops, each ending with a look at  *)
(* the place behind its area).                                             *)
FirstRootWins ==
  /\ at # "search" => firmware.roots \cap 0 .. place - 1 = {}
  /\ at \notin {"search", "done"} => place \in firmware.roots
  /\ at = "done" /\ place \notin firmware.roots => firmware.roots = {}

(* With revision 0 the walk, which goes far beyond the table, misses none  *)
(* of it: success with a FADT listed whose DSDT is valid and names the     *)
(* sleep type is success with control.                                     *)
ListedFADTIsUsed ==
  /\ at = "done" /\ result /\ firmware.revision = 0 /\ IsNamed
  /\ \E n \in DOMAIN firmware.entries : IsFADT(firmware.entries[n])
  => SCIEnabled

(* Initialized() is true from the moment the change of mode begins, so it  *)
(* does not tell how that ended.  Initialize does: true if the first block *)
(* has come to ACPI mode, and after a command the second, false if there   *)
(* is no command or the tries were used up.                                *)
ModeIsAnswered == at = "done" /\ SCIEnabled =>
  IF result THEN "A" \in mode /\ (asked /\ firmware.pm1b => "B" \in mode)
  ELSE ~firmware.smi \/ tries = MaxTries

(* The sleep bit is only written in ACPI mode with a sleep type taken from *)
(* a DSDT, even when Initialize has returned false and the mode changed    *)
(* afterwards.                                                             *)
PowerOffIsEarned == sent # <<>> =>
  "A" \in mode /\ IsNamed /\ DSDT = "valid" /\ place \in firmware.roots

=============================================================================
