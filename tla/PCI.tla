--------------------------------- MODULE PCI ---------------------------------
(***************************************************************************)
(* The walk over the PCI buses of library/pci/pci.cxx, which reports every *)
(* function but bridges to a handler, and behind bridges goes on to the    *)
(* bus they lead to.                                                       *)
(*                                                                         *)
(* A machine is a function on its places, <<bus, device, function>>, to    *)
(* what is there: a function of a device, a bridge to a bus, or nothing.   *)
(***************************************************************************)
EXTENDS Integers, Sequences

CONSTANTS
  Machines,             \* the machines the kernel may find itself on
  BusesCount, DevicesPerBus, FunctionsCount,   \* 256, 32 and 8
  MaxDepth              \* how deep CheckBus may call itself on the stack

VARIABLES
  machine,
  busIndex,   \* CheckAllBuses' loop counter; none before it has begun
  calls,      \* the calls of CheckBus, the innermost first, with their counters
  found       \* the places reported to the handler, in order

vars == <<machine, busIndex, calls, found>>

Function(kind, multi) == [kind |-> kind, to |-> 0, multi |-> multi]
Bridge(bus, multi) == [kind |-> "bridge", to |-> bus, multi |-> multi]

(* What reads as ones everywhere. *)
Nothing == [kind |-> "nothing", to |-> 0, multi |-> TRUE]

None == -1
Places == (0 .. BusesCount - 1) \X (0 .. DevicesPerBus - 1) \X (0 .. FunctionsCount - 1)
IsThere(place) == machine[place] # Nothing

(* A register holds no more than the numbers of buses there are, and what  *)
(* is not there reads as ones in every register.                           *)
PCIAssumption ==
  /\ {BusesCount, DevicesPerBus, FunctionsCount, MaxDepth} \subseteq Nat \ {0}
  /\ FunctionsCount <= BusesCount
  /\ \A m \in Machines :
       /\ m \in [Places -> [kind : STRING, to : 0 .. BusesCount - 1, multi : BOOLEAN]]
       /\ \A place \in Places : m[place].kind = "nothing" => m[place] = Nothing

-----------------------------------------------------------------------------
CheckBus(bus) == [bus |-> bus, device |-> 0, function |-> 0]
Place(call) == <<call.bus, call.device, call.function>>

(* The functions behind the first are looked at only if the first says so. *)
HasMore(call) ==
  /\ call.function < FunctionsCount - 1
  /\ LET first == <<call.bus, call.device, 0>> IN IsThere(first) /\ machine[first].multi

(* The other functions of a bridge's device are not looked at. *)
Behind_Mutant(call) ==
  IF HasMore(call) /\ machine[Place(call)].kind # "bridge" THEN [call EXCEPT !.function = @ + 1]
  ELSE [call EXCEPT !.device = @ + 1, !.function = 0]

(* The counters when a function has been dealt with. *)
Behind(call) ==
  IF HasMore(call) THEN [call EXCEPT !.function = @ + 1]
  ELSE [call EXCEPT !.device = @ + 1, !.function = 0]

SecondaryBus(place) == machine[place].to

(* The next function of the innermost call, if it is there. *)
CheckFunction ==
  /\ calls # <<>> /\ Len(calls) <= MaxDepth /\ Head(calls).device < DevicesPerBus
  /\ LET place == Place(Head(calls))
         behind == <<Behind(Head(calls))>> \o Tail(calls)
         kind == machine[place].kind
     IN /\ calls' = IF kind = "bridge" THEN <<CheckBus(SecondaryBus(place))>> \o behind ELSE behind
        /\ found' = IF kind \in {"bridge", "nothing"} THEN found ELSE Append(found, place)
  /\ UNCHANGED <<machine, busIndex>>

Return ==
  /\ calls # <<>> /\ Head(calls).device = DevicesPerBus
  /\ calls' = Tail(calls)
  /\ UNCHANGED <<machine, busIndex, found>>

(* Is there another host bridge?  The code asks whether there is none. *)
NextBusFollows == busIndex < FunctionsCount /\ ~IsThere(<<0, 0, busIndex>>)

CheckAllBuses ==
  /\ calls = <<>>
  /\ \/ /\ busIndex = None
        /\ IF machine[<<0, 0, 0>>].multi
             THEN busIndex' = 0 /\ UNCHANGED calls
             ELSE busIndex' = FunctionsCount /\ calls' = <<CheckBus(0)>>
     \/ /\ busIndex # None /\ NextBusFollows
        /\ calls' = <<CheckBus(busIndex)>> /\ busIndex' = busIndex + 1
  /\ UNCHANGED <<machine, found>>

Init ==
  /\ machine \in Machines
  /\ busIndex = None /\ calls = <<>> /\ found = <<>>

Next == CheckAllBuses \/ CheckFunction \/ Return
Spec == Init /\ [][Next]_vars /\ WF_vars(Next)

-----------------------------------------------------------------------------
(* The functions that can be there: behind a first function that says so.  *)
Visible == {place \in Places :
  /\ IsThere(place)
  /\ place[3] > 0 => LET first == <<place[1], place[2], 0>> IN IsThere(first) /\ machine[first].multi}

BridgesFrom(bus) == {place \in Visible : place[1] = bus /\ machine[place].kind = "bridge"}
BusesFrom(buses) == {machine[place].to : place \in UNION {BridgesFrom(bus) : bus \in buses}}

(* The buses behind bus 0 and, one more level at a time, all below it. *)
Below[n \in 0 .. BusesCount] == IF n = 0 THEN BusesFrom({0}) ELSE Below[n - 1] \cup BusesFrom(Below[n - 1])
Reachable == {0} \cup Below[BusesCount]

(* A numbering as the firmware is to leave it: each bus has one bridge to  *)
(* it at most, and a higher number than the bus the bridge is on.          *)
IsTree == \A p, q \in Visible : machine[p].kind = "bridge" =>
  machine[p].to > p[1] /\ (machine[q].kind = "bridge" /\ machine[q].to = machine[p].to => p = q)

HasHost == IsThere(<<0, 0, 0>>)
Ended == calls = <<>> /\ busIndex # None /\ ~NextBusFollows

TypeOK ==
  /\ busIndex \in None .. FunctionsCount
  /\ \A n \in DOMAIN calls : calls[n].device = DevicesPerBus \/ Place(calls[n]) \in Places
  /\ \A n \in DOMAIN found : found[n] \in Visible

(* A machine whose first function is a device of its own is walked         *)
(* completely: every function that is not a bridge is reported once,       *)
(* whatever the bridges between.                                           *)
WalkIsComplete == Ended /\ HasHost /\ ~machine[<<0, 0, 0>>].multi /\ IsTree =>
  /\ {found[n] : n \in DOMAIN found} = {p \in Visible : p[1] \in Reachable /\ machine[p].kind # "bridge"}
  /\ \A m, n \in DOMAIN found : m # n => found[m] # found[n]

(* When the first device has several functions nothing is ever reported,   *)
(* for the test of the vendor is the wrong way round; when it is missing   *)
(* the buses are walked that it would be the host of.                      *)
HostWithFunctionsHidesAll == HasHost /\ machine[<<0, 0, 0>>].multi => calls = <<>> /\ found = <<>>

(* CheckBus goes deeper than there are buses only behind a bridge that     *)
(* leads back, such as one the firmware has left at bus 0.                 *)
DepthIsBounded == IsTree => Len(calls) <= BusesCount
=============================================================================
