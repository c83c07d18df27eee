------------------------------ MODULE BootProofs ------------------------------
(***************************************************************************)
(* Theorems about the stages of the start, for every firmware, machine,    *)
(* drive and text, and for every size of their tables.                     *)
(***************************************************************************)
EXTENDS Boot, MemoryMapProofs, FiniteSetTheorems, SequenceTheorems, WellFoundedInduction, TLAPS

(* A step of the start is a step of its stage. *)
LEMMA StageSteps ==
  ASSUME [BootNext]_bootVars
  PROVE  /\ stage' = stage
         /\ stage = "devices" => [Store!Next]_devicesVars
         /\ stage = "drives" => [Ide!Next]_ideVars
         /\ stage = "buses" => [Pci!Next]_pciVars
         /\ stage = "acpi" => [Acpi!Next]_acpiVars
         /\ stage = "text" => [Rpf!Next]_rpfVars
         /\ stage = "memory" => [Next]_vars
BY DEF BootNext, bootVars, Tables, MemoryMapping, Buses, Channel, Start, Configuration

(* Whatever map the firmware hands over, the physical memory manager gets  *)
(* free memory only that is nobody else's: MemoryMapProofs has the proof   *)
(* for the passes by themselves.                                           *)
THEOREM RegionsAreSoundAlways == BootSpec => []RegionsAreSound
<1> DEFINE Inv == stage = "memory" => MapInv
<1>1. BootInit => Inv
  BY InitMap DEF BootInit
<1>2. Inv /\ [BootNext]_bootVars => Inv'
  BY StageSteps, MapStep
<1>3. Inv => RegionsAreSound
  BY MapIsSound DEF RegionsAreSound
<1>4. QED
  BY <1>1, <1>2, <1>3, PTL DEF BootSpec

-----------------------------------------------------------------------------
(* There is a least number in every set that has one. *)
LEMMA LeastNumber ==
  ASSUME NEW S \in SUBSET Nat, S # {}
  PROVE  \E m \in S : \A n \in S : m <= n
<1>1. PICK m \in S : \A n \in S : ~(<<n, m>> \in OpToRel(<, Nat))
  BY NatLessThanWellFounded, WFMin, Zenon
<1>2. \A n \in S : n < m => <<n, m>> \in OpToRel(<, Nat)
  BY Zenon DEF OpToRel
<1>3. \A n \in S : ~(n < m)
  BY <1>1, <1>2, Zenon
<1> QED
  BY <1>3

(* The walk over the buses.  What PCI says of the machine that is walked,  *)
(* of any machine m: its functions, and the buses that its bridges lead to. *)
BusNumbers == 0 .. BusesCount - 1
IsBridge(m, p) == m[p].kind = "bridge"
IsVisible(m, p) ==
  /\ m[p] # Pci!Nothing
  /\ p[3] > 0 => LET first == <<p[1], p[2], 0>> IN m[first] # Pci!Nothing /\ m[first].multi
VisibleIn(m) == {p \in Pci!Places : IsVisible(m, p)}
BusesFrom(m, buses) == {m[p].to : p \in {q \in VisibleIn(m) : q[1] \in buses /\ IsBridge(m, q)}}
TreeIn(m) == \A p, q \in VisibleIn(m) : IsBridge(m, p) =>
  m[p].to > p[1] /\ (IsBridge(m, q) /\ m[q].to = m[p].to => p = q)

(* The buses that some buses lead to, themselves included: the least set   *)
(* with them that its bridges do not lead out of.                          *)
Closed(m, buses) == BusesFrom(m, buses) \subseteq buses
Reach(m, buses) ==
  {bus \in BusNumbers : \A Y \in SUBSET BusNumbers : buses \subseteq Y /\ Closed(m, Y) => bus \in Y}

(* What is to come: the places that the calls have still to look at, and   *)
(* those on the buses that the bridges among them lead to.                 *)
On(m, buses) == {p \in VisibleIn(m) : p[1] \in buses}
Targets(m, places) == {m[p].to : p \in {q \in places : IsBridge(m, q)}}
Reported(m, places) == {p \in places : ~IsBridge(m, p)}
Ahead(m, call) == {p \in VisibleIn(m) :
  p[1] = call.bus /\ (p[2] > call.device \/ (p[2] = call.device /\ p[3] >= call.function))}
Todo(m, stack) == UNION {Ahead(m, stack[n]) : n \in 1 .. Len(stack)}
Later(m, stack) == Reach(m, Targets(m, Todo(m, stack)))
Pending(m, stack) == Todo(m, stack) \cup On(m, Later(m, stack))

(* No bus that a call is on is another's, or comes again.                  *)
BusesApart(m, stack) ==
  /\ \A n \in 1 .. Len(stack) : stack[n].bus \notin Later(m, stack)
  /\ \A k, n \in 1 .. Len(stack) : k # n => stack[k].bus # stack[n].bus

(* What is reported and what is to come is all there is, and nothing is    *)
(* reported that is to come or was reported before.                        *)
ReportIsApart(m, stack, report) ==
  /\ {report[n] : n \in 1 .. Len(report)} \cup Reported(m, Pending(m, stack)) = Reported(m, On(m, Reach(m, {0})))
  /\ \A n \in 1 .. Len(report) : report[n] \notin Pending(m, stack)
  /\ \A k, n \in 1 .. Len(report) : k # n => report[k] # report[n]

(* The counters of a call: behind a first function there are more.         *)
Call == [bus : BusNumbers, device : 0 .. DevicesPerBus, function : 0 .. FunctionsCount - 1]
IsCall(m, call) ==
  /\ call \in Call
  /\ call.function > 0 =>
       /\ call.device < DevicesPerBus
       /\ LET first == <<call.bus, call.device, 0>> IN m[first] # Pci!Nothing /\ m[first].multi

PCITypes ==
  /\ machine \in Machines
  /\ busIndex \in -1 .. FunctionsCount
  /\ calls \in Seq(Call) /\ \A n \in 1 .. Len(calls) : IsCall(machine, calls[n])
  /\ found \in Seq(VisibleIn(machine))

(* Each call is on a bus of a higher number than the one it is behind.     *)
CallsClimb == TreeIn(machine) => \A n \in 1 .. Len(calls) : calls[n].bus >= Len(calls) - n

HostBegins ==
  LET host == machine[<<0, 0, 0>>]
  IN host # Pci!Nothing =>
       IF host.multi THEN busIndex \in {-1, 0} /\ calls = <<>> /\ found = <<>>
       ELSE \/ busIndex = -1 /\ calls = <<>> /\ found = <<>>
            \/ /\ busIndex = FunctionsCount
               /\ TreeIn(machine) => BusesApart(machine, calls) /\ ReportIsApart(machine, calls, found)

PCIInv == PCITypes /\ CallsClimb /\ HostBegins

LEMMA PCIConstants ==
  /\ BusesCount \in Nat \ {0} /\ DevicesPerBus \in Nat \ {0} /\ FunctionsCount \in Nat \ {0}
  /\ FunctionsCount <= BusesCount
BY BootAssumption DEF Pci!PCIAssumption

LEMMA PlaceFacts ==
  ASSUME NEW m \in Machines, NEW p \in Pci!Places
  PROVE  /\ p[1] \in BusNumbers /\ p[2] \in 0 .. DevicesPerBus - 1 /\ p[3] \in 0 .. FunctionsCount - 1
         /\ p = <<p[1], p[2], p[3]>>
         /\ m[p].to \in BusNumbers /\ m[p].multi \in BOOLEAN
         /\ m[p] # Pci!Nothing <=> m[p].kind # "nothing"
<1>1. /\ m \in [Pci!Places -> [kind : STRING, to : 0 .. BusesCount - 1, multi : BOOLEAN]]
      /\ m[p].kind = "nothing" => m[p] = Pci!Nothing
  BY BootAssumption, Zenon DEF Pci!PCIAssumption
<1>2. m[p] \in [kind : STRING, to : 0 .. BusesCount - 1, multi : BOOLEAN]
  BY <1>1
<1>3. Pci!Nothing.kind = "nothing"
  BY DEF Pci!Nothing
<1>4. /\ p[1] \in BusNumbers /\ p[2] \in 0 .. DevicesPerBus - 1 /\ p[3] \in 0 .. FunctionsCount - 1
      /\ p = <<p[1], p[2], p[3]>>
  BY DEF Pci!Places, BusNumbers
<1>5. m[p].to \in BusNumbers /\ m[p].multi \in BOOLEAN
  BY <1>2 DEF BusNumbers
<1>6. m[p] # Pci!Nothing <=> m[p].kind # "nothing"
  BY <1>1, <1>3, Zenon 
<1>7. QED
  BY <1>4, <1>5, <1>6

(* Where the bridges of a set of buses lead. *)
LEMMA BusesFromIs ==
  ASSUME NEW m, NEW buses, NEW bus
  PROVE  bus \in BusesFrom(m, buses) <=>
           \E p \in VisibleIn(m) : p[1] \in buses /\ IsBridge(m, p) /\ m[p].to = bus
BY DEF BusesFrom

LEMMA BusesFromTyped ==
  ASSUME NEW m \in Machines, NEW buses
  PROVE  BusesFrom(m, buses) \in SUBSET BusNumbers
<1> SUFFICES ASSUME NEW p \in VisibleIn(m) PROVE m[p].to \in BusNumbers
  BY BusesFromIs
<1> QED
  BY PlaceFacts DEF VisibleIn

LEMMA TargetsTyped ==
  ASSUME NEW m \in Machines, NEW S \in SUBSET VisibleIn(m)
  PROVE  Targets(m, S) \in SUBSET BusNumbers
<1> SUFFICES ASSUME NEW p \in VisibleIn(m) PROVE m[p].to \in BusNumbers
  BY DEF Targets
<1> QED
  BY PlaceFacts DEF VisibleIn

(* The buses that some lead to are the least set that leads nowhere else. *)
LEMMA ReachIsLeast ==
  ASSUME NEW m \in Machines, NEW buses \in SUBSET BusNumbers
  PROVE  /\ Reach(m, buses) \in SUBSET BusNumbers
         /\ buses \subseteq Reach(m, buses)
         /\ Closed(m, Reach(m, buses))
         /\ \A Y \in SUBSET BusNumbers : buses \subseteq Y /\ Closed(m, Y) => Reach(m, buses) \subseteq Y
<1>1. Reach(m, buses) \in SUBSET BusNumbers /\ buses \subseteq Reach(m, buses)
  BY DEF Reach
<1>2. \A Y \in SUBSET BusNumbers : buses \subseteq Y /\ Closed(m, Y) => Reach(m, buses) \subseteq Y
  BY DEF Reach
<1>3. Closed(m, Reach(m, buses))
  <2> SUFFICES ASSUME NEW bus \in BusesFrom(m, Reach(m, buses)) PROVE bus \in Reach(m, buses)
    BY DEF Closed
  <2>1. bus \in BusNumbers
    BY BusesFromTyped
  <2>2. ASSUME NEW Y \in SUBSET BusNumbers, buses \subseteq Y, Closed(m, Y)
        PROVE  bus \in Y
    <3>1. Reach(m, buses) \subseteq Y
      BY <1>2, <2>2
    <3>2. bus \in BusesFrom(m, Y)
      BY <3>1, BusesFromIs
    <3>3. QED
      BY <2>2, <3>2 DEF Closed
  <2>3. QED
    BY <2>1, <2>2 DEF Reach
<1>4. QED
  BY <1>1, <1>2, <1>3

(* A bus leads to itself and to what its bridges lead to. *)
LEMMA ReachUnfolds ==
  ASSUME NEW m \in Machines, NEW bus \in BusNumbers, NEW others \in SUBSET BusNumbers
  PROVE  \A b : b \in Reach(m, {bus} \cup others)
                <=> b = bus \/ b \in Reach(m, BusesFrom(m, {bus}) \cup others)
<1> DEFINE all == Reach(m, {bus} \cup others)
           behind == Reach(m, BusesFrom(m, {bus}) \cup others)
           Y == {bus} \cup behind
<1>1. {bus} \cup others \in SUBSET BusNumbers /\ BusesFrom(m, {bus}) \cup others \in SUBSET BusNumbers
  BY BusesFromTyped
<1>2. /\ all \in SUBSET BusNumbers /\ {bus} \cup others \subseteq all /\ Closed(m, all)
      /\ \A Z \in SUBSET BusNumbers : {bus} \cup others \subseteq Z /\ Closed(m, Z) => all \subseteq Z
  BY <1>1, ReachIsLeast
<1>3. /\ behind \in SUBSET BusNumbers /\ BusesFrom(m, {bus}) \cup others \subseteq behind /\ Closed(m, behind)
      /\ \A Z \in SUBSET BusNumbers :
           BusesFrom(m, {bus}) \cup others \subseteq Z /\ Closed(m, Z) => behind \subseteq Z
  BY <1>1, ReachIsLeast
<1> HIDE DEF all, behind
<1>4. all \subseteq Y
  <2>1. BusesFrom(m, Y) \subseteq BusesFrom(m, {bus}) \cup BusesFrom(m, behind)
    BY BusesFromIs
  <2>2. Closed(m, Y)
    BY <1>3, <2>1 DEF Closed
  <2>3. QED
    BY <1>2, <1>3, <2>2
<1>5. Y \subseteq all
  <2>1. BusesFrom(m, {bus}) \subseteq BusesFrom(m, all)
    BY <1>2, BusesFromIs
  <2>2. QED
    BY <1>2, <1>3, <2>1 DEF Closed
<1>6. QED
  BY <1>4, <1>5 DEF all, behind

(* In a tree, what is behind a bus does not lead back to it, if nothing    *)
(* else does: no other bridge but p that is still to come or behind one.   *)
LEMMA NothingLeadsBack ==
  ASSUME NEW m \in Machines, TreeIn(m),
         NEW p \in VisibleIn(m), IsBridge(m, p), NEW others \in SUBSET BusNumbers,
         m[p].to \notin others,
         p[1] \notin Reach(m, {m[p].to} \cup others)
  PROVE  m[p].to \notin Reach(m, BusesFrom(m, {m[p].to}) \cup others)
<1> DEFINE bus == m[p].to
           all == Reach(m, {bus} \cup others)
           Y == all \ {bus}
<1>1. bus \in BusNumbers
  BY PlaceFacts DEF VisibleIn
<1>2. all \in SUBSET BusNumbers /\ {bus} \cup others \subseteq all /\ Closed(m, all)
  BY <1>1, ReachIsLeast
<1>3. \A q \in VisibleIn(m) : IsBridge(m, q) => m[q].to > q[1] /\ (m[q].to = bus => p = q)
  BY DEF TreeIn, IsBridge
<1>4. bus \notin others /\ p[1] \notin all
  OBVIOUS
<1> HIDE DEF all, bus
<1>5. BusesFrom(m, {bus}) \subseteq all
  BY <1>2, BusesFromIs DEF Closed
<1>6. bus \notin BusesFrom(m, {bus})
  BY <1>1, <1>3, BusesFromIs DEF BusNumbers
<1>7. BusesFrom(m, Y) \subseteq Y
  <2> SUFFICES ASSUME NEW q \in VisibleIn(m), q[1] \in Y, IsBridge(m, q) PROVE m[q].to \in Y
    BY BusesFromIs
  <2>1. m[q].to \in all
    BY <1>2, BusesFromIs DEF Closed
  <2>2. m[q].to # bus
    BY <1>3, <1>4
  <2>3. QED
    BY <2>1, <2>2
<1>8. BusesFrom(m, {bus}) \cup others \subseteq Y /\ Closed(m, Y) /\ Y \in SUBSET BusNumbers
  BY <1>2, <1>4, <1>5, <1>6, <1>7 DEF Closed
<1>9. Reach(m, BusesFrom(m, {bus}) \cup others) \subseteq Y
  <2> DEFINE start == BusesFrom(m, {bus}) \cup others
  <2>1. start \in SUBSET BusNumbers /\ start \subseteq Y
    BY <1>8
  <2> HIDE DEF start, Y
  <2>2. \A Z \in SUBSET BusNumbers : start \subseteq Z /\ Closed(m, Z) => Reach(m, start) \subseteq Z
    BY <2>1, ReachIsLeast
  <2>3. QED
    BY <1>8, <2>1, <2>2 DEF start
<1>10. QED
  BY <1>9 DEF bus

(* Nothing leads back to bus 0. *)
LEMMA NothingLeadsToZero ==
  ASSUME NEW m \in Machines, TreeIn(m)
  PROVE  0 \notin Reach(m, BusesFrom(m, {0}))
<1> DEFINE Y == BusNumbers \ {0}
<1>1. \A q \in VisibleIn(m) : IsBridge(m, q) => m[q].to \in Y
  <2> SUFFICES ASSUME NEW q \in VisibleIn(m), IsBridge(m, q) PROVE m[q].to \in Y
    OBVIOUS
  <2>1. m[q].to > q[1]
    BY DEF TreeIn, IsBridge
  <2>2. QED
    BY <2>1, PlaceFacts DEF VisibleIn, BusNumbers
<1>2. \A buses : BusesFrom(m, buses) \subseteq Y
  BY <1>1, BusesFromIs
<1>3. BusesFrom(m, {0}) \in SUBSET BusNumbers /\ Y \in SUBSET BusNumbers
  BY <1>2
<1>4. Reach(m, BusesFrom(m, {0})) \subseteq Y
  <2> DEFINE start == BusesFrom(m, {0})
  <2>1. start \in SUBSET BusNumbers /\ start \subseteq Y /\ Closed(m, Y)
    BY <1>2, <1>3 DEF Closed
  <2> HIDE DEF start, Y
  <2>2. \A Z \in SUBSET BusNumbers : start \subseteq Z /\ Closed(m, Z) => Reach(m, start) \subseteq Z
    BY <2>1, ReachIsLeast
  <2>3. QED
    BY <1>3, <2>1, <2>2 DEF start
<1>5. QED
  BY <1>4

LEMMA NothingReachesNothing ==
  ASSUME NEW m \in Machines
  PROVE  Reach(m, {}) = {}
<1>1. Closed(m, {})
  BY BusesFromIs DEF Closed
<1>2. QED
  BY <1>1 DEF Reach

-----------------------------------------------------------------------------
(* PCI's operators speak of the machine that is walked. *)
LEMMA PCITerms ==
  /\ Pci!Visible = VisibleIn(machine)
  /\ Pci!IsTree <=> TreeIn(machine)
  /\ \A buses : Pci!BusesFrom(buses) = BusesFrom(machine, buses)
<1>1. Pci!Visible = VisibleIn(machine)
  BY Zenon DEF Pci!Visible, Pci!IsThere, VisibleIn, IsVisible
<1>2. Pci!IsTree <=> TreeIn(machine)
  BY <1>1, Zenon DEF Pci!IsTree, TreeIn, IsBridge
<1>3. ASSUME NEW buses PROVE Pci!BusesFrom(buses) = BusesFrom(machine, buses)
  BY <1>1 DEF Pci!BusesFrom, Pci!BridgesFrom, BusesFrom, IsBridge
<1>4. QED
  BY <1>1, <1>2, <1>3, Zenon

(* The next function of a device, or the next device: of what a call has   *)
(* still to look at, the place it has looked at is gone and nothing else.  *)
LEMMA BehindCall ==
  ASSUME machine \in Machines, NEW call, IsCall(machine, call), call.device < DevicesPerBus
  PROVE  /\ IsCall(machine, Pci!Behind(call)) /\ Pci!Behind(call).bus = call.bus
         /\ Pci!Place(call) \in Pci!Places /\ Pci!Place(call)[1] = call.bus
         /\ machine[Pci!Place(call)].kind # "nothing" => Pci!Place(call) \in Ahead(machine, call)
         /\ Ahead(machine, Pci!Behind(call)) = Ahead(machine, call) \ {Pci!Place(call)}
<1> DEFINE here == <<call.bus, call.device, call.function>>
           first == <<call.bus, call.device, 0>>
           more == call.function < FunctionsCount - 1 /\ machine[first] # Pci!Nothing /\ machine[first].multi
           next == Pci!Behind(call)
<1>1. call \in Call /\ Pci!Place(call) = here
  BY DEF IsCall, Pci!Place
<1>2. /\ call.bus \in BusNumbers /\ call.device \in 0 .. DevicesPerBus - 1
      /\ call.function \in 0 .. FunctionsCount - 1
  BY <1>1, PCIConstants DEF Call
<1>3. here \in Pci!Places /\ here[1] = call.bus /\ here[2] = call.device /\ here[3] = call.function
  BY <1>2 DEF Pci!Places, BusNumbers
<1>4. Pci!HasMore(call) <=> more
  BY Zenon DEF Pci!HasMore, Pci!IsThere
<1>5. /\ more => next = [call EXCEPT !.function = @ + 1]
      /\ ~more => next = [call EXCEPT !.device = @ + 1, !.function = 0]
  BY <1>4, Zenon DEF Pci!Behind
<1>6. /\ next \in Call /\ next.bus = call.bus
      /\ more => next.device = call.device /\ next.function = call.function + 1
      /\ ~more => next.device = call.device + 1 /\ next.function = 0
  <2>1. CASE more
    BY <1>1, <1>2, <1>5, <2>1, PCIConstants DEF Call
  <2>2. CASE ~more
    <3>1. next = [call EXCEPT !.device = @ + 1, !.function = 0]
      BY <1>5, <2>2
    <3>2. call.device + 1 \in 0 .. DevicesPerBus /\ 0 \in 0 .. FunctionsCount - 1
      BY <1>2, PCIConstants
    <3> HIDE DEF next, more
    <3>3. /\ next \in Call /\ next.bus = call.bus
          /\ next.device = call.device + 1 /\ next.function = 0
      BY <1>1, <3>1, <3>2 DEF Call
    <3>4. QED
      BY <2>2, <3>3
  <2>3. QED
    BY <2>1, <2>2
<1>7. IsCall(machine, next)
  <2>1. CASE more
    BY <1>2, <1>6, <2>1 DEF IsCall
  <2>2. CASE ~more
    BY <1>6, <2>2 DEF IsCall
  <2>3. QED
    BY <2>1, <2>2
<1>8. ASSUME machine[here].kind # "nothing" PROVE here \in Ahead(machine, call)
  <2>1. machine[here] # Pci!Nothing
    BY <1>3, <1>8, PlaceFacts
  <2>2. here[3] > 0 => machine[first] # Pci!Nothing /\ machine[first].multi
    BY <1>3 DEF IsCall
  <2>3. <<here[1], here[2], 0>> = first
    OBVIOUS
  <2>4. here \in VisibleIn(machine)
    BY <1>3, <2>1, <2>2, <2>3, Zenon DEF VisibleIn, IsVisible
  <2>5. QED
    BY <1>2, <1>3, <2>4 DEF Ahead
<1>9. ASSUME NEW p \in VisibleIn(machine), p[1] = call.bus
      PROVE  p \in Ahead(machine, next) <=> p \in Ahead(machine, call) /\ p # here
  <2>1. /\ p \in Pci!Places /\ p[2] \in 0 .. DevicesPerBus - 1 /\ p[3] \in 0 .. FunctionsCount - 1
        /\ p = <<p[1], p[2], p[3]>>
    BY PlaceFacts DEF VisibleIn
  <2>2. p = here <=> p[2] = call.device /\ p[3] = call.function
    BY <1>9, <2>1
  <2>3. p[2] = call.device /\ p[3] > call.function => more
    <3> SUFFICES ASSUME p[2] = call.device, p[3] > call.function PROVE more
      OBVIOUS
    <3>1. <<p[1], p[2], 0>> = first
      BY <1>9
    <3>2. p[3] > 0
      BY <1>2, <2>1
    <3>3. machine[first] # Pci!Nothing /\ machine[first].multi
      BY <3>1, <3>2, Zenon DEF VisibleIn, IsVisible
    <3>4. call.function < FunctionsCount - 1
      BY <1>2, <2>1, PCIConstants
    <3>5. QED
      BY <3>3, <3>4
  <2>4. p \in Ahead(machine, call) <=>
          p[2] > call.device \/ (p[2] = call.device /\ p[3] >= call.function)
    BY <1>9 DEF Ahead
  <2>5. p \in Ahead(machine, next) <=>
          p[2] > next.device \/ (p[2] = next.device /\ p[3] >= next.function)
    BY <1>6, <1>9 DEF Ahead
  <2> HIDE DEF more, next, here
  <2>6. CASE more
    BY <1>2, <1>6, <2>1, <2>2, <2>4, <2>5, <2>6
  <2>7. CASE ~more
    BY <1>2, <1>6, <2>1, <2>2, <2>3, <2>4, <2>5, <2>7
  <2>8. QED
    BY <2>6, <2>7
<1>10. Ahead(machine, next) = Ahead(machine, call) \ {here}
  BY <1>6, <1>9 DEF Ahead
<1>11. QED
  BY <1>1, <1>3, <1>6, <1>7, <1>8, <1>10

(* A call that is over has nothing ahead, one that begins the whole bus. *)
LEMMA CallEnds ==
  ASSUME NEW m \in Machines, NEW call, IsCall(m, call)
  PROVE  /\ call.device = DevicesPerBus => Ahead(m, call) = {}
         /\ call.device = 0 /\ call.function = 0 => Ahead(m, call) = On(m, {call.bus})
<1>1. \A p \in VisibleIn(m) : p[2] \in 0 .. DevicesPerBus - 1 /\ p[3] \in 0 .. FunctionsCount - 1
  BY PlaceFacts DEF VisibleIn
<1>2. call.device = DevicesPerBus => Ahead(m, call) = {}
  BY <1>1, PCIConstants DEF Ahead
<1>3. ASSUME call.device = 0, call.function = 0 PROVE Ahead(m, call) = On(m, {call.bus})
  BY <1>1, <1>3 DEF Ahead, On
<1>4. QED
  BY <1>2, <1>3

(* Stack t is call c before the calls of stack s. *)
IsPushed(t, c, s) ==
  /\ Len(t) = Len(s) + 1 /\ Len(s) \in Nat
  /\ t[1] = c
  /\ \A n \in 1 .. Len(s) : t[n + 1] = s[n]

LEMMA Pushed ==
  ASSUME NEW s \in Seq(Call), NEW c \in Call
  PROVE  <<c>> \o s \in Seq(Call) /\ IsPushed(<<c>> \o s, c, s)
BY DEF IsPushed

LEMMA Popped ==
  ASSUME NEW s \in Seq(Call), s # <<>>
  PROVE  Tail(s) \in Seq(Call) /\ Head(s) \in Call /\ IsPushed(s, Head(s), Tail(s))
<1>1. Len(s) \in Nat \ {0} /\ Tail(s) \in Seq(Call) /\ Len(Tail(s)) = Len(s) - 1
  OBVIOUS
<1>2. \A n \in 1 .. Len(Tail(s)) : s[n + 1] = Tail(s)[n]
  BY <1>1
<1>3. Head(s) = s[1] /\ s[1] \in Call
  BY <1>1
<1>4. QED
  BY <1>1, <1>2, <1>3 DEF IsPushed

LEMMA PushedElements ==
  ASSUME NEW s, NEW t, NEW c, IsPushed(t, c, s)
  PROVE  \A n \in 1 .. Len(t) : n = 1 \/ (n - 1 \in 1 .. Len(s) /\ t[n] = s[n - 1])
BY DEF IsPushed

LEMMA PushedTodo ==
  ASSUME NEW m, NEW s, NEW t, NEW c, IsPushed(t, c, s)
  PROVE  Todo(m, t) = Ahead(m, c) \cup Todo(m, s)
<1>1. ASSUME NEW p \in Todo(m, t) PROVE p \in Ahead(m, c) \cup Todo(m, s)
  <2>1. PICK n \in 1 .. Len(t) : p \in Ahead(m, t[n])
    BY <1>1 DEF Todo
  <2>2. CASE n = 1
    BY <2>1, <2>2 DEF IsPushed
  <2>3. CASE n # 1
    <3>1. n - 1 \in 1 .. Len(s) /\ t[n] = s[n - 1]
      BY <2>3, PushedElements
    <3>2. QED
      BY <2>1, <3>1, Zenon DEF Todo
  <2>4. QED
    BY <2>2, <2>3
<1>2. ASSUME NEW p \in Ahead(m, c) PROVE p \in Todo(m, t)
  <2>1. 1 \in 1 .. Len(t) /\ t[1] = c
    BY DEF IsPushed
  <2>2. QED
    BY <1>2, <2>1, Zenon DEF Todo
<1>3. ASSUME NEW p \in Todo(m, s) PROVE p \in Todo(m, t)
  <2>1. PICK n \in 1 .. Len(s) : p \in Ahead(m, s[n])
    BY <1>3 DEF Todo
  <2>2. n + 1 \in 1 .. Len(t) /\ t[n + 1] = s[n]
    BY DEF IsPushed
  <2>3. QED
    BY <2>1, <2>2, Zenon DEF Todo
<1>4. QED
  BY <1>1, <1>2, <1>3

(* Stack t is stack s when its innermost call has looked at place p. *)
IsPassed(m, s, t, p) ==
  /\ BusesApart(m, s) /\ s # <<>> /\ s[1].bus = p[1]
  /\ Len(t) = Len(s) /\ Len(s) \in Nat \ {0}
  /\ \A n \in 1 .. Len(s) : t[n].bus = s[n].bus
  /\ Todo(m, t) = Todo(m, s) \ {p}
  /\ Todo(m, s) \in SUBSET VisibleIn(m)

LEMMA Passed ==
  ASSUME NEW m \in Machines, NEW s \in Seq(Call), NEW t, NEW c, NEW d, NEW r, NEW p,
         IsPushed(s, c, r), IsPushed(t, d, r), BusesApart(m, s),
         d.bus = c.bus, p[1] = c.bus, Ahead(m, d) = Ahead(m, c) \ {p}
  PROVE  IsPassed(m, s, t, p)
<1>1. Todo(m, s) = Ahead(m, c) \cup Todo(m, r) /\ Todo(m, t) = Ahead(m, d) \cup Todo(m, r)
  BY PushedTodo
<1>2. p \notin Todo(m, r)
  <2> SUFFICES ASSUME p \in Todo(m, r) PROVE FALSE
    OBVIOUS
  <2>1. PICK n \in 1 .. Len(r) : p \in Ahead(m, r[n])
    BY DEF Todo
  <2>2. p[1] = r[n].bus
    BY <2>1 DEF Ahead
  <2>3. n + 1 \in 1 .. Len(s) /\ 1 \in 1 .. Len(s) /\ n + 1 # 1 /\ s[n + 1] = r[n] /\ s[1] = c
    BY DEF IsPushed
  <2>4. s[n + 1].bus # s[1].bus
    BY <2>3, Zenon DEF BusesApart
  <2>5. QED
    BY <2>2, <2>3, <2>4
<1>3. Todo(m, t) = Todo(m, s) \ {p}
  BY <1>1, <1>2
<1>4. Todo(m, s) \in SUBSET VisibleIn(m)
  BY DEF Todo, Ahead
<1>5. Len(t) = Len(s) /\ Len(s) \in Nat \ {0} /\ s # <<>> /\ s[1].bus = p[1] /\ s[1] = c
  BY DEF IsPushed
<1>6. \A n \in 1 .. Len(s) : t[n].bus = s[n].bus
  <2> SUFFICES ASSUME NEW n \in 1 .. Len(s) PROVE t[n].bus = s[n].bus
    OBVIOUS
  <2>1. CASE n = 1
    BY <2>1 DEF IsPushed
  <2>2. CASE n # 1
    <3>1. n - 1 \in 1 .. Len(r) /\ s[n] = r[n - 1]
      BY <2>2, PushedElements
    <3>2. t[n] = r[n - 1]
      BY <1>5, <2>2, PushedElements
    <3>3. QED
      BY <3>1, <3>2
  <2>3. QED
    BY <2>1, <2>2
<1>7. QED
  BY <1>3, <1>4, <1>5, <1>6 DEF IsPassed

(* A place that is no bridge is looked at: it is not to come any more. *)
LEMMA PlacePasses ==
  ASSUME NEW m \in Machines, NEW s, NEW t, NEW p, IsPassed(m, s, t, p), ~IsBridge(m, p)
  PROVE  BusesApart(m, t) /\ Pending(m, t) = Pending(m, s) \ {p}
<1>1. Targets(m, Todo(m, t)) = Targets(m, Todo(m, s))
  BY DEF IsPassed, Targets
<1>2. Later(m, t) = Later(m, s)
  BY <1>1 DEF Later
<1>3. p[1] \notin Later(m, s)
  BY DEF IsPassed, BusesApart
<1>4. Pending(m, t) = Pending(m, s) \ {p}
  BY <1>2, <1>3 DEF IsPassed, Pending, On
<1>5. BusesApart(m, t)
  BY <1>2 DEF IsPassed, BusesApart
<1>6. QED
  BY <1>4, <1>5

(* A bridge is looked at: its bus is now walked and does not come again. *)
LEMMA BridgePasses ==
  ASSUME NEW m \in Machines, TreeIn(m), NEW s, NEW t, NEW u, NEW p, NEW c,
         IsPassed(m, s, t, p), p \in Todo(m, s), IsBridge(m, p),
         IsPushed(u, c, t), c.bus = m[p].to, Ahead(m, c) = On(m, {c.bus})
  PROVE  BusesApart(m, u) /\ Pending(m, u) = Pending(m, s) \ {p}
<1> DEFINE bus == m[p].to
           others == Targets(m, Todo(m, s) \ {p})
<1>1. p \in VisibleIn(m) /\ Todo(m, s) \in SUBSET VisibleIn(m) /\ Todo(m, t) = Todo(m, s) \ {p}
  BY DEF IsPassed
<1>2. bus \in BusNumbers
  BY <1>1, PlaceFacts DEF VisibleIn
<1>3. others \in SUBSET BusNumbers
  BY <1>1, TargetsTyped
<1>4. bus \notin others
  BY <1>1 DEF Targets, TreeIn
<1>5. Targets(m, Todo(m, s)) = {bus} \cup others
  BY DEF Targets
<1>6. Todo(m, u) = On(m, {bus}) \cup (Todo(m, s) \ {p})
  BY <1>1, PushedTodo
<1>7. Targets(m, Todo(m, u)) = BusesFrom(m, {bus}) \cup others
  <2>1. Targets(m, Todo(m, u)) = Targets(m, On(m, {bus})) \cup others
    BY <1>6 DEF Targets
  <2>2. Targets(m, On(m, {bus})) = BusesFrom(m, {bus})
    BY DEF Targets, On, BusesFrom
  <2>3. QED
    BY <2>1, <2>2
<1>8. p[1] \notin Later(m, s)
  BY DEF IsPassed, BusesApart
<1>9. Later(m, s) = Reach(m, {bus} \cup others) /\ Later(m, u) = Reach(m, BusesFrom(m, {bus}) \cup others)
  BY <1>5, <1>7, Zenon DEF Later
<1>10. bus \notin Later(m, u)
  <2>1. p[1] \notin Reach(m, {bus} \cup others)
    BY <1>8, <1>9
  <2>2. bus \notin Reach(m, BusesFrom(m, {bus}) \cup others)
    BY <1>1, <1>3, <1>4, <2>1, NothingLeadsBack, Zenon
  <2>3. QED
    BY <1>9, <2>2, Zenon
<1>11. Later(m, s) = {bus} \cup Later(m, u)
  <2>1. \A b : b \in Reach(m, {bus} \cup others)
               <=> b = bus \/ b \in Reach(m, BusesFrom(m, {bus}) \cup others)
    BY <1>2, <1>3, ReachUnfolds, Zenon
  <2> HIDE DEF bus, others
  <2>2. \A b : b \in Later(m, s) <=> b = bus \/ b \in Later(m, u)
    BY <1>9, <2>1, Zenon
  <2>3. QED
    BY <2>2
<1>12. Pending(m, u) = Pending(m, s) \ {p}
  <2>1. On(m, Later(m, s)) = On(m, {bus}) \cup On(m, Later(m, u))
    BY <1>11 DEF On
  <2>2. p \notin On(m, Later(m, s))
    BY <1>8 DEF On
  <2>3. QED
    BY <1>6, <2>1, <2>2 DEF Pending
<1>13. BusesApart(m, u)
  <2>1. \A n \in 1 .. Len(u) : u[n].bus = IF n = 1 THEN bus ELSE s[n - 1].bus
    <3> SUFFICES ASSUME NEW n \in 1 .. Len(u) PROVE u[n].bus = IF n = 1 THEN bus ELSE s[n - 1].bus
      OBVIOUS
    <3>1. n = 1 \/ (n - 1 \in 1 .. Len(t) /\ u[n] = t[n - 1])
      BY PushedElements
    <3>2. u[1] = c
      BY DEF IsPushed
    <3>3. Len(t) = Len(s) /\ \A k \in 1 .. Len(s) : t[k].bus = s[k].bus
      BY DEF IsPassed
    <3> HIDE DEF bus
    <3>4. c.bus = bus
      BY DEF bus
    <3>5. QED
      BY <3>1, <3>2, <3>3, <3>4
  <2>2. \A n \in 1 .. Len(u) : n # 1 => n - 1 \in 1 .. Len(s)
    BY DEF IsPassed, IsPushed
  <2>3. \A n \in 1 .. Len(s) : s[n].bus \notin Later(m, s)
    BY DEF IsPassed, BusesApart
  <2>4. \A k, n \in 1 .. Len(s) : k # n => s[k].bus # s[n].bus
    BY DEF IsPassed, BusesApart
  <2>5. Len(u) \in Nat
    BY DEF IsPassed, IsPushed
  <2>6. \A n \in 1 .. Len(u) : u[n].bus \notin Later(m, u)
    BY <1>10, <1>11, <2>1, <2>2, <2>3
  <2>7. ASSUME NEW k \in 1 .. Len(u), NEW n \in 1 .. Len(u), k # n PROVE u[k].bus # u[n].bus
    <3>1. CASE k = 1
      BY <1>11, <2>1, <2>2, <2>3, <2>7, <3>1
    <3>2. CASE n = 1
      BY <1>11, <2>1, <2>2, <2>3, <2>7, <3>2
    <3>3. CASE k # 1 /\ n # 1
      <4>1. k - 1 # n - 1
        BY <2>5, <2>7
      <4>2. QED
        BY <2>1, <2>2, <2>4, <3>3, <4>1
    <3>4. QED
      BY <3>1, <3>2, <3>3
  <2>8. QED
    BY <2>6, <2>7 DEF BusesApart
<1>14. QED
  BY <1>12, <1>13

(* What a place that has been looked at does to the report. *)
LEMMA ReportGrows ==
  ASSUME NEW m, NEW s, NEW t, NEW p, NEW report, report \in Seq(VisibleIn(m)),
         ReportIsApart(m, s, report), Pending(m, t) = Pending(m, s) \ {p}
  PROVE  /\ IsBridge(m, p) \/ p \notin Pending(m, s) => ReportIsApart(m, t, report)
         /\ ~IsBridge(m, p) /\ p \in Pending(m, s) => ReportIsApart(m, t, Append(report, p))
<1>1. ASSUME IsBridge(m, p) \/ p \notin Pending(m, s) PROVE ReportIsApart(m, t, report)
  <2>1. Reported(m, Pending(m, t)) = Reported(m, Pending(m, s))
    BY <1>1 DEF Reported
  <2>2. QED
    BY <2>1 DEF ReportIsApart
<1>2. ASSUME ~IsBridge(m, p), p \in Pending(m, s) PROVE ReportIsApart(m, t, Append(report, p))
  <2> DEFINE longer == Append(report, p)
  <2>1. Len(longer) = Len(report) + 1 /\ Len(report) \in Nat
    OBVIOUS
  <2>2. \A n \in 1 .. Len(longer) : longer[n] = IF n = Len(longer) THEN p ELSE report[n]
    OBVIOUS
  <2> HIDE DEF longer
  <2>3. {longer[n] : n \in 1 .. Len(longer)} = {report[n] : n \in 1 .. Len(report)} \cup {p}
    BY <2>1, <2>2
  <2>4. Reported(m, Pending(m, s)) = Reported(m, Pending(m, t)) \cup {p}
    BY <1>2 DEF Reported
  <2>5. \A n \in 1 .. Len(longer) : n = Len(longer) \/ n \in 1 .. Len(report)
    BY <2>1
  <2>6. \A n \in 1 .. Len(longer) : longer[n] \notin Pending(m, t)
    BY <2>2, <2>5 DEF ReportIsApart
  <2>7. \A n \in 1 .. Len(report) : report[n] # p
    BY <1>2 DEF ReportIsApart
  <2>8. \A k, n \in 1 .. Len(longer) : k # n => longer[k] # longer[n]
    BY <2>2, <2>5, <2>7 DEF ReportIsApart
  <2>9. {longer[n] : n \in 1 .. Len(longer)} \cup Reported(m, Pending(m, t)) = Reported(m, On(m, Reach(m, {0})))
    BY <2>3, <2>4 DEF ReportIsApart
  <2>10. QED
    BY <2>6, <2>8, <2>9 DEF ReportIsApart, longer
<1>3. QED
  BY <1>1, <1>2

(* The walk begins with all places to come that bus 0 leads to. *)
LEMMA WalkBegins ==
  ASSUME NEW m \in Machines, TreeIn(m), NEW c, c.bus = 0, Ahead(m, c) = On(m, {0})
  PROVE  BusesApart(m, <<c>>) /\ ReportIsApart(m, <<c>>, <<>>)
<1>1. Len(<<c>>) = 1 /\ <<c>>[1] = c /\ Len(<<>>) = 0
  OBVIOUS
<1>2. Todo(m, <<c>>) = On(m, {0})
  BY <1>1 DEF Todo
<1>3. Targets(m, On(m, {0})) = BusesFrom(m, {0})
  BY DEF Targets, On, BusesFrom
<1>4. Later(m, <<c>>) = Reach(m, BusesFrom(m, {0}))
  BY <1>2, <1>3, Zenon DEF Later
<1>5. 0 \notin Later(m, <<c>>)
  BY <1>4, NothingLeadsToZero
<1>6. Reach(m, {0}) = {0} \cup Later(m, <<c>>)
  <2>1. 0 \in BusNumbers /\ {} \in SUBSET BusNumbers
    BY PCIConstants DEF BusNumbers
  <2>2. \A b : b \in Reach(m, {0} \cup {}) <=> b = 0 \/ b \in Reach(m, BusesFrom(m, {0}) \cup {})
    BY <2>1, ReachUnfolds, Zenon
  <2>3. {0} \cup {} = {0} /\ BusesFrom(m, {0}) \cup {} = BusesFrom(m, {0})
    OBVIOUS
  <2>4. \A b : b \in Reach(m, {0}) <=> b = 0 \/ b \in Later(m, <<c>>)
    BY <1>4, <2>2, <2>3
  <2>5. QED
    BY <2>4
<1>7. Pending(m, <<c>>) = On(m, Reach(m, {0}))
  BY <1>2, <1>6 DEF Pending, On
<1>8. BusesApart(m, <<c>>)
  BY <1>1, <1>5 DEF BusesApart
<1>9. ReportIsApart(m, <<c>>, <<>>)
  BY <1>1, <1>7 DEF ReportIsApart
<1>10. QED
  BY <1>8, <1>9

(* A call that is over leaves what is to come as it was. *)
LEMMA CallReturns ==
  ASSUME NEW m \in Machines, NEW s, NEW c, NEW r, NEW report,
         IsPushed(s, c, r), Ahead(m, c) = {}, BusesApart(m, s), ReportIsApart(m, s, report)
  PROVE  BusesApart(m, r) /\ ReportIsApart(m, r, report)
<1>1. Todo(m, r) = Todo(m, s)
  BY PushedTodo
<1>2. Later(m, r) = Later(m, s) /\ Pending(m, r) = Pending(m, s)
  BY <1>1 DEF Later, Pending
<1>3. ReportIsApart(m, r, report)
  BY <1>2 DEF ReportIsApart
<1>4. \A n \in 1 .. Len(r) : n + 1 \in 1 .. Len(s) /\ s[n + 1] = r[n]
  BY DEF IsPushed
<1>5. \A n \in 1 .. Len(r) : r[n].bus \notin Later(m, r)
  BY <1>2, <1>4 DEF BusesApart
<1>6. ASSUME NEW k \in 1 .. Len(r), NEW n \in 1 .. Len(r), k # n PROVE r[k].bus # r[n].bus
  <2>1. k + 1 # n + 1
    BY <1>6
  <2>2. s[k + 1].bus # s[n + 1].bus
    BY <1>4, <2>1 DEF BusesApart
  <2>3. QED
    BY <1>4, <2>2
<1>7. QED
  BY <1>3, <1>5, <1>6 DEF BusesApart

(* At the end all that bus 0 leads to is reported. *)
LEMMA WalkEnds ==
  ASSUME NEW m \in Machines, NEW report, ReportIsApart(m, <<>>, report)
  PROVE  /\ {report[n] : n \in 1 .. Len(report)} = Reported(m, On(m, Reach(m, {0})))
         /\ \A k, n \in 1 .. Len(report) : k # n => report[k] # report[n]
<1>1. Todo(m, <<>>) = {}
  BY DEF Todo
<1>2. Targets(m, {}) = {}
  BY DEF Targets
<1>3. Later(m, <<>>) = {}
  BY <1>1, <1>2, NothingReachesNothing DEF Later
<1>4. Reported(m, Pending(m, <<>>)) = {}
  BY <1>1, <1>3 DEF Pending, On, Reported
<1>5. QED
  BY <1>4 DEF ReportIsApart

(* The buses below bus 0, level by level, are those it leads to: in a tree *)
(* no path is longer than there are buses.                                 *)
LEMMA CountingUp ==
  ASSUME NEW n \in Nat, NEW S, 0 \in S, \A k \in 1 .. n : k - 1 \in S => k \in S
  PROVE  0 .. n \subseteq S
<1> DEFINE others == (0 .. n) \ S
<1> SUFFICES ASSUME others # {} PROVE FALSE
  OBVIOUS
<1>1. others \in SUBSET Nat
  OBVIOUS
<1>2. PICK least \in others : \A k \in others : least <= k
  <2> HIDE DEF others
  <2> QED
    BY <1>1, LeastNumber
<1>3. least \in 1 .. n /\ least - 1 \notin others
  BY <1>2
<1> QED
  BY <1>3

LevelsTo(m, h, n) ==
  /\ h \in [0 .. n -> SUBSET BusNumbers]
  /\ h[0] = BusesFrom(m, {0})
  /\ \A k \in 1 .. n : h[k] = h[k - 1] \cup BusesFrom(m, h[k - 1])

LEMMA LevelsExist ==
  ASSUME NEW m \in Machines, NEW n \in Nat
  PROVE  \E h : LevelsTo(m, h, n)
<1> DEFINE S == {k \in 0 .. n : \E h : LevelsTo(m, h, k)}
<1>1. 0 \in S
  <2> DEFINE h == [k \in 0 .. 0 |-> BusesFrom(m, {0})]
  <2>1. BusesFrom(m, {0}) \in SUBSET BusNumbers
    BY BusesFromTyped
  <2>2. LevelsTo(m, h, 0)
    BY <2>1 DEF LevelsTo
  <2> HIDE DEF h
  <2>3. QED
    BY <2>2
<1>2. ASSUME NEW k \in 1 .. n, k - 1 \in S PROVE k \in S
  <2>1. PICK g : LevelsTo(m, g, k - 1)
    BY <1>2
  <2> DEFINE h == [l \in 0 .. k |-> IF l = k THEN g[k - 1] \cup BusesFrom(m, g[k - 1]) ELSE g[l]]
  <2>2. g \in [0 .. k - 1 -> SUBSET BusNumbers] /\ k - 1 \in 0 .. k - 1
    BY <2>1 DEF LevelsTo
  <2>3. g[k - 1] \cup BusesFrom(m, g[k - 1]) \in SUBSET BusNumbers
    BY <2>2, BusesFromTyped
  <2>4. \A l \in 0 .. k : l # k => l \in 0 .. k - 1
    OBVIOUS
  <2>5. h \in [0 .. k -> SUBSET BusNumbers]
    BY <2>2, <2>3, <2>4
  <2>6. h[0] = g[0] /\ h[k] = g[k - 1] \cup BusesFrom(m, g[k - 1])
    OBVIOUS
  <2>7. \A l \in 0 .. k : l # k => h[l] = g[l]
    OBVIOUS
  <2> HIDE DEF h
  <2>8. ASSUME NEW l \in 1 .. k PROVE h[l] = h[l - 1] \cup BusesFrom(m, h[l - 1])
    <3>1. l - 1 \in 0 .. k /\ l - 1 # k /\ l \in 0 .. k
      OBVIOUS
    <3>2. h[l - 1] = g[l - 1]
      BY <2>7, <3>1
    <3>3. CASE l = k
      BY <2>6, <3>2, <3>3
    <3>4. CASE l # k
      <4>1. l \in 1 .. k - 1
        BY <3>4
      <4>2. g[l] = g[l - 1] \cup BusesFrom(m, g[l - 1])
        BY <2>1, <4>1 DEF LevelsTo
      <4>3. QED
        BY <2>7, <3>1, <3>2, <3>4, <4>2
    <3>5. QED
      BY <3>3, <3>4
  <2>9. LevelsTo(m, h, k)
    BY <2>1, <2>5, <2>6, <2>8 DEF LevelsTo
  <2>10. QED
    BY <2>9
<1> HIDE DEF S
<1>3. n \in S
  BY <1>1, <1>2, CountingUp
<1>4. QED
  BY <1>3 DEF S

LEMMA BelowIsLevels ==
  ASSUME machine \in Machines
  PROVE  LevelsTo(machine, Pci!Below, BusesCount)
<1> DEFINE Levels(h) == [n \in 0 .. BusesCount |->
             IF n = 0 THEN Pci!BusesFrom({0}) ELSE h[n - 1] \cup Pci!BusesFrom(h[n - 1])]
<1>1. Pci!Below = CHOOSE h : h = Levels(h)
  BY Zenon DEF Pci!Below
<1>2. PICK h : LevelsTo(machine, h, BusesCount)
  BY LevelsExist, PCIConstants
<1>3. \A buses : Pci!BusesFrom(buses) = BusesFrom(machine, buses)
  BY PCITerms
<1>4. \A n \in 0 .. BusesCount : h[n] = Levels(h)[n]
  BY <1>2, <1>3, PCIConstants DEF LevelsTo
<1>5. h = Levels(h)
  <2>1. h = [n \in 0 .. BusesCount |-> h[n]] /\ DOMAIN h = 0 .. BusesCount
    BY <1>2 DEF LevelsTo
  <2>2. QED
    BY <1>4, <2>1
<1> DEFINE below == Pci!Below
<1>6. below = Levels(below)
  BY <1>1, <1>5, Zenon
<1> HIDE DEF below
<1>7. below[0] = BusesFrom(machine, {0})
  BY <1>3, <1>6, PCIConstants
<1>8. ASSUME NEW k \in 1 .. BusesCount PROVE below[k] = below[k - 1] \cup BusesFrom(machine, below[k - 1])
  <2>1. k \in 0 .. BusesCount /\ k # 0
    BY PCIConstants
  <2>2. below[k] = below[k - 1] \cup Pci!BusesFrom(below[k - 1])
    BY <1>6, <2>1
  <2>3. QED
    BY <1>3, <2>2
<1>9. DOMAIN below = 0 .. BusesCount /\ below = [n \in 0 .. BusesCount |-> below[n]]
  BY <1>6
<1>10. \A n \in 0 .. BusesCount : below[n] \in SUBSET BusNumbers
  <2> DEFINE S == {n \in 0 .. BusesCount : below[n] \in SUBSET BusNumbers}
  <2>1. 0 \in S
    BY <1>7, BusesFromTyped, PCIConstants
  <2>2. ASSUME NEW k \in 1 .. BusesCount, k - 1 \in S PROVE k \in S
    <3>1. BusesFrom(machine, below[k - 1]) \in SUBSET BusNumbers /\ below[k - 1] \in SUBSET BusNumbers
      BY <2>2, BusesFromTyped
    <3>2. QED
      BY <1>8, <3>1, PCIConstants
  <2> HIDE DEF S
  <2>3. 0 .. BusesCount \subseteq S
    BY <2>1, <2>2, CountingUp, PCIConstants
  <2>4. QED
    BY <2>3 DEF S
<1>11. below \in [0 .. BusesCount -> SUBSET BusNumbers]
  BY <1>9, <1>10
<1>12. QED
  BY <1>7, <1>8, <1>11 DEF LevelsTo, below

LEMMA LevelsAreReached ==
  ASSUME NEW m \in Machines, TreeIn(m), NEW h, LevelsTo(m, h, BusesCount)
  PROVE  {0} \cup h[BusesCount] = Reach(m, {0})
<1> DEFINE all == Reach(m, {0})
           early == {n \in 0 .. BusesCount : h[n] \subseteq all}
           (* A bus of level n is one of a level before its own number.   *)
           ranked == {n \in 0 .. BusesCount : \A bus \in h[n] : bus >= 1 /\ bus \in h[bus - 1]}
           growing == {n \in 0 .. BusesCount : \A k \in 0 .. n : h[k] \subseteq h[n]}
<1>1. BusesCount \in Nat \ {0} /\ 0 \in BusNumbers /\ {0} \in SUBSET BusNumbers
  BY PCIConstants DEF BusNumbers
<1>2. h[0] = BusesFrom(m, {0}) /\ \A n \in 0 .. BusesCount : h[n] \in SUBSET BusNumbers
  BY DEF LevelsTo
<1>3. \A k \in 1 .. BusesCount : h[k] = h[k - 1] \cup BusesFrom(m, h[k - 1])
  BY DEF LevelsTo
<1>4. /\ all \in SUBSET BusNumbers /\ 0 \in all /\ Closed(m, all)
      /\ \A Y \in SUBSET BusNumbers : {0} \subseteq Y /\ Closed(m, Y) => all \subseteq Y
  BY <1>1, ReachIsLeast
<1> HIDE DEF all
<1>5. h[BusesCount] \subseteq all
  <2>1. 0 \in early
    BY <1>1, <1>2, <1>4, BusesFromIs DEF Closed
  <2>2. ASSUME NEW k \in 1 .. BusesCount, k - 1 \in early PROVE k \in early
    <3>1. BusesFrom(m, h[k - 1]) \subseteq BusesFrom(m, all)
      BY <2>2, BusesFromIs
    <3>2. QED
      BY <1>3, <1>4, <2>2, <3>1 DEF Closed
  <2> HIDE DEF early
  <2>3. BusesCount \in early
    BY <1>1, <2>1, <2>2, CountingUp
  <2>4. QED
    BY <2>3 DEF early
<1>6. \A n \in 0 .. BusesCount : \A k \in 0 .. n : h[k] \subseteq h[n]
  <2>1. 0 \in growing
    BY <1>1
  <2>2. ASSUME NEW n \in 1 .. BusesCount, n - 1 \in growing PROVE n \in growing
    <3>1. h[n - 1] \subseteq h[n]
      BY <1>3
    <3>2. \A k \in 0 .. n : k = n \/ k \in 0 .. n - 1
      OBVIOUS
    <3>3. QED
      BY <2>2, <3>1, <3>2
  <2> HIDE DEF growing
  <2>3. 0 .. BusesCount \subseteq growing
    BY <1>1, <2>1, <2>2, CountingUp
  <2>4. QED
    BY <2>3 DEF growing
<1>7. \A q \in VisibleIn(m) : IsBridge(m, q) =>
        m[q].to > q[1] /\ m[q].to \in BusNumbers /\ q[1] \in BusNumbers
  <2> SUFFICES ASSUME NEW q \in VisibleIn(m), IsBridge(m, q)
               PROVE  m[q].to > q[1] /\ m[q].to \in BusNumbers /\ q[1] \in BusNumbers
    OBVIOUS
  <2>1. m[q].to > q[1]
    BY DEF TreeIn
  <2>2. QED
    BY <2>1, PlaceFacts DEF VisibleIn
<1>8. ASSUME NEW q \in VisibleIn(m), IsBridge(m, q), q[1] = 0 PROVE m[q].to >= 1 /\ m[q].to \in h[m[q].to - 1]
  <2>1. m[q].to \in h[0] /\ m[q].to \in 1 .. BusesCount - 1
    BY <1>2, <1>7, <1>8, BusesFromIs DEF BusNumbers
  <2>2. 0 \in 0 .. m[q].to - 1 /\ m[q].to - 1 \in 0 .. BusesCount
    BY <1>1, <2>1
  <2>3. h[0] \subseteq h[m[q].to - 1]
    BY <1>6, <2>2
  <2>4. QED
    BY <2>1, <2>3
<1>9. ASSUME NEW q \in VisibleIn(m), IsBridge(m, q), q[1] >= 1, q[1] \in h[q[1] - 1]
      PROVE  m[q].to >= 1 /\ m[q].to \in h[m[q].to - 1]
  <2>1. m[q].to \in 1 .. BusesCount - 1 /\ q[1] \in 1 .. BusesCount - 1 /\ m[q].to > q[1]
    BY <1>7, <1>9 DEF BusNumbers
  <2>2. q[1] \in 0 .. m[q].to - 1 /\ m[q].to - 1 \in 0 .. BusesCount /\ q[1] \in 1 .. BusesCount
    BY <1>1, <2>1
  <2>3. m[q].to \in BusesFrom(m, h[q[1] - 1])
    BY <1>9, BusesFromIs
  <2>4. m[q].to \in h[q[1]]
    BY <1>3, <2>2, <2>3
  <2>5. h[q[1]] \subseteq h[m[q].to - 1]
    BY <1>6, <2>2
  <2>6. QED
    BY <2>1, <2>4, <2>5
<1>10. \A n \in 0 .. BusesCount : \A bus \in h[n] : bus >= 1 /\ bus \in h[bus - 1]
  <2>1. 0 \in ranked
    <3> SUFFICES ASSUME NEW bus \in h[0] PROVE bus >= 1 /\ bus \in h[bus - 1]
      BY <1>1
    <3>1. PICK q \in VisibleIn(m) : q[1] \in {0} /\ IsBridge(m, q) /\ m[q].to = bus
      BY <1>2, BusesFromIs
    <3>2. QED
      BY <1>8, <3>1
  <2>2. ASSUME NEW n \in 1 .. BusesCount, n - 1 \in ranked PROVE n \in ranked
    <3> SUFFICES ASSUME NEW bus \in h[n] PROVE bus >= 1 /\ bus \in h[bus - 1]
      BY <1>1
    <3>1. CASE bus \in h[n - 1]
      BY <2>2, <3>1
    <3>2. CASE bus \in BusesFrom(m, h[n - 1])
      <4>1. PICK q \in VisibleIn(m) : q[1] \in h[n - 1] /\ IsBridge(m, q) /\ m[q].to = bus
        BY <3>2, BusesFromIs
      <4>2. q[1] >= 1 /\ q[1] \in h[q[1] - 1]
        BY <2>2, <4>1
      <4>3. QED
        BY <1>9, <4>1, <4>2
    <3>3. QED
      BY <1>3, <3>1, <3>2
  <2> HIDE DEF ranked
  <2>3. 0 .. BusesCount \subseteq ranked
    BY <1>1, <2>1, <2>2, CountingUp
  <2>4. QED
    BY <2>3 DEF ranked
<1>11. all \subseteq {0} \cup h[BusesCount]
  <2> DEFINE Y == {0} \cup h[BusesCount]
  <2>1. Y \in SUBSET BusNumbers
    BY <1>1, <1>2
  <2>2. ASSUME NEW q \in VisibleIn(m), q[1] \in Y, IsBridge(m, q) PROVE m[q].to \in Y
    <3>1. m[q].to >= 1 /\ m[q].to \in h[m[q].to - 1]
      <4>1. CASE q[1] = 0
        BY <1>8, <2>2, <4>1
      <4>2. CASE q[1] \in h[BusesCount]
        <5>1. q[1] >= 1 /\ q[1] \in h[q[1] - 1]
          BY <1>1, <1>10, <4>2
        <5>2. QED
          BY <1>9, <2>2, <5>1
      <4>3. QED
        BY <2>2, <4>1, <4>2
    <3>2. m[q].to - 1 \in 0 .. BusesCount /\ BusesCount \in 0 .. BusesCount
      BY <1>1, <1>7, <2>2, <3>1 DEF BusNumbers
    <3>3. h[m[q].to - 1] \subseteq h[BusesCount]
      BY <1>6, <3>2
    <3>4. QED
      BY <3>1, <3>3
  <2>3. Closed(m, Y)
    BY <2>2, BusesFromIs DEF Closed
  <2>4. {0} \subseteq Y
    OBVIOUS
  <2> HIDE DEF Y
  <2>5. all \subseteq Y
    BY <1>4, <2>1, <2>3, <2>4
  <2>6. QED
    BY <2>5 DEF Y
<1>12. QED
  BY <1>4, <1>5, <1>11 DEF all

(* CheckBus looks at the next function of the innermost call. *)
LEMMA FunctionStep == PCIInv /\ Pci!CheckFunction => PCIInv'
<1> SUFFICES ASSUME PCIInv, Pci!CheckFunction PROVE PCIInv'
  OBVIOUS
<1> DEFINE c == Head(calls)
           rest == Tail(calls)
           here == Pci!Place(c)
           kind == machine[here].kind
           d == Pci!Behind(c)
           behind == <<d>> \o rest
           e == Pci!CheckBus(machine[here].to)
           deeper == <<e>> \o behind
<1>1. PCITypes /\ machine \in Machines
  BY DEF PCIInv, PCITypes
<1>2. /\ calls # <<>> /\ c.device < DevicesPerBus
      /\ calls' = IF kind = "bridge" THEN deeper ELSE behind
      /\ found' = IF kind \in {"bridge", "nothing"} THEN found ELSE Append(found, here)
      /\ machine' = machine /\ busIndex' = busIndex
  BY Zenon DEF Pci!CheckFunction, Pci!SecondaryBus
<1>3. calls \in Seq(Call) /\ \A n \in 1 .. Len(calls) : IsCall(machine, calls[n])
  BY <1>1 DEF PCITypes
<1>4. rest \in Seq(Call) /\ c \in Call /\ IsPushed(calls, c, rest)
  BY <1>2, <1>3, Popped
<1>5. IsCall(machine, c)
  BY <1>3, <1>4 DEF IsPushed
<1> HIDE DEF c, rest, here, kind, d, behind, e, deeper
<1>6. /\ IsCall(machine, d) /\ d.bus = c.bus /\ here \in Pci!Places /\ here[1] = c.bus
      /\ kind # "nothing" => here \in Ahead(machine, c)
      /\ Ahead(machine, d) = Ahead(machine, c) \ {here}
  BY <1>1, <1>2, <1>5, BehindCall, Zenon DEF d, here, kind
<1>7. behind \in Seq(Call) /\ IsPushed(behind, d, rest) /\ d \in Call
  BY <1>4, <1>6, Pushed DEF behind, IsCall
<1>8. machine[here].to \in BusNumbers
  BY <1>1, <1>6, PlaceFacts
<1>9. IsCall(machine, e) /\ e.bus = machine[here].to /\ e.device = 0 /\ e.function = 0
  BY <1>8, PCIConstants DEF e, Pci!CheckBus, IsCall, Call
<1>10. deeper \in Seq(Call) /\ IsPushed(deeper, e, behind)
  BY <1>7, <1>9, Pushed DEF deeper, IsCall
<1>11. Ahead(machine, c) \subseteq VisibleIn(machine)
  BY DEF Ahead
<1>12. PCITypes'
  <2>1. calls' \in Seq(Call)
    BY <1>2, <1>7, <1>10
  <2>2. \A n \in 1 .. Len(rest) : IsCall(machine, rest[n])
    BY <1>3, <1>4 DEF IsPushed
  <2>3. \A n \in 1 .. Len(behind) : IsCall(machine, behind[n])
    <3>1. \A n \in 1 .. Len(behind) : n = 1 \/ (n - 1 \in 1 .. Len(rest) /\ behind[n] = rest[n - 1])
      BY <1>7, PushedElements
    <3>2. behind[1] = d
      BY <1>7 DEF IsPushed
    <3>3. QED
      BY <1>6, <2>2, <3>1, <3>2
  <2>4. \A n \in 1 .. Len(deeper) : IsCall(machine, deeper[n])
    <3>1. \A n \in 1 .. Len(deeper) : n = 1 \/ (n - 1 \in 1 .. Len(behind) /\ deeper[n] = behind[n - 1])
      BY <1>10, PushedElements
    <3>2. deeper[1] = e
      BY <1>10 DEF IsPushed
    <3>3. QED
      BY <1>9, <2>3, <3>1, <3>2
  <2>5. \A n \in 1 .. Len(calls') : IsCall(machine, calls'[n])
    BY <1>2, <2>3, <2>4
  <2>6. found' \in Seq(VisibleIn(machine))
    <3>1. found \in Seq(VisibleIn(machine))
      BY <1>1 DEF PCITypes
    <3>2. CASE kind \in {"bridge", "nothing"}
      BY <1>2, <3>1, <3>2
    <3>3. CASE kind \notin {"bridge", "nothing"}
      <4>1. here \in VisibleIn(machine) /\ found' = Append(found, here)
        BY <1>2, <1>6, <1>11, <3>3
      <4>2. QED
        BY <3>1, <4>1
    <3>4. QED
      BY <3>2, <3>3
  <2>7. QED
    BY <1>1, <1>2, <2>1, <2>5, <2>6 DEF PCITypes
<1>13. IsBridge(machine, here) <=> kind = "bridge"
  BY DEF IsBridge, kind
<1>14. CallsClimb'
  <2> SUFFICES ASSUME TreeIn(machine)
               PROVE  \A n \in 1 .. Len(calls') : calls'[n].bus >= Len(calls') - n
    BY <1>2 DEF CallsClimb
  <2>1. \A n \in 1 .. Len(calls) : calls[n].bus >= Len(calls) - n
    BY DEF PCIInv, CallsClimb
  <2>2. \A n \in 1 .. Len(rest) : rest[n].bus >= Len(rest) - n
    <3> SUFFICES ASSUME NEW n \in 1 .. Len(rest) PROVE rest[n].bus >= Len(rest) - n
      OBVIOUS
    <3>1. n + 1 \in 1 .. Len(calls) /\ calls[n + 1] = rest[n] /\ Len(calls) - (n + 1) = Len(rest) - n
      BY <1>4 DEF IsPushed
    <3>2. calls[n + 1].bus >= Len(calls) - (n + 1)
      BY <2>1, <3>1
    <3>3. QED
      BY <3>1, <3>2
  <2>3. c.bus >= Len(rest)
    <3>1. 1 \in 1 .. Len(calls) /\ calls[1] = c /\ Len(calls) - 1 = Len(rest)
      BY <1>4 DEF IsPushed
    <3>2. QED
      BY <2>1, <3>1
  <2>4. \A n \in 1 .. Len(behind) : behind[n].bus >= Len(behind) - n
    <3> SUFFICES ASSUME NEW n \in 1 .. Len(behind) PROVE behind[n].bus >= Len(behind) - n
      OBVIOUS
    <3>1. Len(behind) = Len(rest) + 1 /\ Len(rest) \in Nat /\ behind[1] = d
      BY <1>7 DEF IsPushed
    <3>2. CASE n = 1
      BY <1>6, <2>3, <3>1, <3>2
    <3>3. CASE n # 1
      <4>1. n - 1 \in 1 .. Len(rest) /\ behind[n] = rest[n - 1]
        BY <1>7, <3>3, PushedElements
      <4>2. Len(rest) - (n - 1) = Len(behind) - n
        BY <3>1
      <4>3. QED
        BY <2>2, <4>1, <4>2
    <3>4. QED
      BY <3>2, <3>3
  <2>5. ASSUME kind = "bridge" PROVE \A n \in 1 .. Len(deeper) : deeper[n].bus >= Len(deeper) - n
    <3> SUFFICES ASSUME NEW n \in 1 .. Len(deeper) PROVE deeper[n].bus >= Len(deeper) - n
      OBVIOUS
    <3>1. Len(deeper) = Len(behind) + 1 /\ Len(behind) = Len(rest) + 1 /\ Len(rest) \in Nat /\ deeper[1] = e
      BY <1>7, <1>10 DEF IsPushed
    <3>2. here \in VisibleIn(machine)
      BY <1>6, <1>11, <2>5
    <3>3. machine[here].to > c.bus
      BY <1>6, <1>13, <2>5, <3>2 DEF TreeIn
    <3>4. CASE n = 1
      <4>1. c.bus \in Nat /\ machine[here].to \in Nat
        BY <1>4, <1>8 DEF Call, BusNumbers
      <4>2. QED
        BY <1>9, <2>3, <3>1, <3>3, <3>4, <4>1
    <3>5. CASE n # 1
      <4>1. n - 1 \in 1 .. Len(behind) /\ deeper[n] = behind[n - 1]
        BY <1>10, <3>5, PushedElements
      <4>2. Len(behind) - (n - 1) = Len(deeper) - n
        BY <3>1
      <4>3. QED
        BY <2>4, <4>1, <4>2
    <3>6. QED
      BY <3>4, <3>5
  <2>6. QED
    BY <1>2, <2>4, <2>5
<1>15. HostBegins'
  <2> DEFINE host == machine[<<0, 0, 0>>]
  <2> SUFFICES ASSUME host # Pci!Nothing
               PROVE  /\ ~host.multi /\ busIndex = FunctionsCount
                      /\ TreeIn(machine) =>
                           BusesApart(machine, calls') /\ ReportIsApart(machine, calls', found')
    BY <1>2, Zenon DEF HostBegins
  <2>1. /\ ~host.multi /\ busIndex = FunctionsCount
        /\ TreeIn(machine) => BusesApart(machine, calls) /\ ReportIsApart(machine, calls, found)
    BY <1>2, Zenon DEF PCIInv, HostBegins
  <2> SUFFICES ASSUME TreeIn(machine)
               PROVE  BusesApart(machine, calls') /\ ReportIsApart(machine, calls', found')
    BY <2>1, Zenon
  <2>2. BusesApart(machine, calls) /\ ReportIsApart(machine, calls, found)
    BY <2>1
  <2>3. found \in Seq(VisibleIn(machine))
    BY <1>1 DEF PCITypes
  <2>4. IsPassed(machine, calls, behind, here)
    BY <1>1, <1>3, <1>4, <1>6, <1>7, <2>2, Passed
  <2>5. kind # "nothing" => here \in Todo(machine, calls)
    BY <1>4, <1>6, PushedTodo
  <2>6. CASE kind = "bridge"
    <3>1. Ahead(machine, e) = On(machine, {e.bus})
      BY <1>1, <1>9, CallEnds
    <3>2. here \in Todo(machine, calls) /\ IsBridge(machine, here)
      BY <1>13, <2>5, <2>6
    <3>3. BusesApart(machine, deeper) /\ Pending(machine, deeper) = Pending(machine, calls) \ {here}
      BY <1>1, <1>9, <1>10, <2>4, <3>1, <3>2, BridgePasses
    <3>4. ReportIsApart(machine, deeper, found)
      BY <2>2, <2>3, <3>2, <3>3, ReportGrows
    <3>5. QED
      BY <1>2, <2>6, <3>3, <3>4
  <2>7. CASE kind # "bridge"
    <3>1. BusesApart(machine, behind) /\ Pending(machine, behind) = Pending(machine, calls) \ {here}
      BY <1>1, <1>13, <2>4, <2>7, PlacePasses
    <3>2. CASE kind = "nothing"
      <4>1. here \notin VisibleIn(machine)
        BY <1>1, <1>6, <3>2, PlaceFacts DEF kind, VisibleIn, IsVisible
      <4>2. here \notin Pending(machine, calls)
        BY <2>4, <4>1 DEF Pending, On, IsPassed
      <4>3. ReportIsApart(machine, behind, found)
        BY <2>2, <2>3, <3>1, <4>2, ReportGrows
      <4>4. QED
        BY <1>2, <2>7, <3>1, <3>2, <4>3
    <3>3. CASE kind # "nothing"
      <4>1. here \in Pending(machine, calls)
        BY <2>5, <3>3 DEF Pending
      <4>2. ReportIsApart(machine, behind, Append(found, here))
        BY <1>13, <2>2, <2>3, <2>7, <3>1, <4>1, ReportGrows
      <4>3. QED
        BY <1>2, <2>7, <3>1, <3>3, <4>2
    <3>4. QED
      BY <3>2, <3>3
  <2>8. QED
    BY <2>6, <2>7
<1>16. QED
  BY <1>12, <1>14, <1>15 DEF PCIInv

LEMMA ReturnStep == PCIInv /\ Pci!Return => PCIInv'
<1> SUFFICES ASSUME PCIInv, Pci!Return PROVE PCIInv'
  OBVIOUS
<1> DEFINE c == Head(calls)
           rest == Tail(calls)
<1>1. PCITypes /\ machine \in Machines
  BY DEF PCIInv, PCITypes
<1>2. /\ calls # <<>> /\ c.device = DevicesPerBus /\ calls' = rest
      /\ machine' = machine /\ busIndex' = busIndex /\ found' = found
  BY Zenon DEF Pci!Return
<1>3. calls \in Seq(Call) /\ \A n \in 1 .. Len(calls) : IsCall(machine, calls[n])
  BY <1>1 DEF PCITypes
<1>4. rest \in Seq(Call) /\ IsPushed(calls, c, rest)
  BY <1>2, <1>3, Popped
<1> HIDE DEF c, rest
<1>5. IsCall(machine, c)
  BY <1>3, <1>4 DEF IsPushed
<1>6. Ahead(machine, c) = {}
  BY <1>1, <1>2, <1>5, CallEnds
<1>7. PCITypes'
  <2>1. \A n \in 1 .. Len(rest) : IsCall(machine, rest[n])
    BY <1>3, <1>4 DEF IsPushed
  <2>2. QED
    BY <1>1, <1>2, <1>4, <2>1 DEF PCITypes
<1>8. CallsClimb'
  <2> SUFFICES ASSUME TreeIn(machine), NEW n \in 1 .. Len(rest)
               PROVE  rest[n].bus >= Len(rest) - n
    BY <1>2 DEF CallsClimb
  <2>1. n + 1 \in 1 .. Len(calls) /\ calls[n + 1] = rest[n] /\ Len(calls) - (n + 1) = Len(rest) - n
    BY <1>4 DEF IsPushed
  <2>2. calls[n + 1].bus >= Len(calls) - (n + 1)
    BY <2>1 DEF PCIInv, CallsClimb
  <2>3. QED
    BY <2>1, <2>2
<1>9. HostBegins'
  <2> DEFINE host == machine[<<0, 0, 0>>]
  <2> SUFFICES ASSUME host # Pci!Nothing
               PROVE  /\ ~host.multi /\ busIndex = FunctionsCount
                      /\ TreeIn(machine) => BusesApart(machine, rest) /\ ReportIsApart(machine, rest, found)
    BY <1>2, Zenon DEF HostBegins
  <2>1. /\ ~host.multi /\ busIndex = FunctionsCount
        /\ TreeIn(machine) => BusesApart(machine, calls) /\ ReportIsApart(machine, calls, found)
    BY <1>2, Zenon DEF PCIInv, HostBegins
  <2>2. QED
    BY <1>1, <1>4, <1>6, <2>1, CallReturns
<1>10. QED
  BY <1>7, <1>8, <1>9 DEF PCIInv

LEMMA BusStep == PCIInv /\ Pci!CheckAllBuses => PCIInv'
<1> SUFFICES ASSUME PCIInv, Pci!CheckAllBuses PROVE PCIInv'
  OBVIOUS
<1> DEFINE host == machine[<<0, 0, 0>>]
           e(bus) == Pci!CheckBus(bus)
<1>1. PCITypes /\ machine \in Machines /\ calls = <<>> /\ machine' = machine /\ found' = found
  BY DEF PCIInv, PCITypes, Pci!CheckAllBuses
<1>2. <<0, 0, 0>> \in Pci!Places
  BY PCIConstants DEF Pci!Places
<1>3. \/ busIndex = -1 /\ host.multi /\ busIndex' = 0 /\ calls' = calls
      \/ busIndex = -1 /\ ~host.multi /\ busIndex' = FunctionsCount /\ calls' = <<e(0)>>
      \/ /\ busIndex # -1 /\ busIndex < FunctionsCount /\ machine[<<0, 0, busIndex>>] = Pci!Nothing
         /\ busIndex' = busIndex + 1 /\ calls' = <<e(busIndex)>>
  BY Zenon DEF Pci!CheckAllBuses, Pci!NextBusFollows, Pci!IsThere, Pci!None
<1>4. ASSUME NEW bus \in BusNumbers
      PROVE  /\ IsCall(machine, e(bus)) /\ e(bus).bus = bus
             /\ e(bus).device = 0 /\ e(bus).function = 0
             /\ <<e(bus)>> \in Seq(Call) /\ Len(<<e(bus)>>) = 1 /\ <<e(bus)>>[1] = e(bus)
  BY PCIConstants DEF Pci!CheckBus, IsCall, Call
<1>5. 0 \in BusNumbers /\ (busIndex # -1 /\ busIndex < FunctionsCount => busIndex \in BusNumbers)
  BY <1>1, PCIConstants DEF PCITypes, BusNumbers
<1> HIDE DEF e
<1>6. calls' = <<>> \/ \E bus \in BusNumbers : calls' = <<e(bus)>>
  BY <1>1, <1>3, <1>5
<1>7. PCITypes'
  <2>1. busIndex' \in -1 .. FunctionsCount
    BY <1>1, <1>3, PCIConstants DEF PCITypes
  <2>2. calls' \in Seq(Call) /\ \A n \in 1 .. Len(calls') : IsCall(machine, calls'[n])
    <3>1. CASE calls' = <<>>
      BY <3>1
    <3>2. CASE \E bus \in BusNumbers : calls' = <<e(bus)>>
      <4>1. PICK bus \in BusNumbers : calls' = <<e(bus)>>
        BY <3>2
      <4>2. IsCall(machine, e(bus)) /\ calls' \in Seq(Call) /\ Len(calls') = 1 /\ calls'[1] = e(bus)
        BY <1>4, <4>1
      <4>3. QED
        BY <4>2
    <3>3. QED
      BY <1>6, <3>1, <3>2
  <2>3. QED
    BY <1>1, <2>1, <2>2 DEF PCITypes
<1>8. CallsClimb'
  <2> SUFFICES ASSUME NEW n \in 1 .. Len(calls') PROVE calls'[n].bus >= Len(calls') - n
    BY DEF CallsClimb
  <2>1. CASE calls' = <<>>
    BY <2>1
  <2>2. CASE \E bus \in BusNumbers : calls' = <<e(bus)>>
    <3>1. PICK bus \in BusNumbers : calls' = <<e(bus)>>
      BY <2>2
    <3>2. Len(calls') = 1 /\ calls'[1].bus = bus
      BY <1>4, <3>1
    <3>3. QED
      BY <3>2 DEF BusNumbers
  <2>3. QED
    BY <1>6, <2>1, <2>2
<1>9. HostBegins'
  <2> SUFFICES ASSUME host # Pci!Nothing
               PROVE  IF host.multi THEN busIndex' \in {-1, 0} /\ calls' = <<>> /\ found' = <<>>
                      ELSE \/ busIndex' = -1 /\ calls' = <<>> /\ found' = <<>>
                           \/ /\ busIndex' = FunctionsCount
                              /\ TreeIn(machine) =>
                                   BusesApart(machine, calls') /\ ReportIsApart(machine, calls', found')
    BY <1>1, Zenon DEF HostBegins
  <2>1. host.multi => found = <<>>
    BY Zenon DEF PCIInv, HostBegins
  <2>2. ~host.multi => (busIndex = -1 /\ found = <<>>) \/ busIndex = FunctionsCount
    BY Zenon DEF PCIInv, HostBegins
  <2>3. CASE busIndex = -1 /\ host.multi /\ busIndex' = 0 /\ calls' = calls
    BY <1>1, <2>1, <2>3
  <2>4. CASE busIndex = -1 /\ ~host.multi /\ busIndex' = FunctionsCount /\ calls' = <<e(0)>>
    <3>1. found' = <<>>
      BY <1>1, <2>2, <2>4, PCIConstants
    <3>2. IsCall(machine, e(0)) /\ e(0).bus = 0 /\ e(0).device = 0 /\ e(0).function = 0
      BY <1>4, <1>5
    <3>3. Ahead(machine, e(0)) = On(machine, {0})
      BY <1>1, <3>2, CallEnds
    <3>4. TreeIn(machine) => BusesApart(machine, <<e(0)>>) /\ ReportIsApart(machine, <<e(0)>>, <<>>)
      BY <1>1, <3>2, <3>3, WalkBegins
    <3>5. QED
      BY <2>4, <3>1, <3>4, Zenon
  <2>5. CASE /\ busIndex # -1 /\ busIndex < FunctionsCount /\ machine[<<0, 0, busIndex>>] = Pci!Nothing
             /\ busIndex' = busIndex + 1 /\ calls' = <<e(busIndex)>>
    <3>1. host.multi
      BY <2>2, <2>5, PCIConstants
    <3>2. busIndex = 0
      <4>1. busIndex \in {-1, 0}
        BY <3>1, Zenon DEF PCIInv, HostBegins
      <4>2. QED
        BY <2>5, <4>1
    <3>3. QED
      BY <2>5, <3>2
  <2>6. QED
    BY <1>3, <2>3, <2>4, <2>5, Zenon
<1>10. QED
  BY <1>7, <1>8, <1>9 DEF PCIInv

LEMMA PCIStep == PCIInv /\ [Pci!Next]_pciVars => PCIInv'
<1> SUFFICES ASSUME PCIInv, [Pci!Next]_pciVars PROVE PCIInv'
  OBVIOUS
<1>1. CASE UNCHANGED pciVars
  BY <1>1 DEF pciVars, PCIInv, PCITypes, CallsClimb, HostBegins
<1>2. QED
  BY <1>1, BusStep, FunctionStep, ReturnStep DEF Pci!Next

LEMMA PCIInit == Pci!Init => PCIInv
BY PCIConstants DEF Pci!Init, Pci!None, PCIInv, PCITypes, CallsClimb, HostBegins

LEMMA WalkIsSound ==
  ASSUME PCIInv
  PROVE  /\ Pci!TypeOK /\ Pci!WalkIsComplete
         /\ Pci!HostWithFunctionsHidesAll /\ Pci!DepthIsBounded
<1>1. /\ machine \in Machines /\ busIndex \in -1 .. FunctionsCount
      /\ calls \in Seq(Call) /\ \A n \in 1 .. Len(calls) : IsCall(machine, calls[n])
      /\ found \in Seq(VisibleIn(machine))
      /\ DOMAIN calls = 1 .. Len(calls) /\ DOMAIN found = 1 .. Len(found)
  BY DEF PCIInv, PCITypes
<1>2. Pci!TypeOK
  <2>1. ASSUME NEW n \in 1 .. Len(calls)
        PROVE  calls[n].device = DevicesPerBus \/ Pci!Place(calls[n]) \in Pci!Places
    <3>1. calls[n] \in Call
      BY <1>1
    <3>2. QED
      BY <3>1, PCIConstants DEF Call, Pci!Place, Pci!Places, BusNumbers
  <2>2. \A n \in 1 .. Len(found) : found[n] \in Pci!Visible
    BY <1>1, PCITerms
  <2>3. QED
    BY <1>1, <2>1, <2>2, Zenon DEF Pci!TypeOK, Pci!None
<1>3. Pci!HostWithFunctionsHidesAll
  BY Zenon DEF Pci!HostWithFunctionsHidesAll, Pci!HasHost, Pci!IsThere, PCIInv, HostBegins
<1>4. Pci!DepthIsBounded
  <2> SUFFICES ASSUME TreeIn(machine), Len(calls) > BusesCount PROVE FALSE
    BY <1>1, PCITerms, PCIConstants DEF Pci!DepthIsBounded
  <2>1. 1 \in 1 .. Len(calls) /\ calls[1].bus \in BusNumbers
    <3>1. 1 \in 1 .. Len(calls)
      BY <1>1, PCIConstants
    <3>2. calls[1] \in Call
      BY <1>1, <3>1
    <3>3. QED
      BY <3>1, <3>2 DEF Call
  <2>2. calls[1].bus >= Len(calls) - 1
    BY <2>1 DEF PCIInv, CallsClimb
  <2>3. QED
    BY <1>1, <2>1, <2>2, PCIConstants DEF BusNumbers
<1>5. Pci!WalkIsComplete
  <2> SUFFICES ASSUME Pci!Ended, Pci!HasHost, ~machine[<<0, 0, 0>>].multi, TreeIn(machine)
               PROVE  /\ {found[n] : n \in 1 .. Len(found)} =
                            {p \in Pci!Visible : p[1] \in Pci!Reachable /\ machine[p].kind # "bridge"}
                      /\ \A k, n \in 1 .. Len(found) : k # n => found[k] # found[n]
    BY <1>1, PCITerms, Zenon DEF Pci!WalkIsComplete
  <2>1. calls = <<>> /\ busIndex # -1
    BY DEF Pci!Ended, Pci!None
  <2>2. ReportIsApart(machine, <<>>, found)
    BY <2>1, Zenon DEF PCIInv, HostBegins, Pci!HasHost, Pci!IsThere
  <2>3. /\ {found[n] : n \in 1 .. Len(found)} = Reported(machine, On(machine, Reach(machine, {0})))
        /\ \A k, n \in 1 .. Len(found) : k # n => found[k] # found[n]
    BY <1>1, <2>2, WalkEnds
  <2>4. Pci!Reachable = Reach(machine, {0})
    BY <1>1, BelowIsLevels, LevelsAreReached DEF Pci!Reachable
  <2>5. Reported(machine, On(machine, Reach(machine, {0}))) =
          {p \in Pci!Visible : p[1] \in Pci!Reachable /\ machine[p].kind # "bridge"}
    BY <2>4, PCITerms DEF Reported, On, IsBridge
  <2>6. QED
    BY <2>3, <2>5
<1>6. QED
  BY <1>2, <1>3, <1>4, <1>5

(* On any machine with any number of buses: behind a first device of one   *)
(* function every function but the bridges is reported once, if the buses  *)
(* are a tree; with several functions nothing is, ever; and CheckBus goes  *)
(* no deeper in a tree than there are buses.                               *)
THEOREM BusesAreWalkedAlways == BootSpec => []BusesAreWalked
<1> DEFINE Inv == stage = "buses" => PCIInv
<1>1. BootInit => Inv
  BY PCIInit DEF BootInit
<1>2. Inv /\ [BootNext]_bootVars => Inv'
  BY StageSteps, PCIStep
<1>3. Inv => BusesAreWalked
  BY WalkIsSound DEF BusesAreWalked
<1>4. QED
  BY <1>1, <1>2, <1>3, PTL DEF BootSpec

-----------------------------------------------------------------------------
(* Storage devices: the table of letters and the search for a device to    *)
(* start from.                                                             *)

(* Entry n was made when the list had n elements: it is good if that was   *)
(* after the list last moved.                                              *)
LettersFollowList ==
  /\ Len(letters) = Len(list.elements) /\ Len(letters) <= Len(probed)
  /\ list.block \in Nat \ {0}
  /\ Len(letters) <= list.block * CountAllocate
  /\ Len(letters) > (list.block - 1) * CountAllocate \/ list.block = 1
  /\ \A n \in 1 .. Len(letters) :
       /\ letters[n].place = n /\ list.elements[n] = probed[n]
       /\ letters[n].block <= list.block
       /\ letters[n].block = list.block <=> n > (list.block - 1) * CountAllocate

(* What the search has passed. *)
SearchIsThorough ==
  /\ Len(probed) > Len(letters) => Len(letters) = MaxDevicesCount \/ kernel = "halted"
  /\ kernel \in {"probing", "searching", "given_up"} => buffers = 0
  /\ kernel = "starting" => buffers = 1
  /\ kernel \in {"searching", "starting"} => index <= Len(letters) + 1
  /\ kernel = "starting" => index <= Len(letters)
  /\ kernel = "given_up" => index = Len(letters) + 1
  /\ kernel \in {"searching", "given_up"} => \A n \in 1 .. Len(letters) :
       n < index /\ probed[n] \in Bootable => probed[n] \in missed \/ Store!IsStray(letters[n])

StoreInv == Store!TypeOK /\ LettersFollowList /\ SearchIsThorough

LEMMA StoreConstants ==
  /\ CountAllocate \in Nat /\ CountAllocate > 0 /\ MaxDevicesCount \in Nat
  /\ Bootable \subseteq Devices
BY BootAssumption DEF Store!StorageDevicesAssumption

LEMMA StoreInit == Store!Init => StoreInv
<1> SUFFICES ASSUME Store!Init PROVE StoreInv
  OBVIOUS
<1>1. Store!TypeOK
  BY StoreConstants DEF Store!Init, Store!TypeOK, Store!DevicesCount
<1>2. LettersFollowList
  BY StoreConstants DEF Store!Init, LettersFollowList
<1>3. SearchIsThorough
  BY DEF Store!Init, SearchIsThorough
<1>4. QED
  BY <1>1, <1>2, <1>3 DEF StoreInv

(* The step that a pointer may stray by. *)
LEMMA StoreAppends ==
  ASSUME StoreInv, NEW device \in Devices, Store!AppendDevice(device)
  PROVE  StoreInv'
<1>1. /\ kernel = "probing" /\ Len(letters) < MaxDevicesCount
      /\ probed' = Append(probed, device)
      /\ list' = [elements |-> Append(list.elements, device),
                  block |-> IF Len(list.elements) = list.block * CountAllocate THEN list.block + 1 ELSE list.block]
      /\ letters' = Append(letters, [block |-> list'.block, place |-> Len(list'.elements)])
      /\ kernel' = kernel /\ index' = index /\ buffers' = buffers /\ missed' = missed
  BY DEF Store!AppendDevice, Store!MayAppend, Store!DevicesCount, Store!IsFull, Store!bootVars,
         Store!LastElement, Store!Pointer
<1>2. /\ probed \in Seq(Devices) /\ list.elements \in Seq(Devices)
      /\ letters \in Seq([block : Nat, place : Nat])
      /\ index \in Nat /\ index > 0 /\ index <= Len(letters) + 1 /\ buffers \in 0 .. 1 /\ missed \subseteq Bootable
  <2>1. Store!TypeOK
    BY DEF StoreInv
  <2>2. letters \in Seq([block : Nat, place : Nat]) /\ index \in 1 .. Len(letters) + 1
    BY <2>1 DEF Store!TypeOK, Store!DevicesCount
  <2>3. Len(letters) \in Nat
    BY <2>2
  <2>4. index \in Nat /\ index > 0 /\ index <= Len(letters) + 1
    BY <2>2, <2>3
  <2>5. QED
    BY <2>1, <2>2, <2>4, Zenon DEF Store!TypeOK
<1>3. LettersFollowList /\ SearchIsThorough
  BY DEF StoreInv
<1>4. Len(probed) = Len(letters) /\ Len(list.elements) = Len(letters) /\ Len(letters) \in Nat
  BY <1>1, <1>2, <1>3 DEF LettersFollowList, SearchIsThorough
<1>5. /\ list'.elements = Append(list.elements, device)
      /\ list'.block \in Nat \ {0}
      /\ Len(list'.elements) = Len(letters) + 1
  BY <1>1, <1>2, <1>3, <1>4 DEF LettersFollowList
<1>6. /\ probed' \in Seq(Devices) /\ Len(probed') = Len(letters) + 1 /\ probed'[Len(letters) + 1] = device
      /\ \A n \in 1 .. Len(letters) : probed'[n] = probed[n]
  BY <1>1, <1>2, <1>4
<1>7. /\ list'.elements \in Seq(Devices) /\ list'.elements[Len(letters) + 1] = device
      /\ \A n \in 1 .. Len(letters) : list'.elements[n] = list.elements[n]
  BY <1>2, <1>4, <1>5
<1>8. /\ letters' \in Seq([block : Nat, place : Nat]) /\ Len(letters') = Len(letters) + 1
      /\ letters'[Len(letters) + 1] = [block |-> list'.block, place |-> Len(letters) + 1]
      /\ \A n \in 1 .. Len(letters) : letters'[n] = letters[n]
  BY <1>1, <1>2, <1>4, <1>5
<1>9. Store!TypeOK'
  BY <1>1, <1>2, <1>6, <1>7, <1>8, StoreConstants DEF Store!TypeOK, Store!DevicesCount
<1>10. LettersFollowList'
  <2> DEFINE b == list.block
             l == Len(letters)
  <2>1. /\ b \in Nat /\ b > 0 /\ l \in Nat /\ l <= b * CountAllocate
        /\ l > (b - 1) * CountAllocate \/ b = 1
        /\ b * CountAllocate \in Nat /\ (b - 1) * CountAllocate \in Nat
        /\ b * CountAllocate = (b - 1) * CountAllocate + CountAllocate
        /\ (b + 1) * CountAllocate = b * CountAllocate + CountAllocate
        /\ (b + 1 - 1) * CountAllocate = b * CountAllocate
    BY <1>3, <1>4, StoreConstants DEF LettersFollowList
  <2>2. list'.block = IF l = b * CountAllocate THEN b + 1 ELSE b
    BY <1>1, <1>4
  <2>3. \A n \in 1 .. l :
          /\ letters[n].place = n /\ list.elements[n] = probed[n]
          /\ letters[n].block \in Nat /\ letters[n].block <= b
          /\ letters[n].block = b <=> n > (b - 1) * CountAllocate
    <3>1. \A n \in 1 .. l : letters[n] \in [block : Nat, place : Nat]
      BY <1>2, <1>4, ElementOfSeq
    <3>2. QED
      BY <3>1, <1>3 DEF LettersFollowList
  <2>4. Len(letters') = Len(list'.elements) /\ Len(letters') <= Len(probed')
    BY <1>5, <1>6, <1>8
  <2>5. \A n \in 1 .. l + 1 : letters'[n].place = n /\ list'.elements[n] = probed'[n]
    <3>1. \A n \in 1 .. l : letters'[n].place = n /\ list'.elements[n] = probed'[n]
      BY <2>3, <1>6, <1>7, <1>8
    <3>2. letters'[l + 1].place = l + 1 /\ list'.elements[l + 1] = probed'[l + 1]
      BY <1>6, <1>7, <1>8
    <3>3. QED
      BY <3>1, <3>2, <2>1
  <2>6. letters'[l + 1].block = list'.block /\ \A n \in 1 .. l : letters'[n].block = letters[n].block
    BY <1>8
  <2> HIDE DEF b, l
  <2>7. CASE l = b * CountAllocate
    <3>1. list'.block = b + 1 /\ l + 1 <= (b + 1) * CountAllocate /\ l + 1 > (b + 1 - 1) * CountAllocate
      BY <2>1, <2>2, <2>7, StoreConstants
    <3>2. \A n \in 1 .. l + 1 : /\ letters'[n].block <= b + 1
                                /\ letters'[n].block = b + 1 <=> n > (b + 1 - 1) * CountAllocate
      BY <2>1, <2>3, <2>6, <2>7, <3>1
    <3>3. QED
      <4>1. Len(letters') = l + 1
        BY <1>8 DEF l
      <4>2. QED
        BY <3>1, <3>2, <4>1, <2>1, <2>4, <2>5 DEF LettersFollowList
  <2>8. CASE l # b * CountAllocate
    <3>1. list'.block = b /\ l + 1 <= b * CountAllocate /\ l + 1 > (b - 1) * CountAllocate
      BY <2>1, <2>2, <2>8, StoreConstants
    <3>2. \A n \in 1 .. l + 1 : /\ letters'[n].block <= b
                                /\ letters'[n].block = b <=> n > (b - 1) * CountAllocate
      BY <2>1, <2>3, <2>6, <3>1
    <3>3. QED
      <4>1. Len(letters') = l + 1
        BY <1>8 DEF l
      <4>2. QED
        BY <3>1, <3>2, <4>1, <2>1, <2>4, <2>5 DEF LettersFollowList
  <2>9. QED
    BY <2>7, <2>8
<1>11. SearchIsThorough'
  BY <1>1, <1>3, <1>6, <1>8 DEF SearchIsThorough
<1>12. QED
  BY <1>9, <1>10, <1>11 DEF StoreInv

(* The other steps leave the list and the letters alone. *)
LEMMA StoreKeepsLetters ==
  ASSUME StoreInv, UNCHANGED <<list, letters>>,
         \/ UNCHANGED probed
         \/ \E device \in Devices : probed' = Append(probed, device)
  PROVE  /\ LettersFollowList' /\ probed' \in Seq(Devices) /\ list'.elements \in Seq(Devices)
         /\ letters \in Seq([block : Nat, place : Nat]) /\ Len(letters) \in Nat /\ Len(letters) <= MaxDevicesCount
         /\ Len(probed') \in Nat /\ \A n \in 1 .. Len(letters) : probed'[n] = probed[n]
<1>1. /\ probed \in Seq(Devices) /\ list.elements \in Seq(Devices)
      /\ letters \in Seq([block : Nat, place : Nat]) /\ Len(letters) <= MaxDevicesCount
  BY Zenon DEF StoreInv, Store!TypeOK, Store!DevicesCount
<1>2. LettersFollowList
  BY DEF StoreInv
<1>3. Len(letters) \in Nat /\ Len(probed) \in Nat /\ Len(letters) <= Len(probed)
  BY <1>1, <1>2 DEF LettersFollowList
<1>4. /\ probed' \in Seq(Devices) /\ Len(probed') \in Nat /\ Len(probed') >= Len(probed)
      /\ \A n \in 1 .. Len(probed) : probed'[n] = probed[n]
  <2>1. CASE UNCHANGED probed
    BY <1>1, <1>3, <2>1
  <2>2. ASSUME NEW device \in Devices, probed' = Append(probed, device)
        PROVE  /\ probed' \in Seq(Devices) /\ Len(probed') = Len(probed) + 1
               /\ \A n \in 1 .. Len(probed) : probed'[n] = probed[n]
    BY <1>1, <2>2, AppendProperties
  <2>3. QED
    BY <1>3, <2>1, <2>2
<1>5. \A n \in 1 .. Len(letters) : probed'[n] = probed[n]
  BY <1>3, <1>4
<1>6. LettersFollowList'
  BY <1>2, <1>3, <1>4, <1>5 DEF LettersFollowList
<1>7. QED
  BY <1>1, <1>3, <1>4, <1>5, <1>6

(* A device is passed only when its file was missed or its pointer strays. *)
LEMMA PassedIsMissed ==
  ASSUME StoreInv, index \in 1 .. Len(letters), missed' = missed \cup
           {device \in Bootable : ~Store!IsStray(letters[index]) /\ Store!Device(letters[index]) = device}
  PROVE  /\ missed \subseteq missed' /\ missed' \subseteq Bootable
         /\ probed[index] \in Bootable => probed[index] \in missed' \/ Store!IsStray(letters[index])
<1>1. letters[index].place = index /\ list.elements[index] = probed[index]
  BY DEF StoreInv, LettersFollowList
<1>2. Store!Device(letters[index]) = probed[index]
  BY <1>1 DEF Store!Device
<1>3. missed \subseteq Bootable
  BY Zenon DEF StoreInv, Store!TypeOK
<1>4. QED
  BY <1>2, <1>3

LEMMA StoreStep == StoreInv /\ [Store!Next]_devicesVars => StoreInv'
<1> SUFFICES ASSUME StoreInv, [Store!Next]_devicesVars PROVE StoreInv'
  OBVIOUS
<1>1. /\ kernel \in {"probing", "searching", "starting", "running", "given_up", "halted"}
      /\ index \in 1 .. Len(letters) + 1 /\ buffers \in 0 .. 1 /\ missed \subseteq Bootable
  BY Zenon DEF StoreInv, Store!TypeOK, Store!DevicesCount
<1>2. LettersFollowList /\ SearchIsThorough
  BY DEF StoreInv
<1>3. ASSUME NEW device \in Devices, Store!AppendDevice(device) PROVE StoreInv'
  BY <1>3, StoreAppends
<1>4. ASSUME UNCHANGED <<list, letters>>,
             UNCHANGED probed \/ \E device \in Devices : probed' = Append(probed, device),
             kernel' \in {"probing", "searching", "starting", "running", "given_up", "halted"},
             index' \in 1 .. Len(letters) + 1, buffers' \in 0 .. 1, missed' \subseteq Bootable,
             SearchIsThorough'
      PROVE  StoreInv'
  BY <1>4, StoreKeepsLetters, Zenon DEF StoreInv, Store!TypeOK, Store!DevicesCount
<1>5. ASSUME NEW device \in Devices, Store!Fault(device) \/ Store!Refuse(device) PROVE StoreInv'
  <2>1. /\ UNCHANGED <<list, letters, index, buffers, missed>> /\ kernel = "probing"
        /\ probed' = Append(probed, device)
        /\ kernel' = "halted" \/ (kernel' = kernel /\ Len(letters) >= MaxDevicesCount)
    BY <1>5, StoreConstants, StoreKeepsLetters DEF Store!Fault, Store!Refuse, Store!MayAppend, Store!DevicesCount, Store!bootVars
  <2>2. Len(letters) \in Nat /\ Len(letters) <= MaxDevicesCount
    BY <2>1, StoreKeepsLetters
  <2>3. kernel' = "halted" \/ (kernel' = "probing" /\ Len(letters) = MaxDevicesCount)
    BY <2>1, <2>2, StoreConstants
  <2>4. SearchIsThorough'
    BY <2>1, <2>3, <1>2 DEF SearchIsThorough
  <2>5. QED
    BY <1>1, <1>4, <2>1, <2>3, <2>4
<1>6. Len(letters) \in Nat
  <2>1. letters \in Seq([block : Nat, place : Nat])
    BY Zenon DEF StoreInv, Store!TypeOK
  <2>2. QED
    BY <2>1
<1>7. CASE Store!Search
  <2>1. SearchIsThorough' /\ index' \in 1 .. Len(letters) + 1
    BY <1>1, <1>2, <1>6, <1>7 DEF Store!Search, SearchIsThorough
  <2>2. QED
    BY <1>1, <1>4, <1>7, <2>1 DEF Store!Search
<1>8. CASE Store!TryNextDevice
  <2>1. /\ kernel = "searching" /\ index <= Len(letters) /\ index' = index + 1
        /\ UNCHANGED <<probed, list, letters, kernel, buffers>>
        /\ missed' = missed \cup
             {device \in Bootable : ~Store!IsStray(letters[index]) /\ Store!Device(letters[index]) = device}
    BY <1>8 DEF Store!TryNextDevice, Store!MoreDevices, Store!DevicesCount, Store!Miss
  <2>2. index \in 1 .. Len(letters) /\ index' \in 1 .. Len(letters) + 1
    BY <1>1, <1>6, <2>1
  <2>3. /\ missed \subseteq missed' /\ missed' \subseteq Bootable
        /\ probed[index] \in Bootable => probed[index] \in missed' \/ Store!IsStray(letters[index])
    BY <2>1, <2>2, PassedIsMissed
  <2>4. \A n \in 1 .. Len(letters) : Store!IsStray(letters[n])' = Store!IsStray(letters[n])
    BY <2>1 DEF Store!IsStray
  <2>5. SearchIsThorough'
    BY <1>2, <1>6, <2>1, <2>2, <2>3, <2>4 DEF SearchIsThorough
  <2>6. QED
    BY <1>1, <1>4, <2>1, <2>2, <2>3, <2>5
<1>9. CASE Store!FindConfiguration
  <2>1. /\ kernel = "searching" /\ index <= Len(letters) /\ kernel' = "starting" /\ buffers' = buffers + 1
        /\ UNCHANGED <<probed, list, letters, index, missed>>
    BY <1>9 DEF Store!FindConfiguration, Store!MoreDevices, Store!DevicesCount
  <2>2. buffers' = 1
    BY <2>1, <1>2 DEF SearchIsThorough
  <2>3. SearchIsThorough'
    BY <2>1, <2>2, <1>2, <1>1, <1>6 DEF SearchIsThorough
  <2>4. QED
    BY <1>1, <1>4, <2>1, <2>2, <2>3
<1>13. CASE Store!GiveUp
  <2>1. /\ kernel = "searching" /\ ~(index <= Len(letters)) /\ kernel' = "given_up"
        /\ UNCHANGED <<probed, list, letters, index, missed, buffers>>
    BY <1>13 DEF Store!GiveUp, Store!MoreDevices, Store!DevicesCount
  <2>2. index = Len(letters) + 1
    <3>1. index \in 1 .. Len(letters) + 1
      BY <1>1
    <3>2. index \in Int /\ index <= Len(letters) + 1
      BY <3>1, <1>6
    <3>3. ~(index <= Len(letters))
      BY <2>1
    <3>4. QED
      BY <3>2, <3>3, <1>6
  <2>3. \A n \in 1 .. Len(letters) : Store!IsStray(letters[n])' = Store!IsStray(letters[n])
    BY <2>1 DEF Store!IsStray
  <2>4. SearchIsThorough'
    BY <2>1, <2>2, <2>3, <1>2 DEF SearchIsThorough
  <2>5. QED
    BY <1>1, <1>4, <2>1, <2>4
<1>10. CASE Store!MissProgram \/ Store!LoseProgram \/ Store!RunProgram
  <2>1. /\ kernel = "starting" /\ kernel' \in {"halted", "running"}
        /\ UNCHANGED <<probed, list, letters, index>> /\ buffers' \in {buffers, buffers - 1}
        /\ missed' \in {missed, missed \cup
             {device \in Bootable : ~Store!IsStray(letters[index]) /\ Store!Device(letters[index]) = device}}
    BY <1>10 DEF Store!MissProgram, Store!LoseProgram, Store!RunProgram, Store!Miss
  <2>2. buffers = 1
    BY <2>1, <1>2 DEF SearchIsThorough
  <2>3. SearchIsThorough'
    BY <2>1, <2>2, <1>2 DEF SearchIsThorough
  <2>4. buffers' \in 0 .. 1
    BY <2>1, <2>2
  <2>5. missed' \subseteq Bootable
    BY <2>1, <1>1
  <2>6. QED
    BY <1>1, <1>4, <2>1, <2>3, <2>4, <2>5
<1>11. CASE UNCHANGED devicesVars
  <2>1. UNCHANGED <<probed, list, letters, kernel, index, buffers, missed>>
    BY <1>11 DEF devicesVars
  <2>2. SearchIsThorough'
    BY <2>1, <1>2 DEF SearchIsThorough, Store!IsStray
  <2>3. QED
    BY <1>1, <1>4, <2>1, <2>2
<1>12. QED
  BY <1>3, <1>5, <1>7, <1>8, <1>9, <1>10, <1>11, <1>13 DEF Store!Next, Store!Probe

(* Letters lead to their devices until the list moves, and the search for  *)
(* a device to start from overlooks none, for any number of devices, of    *)
(* letters and any growth of the list.                                     *)
THEOREM LettersAreKeptAlways == BootSpec => []LettersAreKept
<1> DEFINE Inv == stage = "devices" => StoreInv
<1>1. BootInit => Inv
  BY StoreInit DEF BootInit
<1>2. Inv /\ [BootNext]_bootVars => Inv'
  BY StageSteps, StoreStep
<1>3. Inv => LettersAreKept
  <2> SUFFICES ASSUME StoreInv PROVE /\ Store!TypeOK /\ Store!LettersNameDevices
                                     /\ Store!GrownListStrays /\ Store!NoDeviceIsOverlooked
    BY DEF LettersAreKept
  <2>1. Store!TypeOK /\ LettersFollowList /\ SearchIsThorough
    BY DEF StoreInv
  <2>8. /\ letters \in Seq([block : Nat, place : Nat]) /\ probed \in Seq(Devices)
        /\ list.elements \in Seq(Devices) /\ Len(letters) <= MaxDevicesCount
    BY <2>1, Zenon DEF Store!TypeOK, Store!DevicesCount
  <2>2. /\ DOMAIN letters = 1 .. Len(letters) /\ Len(letters) \in Nat
        /\ DOMAIN list.elements = 1 .. Len(letters) /\ DOMAIN probed = 1 .. Len(probed) /\ Len(probed) \in Nat
    BY <2>1, <2>8 DEF LettersFollowList
  <2>3. \A n \in 1 .. Len(letters) : Store!IsStray(letters[n]) <=> n <= (list.block - 1) * CountAllocate
    BY <2>1, <2>2, StoreConstants DEF LettersFollowList, Store!IsStray
  <2>4. Store!LettersNameDevices
    BY <2>1, <2>2 DEF Store!LettersNameDevices, Store!Device, LettersFollowList
  <2>5. Store!GrownListStrays
    BY <2>2, <2>3 DEF Store!GrownListStrays
  <2>6. Store!NoDeviceIsOverlooked
    <3> SUFFICES ASSUME kernel = "given_up", NEW n \in 1 .. Len(probed), probed[n] \in Bootable
                 PROVE  probed[n] \in missed \/ n > MaxDevicesCount \/ Store!IsStray(letters[n])
      BY <2>2, Zenon DEF Store!NoDeviceIsOverlooked
    <3>1. n \in Nat /\ n > 0 /\ n <= Len(probed)
      BY <2>2
    <3>2. CASE n <= Len(letters)
      <4>1. n \in 1 .. Len(letters) /\ n < Len(letters) + 1 /\ index = Len(letters) + 1
        BY <2>1, <2>2, <3>1, <3>2 DEF SearchIsThorough
      <4>2. QED
        BY <2>1, <4>1 DEF SearchIsThorough
    <3>3. CASE ~(n <= Len(letters))
      <4>1. Len(probed) > Len(letters)
        BY <2>2, <3>1, <3>3
      <4>2. Len(letters) = MaxDevicesCount
        BY <2>1, <4>1 DEF SearchIsThorough
      <4>3. QED
        BY <2>2, <3>1, <3>3, <4>2
    <3>4. QED
      BY <3>2, <3>3
  <2>7. QED
    BY <2>1, <2>4, <2>5, <2>6
<1>4. QED
  BY <1>1, <1>2, <1>3, PTL DEF BootSpec
-----------------------------------------------------------------------------
(* ACPI: the search for the root pointer, the walk to the FADT and the     *)
(* change of the mode.                                                     *)

ACPIType ==
  /\ Acpi!TypeOK
  /\ place \in Nat /\ sdtCount \in Nat /\ entry \in Nat /\ tries \in Nat

(* Nothing is controlled before the walk, and nothing is sent before the   *)
(* power-off; a wait is for a firmware that has been asked.                *)
StepsInOrder ==
  /\ step \in {"search", "root"} => SCIEnabled = FALSE /\ asked = FALSE /\ tries = 0
  /\ step \in {"search", "root"} => entry = 0
  /\ step # "done" => sent = <<>>
  /\ step \in {"wait_A", "wait_B"} => SCIEnabled = TRUE /\ asked = TRUE
  /\ step \in {"wait_A", "wait_B"} => entry < sdtCount
  /\ asked = TRUE => SCIEnabled = TRUE
  /\ step = "wait_B" => firmware.pm1b /\ (tries < MaxTries => "A" \in mode)

(* No place passed had a root pointer. *)
NoRootPassed == \A p \in firmware.roots : place <= p

(* Control is only taken with a sleep type that is named. *)
ControlIsNamed == SCIEnabled = TRUE =>
  /\ ~Acpi!SearchFails /\ Acpi!IsNamed /\ place \in firmware.roots
  /\ step = "walk" => "A" \in mode /\ (asked = TRUE /\ firmware.pm1b => "B" \in mode)

(* What the walk has passed. *)
WalkedPast(n) ==
  firmware.revision = 0 /\ Acpi!IsNamed /\ Acpi!IsFADT(firmware.entries[n]) => SCIEnabled = TRUE

WalkIsThorough ==
  /\ step \in {"walk", "wait_A", "wait_B"} /\ firmware.revision = 0 =>
       /\ sdtCount = 4 * Len(firmware.entries)
       /\ \A n \in 1 .. Len(firmware.entries) : n <= entry => WalkedPast(n)
  /\ step = "done" /\ result = TRUE => \A n \in 1 .. Len(firmware.entries) : WalkedPast(n)

ACPIInv ==
  /\ ACPIType /\ StepsInOrder /\ NoRootPassed /\ ControlIsNamed /\ WalkIsThorough
  /\ Acpi!FirstRootWins /\ Acpi!ModeIsAnswered /\ Acpi!PowerOffIsEarned

LEMMA ACPIConstants ==
  /\ LastPlace \in Nat /\ MaxWalk \in Nat /\ MaxTries \in Nat /\ MaxTries > 0
  /\ \A f \in Firmwares : /\ f.roots \subseteq 0 .. LastPlace
                          /\ f.entries \in Seq({"FADT", "other", "high"}) /\ f.mode \subseteq {"A", "B"}
BY BootAssumption DEF Acpi!ACPIAssumption, Acpi!Blocks

LEMMA ACPIInit == Acpi!Init => ACPIInv
<1> SUFFICES ASSUME Acpi!Init PROVE ACPIInv
  OBVIOUS
<1>1. /\ firmware \in Firmwares /\ step = "search" /\ place = 0 /\ sdtCount = 0 /\ entry = 0 /\ tries = 0
      /\ SCIEnabled = FALSE /\ asked = FALSE /\ mode = firmware.mode /\ result = FALSE /\ sent = <<>>
  BY DEF Acpi!Init
<1>2. mode \subseteq Acpi!Blocks
  BY <1>1, ACPIConstants DEF Acpi!Blocks
<1>3. ACPIType
  <2>1. \A block \in DOMAIN sent : sent[block] \in {firmware.s5, "zero"}
    BY <1>1
  <2>2. QED
    <3>1. place \in 0 .. LastPlace /\ tries \in 0 .. MaxTries /\ entry \in 0 .. sdtCount
      BY <1>1, ACPIConstants
    <3>2. place \in Nat /\ sdtCount \in Nat /\ entry \in Nat /\ tries \in Nat
      BY <1>1
    <3>3. QED
      BY <1>1, <1>2, <2>1, <3>1, <3>2, Zenon DEF ACPIType, Acpi!TypeOK
<1>4. StepsInOrder
  BY <1>1 DEF StepsInOrder
<1>5. ControlIsNamed
  BY <1>1 DEF ControlIsNamed
<1>6. WalkIsThorough
  BY <1>1 DEF WalkIsThorough
<1>7. Acpi!FirstRootWins
  BY <1>1 DEF Acpi!FirstRootWins
<1>8. Acpi!ModeIsAnswered
  BY <1>1 DEF Acpi!ModeIsAnswered
<1>9. Acpi!PowerOffIsEarned
  BY <1>1 DEF Acpi!PowerOffIsEarned
<1>10. NoRootPassed
  BY <1>1, ACPIConstants DEF NoRootPassed
<1>11. QED
  BY <1>3, <1>4, <1>5, <1>6, <1>7, <1>8, <1>9, <1>10 DEF ACPIInv

(* What a step that looks for the root pointer keeps. *)
LEMMA RootStep ==
  ASSUME ACPIInv, Acpi!Search \/ Acpi!ChooseRoot
  PROVE  ACPIInv'
<1>1. /\ firmware \in Firmwares /\ place \in 0 .. LastPlace /\ entry \in 0 .. sdtCount /\ tries \in 0 .. MaxTries
      /\ SCIEnabled \in BOOLEAN /\ asked \in BOOLEAN /\ result \in BOOLEAN /\ mode \subseteq Acpi!Blocks
      /\ \A block \in DOMAIN sent : sent[block] \in {firmware.s5, "zero"}
      /\ place \in Nat /\ sdtCount \in Nat /\ entry \in Nat /\ tries \in Nat
  BY Zenon DEF ACPIInv, ACPIType, Acpi!TypeOK
<1>2. StepsInOrder /\ NoRootPassed /\ Acpi!FirstRootWins
  BY DEF ACPIInv
<1>3. step \in {"search", "root"}
  BY DEF Acpi!Search, Acpi!ChooseRoot
<1>4. SCIEnabled = FALSE /\ asked = FALSE /\ tries = 0 /\ entry = 0 /\ sent = <<>>
  BY <1>2, <1>3 DEF StepsInOrder
<1>5. UNCHANGED <<firmware, entry, tries, SCIEnabled, asked, mode, sent>>
  BY DEF Acpi!Search, Acpi!ChooseRoot
<1>6. /\ step' \in {"search", "root", "walk", "done"} /\ place' \in 0 .. LastPlace /\ sdtCount' \in Nat
      /\ step' = "done" => result' = FALSE
      /\ result' \in BOOLEAN
      /\ step' = "walk" /\ firmware.revision = 0 => sdtCount' = 4 * Len(firmware.entries)
      /\ place' = place \/ (place \notin firmware.roots /\ place' = place + 1 /\ step' = "search")
  <2>1. CASE Acpi!Search
    <3>1. /\ step = "search" /\ sdtCount' = sdtCount
          /\ \/ step' = "root" /\ place' = place /\ result' = result
             \/ place \notin firmware.roots /\ place # LastPlace /\ place' = place + 1 /\ step' = step /\ result' = result
             \/ step' = "done" /\ result' = FALSE /\ place' = place
      BY <2>1 DEF Acpi!Search, Acpi!Return, Acpi!IsLastPlace
    <3>2. place # LastPlace => place + 1 \in 0 .. LastPlace
      BY <1>1, ACPIConstants
    <3>3. place' \in 0 .. LastPlace /\ sdtCount' \in Nat
      BY <1>1, <3>1, <3>2
    <3>4. QED
      BY <1>1, <3>1, <3>3, Zenon
  <2>2. CASE Acpi!ChooseRoot
    <3>1. \A n \in Acpi!EntryCounts : n \in Nat /\ (firmware.revision = 0 => n = 4 * Len(firmware.entries))
      BY <1>1, ACPIConstants DEF Acpi!EntryCounts, Acpi!WordSize
    <3>2. QED
      BY <1>1, <2>2, <3>1 DEF Acpi!ChooseRoot, Acpi!Return
  <2>3. QED
    BY <2>1, <2>2
<1>7. ACPIType'
  BY <1>1, <1>4, <1>5, <1>6 DEF ACPIType, Acpi!TypeOK
<1>8. StepsInOrder'
  BY <1>4, <1>5, <1>6 DEF StepsInOrder
<1>9. ControlIsNamed' /\ Acpi!ModeIsAnswered' /\ Acpi!PowerOffIsEarned'
  BY <1>4, <1>5 DEF ControlIsNamed, Acpi!ModeIsAnswered, Acpi!PowerOffIsEarned
<1>10. WalkIsThorough'
  BY <1>4, <1>5, <1>6 DEF WalkIsThorough
<1>13. NoRootPassed'
  <2>1. \A p \in firmware.roots : p \in Nat /\ place <= p
    BY <1>1, <1>2, ACPIConstants DEF NoRootPassed
  <2>2. \A p \in firmware.roots : p # place => place + 1 <= p
    BY <1>1, <2>1
  <2>3. QED
    BY <1>5, <1>6, <2>1, <2>2 DEF NoRootPassed
<1>11. Acpi!FirstRootWins'
  <2>1. firmware'.roots \cap 0 .. place' - 1 = {}
    BY <1>1, <1>5, <1>6, <1>13, ACPIConstants DEF NoRootPassed
  <2>2. step' \notin {"search", "done"} => place' \in firmware.roots
    <3>1. CASE Acpi!Search
      BY <3>1 DEF Acpi!Search, Acpi!Return
    <3>2. CASE Acpi!ChooseRoot
      BY <3>2, <1>2 DEF Acpi!FirstRootWins, Acpi!ChooseRoot, Acpi!Return
    <3>3. QED
      BY <3>1, <3>2
  <2>3. step' = "done" /\ place' \notin firmware.roots => firmware.roots = {}
    <3>1. CASE Acpi!Search
      <4>1. SUFFICES ASSUME step' = "done" PROVE firmware.roots = {}
        OBVIOUS
      <4>2. place \notin firmware.roots /\ place = LastPlace
        BY <3>1, <4>1 DEF Acpi!Search, Acpi!IsLastPlace
      <4>3. \A p \in firmware.roots : p \in Nat /\ p <= LastPlace /\ place <= p
        BY <1>1, <1>2, ACPIConstants DEF NoRootPassed
      <4>4. \A p \in firmware.roots : p = place
        BY <1>1, <4>2, <4>3, ACPIConstants
      <4>5. QED
        BY <4>2, <4>4
    <3>2. CASE Acpi!ChooseRoot
      BY <3>2, <1>2 DEF Acpi!FirstRootWins, Acpi!ChooseRoot, Acpi!Return
    <3>3. QED
      BY <3>1, <3>2
  <2>4. QED
    BY <2>1, <2>2, <2>3, <1>5 DEF Acpi!FirstRootWins
<1>12. QED
  BY <1>7, <1>8, <1>9, <1>10, <1>11, <1>13 DEF ACPIInv

LEMMA ACPIFacts ==
  ASSUME ACPIInv
  PROVE  /\ firmware \in Firmwares /\ place \in 0 .. LastPlace /\ entry \in 0 .. sdtCount /\ tries \in 0 .. MaxTries
         /\ step \in {"search", "root", "walk", "wait_A", "wait_B", "done"}
         /\ SCIEnabled \in BOOLEAN /\ asked \in BOOLEAN /\ result \in BOOLEAN /\ mode \subseteq Acpi!Blocks
         /\ \A block \in DOMAIN sent : sent[block] \in {firmware.s5, "zero"}
         /\ place \in Nat /\ sdtCount \in Nat /\ entry \in Nat /\ tries \in Nat
         /\ StepsInOrder /\ NoRootPassed /\ ControlIsNamed /\ WalkIsThorough
         /\ Acpi!FirstRootWins /\ Acpi!ModeIsAnswered /\ Acpi!PowerOffIsEarned
         /\ firmware.entries \in Seq({"FADT", "other", "high"}) /\ Len(firmware.entries) \in Nat
<1>1. firmware \in Firmwares
  BY Zenon DEF ACPIInv, ACPIType, Acpi!TypeOK
<1>2. firmware.entries \in Seq({"FADT", "other", "high"})
  BY <1>1, ACPIConstants
<1>3. Len(firmware.entries) \in Nat
  BY <1>2
<1>4. QED
  BY <1>2, <1>3, Zenon DEF ACPIInv, ACPIType, Acpi!TypeOK

(* The walk over the entries and the waits. *)
LEMMA WalkStep ==
  ASSUME ACPIInv,
         \/ Acpi!PassEntry \/ Acpi!EndWalk \/ Acpi!TakeFADT
         \/ Acpi!Poll("A") \/ Acpi!Poll("B") \/ Acpi!PollSecond \/ Acpi!EndWait
  PROVE  ACPIInv'
<1> USE DEF Acpi!tables
<1> DEFINE e == firmware.entries
<1>1. /\ step \in {"walk", "wait_A", "wait_B"}
      /\ UNCHANGED <<firmware, place, sdtCount, mode, sent>>
  BY DEF Acpi!PassEntry, Acpi!EndWalk, Acpi!TakeFADT, Acpi!Poll, Acpi!Waiting, Acpi!PollSecond, Acpi!EndWait
<1>2. place \in firmware.roots /\ sent = <<>>
  BY <1>1, ACPIFacts DEF Acpi!FirstRootWins, StepsInOrder
<1>3. ASSUME step' \in {"walk", "wait_A", "wait_B", "done"}, entry' \in 0 .. sdtCount, tries' \in 0 .. MaxTries,
             SCIEnabled' \in BOOLEAN, asked' \in BOOLEAN, result' \in BOOLEAN,
             StepsInOrder', ControlIsNamed', WalkIsThorough', Acpi!ModeIsAnswered'
      PROVE  ACPIInv'
  <2>1. ACPIType'
    <3>1. entry' \in Nat /\ tries' \in Nat /\ entry' \in 0 .. sdtCount' /\ place' \in 0 .. LastPlace
      BY <1>1, <1>3, ACPIFacts, ACPIConstants
    <3>2. QED
      BY <1>1, <1>3, <3>1, ACPIFacts, Zenon DEF ACPIType, Acpi!TypeOK, Acpi!Blocks
  <2>2. NoRootPassed' /\ Acpi!FirstRootWins'
    BY <1>1, <1>2, <1>3, ACPIFacts DEF NoRootPassed, Acpi!FirstRootWins
  <2>3. Acpi!PowerOffIsEarned'
    BY <1>1, <1>2 DEF Acpi!PowerOffIsEarned
  <2>4. QED
    BY <1>3, <2>1, <2>2, <2>3, Zenon DEF ACPIInv
<1>4. entry \in 0 .. sdtCount /\ tries \in 0 .. MaxTries
  BY ACPIFacts
<1>5. entry < sdtCount => entry + 1 \in 0 .. sdtCount
  BY ACPIFacts
<1>6. /\ step = "wait_A" \/ step = "wait_B" => SCIEnabled = TRUE /\ asked = TRUE
      /\ step = "wait_B" => firmware.pm1b /\ (tries < MaxTries => "A" \in mode)
      /\ step = "wait_A" \/ step = "wait_B" => entry < sdtCount
      /\ asked = TRUE => SCIEnabled = TRUE
  BY ACPIFacts, Zenon DEF StepsInOrder
<1>7. SCIEnabled = TRUE => ~Acpi!SearchFails /\ Acpi!IsNamed
  BY ACPIFacts DEF ControlIsNamed
<1>8. SCIEnabled = TRUE /\ step = "walk" => "A" \in mode /\ (asked = TRUE /\ firmware.pm1b => "B" \in mode)
  BY ACPIFacts, Zenon DEF ControlIsNamed
<1>9. /\ (Acpi!SearchFails)' <=> Acpi!SearchFails
      /\ (Acpi!IsNamed)' <=> Acpi!IsNamed
      /\ \A n \in 1 .. Len(e) : Acpi!IsFADT(e[n])' <=> Acpi!IsFADT(e[n])
  BY <1>1 DEF Acpi!SearchFails, Acpi!IsNamed, Acpi!IsFADT, Acpi!DSDT
<1>10. /\ firmware.revision = 0 => sdtCount = 4 * Len(e)
       /\ firmware.revision = 0 => \A n \in 1 .. Len(e) : n <= entry => WalkedPast(n)
  BY <1>1, ACPIFacts DEF WalkIsThorough
<1>11. ASSUME SCIEnabled' = TRUE PROVE WalkIsThorough'
  BY <1>1, <1>10, <1>11 DEF WalkIsThorough, WalkedPast
<1>12. ASSUME UNCHANGED SCIEnabled, entry < sdtCount, entry' = entry + 1, step' = "walk",
              \A n \in 1 .. Len(e) : n = entry + 1 => WalkedPast(n)
       PROVE  WalkIsThorough'
  <2>1. \A n \in 1 .. Len(e) : n <= entry' => n <= entry \/ n = entry + 1
    BY <1>12, ACPIFacts
  <2>2. \A n \in 1 .. Len(e) : WalkedPast(n) => WalkedPast(n)'
    BY <1>1, <1>9, <1>12 DEF WalkedPast
  <2>3. QED
    BY <1>1, <1>10, <1>12, <2>1, <2>2 DEF WalkIsThorough
<1>13. CASE Acpi!PassEntry
  <2>1. /\ step = "walk" /\ entry < sdtCount /\ entry' = entry + 1
        /\ UNCHANGED <<step, tries, SCIEnabled, asked, result>>
        /\ \E x \in Acpi!Entries : ~Acpi!IsFADT(x)
    BY <1>13 DEF Acpi!PassEntry
  <2>2. \A n \in 1 .. Len(e) : n = entry + 1 => WalkedPast(n)
    BY <2>1, ACPIFacts DEF Acpi!Entries, WalkedPast
  <2>3. WalkIsThorough'
    BY <1>12, <2>1, <2>2
  <2>4. StepsInOrder' /\ ControlIsNamed' /\ Acpi!ModeIsAnswered'
    BY <1>1, <1>2, <1>6, <1>7, <1>8, <1>9, <2>1 DEF StepsInOrder, ControlIsNamed, Acpi!ModeIsAnswered
  <2>5. QED
    BY <1>3, <1>4, <1>5, <2>1, <2>3, <2>4, ACPIFacts
<1>14. CASE Acpi!EndWalk
  <2>1. /\ step = "walk" /\ entry >= sdtCount /\ step' = "done" /\ result' = TRUE
        /\ UNCHANGED <<entry, tries, SCIEnabled, asked>>
    BY <1>14 DEF Acpi!EndWalk, Acpi!Return
  <2>2. \A n \in 1 .. Len(e) : WalkedPast(n)
    <3>1. CASE firmware.revision = 0
      BY <1>10, <2>1, <3>1, ACPIFacts
    <3>2. CASE firmware.revision # 0
      BY <3>2 DEF WalkedPast
    <3>3. QED
      BY <3>1, <3>2
  <2>3. WalkIsThorough'
    BY <1>1, <1>9, <2>1, <2>2 DEF WalkIsThorough, WalkedPast
  <2>4. StepsInOrder' /\ ControlIsNamed' /\ Acpi!ModeIsAnswered'
    BY <1>1, <1>2, <1>6, <1>7, <1>8, <1>9, <2>1 DEF StepsInOrder, ControlIsNamed, Acpi!ModeIsAnswered
  <2>5. QED
    BY <1>3, <1>4, <2>1, <2>3, <2>4, ACPIFacts
<1>15. CASE Acpi!TakeFADT
  <2>1. step = "walk" /\ entry < sdtCount
    BY <1>15 DEF Acpi!TakeFADT
  <2>2. CASE Acpi!SearchFails
    <3>1. step' = "done" /\ result' = FALSE /\ UNCHANGED <<entry, tries, SCIEnabled, asked>>
      BY <1>15, <2>2 DEF Acpi!TakeFADT, Acpi!Return
    <3>2. SCIEnabled = FALSE
      BY <1>7, <2>2, ACPIFacts
    <3>3. StepsInOrder' /\ ControlIsNamed' /\ Acpi!ModeIsAnswered' /\ WalkIsThorough'
      BY <1>1, <1>2, <1>6, <3>1, <3>2 DEF StepsInOrder, ControlIsNamed, Acpi!ModeIsAnswered, WalkIsThorough
    <3>4. QED
      BY <1>3, <1>4, <3>1, <3>3, ACPIFacts
  <2>3. CASE ~Acpi!SearchFails /\ ~Acpi!IsNamed
    <3>1. entry' = entry + 1 /\ UNCHANGED <<step, result, tries, SCIEnabled, asked>>
      BY <1>15, <2>3 DEF Acpi!TakeFADT
    <3>2. SCIEnabled = FALSE /\ SCIEnabled' = FALSE
      BY <1>7, <2>3, <3>1, ACPIFacts
    <3>3. WalkIsThorough'
      BY <1>12, <2>1, <2>3, <3>1 DEF WalkedPast
    <3>4. StepsInOrder' /\ ControlIsNamed' /\ Acpi!ModeIsAnswered'
      BY <1>1, <1>2, <1>6, <2>1, <3>1, <3>2 DEF StepsInOrder, ControlIsNamed, Acpi!ModeIsAnswered
    <3>5. QED
      BY <1>3, <1>4, <1>5, <2>1, <3>1, <3>3, <3>4, ACPIFacts
  <2>4. CASE ~Acpi!SearchFails /\ Acpi!IsNamed /\ "A" \in mode
    <3>1. SCIEnabled' = TRUE /\ entry' = entry + 1 /\ UNCHANGED <<step, result, tries, asked>>
      BY <1>15, <2>4 DEF Acpi!TakeFADT
    <3>2. asked = TRUE => SCIEnabled = TRUE
      BY ACPIFacts DEF StepsInOrder
    <3>3. ControlIsNamed'
      BY <1>1, <1>2, <1>8, <1>9, <2>1, <2>4, <3>1, <3>2 DEF ControlIsNamed
    <3>4. StepsInOrder' /\ Acpi!ModeIsAnswered'
      BY <1>1, <1>2, <2>1, <3>1 DEF StepsInOrder, Acpi!ModeIsAnswered
    <3>5. QED
      BY <1>3, <1>4, <1>5, <1>11, <2>1, <3>1, <3>3, <3>4, ACPIFacts
  <2>5. CASE ~Acpi!SearchFails /\ Acpi!IsNamed /\ "A" \notin mode /\ firmware.smi
    <3>1. SCIEnabled' = TRUE /\ asked' = TRUE /\ tries' = 0 /\ step' = "wait_A" /\ UNCHANGED <<entry, result>>
      BY <1>15, <2>5 DEF Acpi!TakeFADT
    <3>2. tries' \in 0 .. MaxTries
      BY <3>1, ACPIConstants
    <3>3. StepsInOrder' /\ ControlIsNamed' /\ Acpi!ModeIsAnswered'
      BY <1>1, <1>2, <1>6, <1>9, <2>1, <2>5, <3>1 DEF StepsInOrder, ControlIsNamed, Acpi!ModeIsAnswered
    <3>4. QED
      BY <1>3, <1>4, <1>11, <3>1, <3>2, <3>3, ACPIFacts
  <2>6. CASE ~Acpi!SearchFails /\ Acpi!IsNamed /\ "A" \notin mode /\ ~firmware.smi
    <3>1. SCIEnabled' = TRUE /\ step' = "done" /\ result' = FALSE /\ UNCHANGED <<entry, tries, asked>>
      BY <1>15, <2>6 DEF Acpi!TakeFADT, Acpi!Return
    <3>2. StepsInOrder' /\ ControlIsNamed' /\ Acpi!ModeIsAnswered'
      BY <1>1, <1>2, <1>6, <1>9, <2>6, <3>1 DEF StepsInOrder, ControlIsNamed, Acpi!ModeIsAnswered
    <3>3. QED
      BY <1>3, <1>4, <1>11, <3>1, <3>2, ACPIFacts
  <2>7. QED
    BY <2>2, <2>3, <2>4, <2>5, <2>6
<1>16. CASE Acpi!Poll("A") \/ Acpi!Poll("B")
  <2>1. /\ step \in {"wait_A", "wait_B"} /\ tries < MaxTries /\ tries' = tries + 1
        /\ UNCHANGED <<step, entry, SCIEnabled, asked, result>>
    BY <1>16 DEF Acpi!Poll, Acpi!Waiting, Acpi!MayTry, Acpi!Tried
  <2>2. tries' \in 0 .. MaxTries /\ tries' < MaxTries + 1
    BY <2>1, ACPIFacts, ACPIConstants
  <2>3. StepsInOrder' /\ ControlIsNamed' /\ Acpi!ModeIsAnswered'
    BY <1>1, <1>2, <1>6, <1>7, <1>9, <2>1 DEF StepsInOrder, ControlIsNamed, Acpi!ModeIsAnswered
  <2>4. QED
    BY <1>3, <1>4, <1>6, <1>11, <2>1, <2>2, <2>3, ACPIFacts
<1>17. CASE Acpi!PollSecond
  <2>1. /\ step = "wait_A" /\ (~(tries < MaxTries) \/ "A" \in mode) /\ firmware.pm1b /\ step' = "wait_B"
        /\ UNCHANGED <<tries, entry, SCIEnabled, asked, result>>
    BY <1>17 DEF Acpi!PollSecond, Acpi!MayTry
  <2>2. StepsInOrder' /\ ControlIsNamed' /\ Acpi!ModeIsAnswered'
    BY <1>1, <1>2, <1>6, <1>7, <1>9, <2>1 DEF StepsInOrder, ControlIsNamed, Acpi!ModeIsAnswered
  <2>3. QED
    BY <1>3, <1>4, <1>6, <1>11, <2>1, <2>2, ACPIFacts
<1>18. CASE Acpi!EndWait
  <2>1. /\ \/ step = "wait_A" /\ (~(tries < MaxTries) \/ "A" \in mode) /\ ~firmware.pm1b
           \/ step = "wait_B" /\ (~(tries < MaxTries) \/ "B" \in mode)
        /\ UNCHANGED <<tries, SCIEnabled, asked>>
    BY <1>18 DEF Acpi!EndWait, Acpi!MayTry
  <2>2. CASE tries >= MaxTries
    <3>1. step' = "done" /\ result' = FALSE /\ UNCHANGED entry
      BY <1>18, <2>2 DEF Acpi!EndWait, Acpi!TimedOut, Acpi!Return
    <3>2. tries' = MaxTries
      BY <2>1, <2>2, ACPIFacts, ACPIConstants
    <3>3. StepsInOrder' /\ ControlIsNamed' /\ Acpi!ModeIsAnswered'
      BY <1>1, <1>2, <1>6, <1>7, <1>9, <2>1, <3>1, <3>2 DEF StepsInOrder, ControlIsNamed, Acpi!ModeIsAnswered
    <3>4. QED
      BY <1>3, <1>4, <1>6, <1>11, <2>1, <3>1, <3>3, ACPIFacts
  <2>3. CASE ~(tries >= MaxTries)
    <3>1. step' = "walk" /\ entry' = entry + 1 /\ UNCHANGED result
      BY <1>18, <2>3 DEF Acpi!EndWait, Acpi!TimedOut
    <3>2. tries < MaxTries
      BY <2>3, ACPIFacts, ACPIConstants
    <3>3. "A" \in mode /\ (firmware.pm1b => "B" \in mode)
      BY <1>6, <2>1, <3>2, Zenon
    <3>4. StepsInOrder' /\ ControlIsNamed' /\ Acpi!ModeIsAnswered'
      BY <1>1, <1>2, <1>6, <1>7, <1>9, <2>1, <3>1, <3>3 DEF StepsInOrder, ControlIsNamed, Acpi!ModeIsAnswered
    <3>5. entry < sdtCount
      BY <2>1, ACPIFacts DEF StepsInOrder
    <3>6. QED
      BY <1>3, <1>4, <1>5, <1>6, <1>11, <2>1, <3>1, <3>4, <3>5, ACPIFacts
  <2>4. QED
    BY <2>2, <2>3
<1>19. QED
  BY <1>13, <1>14, <1>15, <1>16, <1>17, <1>18

(* The firmware changes the mode and the kernel powers off. *)
LEMMA ModeStep ==
  ASSUME ACPIInv, Acpi!ChangeMode \/ Acpi!PowerOff
  PROVE  ACPIInv'
<1>1. /\ UNCHANGED <<firmware, place, sdtCount, step, entry, tries, SCIEnabled, asked, result>>
      /\ mode \subseteq mode' /\ mode' \subseteq Acpi!Blocks
  BY ACPIFacts DEF Acpi!ChangeMode, Acpi!PowerOff, Acpi!tables
<1>2. /\ NoRootPassed' /\ Acpi!FirstRootWins' /\ ControlIsNamed' /\ Acpi!ModeIsAnswered'
  BY <1>1, ACPIFacts
     DEF NoRootPassed, Acpi!FirstRootWins, ControlIsNamed, Acpi!ModeIsAnswered, Acpi!SearchFails, Acpi!IsNamed, Acpi!DSDT
<1>3. WalkIsThorough'
  BY <1>1, ACPIFacts DEF WalkIsThorough, WalkedPast, Acpi!IsNamed, Acpi!IsFADT
<1>4. CASE Acpi!ChangeMode
  <2>1. sent' = sent
    BY <1>4 DEF Acpi!ChangeMode
  <2>2. ACPIType'
    BY <1>1, <2>1, ACPIFacts, Zenon DEF ACPIType, Acpi!TypeOK, Acpi!Blocks
  <2>3. StepsInOrder' /\ Acpi!PowerOffIsEarned'
    BY <1>1, <2>1, ACPIFacts DEF StepsInOrder, Acpi!PowerOffIsEarned, Acpi!IsNamed, Acpi!DSDT
  <2>4. QED
    BY <1>2, <1>3, <2>2, <2>3 DEF ACPIInv
<1>5. CASE Acpi!PowerOff
  <2>1. /\ step = "done" /\ SCIEnabled = TRUE /\ "A" \in mode
        /\ sent' = [block \in IF firmware.pm1b THEN Acpi!Blocks ELSE {"A"} |->
                      IF block = "A" THEN firmware.s5 ELSE "zero"]
    BY <1>5, ACPIFacts DEF Acpi!PowerOff, Acpi!MayPowerOff
  <2>2. \A block \in DOMAIN sent' : sent'[block] \in {firmware.s5, "zero"}
    BY <2>1
  <2>3. ACPIType'
    BY <1>1, <2>2, ACPIFacts, Zenon DEF ACPIType, Acpi!TypeOK, Acpi!Blocks
  <2>4. StepsInOrder'
    BY <1>1, <2>1, ACPIFacts DEF StepsInOrder
  <2>5. Acpi!PowerOffIsEarned'
    BY <1>1, <2>1, ACPIFacts DEF Acpi!PowerOffIsEarned, Acpi!IsNamed, Acpi!DSDT, ControlIsNamed, Acpi!SearchFails
  <2>6. QED
    BY <1>2, <1>3, <2>3, <2>4, <2>5 DEF ACPIInv
<1>6. QED
  BY <1>4, <1>5

LEMMA ACPIStep == ACPIInv /\ [Acpi!Next]_acpiVars => ACPIInv'
<1> SUFFICES ASSUME ACPIInv, [Acpi!Next]_acpiVars PROVE ACPIInv'
  OBVIOUS
<1>1. CASE UNCHANGED acpiVars
  <2>1. UNCHANGED <<firmware, step, place, sdtCount, entry, tries, SCIEnabled, asked, mode, result, sent>>
    BY <1>1 DEF acpiVars
  <2>2. ACPIType'
    BY <2>1, ACPIFacts, Zenon DEF ACPIType, Acpi!TypeOK, Acpi!Blocks
  <2>3. StepsInOrder' /\ NoRootPassed' /\ Acpi!FirstRootWins'
    BY <2>1, ACPIFacts DEF StepsInOrder, NoRootPassed, Acpi!FirstRootWins
  <2>4. ControlIsNamed' /\ Acpi!ModeIsAnswered' /\ Acpi!PowerOffIsEarned' /\ WalkIsThorough'
    BY <2>1, ACPIFacts
       DEF ControlIsNamed, Acpi!ModeIsAnswered, Acpi!PowerOffIsEarned, WalkIsThorough, WalkedPast,
           Acpi!SearchFails, Acpi!IsNamed, Acpi!DSDT, Acpi!IsFADT
  <2>5. QED
    BY <2>2, <2>3, <2>4 DEF ACPIInv
<1>2. QED
  BY <1>1, RootStep, WalkStep, ModeStep DEF Acpi!Next, Acpi!Initialize

(* What acpi.cxx finds and answers is right for every set of tables the    *)
(* firmware may have left, every number of places and of tries.            *)
THEOREM TablesAreUsedAlways == BootSpec => []TablesAreUsed
<1> DEFINE Inv == stage = "acpi" => ACPIInv
<1>1. BootInit => Inv
  BY ACPIInit DEF BootInit
<1>2. Inv /\ [BootNext]_bootVars => Inv'
  BY StageSteps, ACPIStep
<1>3. Inv => TablesAreUsed
  <2> SUFFICES ASSUME ACPIInv PROVE /\ Acpi!TypeOK /\ Acpi!FirstRootWins /\ Acpi!ListedFADTIsUsed
                                    /\ Acpi!ModeIsAnswered /\ Acpi!PowerOffIsEarned
    BY DEF TablesAreUsed
  <2>1. DOMAIN firmware.entries = 1 .. Len(firmware.entries)
    BY ACPIFacts
  <2>2. Acpi!ListedFADTIsUsed
    BY <2>1, ACPIFacts DEF Acpi!ListedFADTIsUsed, WalkIsThorough, WalkedPast
  <2>3. QED
    BY <2>2 DEF ACPIInv, ACPIType
<1>4. QED
  BY <1>1, <1>2, <1>3, PTL DEF BootSpec

-----------------------------------------------------------------------------
(* IDE: what the drive makes of the registers is the sector asked for.     *)

LEMMA Quotient ==
  ASSUME NEW n \in Nat
  PROVE  n \div 256 \in Nat
OBVIOUS

LEMMA Division ==
  ASSUME NEW n \in Nat
  PROVE  n % 256 \in 0 .. 255 /\ n = 256 * (n \div 256) + (n % 256)
OBVIOUS

LEMMA Twice == ASSUME NEW n \in Nat PROVE n \div 65536 = (n \div 256) \div 256
OBVIOUS

LEMMA Thrice == ASSUME NEW n \in Nat PROVE n \div 16777216 = (n \div 65536) \div 256
OBVIOUS

LEMMA Whole == ASSUME NEW n \in Nat PROVE n \div 1 = n
OBVIOUS

(* Three bytes and what is left make up the number. *)
LEMMA ThreeBytes ==
  ASSUME NEW n \in Nat
  PROVE  Ide!LinearAddress(n, n \div 16777216) = n
<1> DEFINE a == n \div 256
           b == a \div 256
           c == b \div 256
<1>1. a \in Nat /\ b \in Nat /\ c \in Nat
  BY Quotient
<1>2. n % 256 \in 0 .. 255 /\ n = 256 * a + (n % 256)
  BY Division
<1>3. a % 256 \in 0 .. 255 /\ a = 256 * b + (a % 256)
  BY <1>1, Division
<1>4. b % 256 \in 0 .. 255 /\ b = 256 * c + (b % 256)
  BY <1>1, Division
<1>5. n \div 65536 = b
  BY Twice
<1>6. n \div 16777216 = c
  BY <1>5, Thrice
<1>7. Ide!Byte(n, 1) = n % 256 /\ Ide!Byte(n, 256) = a % 256 /\ Ide!Byte(n, 65536) = b % 256
  BY <1>5, Whole DEF Ide!Byte
<1> HIDE DEF a, b, c
<1>8. Ide!LinearAddress(n, c) = (n % 256) + 256 * ((a % 256) + 256 * ((b % 256) + 256 * c))
  BY <1>7 DEF Ide!LinearAddress
<1>9. (n % 256) + 256 * ((a % 256) + 256 * ((b % 256) + 256 * c)) = n
  BY <1>1, <1>2, <1>3, <1>4
<1> QED
  BY <1>6, <1>8, <1>9

LEMMA CylinderCount ==
  ASSUME NEW n \in Nat, n < 66060288
  PROVE  n \div 1008 \in Nat /\ n \div 1008 < 65536
OBVIOUS

(* Ide!Cylinder, head and sector on a disk of 16 heads and 63 sectors.         *)
LEMMA Geometry ==
  ASSUME NEW lba \in Nat, lba < 66060288
  PROVE  /\ Ide!Cylinder(lba) \in Nat /\ Ide!Cylinder(lba) < 65536
         /\ (Ide!Cylinder(lba) * 16 + Ide!HeadIndex(lba)) * 63 + Ide!SectorNumber(lba) - 1 = lba
<1> DEFINE m == lba + 1 - Ide!SectorNumber(lba)
           t == lba \div 63
           c == m \div 1008
<1>1. Ide!SectorNumber(lba) = (lba % 63) + 1
  BY DEF Ide!SectorNumber, Ide!SectorsPerTrack
<1>2. lba % 63 \in 0 .. 62 /\ t \in Nat /\ lba = 63 * t + (lba % 63)
  OBVIOUS
<1>3. m = 63 * t /\ m \in Nat /\ m < 66060288 /\ lba = m + Ide!SectorNumber(lba) - 1
  BY <1>1, <1>2
<1>4. Ide!Cylinder(lba) = c % 65536 /\ Ide!HeadIndex(lba) = (m % 1008) \div 63
  BY DEF Ide!Cylinder, Ide!HeadIndex, Ide!HeadsPerCylinder, Ide!SectorsPerTrack
<1> HIDE DEF m, t
<1>5. c \in Nat /\ c < 65536
  <2>1. m \in Nat /\ m < 66060288
    BY <1>3
  <2> QED
    BY <2>1, CylinderCount
<1>6. m % 1008 \in 0 .. 1007 /\ m = 1008 * c + (m % 1008)
  BY <1>3
<1> HIDE DEF c
<1>7. c % 65536 = c
  BY <1>5
<1>8. m % 1008 = 63 * (t - 16 * c) /\ t - 16 * c \in 0 .. 15
  BY <1>2, <1>3, <1>5, <1>6
<1>9. (m % 1008) \div 63 = t - 16 * c
  <2>1. \A r \in 0 .. 15 : (63 * r) \div 63 = r
    OBVIOUS
  <2> QED
    BY <1>8, <2>1
<1>10. Ide!Cylinder(lba) = c /\ Ide!HeadIndex(lba) = t - 16 * c
  BY <1>4, <1>7, <1>9
<1>11. (c * 16 + (t - 16 * c)) * 63 = 63 * t
  BY <1>2, <1>5
<1>12. (c * 16 + (t - 16 * c)) * 63 + Ide!SectorNumber(lba) - 1 = lba
  BY <1>1, <1>2, <1>11
<1>13. Ide!Cylinder(lba) \in Nat /\ Ide!Cylinder(lba) < 65536
  BY <1>5, <1>10
<1>14. (Ide!Cylinder(lba) * 16 + Ide!HeadIndex(lba)) * 63 + Ide!SectorNumber(lba) - 1 = lba
  BY <1>10, <1>12
<1> QED
  BY <1>13, <1>14

(* The registers of NativeReadSectors and NativeWriteSectors lead the drive *)
(* to the sector, in the mode the driver chooses for the drive: for all 32 *)
(* bits of a number, and for cylinders of 16 bits.                         *)
THEOREM AddressIsKept ==
  ASSUME NEW lba \in Nat, NEW hasLBA \in BOOLEAN,
         lba < 4294967296, hasLBA \/ lba < 66060288,
         Ide!TransferMode(lba, hasLBA) # "unsupported"
  PROVE  Ide!Addressed(lba, Ide!TransferMode(lba, hasLBA)) = lba
<1> DEFINE top == lba \div 16777216
<1>1. CASE Ide!TransferMode(lba, hasLBA) = "LBA48"
  <2>1. Ide!Byte(lba, 16777216) = top
    BY DEF Ide!Byte
  <2> QED
    BY <1>1, <2>1, ThreeBytes DEF Ide!Addressed
<1>2. CASE Ide!TransferMode(lba, hasLBA) = "LBA28"
  <2>1. lba < 268435456
    BY <1>2 DEF Ide!TransferMode, Ide!LBA28Limit
  <2>2. Ide!Byte(lba, 16777216) % 16 = top
    BY <2>1 DEF Ide!Byte
  <2> QED
    BY <1>2, <2>2, ThreeBytes DEF Ide!Addressed
<1>3. CASE Ide!TransferMode(lba, hasLBA) = "CHS"
  <2> DEFINE c == Ide!Cylinder(lba)
  <2>1. lba < 66060288
    BY <1>3 DEF Ide!TransferMode
  <2>2. \A n \in Nat : n < 65536 => Ide!Byte(n, 1) + 256 * Ide!Byte(n, 256) = n
    BY DEF Ide!Byte
  <2>3. Ide!Byte(c, 1) + 256 * Ide!Byte(c, 256) = c
    BY <2>1, <2>2, Geometry
  <2>4. Ide!GeometricAddress(lba) = (c * 16 + Ide!HeadIndex(lba)) * 63 + Ide!SectorNumber(lba) - 1
    BY <2>3 DEF Ide!GeometricAddress, Ide!HeadsPerCylinder, Ide!SectorsPerTrack
  <2> QED
    BY <1>3, <2>1, <2>4, Geometry DEF Ide!Addressed
<1>4. QED
  BY <1>1, <1>2, <1>3 DEF Ide!TransferMode

(* A channel: the drives' part of a command and the driver's keep step.    *)
Words == {<<>>} \cup (Ide!Types \X Nat \X Nat)
Commands == {"none", "IDENTIFY", "READ", "WRITE", "READ_EXT", "WRITE_EXT"}
DriveState == [is : Drives, status : SUBSET Ide!Flags, command : Commands, at : Nat, left : Nat, word : Nat]

Results == {"none", "SUCCESS", "ERROR", "FAULT", "NOT_READY", "LBA48_UNSUPPORTED"}
TransferState ==
  [at : {"operation", "words", "flush", "done"}, write : BOOLEAN, device : Nat, lba : Sectors,
   count : Counts, operation : Nat, word : Nat, result : Results]

IDEType ==
  /\ drive \in [Ide!Types -> DriveState]
  /\ \A t \in Ide!Types : drive[t].left <= MaxSectorsPerOperation /\ drive[t].word < WordsPerSector
  /\ selected \in Ide!Types /\ moved \in Seq(Words) /\ failed \in BOOLEAN
  /\ \/ driver \in [at : {"select", "present", "identify"}, type : Ide!Types]
     \/ driver \in [at : {"idle"}]
     \/ driver \in TransferState

(* The entries made for the places that have been identified. *)
EntryFor(t) == [type |-> t, lba |-> drive[t].is.lba, sectorsCount |-> Ide!Capacity(drive[t].is), interface |-> "ATA"]
EntryOf(t) == IF drive[t].is.kind = "ata" THEN <<EntryFor(t)>> ELSE <<>>
PlacesAreListed ==
  IF driver.at \in {"select", "present", "identify"}
  THEN devices = IF driver.type = 0 THEN <<>> ELSE EntryOf(0)
  ELSE devices = EntryOf(0) \o EntryOf(1)

(* The address and the sectors of the operation a transfer is at. *)
Target == devices[driver.device].type
Asked == Ide!SectorsOf(driver.operation, driver.count)
Aim == Ide!Addressed(Ide!Start(driver), Ide!TransferMode(Ide!Start(driver), devices[driver.device].lba))

Quiet(t) == drive[t].command = "none" /\ {"BUSY", "REQUEST"} \cap drive[t].status = {}
BeingIdentified(t) ==
  /\ driver.at \in {"present", "identify"} /\ driver.type = t /\ selected = t
  /\ drive[t].command = "IDENTIFY" /\ drive[t].left = 0
  /\ drive[t].status = {"BUSY"} \/ drive[t].status = {"READY", "REQUEST"}
Finishing(t) ==
  /\ selected = t /\ drive[t].status = {"BUSY"} /\ drive[t].left = 0
  /\ \/ driver.at \in {"operation", "done", "idle"} /\ drive[t].command \in {"READ", "READ_EXT"}
     \/ driver.at = "flush" /\ drive[t].command \in {"WRITE", "WRITE_EXT"}
Serving(t) ==
  /\ selected = t /\ driver.at = "words"
  /\ drive[t].command \in (IF driver.write THEN {"WRITE", "WRITE_EXT"} ELSE {"READ", "READ_EXT"})
  /\ \/ drive[t].status = {"BUSY"} /\ drive[t].word = 0
     \/ drive[t].status = {"READY", "REQUEST"}
  /\ drive[t].left > 0 /\ drive[t].left <= Asked
  /\ driver.word = (Asked - drive[t].left) * WordsPerSector + drive[t].word
  /\ drive[t].at = Aim + (Asked - drive[t].left)

KeepsStep(t) ==
  /\ drive[t].is.kind = "absent" =>
       drive[t].command = "none" /\ ("REQUEST" \in drive[t].status => "ERROR" \in drive[t].status)
  /\ drive[t].is.kind = "atapi" =>
       "REQUEST" \notin drive[t].status /\ drive[t].command \in {"none", "IDENTIFY"} /\ drive[t].left = 0
  /\ drive[t].is.kind = "ata" =>
       \/ BeingIdentified(t) \/ Finishing(t) \/ Serving(t)
       \/ /\ Quiet(t)
          /\ driver.at \in {"present", "identify"} => driver.type # t
          /\ driver.at = "words" /\ selected = t => failed = TRUE /\ {"ERROR", "FAULT"} \cap drive[t].status # {}

(* The words that belong to the operations before. *)
Before(operation, count) ==
  IF operation <= Ide!FullTimes(count) THEN operation * MaxSectorsPerOperation ELSE count

DriverKeepsStep ==
  /\ driver.at \in {"present", "identify"} => selected = driver.type
  /\ Ide!Transferring =>
       /\ driver.device \in DOMAIN devices /\ driver.operation <= Ide!Operations(driver.count)
       /\ driver.at \in {"words", "flush"} =>
            /\ driver.operation < Ide!Operations(driver.count) /\ selected = Target
            /\ Ide!TransferMode(Ide!Start(driver), devices[driver.device].lba) # "unsupported"
       /\ driver.at = "words" =>
            /\ driver.word < Asked * WordsPerSector
            /\ Len(moved) = Before(driver.operation, driver.count) * WordsPerSector + driver.word
       /\ driver.at = "flush" =>
            driver.write = TRUE /\ Len(moved) = Before(driver.operation + 1, driver.count) * WordsPerSector
       /\ driver.at = "operation" =>
            /\ Len(moved) = Before(driver.operation, driver.count) * WordsPerSector
            /\ driver.write = TRUE \/ failed = FALSE
       /\ driver.at = "words" /\ driver.write = FALSE /\ failed = TRUE => Quiet(selected)
       /\ driver.at = "done" /\ driver.result = "SUCCESS" =>
            Len(moved) = driver.count * WordsPerSector /\ (failed = TRUE => driver.write = TRUE)

IDEInv == IDEType /\ PlacesAreListed /\ (\A t \in Ide!Types : KeepsStep(t)) /\ DriverKeepsStep /\ Ide!WordsInPlace

LEMMA IDEConstants ==
  /\ MaxSectorsPerOperation \in Nat /\ MaxSectorsPerOperation > 0 /\ MaxSectorsPerOperation < 256
  /\ WordsPerSector \in Nat /\ WordsPerSector > 0
  /\ \A n \in Sectors : n \in Nat
  /\ \A n \in Counts : n \in Nat
<1>1. Ide!IDEAssumption
  BY BootAssumption
<1>2. QED
  BY <1>1 DEF Ide!IDEAssumption

LEMMA SumsFit == \A lba \in Sectors, count \in Counts : lba + count < 4294967296
<1>1. Ide!IDEAssumption
  BY BootAssumption
<1>2. ASSUME NEW lba \in Sectors, NEW count \in Counts PROVE lba + count < 4294967296
  <2>1. lba \in Nat /\ count \in Nat /\ (lba + count) \div 65536 < 65536
    BY <1>1, SMT DEF Ide!IDEAssumption, Ide!SumsHave32Bits
  <2>2. PICK n \in Nat, q \in Nat : n = lba + count /\ q < 65536 /\ n < 65536 * (q + 1)
    BY <2>1, SMT
  <2>3. n < 4294967296
    BY <2>2, SMT
  <2>4. QED
    BY <2>2, <2>3, SMT
<1>3. QED
  BY <1>2, SMT

LEMMA DriveKinds ==
  ASSUME NEW d \in Drives
  PROVE  /\ d.kind \in {"absent", "atapi", "ata"}
         /\ d = Ide!Absent <=> d.kind = "absent"
         /\ d = Ide!Packet <=> d.kind = "atapi"
         /\ d.lba \in BOOLEAN
<1>1. d.lba \in BOOLEAN /\ d \in {Ide!Absent, Ide!Packet, Ide!Drive(d.lba, d.lba48, d.sectors)}
  <2>1. Ide!IDEAssumption
    BY BootAssumption
  <2>2. \A e \in Drives : e \in {Ide!Absent, Ide!Packet, Ide!Drive(e.lba, e.lba48, e.sectors)} /\ e.lba \in BOOLEAN
    BY <2>1, Zenon DEF Ide!IDEAssumption, Ide!DrivesAreKnown
  <2>3. QED
    BY <2>2, Zenon
<1>2. CASE d = Ide!Absent
  BY <1>1, <1>2 DEF Ide!Absent, Ide!Packet
<1>3. CASE d = Ide!Packet
  BY <1>1, <1>3 DEF Ide!Absent, Ide!Packet
<1>4. CASE d = Ide!Drive(d.lba, d.lba48, d.sectors)
  <2>1. d.kind = "ata"
    BY <1>4 DEF Ide!Drive
  <2>2. QED
    BY <1>1, <2>1 DEF Ide!Absent, Ide!Packet
<1>5. QED
  BY <1>1, <1>2, <1>3, <1>4

(* A transfer is cut into operations that add up to it. *)
LEMMA CountIsCut ==
  ASSUME NEW count \in Nat
  PROVE  /\ Ide!FullTimes(count) \in Nat /\ Ide!FullTimes(count) * MaxSectorsPerOperation \in Nat
         /\ Ide!LastTimes(count) \in Nat /\ Ide!LastTimes(count) < MaxSectorsPerOperation
         /\ count = Ide!FullTimes(count) * MaxSectorsPerOperation + Ide!LastTimes(count)
<1> DEFINE m == MaxSectorsPerOperation
           q == count \div m
<1>1. m \in Nat /\ m > 0 /\ m < 256
  BY IDEConstants
<1>2. q \in Nat /\ m * q \in Nat /\ m * q <= count /\ count < m * q + m
  BY <1>1
<1> HIDE DEF q, m
<1>3. m * q = q * m
  BY <1>1, <1>2
<1>4. count - q * m \in Nat /\ count - q * m < m
  BY <1>1, <1>2, <1>3
<1>5. (count - q * m) % 256 = count - q * m
  BY <1>1, <1>4
<1>6. Ide!FullTimes(count) = q
  BY DEF Ide!FullTimes, q, m
<1>7. Ide!LastTimes(count) = count - q * m
  BY <1>5, <1>6 DEF Ide!LastTimes, m
<1>8. QED
  BY <1>2, <1>3, <1>4, <1>6, <1>7 DEF m

LEMMA OperationsAddUp ==
  ASSUME NEW count \in Nat
  PROVE  /\ Ide!Operations(count) \in Nat
         /\ Before(0, count) = 0 /\ Before(Ide!Operations(count), count) = count
         /\ \A n \in Nat : n < Ide!Operations(count) =>
              /\ Ide!SectorsOf(n, count) \in Nat /\ Ide!SectorsOf(n, count) > 0
              /\ Ide!SectorsOf(n, count) <= MaxSectorsPerOperation
              /\ n * MaxSectorsPerOperation \in Nat
              /\ Before(n, count) = n * MaxSectorsPerOperation
              /\ Before(n + 1, count) = n * MaxSectorsPerOperation + Ide!SectorsOf(n, count)
              /\ n * MaxSectorsPerOperation + Ide!SectorsOf(n, count) <= count
<1> DEFINE m == MaxSectorsPerOperation
           q == Ide!FullTimes(count)
           r == Ide!LastTimes(count)
<1>1. m \in Nat /\ m > 0 /\ q \in Nat /\ q * m \in Nat /\ r \in Nat /\ r < m /\ count = q * m + r
  BY IDEConstants, CountIsCut
<1>2. /\ Ide!Operations(count) = q + IF r # 0 THEN 1 ELSE 0
      /\ \A n : Ide!SectorsOf(n, count) = IF n < q THEN m ELSE r
      /\ \A n : Before(n, count) = IF n <= q THEN n * m ELSE count
  BY DEF Ide!Operations, Ide!SectorsOf, Before
<1> HIDE DEF m, q, r
<1>3. ASSUME NEW n \in Nat, n < Ide!Operations(count)
      PROVE  /\ Ide!SectorsOf(n, count) \in Nat /\ Ide!SectorsOf(n, count) > 0
             /\ Ide!SectorsOf(n, count) <= m
             /\ n * m \in Nat
             /\ Before(n, count) = n * m
             /\ Before(n + 1, count) = n * m + Ide!SectorsOf(n, count)
             /\ n * m + Ide!SectorsOf(n, count) <= count
  <2>1. n <= q /\ n * m \in Nat /\ (n + 1) * m = n * m + m
    BY <1>1, <1>2, <1>3
  <2>2. CASE n < q
    <3>1. n + 1 <= q
      BY <1>1, <2>2
    <3>2. (n + 1) * m <= q * m
      BY <1>1, <3>1
    <3>3. QED
      BY <1>1, <1>2, <2>1, <2>2, <3>1, <3>2
  <2>3. CASE n = q
    BY <1>1, <1>2, <1>3, <2>1, <2>3
  <2>4. QED
    BY <1>1, <2>1, <2>2, <2>3
<1>4. Ide!Operations(count) \in Nat /\ Before(0, count) = 0
  BY <1>1, <1>2
<1>5. Before(Ide!Operations(count), count) = count
  BY <1>1, <1>2
<1>6. QED
  BY <1>3, <1>4, <1>5 DEF m

LEMMA IDEFacts ==
  ASSUME IDEInv
  PROVE  /\ drive \in [Ide!Types -> DriveState] /\ DOMAIN drive = Ide!Types
         /\ \A t \in Ide!Types : /\ drive[t] \in DriveState /\ drive[t].is \in Drives
                                 /\ drive[t].left <= MaxSectorsPerOperation /\ drive[t].word < WordsPerSector
                                 /\ KeepsStep(t)
         /\ selected \in Ide!Types /\ moved \in Seq(Words) /\ failed \in BOOLEAN /\ Len(moved) \in Nat
         /\ driver.at \in {"select", "present", "identify", "idle", "operation", "words", "flush", "done"}
         /\ driver.at \in {"select", "present", "identify"} =>
              driver = [at |-> driver.at, type |-> driver.type] /\ driver.type \in Ide!Types
         /\ driver.at = "idle" => driver = [at |-> "idle"]
         /\ driver.at \in {"operation", "words", "flush", "done"} =>
              /\ driver \in TransferState
              /\ driver.write \in BOOLEAN /\ driver.device \in Nat /\ driver.lba \in Nat /\ driver.count \in Nat
              /\ driver.lba \in Sectors /\ driver.count \in Counts /\ driver.operation \in Nat /\ driver.word \in Nat
         /\ PlacesAreListed /\ DriverKeepsStep /\ Ide!WordsInPlace
<1>1. IDEType /\ PlacesAreListed /\ DriverKeepsStep /\ Ide!WordsInPlace /\ \A t \in Ide!Types : KeepsStep(t)
  BY DEF IDEInv
<1>2. /\ drive \in [Ide!Types -> DriveState]
      /\ selected \in Ide!Types /\ moved \in Seq(Words) /\ failed \in BOOLEAN
      /\ \A t \in Ide!Types : drive[t].left <= MaxSectorsPerOperation /\ drive[t].word < WordsPerSector
  BY <1>1, Zenon DEF IDEType
<1>3. DOMAIN drive = Ide!Types /\ \A t \in Ide!Types : drive[t] \in DriveState
  BY <1>2
<1>4. \A t \in Ide!Types : drive[t].is \in Drives
  BY <1>3 DEF DriveState
<1>5. Len(moved) \in Nat
  BY <1>2
<1>6. \/ driver \in [at : {"select", "present", "identify"}, type : Ide!Types]
      \/ driver \in [at : {"idle"}]
      \/ driver \in TransferState
  BY <1>1, Zenon DEF IDEType
<1>7. CASE driver \in [at : {"select", "present", "identify"}, type : Ide!Types]
  BY <1>1, <1>2, <1>3, <1>4, <1>5, <1>7
<1>8. CASE driver \in [at : {"idle"}]
  BY <1>1, <1>2, <1>3, <1>4, <1>5, <1>8
<1>9. CASE driver \in TransferState
  <2>1. /\ driver.at \in {"operation", "words", "flush", "done"} /\ driver.write \in BOOLEAN /\ driver.device \in Nat
        /\ driver.lba \in Sectors /\ driver.count \in Counts /\ driver.operation \in Nat /\ driver.word \in Nat
    BY <1>9 DEF TransferState, Results
  <2>2. driver.lba \in Nat /\ driver.count \in Nat
    BY <2>1, IDEConstants
  <2>3. QED
    BY <1>1, <1>2, <1>3, <1>4, <1>5, <1>9, <2>1, <2>2
<1>10. QED
  BY <1>6, <1>7, <1>8, <1>9

LEMMA IDEInit == Ide!Init => IDEInv
<1> SUFFICES ASSUME Ide!Init PROVE IDEInv
  OBVIOUS
<1>1. PICK master \in Drives, slave \in Drives, floating \in {{}, Ide!Flags} :
        drive = [t \in Ide!Types |->
                   LET d == IF t = 0 THEN master ELSE slave
                   IN  Ide!Plugged(d, IF master = Ide!Absent /\ d = Ide!Absent THEN floating
                                      ELSE IF d.kind = "ata" THEN {"READY"} ELSE {})]
  BY DEF Ide!Init
<1>2. /\ selected = 0 /\ devices = <<>> /\ moved = <<>> /\ failed = FALSE
      /\ driver = [at |-> "select", type |-> 0]
  BY DEF Ide!Init
<1>3. \A t \in Ide!Types :
        /\ drive[t].is \in Drives /\ drive[t].command = "none" /\ drive[t].at = 0 /\ drive[t].left = 0 /\ drive[t].word = 0
        /\ drive[t].status \in {{}, Ide!Flags, {"READY"}}
        /\ drive[t].is.kind = "ata" => drive[t].status = {"READY"}
        /\ drive[t].is.kind = "atapi" => drive[t].status = {}
        /\ drive[t] \in DriveState
  <2> SUFFICES ASSUME NEW t \in Ide!Types
               PROVE  /\ drive[t].is \in Drives /\ drive[t].command = "none" /\ drive[t].at = 0 /\ drive[t].left = 0 /\ drive[t].word = 0
                      /\ drive[t].status \in {{}, Ide!Flags, {"READY"}}
                      /\ drive[t].is.kind = "ata" => drive[t].status = {"READY"}
                      /\ drive[t].is.kind = "atapi" => drive[t].status = {}
                      /\ drive[t] \in DriveState
    OBVIOUS
  <2>1. PICK d \in Drives, status \in {{}, Ide!Flags, {"READY"}} :
          /\ drive[t] = Ide!Plugged(d, status)
          /\ d.kind = "ata" => status = {"READY"}
          /\ d.kind = "atapi" => status = {}
    <3> DEFINE d == IF t = 0 THEN master ELSE slave
               status == IF master = Ide!Absent /\ d = Ide!Absent THEN floating ELSE IF d.kind = "ata" THEN {"READY"} ELSE {}
    <3>1. d \in Drives /\ status \in {{}, Ide!Flags, {"READY"}}
      OBVIOUS
    <3>2. drive[t] = Ide!Plugged(d, status)
      BY <1>1
    <3>3. (d.kind = "ata" => status = {"READY"}) /\ (d.kind = "atapi" => status = {})
      BY <3>1, DriveKinds
    <3>4. QED
      BY <3>1, <3>2, <3>3
  <2>2. drive[t] = [is |-> d, status |-> status, command |-> "none", at |-> 0, left |-> 0, word |-> 0]
    BY <2>1 DEF Ide!Plugged
  <2>3. status \subseteq Ide!Flags
    BY DEF Ide!Flags
  <2>4. QED
    BY <2>1, <2>2, <2>3 DEF DriveState, Commands
<1>4. IDEType
  <2>1. drive \in [Ide!Types -> DriveState]
    <3>1. DOMAIN drive = Ide!Types /\ drive = [t \in Ide!Types |-> drive[t]]
      BY <1>1
    <3>2. QED
      BY <1>3, <3>1
  <2>2. driver \in [at : {"select", "present", "identify"}, type : Ide!Types] /\ selected \in Ide!Types
    BY <1>2 DEF Ide!Types
  <2>3. \A t \in Ide!Types : drive[t].left <= MaxSectorsPerOperation /\ drive[t].word < WordsPerSector
    BY <1>3, IDEConstants
  <2>4. QED
    BY <1>2, <2>1, <2>2, <2>3 DEF IDEType
<1>5. PlacesAreListed
  BY <1>2 DEF PlacesAreListed
<1>6. \A t \in Ide!Types : KeepsStep(t)
  BY <1>2, <1>3 DEF KeepsStep, Quiet, Ide!Flags
<1>7. DriverKeepsStep /\ Ide!WordsInPlace
  BY <1>2 DEF DriverKeepsStep, Ide!Transferring, Ide!WordsInPlace
<1>8. QED
  BY <1>4, <1>5, <1>6, <1>7 DEF IDEInv

(* One drive changes, and stays what it is. *)
LEMMA DriveChanges ==
  ASSUME IDEInv, NEW t \in Ide!Types, NEW r \in DriveState,
         r.is = drive[t].is, r.left <= MaxSectorsPerOperation, r.word < WordsPerSector,
         drive' = [drive EXCEPT ![t] = r]
  PROVE  /\ drive' \in [Ide!Types -> DriveState]
         /\ drive'[t] = r
         /\ \A u \in Ide!Types : /\ drive'[u].is = drive[u].is
                                 /\ drive'[u].left <= MaxSectorsPerOperation /\ drive'[u].word < WordsPerSector
                                 /\ EntryOf(u)' = EntryOf(u)
                                 /\ u # t => drive'[u] = drive[u]
<1>1. drive' \in [Ide!Types -> DriveState] /\ drive'[t] = r /\ \A u \in Ide!Types : u # t => drive'[u] = drive[u]
  BY IDEFacts
<1>2. \A u \in Ide!Types : /\ drive'[u].is = drive[u].is
                           /\ drive'[u].left <= MaxSectorsPerOperation /\ drive'[u].word < WordsPerSector
  BY <1>1, IDEFacts
<1>3. QED
  BY <1>1, <1>2 DEF EntryOf, EntryFor

LEMMA SameAim ==
  ASSUME UNCHANGED <<devices, driver>>
  PROVE  Asked' = Asked /\ Aim' = Aim /\ Target' = Target
BY DEF Asked, Aim, Target

(* A drive answers, offers a sector, ends its command or fails. *)
LEMMA IDEDriveStep == IDEInv /\ Ide!DriveStep => IDEInv'
<1> SUFFICES ASSUME IDEInv, Ide!DriveStep PROVE IDEInv'
  OBVIOUS
<1>1. PICK t \in Ide!Types : /\ "BUSY" \in drive[t].status /\ drive[t].command # "none"
                             /\ Ide!AnswerIdentify(t) \/ Ide!NextSector(t) \/ Ide!EndCommand(t)
  BY DEF Ide!DriveStep
<1>2. UNCHANGED <<selected, devices, driver, moved>>
  BY DEF Ide!DriveStep
<1>3. /\ drive[t].is.kind \in {"ata", "atapi"}
      /\ drive[t].is.kind = "atapi" => drive[t].command = "IDENTIFY" /\ drive[t].left = 0
      /\ drive[t].is.kind = "ata" => BeingIdentified(t) \/ Finishing(t) \/ Serving(t)
      /\ drive[t].is \in Drives /\ drive[t] \in DriveState
      /\ drive[t].left <= MaxSectorsPerOperation /\ drive[t].word < WordsPerSector
  <2>1. KeepsStep(t) /\ drive[t].is \in Drives /\ drive[t] \in DriveState
        /\ drive[t].left <= MaxSectorsPerOperation /\ drive[t].word < WordsPerSector
    BY IDEFacts
  <2>2. drive[t].is.kind \in {"absent", "ata", "atapi"}
    BY <2>1, DriveKinds
  <2>3. ~Quiet(t)
    BY <1>1 DEF Quiet
  <2>4. QED
    BY <1>1, <2>1, <2>2, <2>3 DEF KeepsStep
<1>4. ASSUME NEW r \in DriveState, r.is = drive[t].is, r.left <= MaxSectorsPerOperation, r.word < WordsPerSector,
             drive' = [drive EXCEPT ![t] = r], KeepsStep(t)',
             \/ failed' = failed
             \/ failed' = TRUE /\ (driver.at = "flush" \/ (driver.at = "words" /\ selected = t /\ Quiet(t)'))
      PROVE  IDEInv'
  <2>1. /\ drive' \in [Ide!Types -> DriveState]
        /\ \A u \in Ide!Types : /\ drive'[u].left <= MaxSectorsPerOperation /\ drive'[u].word < WordsPerSector
                                /\ EntryOf(u)' = EntryOf(u)
                                /\ u # t => drive'[u] = drive[u]
    BY <1>4, DriveChanges
  <2>2. failed' \in BOOLEAN
    BY <1>4, IDEFacts
  <2>3. IDEType'
    <3>1. IDEType
      BY DEF IDEInv
    <3>2. QED
      BY <1>2, <2>1, <2>2, <3>1, Zenon DEF IDEType
  <2>4. PlacesAreListed'
    <3>1. EntryOf(0)' = EntryOf(0) /\ EntryOf(1)' = EntryOf(1)
      BY <2>1 DEF Ide!Types
    <3>2. PlacesAreListed
      BY DEF IDEInv
    <3>3. QED
      BY <1>2, <3>1, <3>2 DEF PlacesAreListed
  <2>5. ASSUME NEW u \in Ide!Types, u # t PROVE KeepsStep(u)'
    <3>1. drive'[u] = drive[u] /\ KeepsStep(u) /\ (failed = TRUE => failed' = TRUE)
      BY <1>4, <2>1, <2>5, IDEFacts
    <3>2. QED
      BY <1>2, <3>1, SameAim DEF KeepsStep, BeingIdentified, Finishing, Serving, Quiet
  <2>6. DriverKeepsStep'
    <3>1. DriverKeepsStep /\ failed \in BOOLEAN
      BY IDEFacts
    <3>2. \/ failed' = failed
          \/ failed' = TRUE /\ driver.at = "flush"
          \/ failed' = TRUE /\ driver.at = "words" /\ Quiet(selected)'
      BY <1>4, <1>2 DEF Quiet
    <3>3. driver.at = "words" /\ driver.write = FALSE /\ failed' = TRUE => Quiet(selected)'
      <4>1. CASE failed' = failed /\ Quiet(selected)
        <5>1. selected # t
          BY <1>1, <4>1 DEF Quiet
        <5>2. drive'[selected] = drive[selected]
          BY <2>1, <5>1, IDEFacts
        <5>3. QED
          BY <1>2, <4>1, <5>2 DEF Quiet
      <4>2. CASE ~(failed' = failed /\ Quiet(selected))
        BY <3>1, <3>2, <4>2 DEF DriverKeepsStep, Ide!Transferring
      <4>3. QED
        BY <4>1, <4>2
    <3>4. QED
      BY <1>2, <3>1, <3>2, <3>3, SameAim DEF DriverKeepsStep, Ide!Transferring
  <2>7. Ide!WordsInPlace'
    <3>1. Ide!WordsInPlace /\ (failed = TRUE => failed' = TRUE) /\ failed \in BOOLEAN
      BY <1>4, IDEFacts
    <3>2. QED
      BY <1>2, <3>1 DEF Ide!WordsInPlace, Ide!Transferring, Ide!Wanted, Ide!NoWord
  <2>8. QED
    BY <1>4, <2>3, <2>4, <2>5, <2>6, <2>7 DEF IDEInv
<1>5. ASSUME NEW status \in SUBSET Ide!Flags
      PROVE  LET r == Ide!Plugged(drive[t].is, status)
             IN  /\ r \in DriveState /\ r.is = drive[t].is /\ r.left <= MaxSectorsPerOperation
                 /\ r.word < WordsPerSector /\ r.command = "none" /\ r.left = 0 /\ r.status = status
  BY <1>3, IDEConstants DEF Ide!Plugged, DriveState, Commands
<1>6. ASSUME NEW status \in SUBSET Ide!Flags, Ide!End(t, status)
      PROVE  drive' = [drive EXCEPT ![t] = Ide!Plugged(drive[t].is, status)]
             /\ drive'[t] = Ide!Plugged(drive[t].is, status)
  BY <1>6, IDEFacts DEF Ide!End
<1>7. ASSUME Ide!Offer(t)
      PROVE  LET r == [drive[t] EXCEPT !.status = {"READY", "REQUEST"}]
             IN  /\ r \in DriveState /\ r.is = drive[t].is /\ r.left = drive[t].left /\ r.word = drive[t].word
                 /\ r.command = drive[t].command /\ r.at = drive[t].at /\ r.status = {"READY", "REQUEST"}
                 /\ drive' = [drive EXCEPT ![t] = r] /\ drive'[t] = r /\ failed' = failed
  BY <1>3, <1>7, IDEFacts DEF Ide!Offer, DriveState, Ide!Flags
<1>8. CASE Ide!Offer(t) /\ drive[t].is.kind = "ata" /\ (BeingIdentified(t) \/ (Serving(t) /\ drive[t].left > 0))
  <2>1. KeepsStep(t)'
    BY <1>2, <1>7, <1>8, SameAim DEF KeepsStep, BeingIdentified, Serving
  <2>2. QED
    BY <1>3, <1>4, <1>7, <1>8, <2>1
<1>9. CASE Ide!Fail(t) /\ drive[t].is.kind = "ata" /\ (Serving(t) \/ (Finishing(t) /\ driver.at = "flush"))
  <2>1. PICK cause \in {"ERROR", "FAULT"} : Ide!End(t, {"READY", cause}) /\ failed' = TRUE
    BY <1>9 DEF Ide!Fail
  <2>2. {"READY", cause} \in SUBSET Ide!Flags
    BY DEF Ide!Flags
  <2>3. drive'[t].is = drive[t].is /\ drive'[t].command = "none" /\ drive'[t].status = {"READY", cause}
        /\ drive'[t].left = 0
    BY <1>5, <1>6, <2>1, <2>2
  <2>4. Quiet(t)' /\ selected = t /\ driver.at \in {"words", "flush"}
    BY <1>9, <2>3 DEF Quiet, Serving, Finishing
  <2>5. KeepsStep(t)'
    BY <1>2, <1>9, <2>1, <2>3, <2>4 DEF KeepsStep
  <2>6. QED
    BY <1>4, <1>5, <1>6, <2>1, <2>2, <2>4, <2>5
<1>10. CASE Ide!End(t, {"READY"}) /\ failed' = failed /\ drive[t].is.kind = "ata" /\ Finishing(t)
  <2>1. {"READY"} \in SUBSET Ide!Flags
    BY DEF Ide!Flags
  <2>2. drive'[t].is = drive[t].is /\ drive'[t].command = "none" /\ drive'[t].status = {"READY"}
        /\ drive'[t].left = 0
    BY <1>5, <1>6, <1>10, <2>1
  <2>3. KeepsStep(t)'
    BY <1>2, <1>10, <2>2 DEF KeepsStep, Quiet, Finishing
  <2>4. QED
    BY <1>4, <1>5, <1>6, <1>10, <2>1, <2>3
<1>11. CASE Ide!End(t, {"ERROR"}) /\ failed' = failed /\ drive[t].is.kind = "atapi"
  <2>1. {"ERROR"} \in SUBSET Ide!Flags
    BY DEF Ide!Flags
  <2>2. drive'[t].is = drive[t].is /\ drive'[t].command = "none" /\ drive'[t].status = {"ERROR"}
        /\ drive'[t].left = 0
    BY <1>5, <1>6, <1>11, <2>1
  <2>3. KeepsStep(t)'
    BY <1>11, <2>2 DEF KeepsStep
  <2>4. QED
    BY <1>4, <1>5, <1>6, <1>11, <2>1, <2>3
<1>12. CASE Ide!AnswerIdentify(t)
  <2>1. drive[t].command = "IDENTIFY"
    BY <1>12 DEF Ide!AnswerIdentify
  <2>2. drive[t].is.kind = "ata" => BeingIdentified(t)
    BY <1>3, <2>1 DEF Finishing, Serving
  <2>3. QED
    BY <1>3, <1>8, <1>11, <1>12, <2>2 DEF Ide!AnswerIdentify
<1>13. CASE Ide!NextSector(t)
  <2>1. drive[t].left > 0 /\ (Ide!Offer(t) \/ Ide!Fail(t))
    BY <1>13 DEF Ide!NextSector
  <2>2. drive[t].is.kind = "ata" /\ Serving(t)
    BY <1>3, <2>1 DEF Finishing, BeingIdentified
  <2>3. QED
    BY <1>8, <1>9, <2>1, <2>2
<1>14. CASE Ide!EndCommand(t)
  <2>1. /\ drive[t].left = 0 /\ drive[t].command # "IDENTIFY"
        /\ \/ Ide!End(t, {"READY"}) /\ failed' = failed
           \/ drive[t].command \in {"WRITE", "WRITE_EXT"} /\ Ide!Fail(t)
    BY <1>14 DEF Ide!EndCommand
  <2>2. drive[t].is.kind = "ata" /\ Finishing(t)
    BY <1>3, <2>1 DEF Serving, BeingIdentified
  <2>3. drive[t].command \in {"WRITE", "WRITE_EXT"} => driver.at = "flush"
    BY <2>2 DEF Finishing
  <2>4. QED
    BY <1>9, <1>10, <2>1, <2>2, <2>3
<1>15. QED
  BY <1>1, <1>12, <1>13, <1>14

(* A driver that prepares: no transfer, no command but IDENTIFY. *)
LEMMA Prepared ==
  ASSUME IDEInv, driver.at \in {"select", "present", "identify"}, NEW t \in Ide!Types, drive[t].is.kind = "ata"
  PROVE  /\ driver.type # t \/ driver.at = "select" => Quiet(t)
         /\ driver.at \in {"present", "identify"} /\ driver.type = t => BeingIdentified(t)
BY IDEFacts DEF KeepsStep, BeingIdentified, Finishing, Serving

(* The entries of the places up to the one that has been looked at. *)
LEMMA EntriesFollow ==
  ASSUME IDEInv, driver.at \in {"select", "present", "identify"},
         driver' = Ide!Following(driver.type), devices' = devices \o EntryOf(driver.type),
         \A t \in Ide!Types : EntryOf(t)' = EntryOf(t)
  PROVE  PlacesAreListed'
<1>1. driver.type \in {0, 1} /\ PlacesAreListed /\ EntryOf(0)' = EntryOf(0) /\ EntryOf(1)' = EntryOf(1)
  BY IDEFacts DEF Ide!Types
<1>2. CASE driver.type = 0
  <2>1. devices = <<>> /\ driver' = [at |-> "select", type |-> 1]
    BY <1>1, <1>2 DEF PlacesAreListed, Ide!Following
  <2>2. devices' = EntryOf(0)
    BY <1>2, <2>1 DEF EntryOf
  <2>3. driver'.at = "select" /\ driver'.type = 1
    BY <2>1
  <2>4. QED
    BY <1>1, <2>2, <2>3 DEF PlacesAreListed
<1>3. CASE driver.type = 1
  <2>1. devices = EntryOf(0) /\ driver' = [at |-> "idle"]
    BY <1>1, <1>3 DEF PlacesAreListed, Ide!Following
  <2>2. driver'.at = "idle"
    BY <2>1
  <2>3. devices' = EntryOf(0) \o EntryOf(1)
    BY <1>3, <2>1
  <2>4. QED
    BY <1>1, <2>2, <2>3 DEF PlacesAreListed
<1>4. QED
  BY <1>1, <1>2, <1>3

LEMMA IDESelectStep == IDEInv /\ Ide!SelectDevice => IDEInv'
<1> SUFFICES ASSUME IDEInv, Ide!SelectDevice PROVE IDEInv'
  OBVIOUS
<1> DEFINE s == driver.type
<1>1. /\ driver.at = "select" /\ selected' = s /\ UNCHANGED <<devices, moved, failed>>
      /\ driver' = [driver EXCEPT !.at = "present"] /\ drive' = Ide!Commanded(s, "IDENTIFY", 0, 0)
  BY DEF Ide!SelectDevice
<1>2. driver = [at |-> "select", type |-> s] /\ s \in Ide!Types
  BY <1>1, IDEFacts
<1>3. driver' = [at |-> "present", type |-> s] /\ driver'.at = "present" /\ driver'.type = s
  BY <1>1, <1>2
<1>4. /\ drive' \in [Ide!Types -> DriveState]
      /\ \A t \in Ide!Types : /\ drive'[t].is = drive[t].is
                              /\ drive'[t].left <= MaxSectorsPerOperation /\ drive'[t].word < WordsPerSector
                              /\ EntryOf(t)' = EntryOf(t)
                              /\ t # s \/ drive[s].is.kind = "absent" => drive'[t] = drive[t]
      /\ drive[s].is.kind # "absent" =>
           drive'[s].status = {"BUSY"} /\ drive'[s].command = "IDENTIFY" /\ drive'[s].left = 0
  <2>1. drive[s] \in DriveState /\ drive[s].is \in Drives
    BY <1>2, IDEFacts
  <2>2. drive[s].is = Ide!Absent <=> drive[s].is.kind = "absent"
    BY <2>1, DriveKinds
  <2>3. CASE drive[s].is.kind = "absent"
    BY <1>1, <2>2, <2>3, IDEFacts DEF Ide!Commanded, EntryOf, EntryFor
  <2>4. CASE drive[s].is.kind # "absent"
    <3> DEFINE r == [drive[s] EXCEPT !.status = {"BUSY"}, !.command = "IDENTIFY", !.at = 0, !.left = 0, !.word = 0]
    <3>1. /\ r \in DriveState /\ r.is = drive[s].is /\ r.left = 0 /\ r.word = 0
          /\ r.status = {"BUSY"} /\ r.command = "IDENTIFY"
      BY <2>1 DEF DriveState, Commands, Ide!Flags
    <3>2. drive' = [drive EXCEPT ![s] = r]
      BY <1>1, <2>2, <2>4 DEF Ide!Commanded
    <3> HIDE DEF r
    <3>3. r.left <= MaxSectorsPerOperation /\ r.word < WordsPerSector
      BY <3>1, IDEConstants
    <3>4. QED
      BY <1>2, <2>4, <3>1, <3>2, <3>3, DriveChanges
  <2>5. QED
    BY <2>3, <2>4
<1>5. IDEType'
  <2>1. driver' \in [at : {"select", "present", "identify"}, type : Ide!Types]
    BY <1>2, <1>3
  <2>2. QED
    BY <1>1, <1>2, <1>4, <2>1, IDEFacts DEF IDEType
<1>6. PlacesAreListed'
  <2>1. EntryOf(0)' = EntryOf(0) /\ EntryOf(1)' = EntryOf(1)
    BY <1>4 DEF Ide!Types
  <2>2. PlacesAreListed
    BY DEF IDEInv
  <2>3. QED
    BY <1>1, <1>3, <2>1, <2>2 DEF PlacesAreListed
<1>7. ASSUME NEW t \in Ide!Types PROVE KeepsStep(t)'
  <2>1. KeepsStep(t) /\ drive[t].is \in Drives /\ drive'[t].is = drive[t].is
    BY <1>4, IDEFacts
  <2>2. CASE drive[t].is.kind = "absent"
    BY <1>4, <2>1, <2>2 DEF KeepsStep
  <2>3. CASE drive[t].is.kind = "atapi"
    BY <1>4, <2>1, <2>3 DEF KeepsStep
  <2>4. CASE drive[t].is.kind = "ata" /\ t = s
    BY <1>1, <1>3, <1>4, <2>1, <2>4 DEF KeepsStep, BeingIdentified
  <2>5. CASE drive[t].is.kind = "ata" /\ t # s
    BY <1>1, <1>3, <1>4, <2>1, <2>5, Prepared DEF KeepsStep, Quiet
  <2>6. QED
    BY <2>1, <2>2, <2>3, <2>4, <2>5, DriveKinds
<1>8. DriverKeepsStep' /\ Ide!WordsInPlace'
  BY <1>1, <1>3 DEF DriverKeepsStep, Ide!Transferring, Ide!WordsInPlace
<1>9. QED
  BY <1>5, <1>6, <1>7, <1>8 DEF IDEInv

(* The place has been looked at: the next one follows, or the channel is   *)
(* ready.                                                                  *)
LEMMA IDEFollows ==
  ASSUME IDEInv, driver.at \in {"present", "identify"}, driver' = Ide!Following(driver.type),
         UNCHANGED <<selected, moved, failed>>, devices' = devices \o EntryOf(driver.type),
         drive' \in [Ide!Types -> DriveState],
         \A t \in Ide!Types : /\ drive'[t].is = drive[t].is
                              /\ drive'[t].left <= MaxSectorsPerOperation /\ drive'[t].word < WordsPerSector
                              /\ t # driver.type \/ drive[t].is.kind # "ata" => drive'[t] = drive[t]
                              /\ t = driver.type /\ drive[t].is.kind = "ata" => Quiet(t)'
  PROVE  IDEInv'
<1>1. /\ driver.type \in Ide!Types
      /\ driver' = [at |-> "select", type |-> 1] \/ driver' = [at |-> "idle"]
  BY IDEFacts DEF Ide!Following
<1>2. driver'.at \in {"select", "idle"}
  BY <1>1
<1>3. IDEType'
  <2>1. \/ driver' \in [at : {"select", "present", "identify"}, type : Ide!Types]
        \/ driver' \in [at : {"idle"}]
    BY <1>1 DEF Ide!Types
  <2>2. QED
    BY <2>1, IDEFacts DEF IDEType
<1>4. PlacesAreListed'
  <2>1. \A t \in Ide!Types : EntryOf(t)' = EntryOf(t)
    BY DEF EntryOf, EntryFor
  <2>2. QED
    BY <2>1, EntriesFollow
<1>5. ASSUME NEW t \in Ide!Types PROVE KeepsStep(t)'
  <2>1. KeepsStep(t) /\ drive[t].is \in Drives /\ drive'[t].is = drive[t].is
    BY IDEFacts
  <2>2. CASE drive[t].is.kind = "absent" \/ drive[t].is.kind = "atapi"
    <3>1. drive'[t] = drive[t]
      BY <2>2
    <3>2. QED
      BY <2>1, <2>2, <3>1 DEF KeepsStep
  <2>3. CASE drive[t].is.kind = "ata"
    <3>1. Quiet(t)'
      <4>1. CASE t = driver.type
        BY <2>3, <4>1
      <4>2. CASE t # driver.type
        BY <2>3, <4>2, Prepared DEF Quiet
      <4>3. QED
        BY <4>1, <4>2
    <3>2. QED
      BY <1>2, <2>1, <2>3, <3>1 DEF KeepsStep
  <2>4. QED
    BY <2>1, <2>2, <2>3, DriveKinds
<1>6. DriverKeepsStep' /\ Ide!WordsInPlace'
  BY <1>2 DEF DriverKeepsStep, Ide!Transferring, Ide!WordsInPlace
<1>7. QED
  BY <1>3, <1>4, <1>5, <1>6 DEF IDEInv

LEMMA ShortLists ==
  ASSUME NEW a, NEW b
  PROVE  /\ <<>> \o <<>> = <<>> /\ <<a>> \o <<>> = <<a>> /\ <<>> \o <<b>> = <<b>> /\ <<a>> \o <<b>> = <<a, b>>
         /\ <<>> \in Seq({a, b}) /\ <<a>> \in Seq({a, b})
<1>1. <<>> \in Seq({a, b}) /\ <<a>> \in Seq({a, b}) /\ <<b>> \in Seq({a, b})
  OBVIOUS
<1>2. <<>> \o <<>> = <<>> /\ <<a>> \o <<>> = <<a>> /\ <<>> \o <<b>> = <<b>>
  BY <1>1, ConcatEmptySeq
<1>3. <<a>> \o <<b>> = Append(<<a>>, b)
  BY <1>1, AppendIsConcat
<1>4. Append(<<a>>, b) = <<a, b>>
  <2>1. <<a, b>> \in Seq({a, b}) /\ Len(<<a, b>>) = 2 /\ <<a, b>>[1] = a /\ <<a, b>>[2] = b
    OBVIOUS
  <2>2. Len(<<a>>) = 1 /\ <<a>>[1] = a
    OBVIOUS
  <2> DEFINE s == Append(<<a>>, b)
  <2>3. s \in Seq({a, b}) /\ Len(s) = 2 /\ s[1] = a /\ s[2] = b
    BY <1>1, <2>2, AppendProperties
  <2>4. \A n \in 1 .. 2 : n = 1 \/ n = 2
    OBVIOUS
  <2> HIDE DEF s
  <2>5. s = <<a, b>>
    BY <2>1, <2>3, <2>4, SeqEqual
  <2>6. QED
    BY <2>5 DEF s
<1>5. QED
  BY <1>1, <1>2, <1>3, <1>4

LEMMA EntryIsATA ==
  ASSUME IDEInv, NEW t \in Ide!Types
  PROVE  /\ EntryFor(t).type = t /\ EntryFor(t).lba \in BOOLEAN
         /\ EntryFor(t).sectorsCount < Ide!LBA28Limit
<1>1. drive[t].is.lba \in BOOLEAN
  BY IDEFacts, DriveKinds
<1>2. QED
  BY <1>1 DEF EntryFor, Ide!Capacity, Ide!LBA28Limit

(* The list of a channel that is ready. *)
LEMMA ListedPlaces ==
  ASSUME IDEInv, driver.at \notin {"select", "present", "identify"}
  PROVE  /\ \A n \in DOMAIN devices : /\ devices[n].type \in Ide!Types /\ devices[n].sectorsCount < Ide!LBA28Limit
                                      /\ drive[devices[n].type].is.kind = "ata" /\ devices[n].lba \in BOOLEAN
         /\ {devices[n].type : n \in DOMAIN devices} = Ide!Places("ata")
         /\ Len(devices) = Cardinality(Ide!Places("ata"))
<1>1. devices = EntryOf(0) \o EntryOf(1)
  BY IDEFacts DEF PlacesAreListed
<1>2. /\ EntryFor(0).type = 0 /\ EntryFor(0).sectorsCount < Ide!LBA28Limit /\ EntryFor(0).lba \in BOOLEAN
      /\ EntryFor(1).type = 1 /\ EntryFor(1).sectorsCount < Ide!LBA28Limit /\ EntryFor(1).lba \in BOOLEAN
  BY EntryIsATA DEF Ide!Types
<1>3. Ide!Places("ata") = {t \in {0, 1} : drive[t].is.kind = "ata"}
  BY DEF Ide!Places, Ide!Types
<1>4. CASE drive[0].is.kind = "ata" /\ drive[1].is.kind = "ata"
  <2>1. devices = <<EntryFor(0), EntryFor(1)>>
    BY <1>1, <1>4, ShortLists DEF EntryOf
  <2>2. DOMAIN devices = {1, 2} /\ Len(devices) = 2 /\ devices[1] = EntryFor(0) /\ devices[2] = EntryFor(1)
    BY <2>1
  <2>3. Ide!Places("ata") = {0, 1}
    BY <1>3, <1>4
  <2>4. Cardinality({0, 1}) = 2
    <3>1. Cardinality({0}) = 1 /\ IsFiniteSet({0})
      BY FS_Singleton
    <3>2. {0} \cup {1} = {0, 1} /\ 1 \notin {0}
      OBVIOUS
    <3>3. Cardinality({0} \cup {1}) = Cardinality({0}) + 1
      BY <3>1, <3>2, FS_AddElement
    <3>4. QED
      BY <3>1, <3>2, <3>3
  <2>5. QED
    BY <1>2, <1>4, <2>2, <2>3, <2>4 DEF Ide!Types
<1>5. CASE drive[0].is.kind = "ata" /\ drive[1].is.kind # "ata"
  <2>1. devices = <<EntryFor(0)>>
    BY <1>1, <1>5, ShortLists DEF EntryOf
  <2>2. DOMAIN devices = {1} /\ Len(devices) = 1 /\ devices[1] = EntryFor(0)
    BY <2>1
  <2>3. Ide!Places("ata") = {0}
    BY <1>3, <1>5
  <2>4. Cardinality({0}) = 1
    BY FS_Singleton
  <2>5. QED
    BY <1>2, <1>5, <2>2, <2>3, <2>4 DEF Ide!Types
<1>6. CASE drive[0].is.kind # "ata" /\ drive[1].is.kind = "ata"
  <2>1. devices = <<EntryFor(1)>>
    BY <1>1, <1>6, ShortLists DEF EntryOf
  <2>2. DOMAIN devices = {1} /\ Len(devices) = 1 /\ devices[1] = EntryFor(1)
    BY <2>1
  <2>3. Ide!Places("ata") = {1}
    BY <1>3, <1>6
  <2>4. Cardinality({1}) = 1
    BY FS_Singleton
  <2>5. QED
    BY <1>2, <1>6, <2>2, <2>3, <2>4 DEF Ide!Types
<1>7. CASE drive[0].is.kind # "ata" /\ drive[1].is.kind # "ata"
  <2>1. devices = <<>>
    BY <1>1, <1>7, ShortLists DEF EntryOf
  <2>2. DOMAIN devices = {} /\ Len(devices) = 0
    BY <2>1
  <2>3. Ide!Places("ata") = {}
    BY <1>3, <1>7
  <2>4. Cardinality({}) = 0
    BY FS_EmptySet
  <2>5. QED
    BY <2>2, <2>3, <2>4
<1>8. QED
  BY <1>4, <1>5, <1>6, <1>7

LEMMA IDEPresenceStep == IDEInv /\ Ide!TestPresence => IDEInv'
<1> SUFFICES ASSUME IDEInv, Ide!TestPresence PROVE IDEInv'
  OBVIOUS
<1> DEFINE s == driver.type
<1>1. /\ driver.at = "present" /\ UNCHANGED <<drive, selected, devices, moved, failed>>
      /\ driver' = IF drive[selected].status # {} THEN [driver EXCEPT !.at = "identify"] ELSE Ide!Following(s)
  BY DEF Ide!TestPresence, Ide!IsPresent, Ide!Status
<1>2. driver = [at |-> "present", type |-> s] /\ s \in Ide!Types /\ selected = s
  BY <1>1, IDEFacts DEF DriverKeepsStep
<1>3. CASE drive[s].status # {}
  <2>1. driver' = [at |-> "identify", type |-> s] /\ driver'.at = "identify" /\ driver'.type = s
    BY <1>1, <1>2, <1>3
  <2>2. IDEType'
    <3>1. driver' \in [at : {"select", "present", "identify"}, type : Ide!Types]
      BY <1>2, <2>1
    <3>2. QED
      BY <1>1, <3>1, IDEFacts DEF IDEType
  <2>3. PlacesAreListed'
    <3>1. PlacesAreListed
      BY IDEFacts
    <3>2. QED
      BY <1>1, <2>1, <3>1 DEF PlacesAreListed, EntryOf, EntryFor
  <2>4. ASSUME NEW t \in Ide!Types PROVE KeepsStep(t)'
    <3>1. KeepsStep(t)
      BY IDEFacts
    <3>2. QED
      BY <1>1, <2>1, <3>1 DEF KeepsStep, BeingIdentified, Finishing, Serving, Quiet
  <2>5. DriverKeepsStep' /\ Ide!WordsInPlace'
    BY <1>1, <1>2, <2>1 DEF DriverKeepsStep, Ide!Transferring, Ide!WordsInPlace
  <2>6. QED
    BY <2>2, <2>3, <2>4, <2>5 DEF IDEInv
<1>4. CASE drive[s].status = {}
  <2>1. drive[s].is.kind # "ata"
    BY <1>1, <1>2, <1>4, Prepared DEF BeingIdentified
  <2>2. driver' = Ide!Following(s)
    BY <1>1, <1>2, <1>4
  <2>3. devices' = devices \o EntryOf(s)
    <3>1. EntryOf(s) = <<>>
      BY <2>1 DEF EntryOf
    <3>2. PICK S : devices \in Seq(S)
      <4>1. devices = <<>> \/ devices = EntryOf(0)
        BY <1>1, IDEFacts DEF PlacesAreListed
      <4>2. devices \in Seq({EntryFor(0), EntryFor(0)})
        BY <4>1, ShortLists DEF EntryOf
      <4>3. QED
        BY <4>2
    <3>3. QED
      BY <1>1, <3>1, <3>2, ConcatEmptySeq
  <2>4. QED
    BY <1>1, <2>1, <2>2, <2>3, IDEFacts, IDEFollows
<1>5. QED
  BY <1>3, <1>4

LEMMA IDEIdentifyStep == IDEInv /\ Ide!Identify => IDEInv'
<1> SUFFICES ASSUME IDEInv, Ide!Identify PROVE IDEInv'
  OBVIOUS
<1> DEFINE s == driver.type
<1>1. /\ driver.at = "identify" /\ UNCHANGED <<selected, moved, failed>> /\ driver' = Ide!Following(s)
  BY DEF Ide!Identify
<1>2. s \in Ide!Types /\ selected = s
  BY <1>1, IDEFacts DEF DriverKeepsStep
<1>3. drive[s].is \in Drives /\ KeepsStep(s) /\ drive[s] \in DriveState
  BY <1>2, IDEFacts
<1>4. PICK S : devices \in Seq(S) /\ EntryFor(s) \in S
  <2>1. devices = <<>> \/ devices = EntryOf(0)
    BY <1>1, IDEFacts DEF PlacesAreListed
  <2>2. devices \in Seq({EntryFor(0), EntryFor(s)})
    BY <2>1, ShortLists DEF EntryOf
  <2>3. QED
    BY <2>2
<1>5. CASE drive[s].is.kind = "ata"
  <2>1. BeingIdentified(s)
    BY <1>1, <1>2, <1>5, Prepared
  <2>2. "ERROR" \notin drive[s].status
    BY <2>1 DEF BeingIdentified
  <2>3. devices' = Append(devices, Ide!Entry(drive[s].is)) /\ Ide!End(s, {"READY"})
    BY <1>2, <2>2 DEF Ide!Identify, Ide!IdentifyFailed, Ide!Status
  <2>4. Ide!Entry(drive[s].is) = EntryFor(s)
    BY <1>2, <1>5 DEF Ide!Entry, EntryFor
  <2>5. devices' = devices \o EntryOf(s)
    BY <1>4, <1>5, <2>3, <2>4, AppendIsConcat DEF EntryOf
  <2> DEFINE r == Ide!Plugged(drive[s].is, {"READY"})
  <2>6. /\ r \in DriveState /\ r.is = drive[s].is /\ r.left <= MaxSectorsPerOperation /\ r.word < WordsPerSector
        /\ r.command = "none" /\ r.status = {"READY"}
    BY <1>3, IDEConstants DEF Ide!Plugged, DriveState, Commands, Ide!Flags
  <2>7. drive' = [drive EXCEPT ![s] = r]
    BY <2>3 DEF Ide!End
  <2> HIDE DEF r
  <2>8. /\ drive' \in [Ide!Types -> DriveState] /\ drive'[s] = r
        /\ \A t \in Ide!Types : /\ drive'[t].is = drive[t].is
                                /\ drive'[t].left <= MaxSectorsPerOperation /\ drive'[t].word < WordsPerSector
                                /\ t # s => drive'[t] = drive[t]
    BY <1>2, <2>6, <2>7, DriveChanges
  <2>10. \A t \in Ide!Types : t = s => Quiet(t)'
    BY <2>6, <2>8 DEF Quiet
  <2>11. QED
    BY <1>1, <1>5, <2>5, <2>8, <2>10, IDEFollows
<1>6. CASE drive[s].is.kind # "ata"
  <2>1. ~("ERROR" \notin drive[s].status /\ "REQUEST" \in drive[s].status)
    BY <1>3, <1>6, DriveKinds DEF KeepsStep
  <2>2. ~Ide!IsPacketDevice(drive[s].is)
    BY DEF Ide!IsPacketDevice, Ide!Signature
  <2>3. UNCHANGED <<devices, drive>>
    BY <1>2, <2>1, <2>2 DEF Ide!Identify, Ide!IdentifyFailed, Ide!Status
  <2>4. devices' = devices \o EntryOf(s)
    BY <1>4, <1>6, <2>3, ConcatEmptySeq DEF EntryOf
  <2>5. QED
    BY <1>1, <1>6, <2>3, <2>4, IDEFacts, IDEFollows
<1>7. QED
  BY <1>5, <1>6

-----------------------------------------------------------------------------
(* IDE: transfers. *)

(* The list stays when what is plugged in does. *)
LEMMA ListStays ==
  ASSUME IDEInv, driver.at \notin {"select", "present", "identify"}, UNCHANGED devices,
         driver'.at \notin {"select", "present", "identify"},
         \A t \in Ide!Types : drive'[t].is = drive[t].is
  PROVE  PlacesAreListed'
<1>1. PlacesAreListed /\ drive'[0].is = drive[0].is /\ drive'[1].is = drive[1].is
  BY IDEFacts DEF Ide!Types
<1>2. EntryOf(0)' = EntryOf(0) /\ EntryOf(1)' = EntryOf(1)
  BY <1>1 DEF EntryOf, EntryFor
<1>3. QED
  BY <1>1, <1>2 DEF PlacesAreListed

(* Between two operations no drive is at a command, but the last one read  *)
(* from may still have to end its own.                                     *)
LEMMA DrivesRest ==
  ASSUME IDEInv, UNCHANGED <<drive, selected>>, driver'.at \in {"operation", "done", "idle"},
         \/ driver.at \in {"operation", "done", "idle"}
         \/ driver.at \in {"words", "flush"} /\ Quiet(selected),
         NEW t \in Ide!Types
  PROVE  KeepsStep(t)'
<1>1. KeepsStep(t) /\ drive[t].is \in Drives
  BY IDEFacts
<1>2. CASE drive[t].is.kind # "ata"
  BY <1>1, <1>2, DriveKinds DEF KeepsStep
<1>3. CASE drive[t].is.kind = "ata"
  <2>1. Quiet(t) \/ (Finishing(t) /\ driver.at \in {"operation", "done", "idle"})
    BY <1>1, <1>3 DEF KeepsStep, Quiet, BeingIdentified, Serving, Finishing
  <2>2. Quiet(t)' \/ Finishing(t)'
    BY <2>1 DEF Quiet, Finishing
  <2>3. QED
    BY <1>3, <2>2 DEF KeepsStep
<1>4. QED
  BY <1>2, <1>3

LEMMA TransferType ==
  ASSUME IDEInv, UNCHANGED <<drive, selected>>, moved' \in {moved, <<>>}, failed' \in BOOLEAN,
         driver' \in [at : {"idle"}] \/ driver' \in TransferState
  PROVE  IDEType'
<1>1. moved' \in Seq(Words)
  <2>1. moved \in Seq(Words) /\ <<>> \in Seq(Words)
    BY IDEFacts, EmptySeq
  <2>2. QED
    BY <2>1
<1>2. IDEType
  BY DEF IDEInv
<1>3. QED
  BY <1>1, <1>2, Zenon DEF IDEType

LEMMA IDETransferStep ==
  ASSUME IDEInv, NEW write \in BOOLEAN, NEW device \in DOMAIN devices, NEW lba \in Sectors, NEW count \in Counts,
         Ide!Transfer(write, device, lba, count)
  PROVE  IDEInv'
<1>1. /\ driver.at = "idle" /\ moved' = <<>> /\ failed' = FALSE /\ UNCHANGED <<drive, selected, devices>>
      /\ driver' = [at |-> "operation", write |-> write, device |-> device, lba |-> lba,
                    count |-> count, operation |-> 0, word |-> 0, result |-> "none"]
  BY DEF Ide!Transfer
<1>2. device \in Nat /\ count \in Nat
  <2>1. PICK S : devices \in Seq(S)
    <3>1. EntryOf(0) \in Seq({EntryFor(0), EntryFor(1)}) /\ EntryOf(1) \in Seq({EntryFor(0), EntryFor(1)})
      BY ShortLists DEF EntryOf
    <3>2. devices = EntryOf(0) \o EntryOf(1)
      BY <1>1, IDEFacts DEF PlacesAreListed
    <3>3. QED
      BY <3>1, <3>2, ConcatProperties
  <2>2. device \in 1 .. Len(devices) /\ Len(devices) \in Nat
    BY <2>1
  <2>3. QED
    BY <2>2, IDEConstants
<1>3. driver' \in TransferState /\ driver'.at = "operation"
  BY <1>1, <1>2 DEF TransferState, Results
<1>4. IDEType'
  BY <1>1, <1>3, TransferType
<1>5. PlacesAreListed'
  BY <1>1, <1>3, ListStays
<1>6. \A t \in Ide!Types : KeepsStep(t)'
  BY <1>1, <1>3, DrivesRest
<1>7. DriverKeepsStep'
  <2>1. Ide!Operations(count) \in Nat /\ Before(0, count) = 0 /\ 0 * WordsPerSector = 0
    BY <1>2, OperationsAddUp, IDEConstants
  <2>2. 0 <= Ide!Operations(count) /\ Len(<<>>) = 0
    BY <2>1
  <2>3. QED
    BY <1>1, <2>1, <2>2 DEF DriverKeepsStep
<1>8. Ide!WordsInPlace'
  BY <1>1 DEF Ide!WordsInPlace
<1>9. QED
  BY <1>4, <1>5, <1>6, <1>7, <1>8 DEF IDEInv

(* The driver leaves a transfer, or goes on to the next operation, with    *)
(* the words it has.                                                       *)
LEMMA IDELeaves ==
  ASSUME IDEInv, UNCHANGED <<drive, selected, devices, moved, failed>>,
         \/ driver.at = "operation"
         \/ driver.at \in {"words", "flush"} /\ Quiet(selected),
         driver' \in TransferState, driver'.at \in {"operation", "done"},
         driver'.write = driver.write, driver'.device = driver.device, driver'.lba = driver.lba,
         driver'.count = driver.count,
         DriverKeepsStep'
  PROVE  IDEInv'
<1>1. IDEType'
  BY IDEFacts, TransferType
<1>2. PlacesAreListed'
  BY ListStays
<1>3. \A t \in Ide!Types : KeepsStep(t)'
  BY DrivesRest
<1>4. Ide!WordsInPlace'
  <2>1. Ide!WordsInPlace /\ Ide!Transferring
    BY IDEFacts DEF Ide!Transferring
  <2>2. QED
    BY <2>1 DEF Ide!WordsInPlace, Ide!Wanted
<1>5. QED
  BY <1>1, <1>2, <1>3, <1>4 DEF IDEInv

LEMMA IDEEndStep == IDEInv /\ Ide!EndTransfer => IDEInv'
<1> SUFFICES ASSUME IDEInv, Ide!EndTransfer PROVE IDEInv'
  OBVIOUS
<1>1. /\ driver.at = "operation" /\ driver.operation = Ide!Operations(driver.count)
      /\ UNCHANGED <<drive, selected, devices, moved, failed>>
      /\ driver' = [driver EXCEPT !.at = "done", !.result = "SUCCESS"]
  BY DEF Ide!EndTransfer, Ide!Finished
<1>2. driver \in TransferState /\ driver.count \in Nat /\ DriverKeepsStep /\ failed \in BOOLEAN
  BY <1>1, IDEFacts
<1>3. /\ driver' \in TransferState /\ driver'.at = "done" /\ driver'.result = "SUCCESS"
      /\ driver'.write = driver.write /\ driver'.device = driver.device /\ driver'.lba = driver.lba
      /\ driver'.count = driver.count /\ driver'.operation = driver.operation
  BY <1>1, <1>2 DEF TransferState, Results
<1>4. Len(moved) = driver.count * WordsPerSector /\ (driver.write = TRUE \/ failed = FALSE)
  BY <1>1, <1>2, OperationsAddUp DEF DriverKeepsStep, Ide!Transferring
<1>5. DriverKeepsStep'
  BY <1>1, <1>2, <1>3, <1>4 DEF DriverKeepsStep, Ide!Transferring
<1>6. QED
  BY <1>1, <1>3, <1>5, IDELeaves

LEMMA IDEEndWriteStep == IDEInv /\ Ide!EndWrite => IDEInv'
<1> SUFFICES ASSUME IDEInv, Ide!EndWrite PROVE IDEInv'
  OBVIOUS
<1>1. /\ driver.at = "flush" /\ "BUSY" \notin drive[selected].status
      /\ UNCHANGED <<drive, selected, devices, moved, failed>>
      /\ driver' = [driver EXCEPT !.at = "operation", !.operation = driver.operation + 1]
  BY DEF Ide!EndWrite, Ide!Status
<1>2. driver \in TransferState /\ driver.operation \in Nat /\ driver.count \in Nat /\ DriverKeepsStep
  BY <1>1, IDEFacts
<1>3. /\ driver' \in TransferState /\ driver'.at = "operation"
      /\ driver'.write = driver.write /\ driver'.device = driver.device /\ driver'.lba = driver.lba
      /\ driver'.count = driver.count /\ driver'.operation = driver.operation + 1
  <2>1. PICK n \in Nat : n = driver.operation + 1
    BY <1>2
  <2>2. driver' = [driver EXCEPT !.at = "operation", !.operation = n]
    BY <1>1, <2>1
  <2>3. driver' \in TransferState
    BY <1>2, <2>2 DEF TransferState
  <2>4. QED
    BY <1>2, <2>1, <2>2, <2>3 DEF TransferState
<1>4. Quiet(selected)
  <2>1. selected = Target /\ driver.device \in DOMAIN devices
    BY <1>1, <1>2 DEF DriverKeepsStep, Ide!Transferring
  <2>2. drive[selected].is.kind = "ata" /\ selected \in Ide!Types
    BY <1>1, <2>1, ListedPlaces DEF Target
  <2>3. KeepsStep(selected)
    BY <2>2, IDEFacts
  <2>4. QED
    BY <1>1, <2>2, <2>3 DEF KeepsStep, BeingIdentified, Finishing, Serving
<1>5. DriverKeepsStep'
  <2>1. /\ driver.device \in DOMAIN devices /\ driver.operation < Ide!Operations(driver.count)
        /\ driver.write = TRUE /\ Len(moved) = Before(driver.operation + 1, driver.count) * WordsPerSector
    BY <1>1, <1>2 DEF DriverKeepsStep, Ide!Transferring
  <2>2. driver.operation + 1 <= Ide!Operations(driver.count)
    <3>1. Ide!Operations(driver.count) \in Nat
      BY <1>2, OperationsAddUp
    <3>2. QED
      BY <1>2, <2>1, <3>1
  <2>3. QED
    BY <1>1, <1>3, <2>1, <2>2 DEF DriverKeepsStep, Ide!Transferring
<1>6. QED
  BY <1>1, <1>3, <1>4, <1>5, IDELeaves

LEMMA IDEReturnStep == IDEInv /\ Ide!Return => IDEInv'
<1> SUFFICES ASSUME IDEInv, Ide!Return PROVE IDEInv'
  OBVIOUS
<1>1. /\ driver.at = "done" /\ driver' = [at |-> "idle"] /\ moved' = <<>> /\ failed' = FALSE
      /\ UNCHANGED <<drive, selected, devices>>
  BY DEF Ide!Return
<1>2. driver' \in [at : {"idle"}] /\ driver'.at = "idle"
  BY <1>1
<1>3. IDEType'
  BY <1>1, <1>2, TransferType
<1>4. PlacesAreListed'
  BY <1>1, <1>2, ListStays
<1>5. \A t \in Ide!Types : KeepsStep(t)'
  BY <1>1, <1>2, DrivesRest
<1>6. DriverKeepsStep' /\ Ide!WordsInPlace'
  BY <1>1, <1>2 DEF DriverKeepsStep, Ide!Transferring, Ide!WordsInPlace
<1>7. QED
  BY <1>3, <1>4, <1>5, <1>6 DEF IDEInv

LEMMA TargetIsDrive ==
  ASSUME IDEInv, driver.at \in {"operation", "words", "flush"}
  PROVE  /\ Target \in Ide!Types /\ drive[Target].is.kind = "ata" /\ devices[driver.device].lba \in BOOLEAN
         /\ driver.device \in DOMAIN devices
BY IDEFacts, ListedPlaces DEF Target, DriverKeepsStep, Ide!Transferring

(* With the drive selected no longer busy none is at a command. *)
LEMMA NoneIsBusy ==
  ASSUME IDEInv, driver.at = "operation", "BUSY" \notin drive[selected].status,
         NEW t \in Ide!Types, drive[t].is.kind = "ata"
  PROVE  Quiet(t)
BY IDEFacts DEF KeepsStep, BeingIdentified, Finishing, Serving

LEMMA AddressedIsNatural ==
  ASSUME NEW lba \in Nat, NEW way
  PROVE  Ide!Addressed(lba, way) \in Nat
<1>1. \A n \in Nat : Ide!Byte(n, 1) \in Nat /\ Ide!Byte(n, 256) \in Nat /\ Ide!Byte(n, 65536) \in Nat
                     /\ Ide!Byte(n, 16777216) \in Nat
  BY DEF Ide!Byte
<1>2. Ide!Byte(lba, 16777216) % 16 \in Nat
  BY <1>1
<1>3. \A top \in Nat : Ide!LinearAddress(lba, top) \in Nat
  BY <1>1 DEF Ide!LinearAddress
<1>4. /\ Ide!SectorNumber(lba) \in Nat /\ Ide!SectorNumber(lba) >= 1
      /\ lba + 1 - Ide!SectorNumber(lba) \in Nat
  BY DEF Ide!SectorNumber, Ide!SectorsPerTrack
<1> DEFINE m == lba + 1 - Ide!SectorNumber(lba)
<1> HIDE DEF m
<1>5. m \in Nat
  BY <1>4 DEF m
<1>6. (m \div 1008) % 65536 \in Nat /\ (m % 1008) \div 63 \in Nat
  BY <1>5
<1>7. Ide!Cylinder(lba) \in Nat /\ Ide!HeadIndex(lba) \in Nat
  BY <1>6 DEF Ide!Cylinder, Ide!HeadIndex, m, Ide!HeadsPerCylinder, Ide!SectorsPerTrack
<1>8. Ide!GeometricAddress(lba) \in Nat
  BY <1>1, <1>4, <1>7 DEF Ide!GeometricAddress, Ide!HeadsPerCylinder, Ide!SectorsPerTrack
<1>9. QED
  BY <1>1, <1>2, <1>3, <1>8 DEF Ide!Addressed

LEMMA StartIsNatural ==
  ASSUME IDEInv, driver.at \in {"operation", "words", "flush"}
  PROVE  Ide!Start(driver) \in Nat /\ Aim \in Nat
<1>1. /\ driver.lba \in Nat /\ driver.operation \in Nat
  BY IDEFacts
<1>2. driver.operation * MaxSectorsPerOperation \in Nat
  BY <1>1, IDEConstants
<1>3. Ide!Start(driver) \in Nat
  BY <1>1, <1>2 DEF Ide!Start
<1>4. QED
  BY <1>3, AddressedIsNatural DEF Aim

LEMMA IDEStartStep == IDEInv /\ Ide!StartOperation => IDEInv'
<1> SUFFICES ASSUME IDEInv, Ide!StartOperation PROVE IDEInv'
  OBVIOUS
<1> DEFINE way == Ide!TransferMode(Ide!Start(driver), devices[driver.device].lba)
<1>1. /\ driver.at = "operation" /\ driver.operation < Ide!Operations(driver.count)
      /\ UNCHANGED <<devices, moved, failed>>
  BY DEF Ide!StartOperation
<1>2. /\ driver \in TransferState /\ driver.operation \in Nat /\ driver.count \in Nat /\ driver.write \in BOOLEAN
      /\ DriverKeepsStep /\ failed \in BOOLEAN
  BY <1>1, IDEFacts
<1>3. /\ driver.device \in DOMAIN devices /\ (driver.write = TRUE \/ failed = FALSE)
      /\ Len(moved) = Before(driver.operation, driver.count) * WordsPerSector
  BY <1>1, <1>2 DEF DriverKeepsStep, Ide!Transferring
<1>4. /\ Asked \in Nat /\ Asked > 0 /\ Asked <= MaxSectorsPerOperation
      /\ Before(driver.operation, driver.count) \in Nat
      /\ Ide!Operations(driver.count) \in Nat
  BY <1>1, <1>2, OperationsAddUp DEF Asked
<1>5. CASE way = "unsupported"
  <2>1. driver' = [driver EXCEPT !.at = "done", !.result = "LBA48_UNSUPPORTED"] /\ UNCHANGED <<drive, selected>>
    BY <1>5 DEF Ide!StartOperation, Ide!Finished
  <2>2. /\ driver' \in TransferState /\ driver'.at = "done" /\ driver'.result = "LBA48_UNSUPPORTED"
        /\ driver'.write = driver.write /\ driver'.device = driver.device /\ driver'.lba = driver.lba
        /\ driver'.count = driver.count /\ driver'.operation = driver.operation
    BY <1>2, <2>1 DEF TransferState, Results
  <2>3. driver.operation <= Ide!Operations(driver.count)
    BY <1>1, <1>2, <1>4
  <2>4. DriverKeepsStep'
    BY <1>1, <1>3, <2>2, <2>3 DEF DriverKeepsStep, Ide!Transferring
  <2>5. QED
    BY <1>1, <2>1, <2>2, <2>4, IDELeaves
<1>6. CASE way # "unsupported"
  <2> DEFINE command == Ide!CommandName(driver.write, way)
  <2>1. /\ "BUSY" \notin drive[selected].status /\ selected' = Target
        /\ drive' = Ide!Commanded(Target, command, Aim, Asked)
        /\ driver' = [driver EXCEPT !.at = "words", !.word = 0]
    BY <1>6 DEF Ide!StartOperation, Ide!MayCommand, Ide!Status, Target, Aim, Asked
  <2>2. PICK t \in Ide!Types : t = Target /\ drive[t].is.kind = "ata"
    BY <1>1, TargetIsDrive
  <2>3. command \in Commands /\ command \in (IF driver.write THEN {"WRITE", "WRITE_EXT"} ELSE {"READ", "READ_EXT"})
    BY <1>2 DEF Ide!CommandName, Commands
  <2>4. PICK r \in DriveState :
          /\ drive' = [drive EXCEPT ![t] = r] /\ r.is = drive[t].is /\ r.status = {"BUSY"} /\ r.command = command
          /\ r.at = Aim /\ r.left = Asked /\ r.word = 0
    <3> DEFINE r == [drive[t] EXCEPT !.status = {"BUSY"}, !.command = command, !.at = Aim, !.left = Asked, !.word = 0]
    <3>1. drive[t] \in DriveState /\ drive[t].is # Ide!Absent
      BY <2>2, IDEFacts, DriveKinds
    <3>2. Aim \in Nat /\ {"BUSY"} \in SUBSET Ide!Flags
      BY <1>1, StartIsNatural DEF Ide!Flags
    <3>3. drive' = [drive EXCEPT ![t] = r]
      BY <2>1, <2>2, <3>1 DEF Ide!Commanded
    <3> HIDE DEF command
    <3>4. /\ r \in DriveState /\ r.is = drive[t].is /\ r.status = {"BUSY"} /\ r.command = command
          /\ r.at = Aim /\ r.left = Asked /\ r.word = 0
      BY <1>4, <2>3, <3>1, <3>2 DEF DriveState
    <3>5. QED
      BY <3>3, <3>4
  <2>5. /\ drive' \in [Ide!Types -> DriveState] /\ drive'[t] = r
        /\ \A u \in Ide!Types : /\ drive'[u].is = drive[u].is
                                /\ drive'[u].left <= MaxSectorsPerOperation /\ drive'[u].word < WordsPerSector
                                /\ u # t => drive'[u] = drive[u]
    BY <1>4, <2>4, DriveChanges, IDEConstants
  <2>6. /\ driver' \in TransferState /\ driver'.at = "words" /\ driver'.word = 0
        /\ driver'.write = driver.write /\ driver'.device = driver.device /\ driver'.lba = driver.lba
        /\ driver'.count = driver.count /\ driver'.operation = driver.operation
    BY <1>2, <2>1 DEF TransferState
  <2>7. Asked' = Asked /\ Aim' = Aim /\ Target' = Target
    BY <1>1, <2>6 DEF Asked, Aim, Target, Ide!Start
  <2>8. IDEType'
    BY <1>1, <2>1, <2>2, <2>5, <2>6, IDEFacts, Zenon DEF IDEType
  <2>9. PlacesAreListed'
    BY <1>1, <2>5, <2>6, ListStays
  <2>10. ASSUME NEW u \in Ide!Types PROVE KeepsStep(u)'
    <3>1. KeepsStep(u) /\ drive[u].is \in Drives
      BY IDEFacts
    <3>2. CASE u = t
      <4>1. drive'[u].is.kind = "ata" /\ selected' = u
        BY <2>1, <2>2, <2>5, <3>2
      <4>2. (Asked - Asked) * WordsPerSector + 0 = 0 /\ Aim + (Asked - Asked) = Aim /\ Asked <= Asked
        BY <1>1, <1>4, StartIsNatural, IDEConstants
      <4>3. Serving(u)'
        BY <1>4, <2>3, <2>4, <2>5, <2>6, <2>7, <3>2, <4>1, <4>2 DEF Serving
      <4>4. QED
        BY <4>1, <4>3 DEF KeepsStep
    <3>3. CASE u # t /\ drive[u].is.kind = "ata"
      <4>1. Quiet(u)' /\ selected' # u
        BY <1>1, <2>1, <2>2, <2>5, <3>3, NoneIsBusy DEF Quiet
      <4>2. QED
        BY <2>5, <2>6, <3>3, <4>1 DEF KeepsStep
    <3>4. CASE u # t /\ drive[u].is.kind # "ata"
      BY <2>5, <3>1, <3>4 DEF KeepsStep
    <3>5. QED
      BY <3>2, <3>3, <3>4
  <2>11. DriverKeepsStep'
    <3>1. 0 < Asked * WordsPerSector
      BY <1>4, IDEConstants
    <3>2. Before(driver.operation, driver.count) * WordsPerSector + 0 = Len(moved)
      BY <1>3, <1>4, IDEConstants
    <3>3. driver.operation <= Ide!Operations(driver.count)
      BY <1>1, <1>2, <1>4
    <3>4. Ide!TransferMode(Ide!Start(driver), devices[driver.device].lba)' = way
      BY <1>1, <2>6 DEF Ide!Start
    <3>5. QED
      BY <1>1, <1>3, <1>6, <2>1, <2>6, <2>7, <3>1, <3>2, <3>3, <3>4 DEF DriverKeepsStep, Ide!Transferring
  <2>12. Ide!WordsInPlace'
    <3>1. Ide!WordsInPlace /\ Ide!Transferring
      BY <1>1, IDEFacts DEF Ide!Transferring
    <3>2. QED
      BY <1>1, <2>6, <3>1 DEF Ide!WordsInPlace, Ide!Wanted
  <2>13. QED
    BY <2>8, <2>9, <2>10, <2>11, <2>12 DEF IDEInv
<1>7. QED
  BY <1>5, <1>6

LEMMA DivideByWords ==
  ASSUME NEW a \in Nat, NEW w \in Nat, w < WordsPerSector
  PROVE  /\ a * WordsPerSector + w \in Nat
         /\ (a * WordsPerSector + w) \div WordsPerSector = a /\ (a * WordsPerSector + w) % WordsPerSector = w
<1> DEFINE c == WordsPerSector
           n == a * c + w
           d == n \div c
           s == n % c
<1>1. c \in Nat /\ c > 0 /\ a * c \in Nat /\ n \in Nat
  BY IDEConstants
<1>2. d \in Nat /\ s \in Nat /\ s < c /\ n = c * d + s /\ c * d \in Nat
  <2> HIDE DEF n, c
  <2>1. QED
    BY <1>1
<1>3. n = a * c + w
  OBVIOUS
<1> HIDE DEF n, d, s
<1>4. CASE a > d
  <2>1. a * c >= (d + 1) * c /\ (d + 1) * c = c * d + c
    BY <1>1, <1>2, <1>4
  <2>2. QED
    BY <1>1, <1>2, <1>3, <2>1
<1>5. CASE a < d
  <2>1. d * c >= (a + 1) * c /\ (a + 1) * c = a * c + c /\ d * c = c * d
    BY <1>1, <1>2, <1>5
  <2>2. QED
    BY <1>1, <1>2, <1>3, <2>1
<1>6. CASE a = d
  <2>1. a * c = c * d
    BY <1>1, <1>2, <1>6
  <2>2. s = w
    BY <1>1, <1>2, <1>3, <2>1
  <2>3. QED
    BY <1>1, <1>6, <2>2 DEF n, d, s
<1>7. QED
  BY <1>2, <1>4, <1>5, <1>6

(* A transfer that no cylinder of more than 16 bits is needed for. *)
WithinCylinders == devices[driver.device].lba \/ driver.lba + driver.count <= 65536 * 1008

(* A word is moved, or sent to a drive that does not take it: what has to  *)
(* be shown of the drive and of the driver.                                *)
Moves(word) ==
  /\ driver.at = "words" /\ UNCHANGED <<selected, devices, failed>>
  /\ drive' \in [Ide!Types -> DriveState]
  /\ \A t \in Ide!Types : /\ drive'[t].is = drive[t].is
                          /\ drive'[t].left <= MaxSectorsPerOperation /\ drive'[t].word < WordsPerSector
                          /\ t # selected => drive'[t] = drive[t]
                          /\ t = selected => KeepsStep(t)'
  /\ driver' \in TransferState /\ driver'.at \in {"words", "flush", "operation"}
  /\ driver'.write = driver.write /\ driver'.device = driver.device /\ driver'.lba = driver.lba
  /\ driver'.count = driver.count
  /\ moved' = Append(moved, word)
  /\ \/ word = <<>> /\ driver.write = TRUE /\ failed = TRUE
     \/ WithinCylinders => word = Ide!Wanted(Len(moved) + 1)
  /\ DriverKeepsStep'

LEMMA IDEMoves == ASSUME IDEInv, NEW word \in Words, Moves(word) PROVE IDEInv'
<1>0. /\ driver.at = "words" /\ UNCHANGED <<selected, devices, failed>>
      /\ drive' \in [Ide!Types -> DriveState]
      /\ \A t \in Ide!Types : /\ drive'[t].is = drive[t].is
                              /\ drive'[t].left <= MaxSectorsPerOperation /\ drive'[t].word < WordsPerSector
                              /\ t # selected => drive'[t] = drive[t]
                              /\ t = selected => KeepsStep(t)'
      /\ driver' \in TransferState /\ driver'.at \in {"words", "flush", "operation"}
      /\ driver'.write = driver.write /\ driver'.device = driver.device /\ driver'.lba = driver.lba
      /\ driver'.count = driver.count
      /\ moved' = Append(moved, word)
      /\ \/ word = <<>> /\ driver.write = TRUE /\ failed = TRUE
         \/ WithinCylinders => word = Ide!Wanted(Len(moved) + 1)
      /\ DriverKeepsStep'
  BY Zenon DEF Moves
<1>1. IDEType'
  <2>1. moved' \in Seq(Words)
    BY <1>0, IDEFacts, AppendProperties
  <2>2. IDEType
    BY DEF IDEInv
  <2>3. QED
    BY <1>0, <2>1, <2>2, Zenon DEF IDEType
<1>2. PlacesAreListed'
  BY <1>0, ListStays
<1>3. ASSUME NEW t \in Ide!Types PROVE KeepsStep(t)'
  <2>1. CASE t # selected
    <3>1. KeepsStep(t) /\ drive'[t] = drive[t]
      BY <1>0, <2>1, IDEFacts
    <3>2. drive[t].is.kind = "ata" => Quiet(t)
      BY <1>0, <2>1, <3>1 DEF KeepsStep, BeingIdentified, Finishing, Serving
    <3>3. QED
      BY <1>0, <2>1, <3>1, <3>2 DEF KeepsStep, Quiet
  <2>2. QED
    BY <1>0, <2>1
<1>4. Ide!WordsInPlace'
  <2>1. Ide!WordsInPlace /\ Ide!Transferring /\ moved \in Seq(Words) /\ Len(moved) \in Nat
    BY <1>0, IDEFacts DEF Ide!Transferring
  <2>2. /\ DOMAIN moved' = 1 .. Len(moved) + 1 /\ DOMAIN moved = 1 .. Len(moved) /\ moved'[Len(moved) + 1] = word
        /\ \A n \in 1 .. Len(moved) : moved'[n] = moved[n]
    BY <1>0, <2>1, AppendProperties
  <2>3. \A n : Ide!Wanted(n)' = Ide!Wanted(n)
    BY <1>0 DEF Ide!Wanted
  <2> SUFFICES ASSUME WithinCylinders, NEW n \in DOMAIN moved'
               PROVE  moved'[n] = Ide!Wanted(n) \/ (moved'[n] = <<>> /\ driver.write /\ failed)
    BY <1>0, <2>3 DEF WithinCylinders, Ide!WordsInPlace, Ide!NoWord
  <2>4. n \in 1 .. Len(moved) \/ n = Len(moved) + 1
    BY <2>1, <2>2
  <2>5. CASE n \in 1 .. Len(moved)
    BY <2>1, <2>2, <2>5 DEF WithinCylinders, Ide!WordsInPlace, Ide!NoWord
  <2>6. CASE n = Len(moved) + 1
    BY <1>0, <2>2, <2>6
  <2>7. QED
    BY <2>4, <2>5, <2>6
<1>5. \A t \in Ide!Types : KeepsStep(t)'
  BY <1>3
<1>6. QED
  BY <1>0, <1>1, <1>2, <1>4, <1>5, Zenon DEF IDEInv

(* The word a drive offers is the one that is wanted. *)
LEMMA OfferedIsWanted ==
  ASSUME IDEInv, driver.at = "words", Serving(selected), WithinCylinders
  PROVE  Ide!Wanted(Len(moved) + 1) = <<selected, drive[selected].at, drive[selected].word>>
<1>1. PICK n \in Nat, lba \in Nat, count \in Nat, l \in Nat, w \in Nat, a \in Nat, m \in Nat :
        /\ n = driver.operation /\ lba = driver.lba /\ count = driver.count
        /\ l = drive[selected].left /\ w = drive[selected].word /\ a = Asked /\ m = MaxSectorsPerOperation
        /\ w < WordsPerSector /\ l > 0 /\ l <= a
  <2>1. /\ driver.operation \in Nat /\ driver.lba \in Nat /\ driver.count \in Nat
        /\ drive[selected] \in DriveState /\ drive[selected].word < WordsPerSector
    BY IDEFacts
  <2>2. driver.operation < Ide!Operations(driver.count)
    BY IDEFacts DEF DriverKeepsStep, Ide!Transferring
  <2>3. Asked \in Nat
    BY <2>1, <2>2, OperationsAddUp DEF Asked
  <2>4. drive[selected].left \in Nat /\ drive[selected].word \in Nat
    BY <2>1 DEF DriveState
  <2>5. drive[selected].left > 0 /\ drive[selected].left <= Asked
    BY DEF Serving
  <2>6. QED
    BY <2>1, <2>3, <2>4, <2>5, IDEConstants, Zenon
<1>2. /\ n < Ide!Operations(count) /\ selected = devices[driver.device].type
      /\ Ide!TransferMode(Ide!Start(driver), devices[driver.device].lba) # "unsupported"
      /\ Len(moved) = Before(n, count) * WordsPerSector + driver.word
  BY <1>1, IDEFacts DEF DriverKeepsStep, Ide!Transferring, Target
<1>3. driver.word = (a - l) * WordsPerSector + w /\ drive[selected].at = Aim + (a - l)
  BY <1>1 DEF Serving
<1>4. Before(n, count) = n * m /\ n * m \in Nat /\ a > 0 /\ n * m + a <= count
  <2>1. a = Ide!SectorsOf(n, count)
    BY <1>1 DEF Asked
  <2>2. n \in Nat /\ count \in Nat /\ n < Ide!Operations(count) /\ m = MaxSectorsPerOperation
    BY <1>1, <1>2
  <2>3. QED
    BY <2>1, <2>2, OperationsAddUp, Zenon
<1>5. Ide!Start(driver) = lba + n * m /\ lba + n * m \in Nat /\ lba + n * m < lba + count
  BY <1>1, <1>4 DEF Ide!Start
<1>6. Aim = lba + n * m
  <2> DEFINE hasLBA == devices[driver.device].lba
             start == lba + n * m
  <2>1. hasLBA \in BOOLEAN
    BY TargetIsDrive
  <2>2. start \in Nat /\ start < 4294967296 /\ (hasLBA \/ start < 66060288)
    <3>1. lba + count < 4294967296
      <4>1. driver.lba \in Sectors /\ driver.count \in Counts
        BY IDEFacts, Zenon
      <4>2. QED
        BY <1>1, <4>1, SumsFit, SMT
    <3>2. hasLBA \/ lba + count <= 66060288
      BY <1>1, SMT DEF WithinCylinders
    <3>3. QED
      BY <1>1, <1>4, <1>5, <3>1, <3>2, SMT
  <2>3. Ide!TransferMode(start, hasLBA) # "unsupported" /\ Aim = Ide!Addressed(start, Ide!TransferMode(start, hasLBA))
    BY <1>2, <1>5 DEF Aim
  <2> HIDE DEF start, hasLBA
  <2>4. Aim = start
    BY <2>1, <2>2, <2>3, AddressIsKept
  <2>5. QED
    BY <2>4 DEF start
<1>7. PICK b \in Nat : b = n * m + (a - l)
  BY <1>1, <1>4
<1>8. Len(moved) = b * WordsPerSector + w
  <2>1. n * m \in Nat /\ a - l \in Nat /\ WordsPerSector \in Nat
    BY <1>1, <1>4, IDEConstants
  <2>2. b * WordsPerSector = (n * m) * WordsPerSector + (a - l) * WordsPerSector
    <3> DEFINE k == n * m
               rest == a - l
    <3>1. k \in Nat /\ rest \in Nat /\ b = k + rest
      BY <1>7, <2>1
    <3> HIDE DEF k, rest
    <3>2. b * WordsPerSector = k * WordsPerSector + rest * WordsPerSector
      BY <2>1, <3>1
    <3>3. QED
      BY <3>2 DEF k, rest
  <2>3. (n * m) * WordsPerSector \in Nat /\ (a - l) * WordsPerSector \in Nat
    <3> DEFINE k == n * m
               rest == a - l
    <3>1. k \in Nat /\ rest \in Nat
      BY <2>1
    <3> HIDE DEF k, rest
    <3>2. k * WordsPerSector \in Nat /\ rest * WordsPerSector \in Nat
      BY <2>1, <3>1
    <3>3. QED
      BY <3>2 DEF k, rest
  <2>4. Len(moved) = (n * m) * WordsPerSector + ((a - l) * WordsPerSector + w)
    BY <1>2, <1>3, <1>4, Zenon
  <2>5. QED
    <3> DEFINE all    == b * WordsPerSector
               before == (n * m) * WordsPerSector
               here   == (a - l) * WordsPerSector
    <3>1. /\ before \in Nat /\ here \in Nat /\ w \in Nat
          /\ all = before + here /\ Len(moved) = before + (here + w)
      BY <1>1, <2>2, <2>3, <2>4, Zenon
    <3> HIDE DEF all, before, here
    <3>2. Len(moved) = all + w
      BY <3>1
    <3>3. QED
      BY <3>2, Zenon DEF all
<1>9. /\ Len(moved) \in Nat /\ Len(moved) \div WordsPerSector = b /\ Len(moved) % WordsPerSector = w
  BY <1>1, <1>8, DivideByWords
<1>10. Len(moved) + 1 - 1 = Len(moved)
  BY <1>9
<1>11. Ide!Wanted(Len(moved) + 1) = <<selected, lba + b, w>>
  BY <1>1, <1>2, <1>9, <1>10 DEF Ide!Wanted
<1>12. lba + b = drive[selected].at
  <2> DEFINE before == n * m
  <2>1. before \in Nat /\ Aim = lba + before /\ b = before + (a - l)
    BY <1>4, <1>6, <1>7, Zenon
  <2>2. drive[selected].at = Aim + (a - l)
    BY <1>3, Zenon
  <2> HIDE DEF before
  <2>3. QED
    BY <1>1, <2>1, <2>2
<1>13. QED
  BY <1>1, <1>11, <1>12

LEMMA IDEServedStep ==
  ASSUME IDEInv, driver.at = "words", Serving(selected), drive[selected].status = {"READY", "REQUEST"},
         Ide!MoveWord, UNCHANGED <<selected, devices, failed>>
  PROVE  IDEInv'
<1>1. PICK t \in Ide!Types : t = selected
  BY IDEFacts
<1>2. /\ driver \in TransferState /\ driver.operation \in Nat /\ driver.count \in Nat /\ driver.word \in Nat
      /\ driver.write \in BOOLEAN /\ DriverKeepsStep /\ failed \in BOOLEAN /\ Len(moved) \in Nat
      /\ drive[t] \in DriveState /\ drive[t].left <= MaxSectorsPerOperation /\ drive[t].word < WordsPerSector
      /\ drive[t].left \in Nat /\ drive[t].word \in Nat /\ drive[t].at \in Nat
  <2>1. /\ driver \in TransferState /\ driver.operation \in Nat /\ driver.count \in Nat /\ driver.word \in Nat
        /\ driver.write \in BOOLEAN /\ DriverKeepsStep /\ failed \in BOOLEAN /\ Len(moved) \in Nat
        /\ drive[t] \in DriveState /\ drive[t].left <= MaxSectorsPerOperation /\ drive[t].word < WordsPerSector
    BY IDEFacts
  <2>2. QED
    BY <2>1 DEF DriveState
<1>3. /\ driver.device \in DOMAIN devices /\ driver.operation < Ide!Operations(driver.count) /\ selected = Target
      /\ Ide!TransferMode(Ide!Start(driver), devices[driver.device].lba) # "unsupported"
      /\ Len(moved) = Before(driver.operation, driver.count) * WordsPerSector + driver.word
      /\ driver.write = FALSE /\ failed = TRUE => Quiet(selected)
  BY <1>2 DEF DriverKeepsStep, Ide!Transferring
<1>4. driver.write = TRUE \/ failed = FALSE
  BY <1>2, <1>3 DEF Quiet
<1>5. PICK n \in Nat, l \in Nat, w \in Nat, a \in Nat, k \in Nat, p \in Nat, c \in Nat, d \in Nat :
        /\ n = driver.operation /\ l = drive[t].left /\ w = drive[t].word /\ a = Asked /\ k = driver.word
        /\ p = drive[t].at /\ c = WordsPerSector /\ d = Before(driver.operation, driver.count)
        /\ w < c /\ l > 0 /\ l <= a /\ c > 0 /\ Aim \in Nat
        /\ Before(driver.operation + 1, driver.count) = d + a
        /\ driver.operation + 1 <= Ide!Operations(driver.count)
  <2>1. /\ Asked \in Nat /\ Before(driver.operation, driver.count) \in Nat
        /\ Before(driver.operation + 1, driver.count) = Before(driver.operation, driver.count) + Asked
        /\ Ide!Operations(driver.count) \in Nat
    <3>1. driver.operation \in Nat /\ driver.count \in Nat /\ driver.operation < Ide!Operations(driver.count)
      BY <1>2, <1>3
    <3>2. /\ Ide!Operations(driver.count) \in Nat /\ Asked \in Nat
          /\ driver.operation * MaxSectorsPerOperation \in Nat
          /\ Before(driver.operation, driver.count) = driver.operation * MaxSectorsPerOperation
          /\ Before(driver.operation + 1, driver.count) = driver.operation * MaxSectorsPerOperation + Asked
      BY <3>1, OperationsAddUp, Zenon DEF Asked
    <3>3. QED
      BY <3>2, Zenon
  <2>2. driver.operation + 1 <= Ide!Operations(driver.count)
    BY <1>2, <1>3, <2>1
  <2>3. Aim \in Nat
    BY StartIsNatural
  <2>4. drive[t].left > 0 /\ drive[t].left <= Asked
    BY <1>1 DEF Serving
  <2>5. /\ driver.operation \in Nat /\ drive[t].left \in Nat /\ drive[t].word \in Nat /\ Asked \in Nat
        /\ driver.word \in Nat /\ drive[t].at \in Nat /\ WordsPerSector \in Nat
        /\ Before(driver.operation, driver.count) \in Nat
    BY <1>2, <2>1, IDEConstants
  <2>6. drive[t].word < WordsPerSector /\ WordsPerSector > 0
    BY <1>2, IDEConstants
  <2>7. QED
    BY <2>1, <2>2, <2>3, <2>4, <2>5, <2>6, Zenon
<1>6. k = (a - l) * c + w /\ p = Aim + (a - l)
  BY <1>1, <1>5 DEF Serving
<1>7. /\ drive' = IF w + 1 < c THEN [drive EXCEPT ![t] = [drive[t] EXCEPT !.word = w + 1]]
                  ELSE [drive EXCEPT ![t] = [drive[t] EXCEPT !.status = {"BUSY"}, !.word = 0, !.at = p + 1, !.left = l - 1]]
      /\ moved' = Append(moved, <<selected, drive[selected].at, drive[selected].word>>)
      /\ driver' = IF k + 1 < a * c THEN [driver EXCEPT !.word = k + 1]
                   ELSE IF driver.write THEN [driver EXCEPT !.at = "flush"]
                   ELSE [driver EXCEPT !.at = "operation", !.operation = n + 1]
  <2>1. "REQUEST" \in drive[t].status /\ selected = t /\ w = drive[t].word /\ p = drive[t].at /\ l = drive[t].left
    BY <1>1, <1>5
  <2>2. drive' = IF w + 1 < c THEN [drive EXCEPT ![t] = [drive[t] EXCEPT !.word = w + 1]]
                 ELSE [drive EXCEPT ![t] = [drive[t] EXCEPT !.status = {"BUSY"}, !.word = 0, !.at = p + 1, !.left = l - 1]]
    <3>1. drive' = Ide!WordMoved
      BY DEF Ide!MoveWord
    <3>2. WordsPerSector = c /\ t \in DOMAIN drive
      BY <1>1, <1>5, IDEFacts
    <3>3. CASE w + 1 < c
      <4>1. drive' = [drive EXCEPT ![selected].word = @ + 1]
        BY <2>1, <3>1, <3>2, <3>3, Zenon DEF Ide!WordMoved
      <4>2. QED
        BY <2>1, <3>2, <3>3, <4>1
    <3>4. CASE ~(w + 1 < c)
      <4>1. drive' = [drive EXCEPT ![t] = [drive[t] EXCEPT !.status = {"BUSY"}, !.word = 0,
                                                       !.at = drive[t].at + 1, !.left = drive[t].left - 1]]
        BY <2>1, <3>1, <3>2, <3>4, Zenon DEF Ide!WordMoved
      <4>2. QED
        BY <2>1, <3>4, <4>1, Zenon
    <3>5. QED
      BY <3>3, <3>4
  <2>3. moved' = Append(moved, <<selected, drive[selected].at, drive[selected].word>>)
    BY <2>1 DEF Ide!MoveWord, Ide!WordOffered, Ide!Status
  <2>4. driver' = IF k + 1 < a * c THEN [driver EXCEPT !.word = k + 1]
                  ELSE IF driver.write THEN [driver EXCEPT !.at = "flush"]
                  ELSE [driver EXCEPT !.at = "operation", !.operation = n + 1]
    <3>1. driver' = Ide!Moved
      BY DEF Ide!MoveWord
    <3>2. a = Ide!SectorsOf(driver.operation, driver.count) /\ c = WordsPerSector
          /\ n = driver.operation /\ k = driver.word
      BY <1>5 DEF Asked
    <3>3. QED
      BY <3>1, <3>2, Zenon DEF Ide!Moved
  <2>5. QED
    BY <2>2, <2>3, <2>4
<1>8. <<selected, drive[selected].at, drive[selected].word>> \in Words
  BY <1>1, <1>2 DEF Words
<1>9. WithinCylinders =>
        <<selected, drive[selected].at, drive[selected].word>> = Ide!Wanted(Len(moved) + 1)
  BY OfferedIsWanted
<1>10. Len(moved') = d * c + (k + 1)
  <2>1. Len(moved') = Len(moved) + 1
    BY <1>7, <1>8, IDEFacts, AppendProperties
  <2>2. d * c \in Nat /\ Len(moved) = d * c + k
    BY <1>3, <1>5
  <2>3. QED
    BY <1>5, <2>1, <2>2
<1>11. ASSUME NEW r \in DriveState, r.is = drive[t].is, r.left <= MaxSectorsPerOperation, r.word < WordsPerSector,
              drive' = [drive EXCEPT ![t] = r],
              driver' \in TransferState, driver'.at \in {"words", "flush", "operation"},
              driver'.write = driver.write, driver'.device = driver.device, driver'.lba = driver.lba,
              driver'.count = driver.count, KeepsStep(t)', DriverKeepsStep'
       PROVE  IDEInv'
  <2>1. /\ drive' \in [Ide!Types -> DriveState]
        /\ \A u \in Ide!Types : /\ drive'[u].is = drive[u].is
                                /\ drive'[u].left <= MaxSectorsPerOperation /\ drive'[u].word < WordsPerSector
                                /\ u # t => drive'[u] = drive[u]
    BY <1>11, DriveChanges
  <2>2. \A u \in Ide!Types : (u # selected => drive'[u] = drive[u]) /\ (u = selected => KeepsStep(u)')
    BY <1>1, <1>11, <2>1
  <2>3. QED
    <3>1. UNCHANGED <<selected, devices, failed>>
      OBVIOUS
    <3>2. PICK word \in Words :
            /\ moved' = Append(moved, word)
            /\ WithinCylinders => word = Ide!Wanted(Len(moved) + 1)
      BY <1>7, <1>8, <1>9
    <3>3. \A u \in Ide!Types :
            /\ drive'[u].is = drive[u].is
            /\ drive'[u].left <= MaxSectorsPerOperation /\ drive'[u].word < WordsPerSector
            /\ u # selected => drive'[u] = drive[u]
            /\ u = selected => KeepsStep(u)'
      BY <2>1, <2>2, Zenon
    <3>4. QED
      <4>1. Moves(word)
        <5>1. selected' = selected /\ devices' = devices /\ failed' = failed
          BY <3>1
        <5>2. driver.at = "words"
          OBVIOUS
        <5>3. QED
          BY <1>11, <2>1, <3>2, <3>3, <5>1, <5>2, Zenon DEF Moves
      <4>2. QED
        BY <4>1, IDEMoves
<1>12. drive[t].is.kind = "ata"
  BY <1>1, <1>3, TargetIsDrive
<1>13. ASSUME NEW r \in DriveState, r.is = drive[t].is, r.left <= MaxSectorsPerOperation, r.word < WordsPerSector,
              drive' = [drive EXCEPT ![t] = r], r.command = drive[t].command,
              \/ r.status = {"READY", "REQUEST"}
              \/ r.status = {"BUSY"} /\ r.word = 0,
              r.left > 0, r.left <= a, r.at = Aim + (a - r.left),
              k + 1 = (a - r.left) * c + r.word, k + 1 < a * c
       PROVE  IDEInv'
  <2>1. driver' = [driver EXCEPT !.word = k + 1]
    BY <1>7, <1>13
  <2>2. /\ driver' \in TransferState /\ driver'.at = "words" /\ driver'.word = k + 1
        /\ driver'.write = driver.write /\ driver'.device = driver.device /\ driver'.lba = driver.lba
        /\ driver'.count = driver.count /\ driver'.operation = driver.operation
    <3>1. PICK succ \in Nat : succ = k + 1
      OBVIOUS
    <3>2. driver' = [driver EXCEPT !.word = succ]
      BY <2>1, <3>1
    <3>3. driver' \in TransferState
      BY <1>2, <3>2 DEF TransferState
    <3>4. QED
      BY <1>2, <3>1, <3>2, <3>3 DEF TransferState
  <2>3. Asked' = Asked /\ Aim' = Aim /\ Target' = Target
    BY <2>2 DEF Asked, Aim, Target, Ide!Start
  <2>4. drive'[t] = r
    BY <1>13, DriveChanges
  <2>5. KeepsStep(t)'
    <3>1. selected' = t /\ drive'[t].is.kind = "ata"
      BY <1>1, <1>12, <1>13, <2>4
    <3>2. drive[t].command \in (IF driver.write THEN {"WRITE", "WRITE_EXT"} ELSE {"READ", "READ_EXT"})
      BY <1>1 DEF Serving
    <3>3. Serving(t)'
      BY <1>5, <1>13, <2>2, <2>3, <2>4, <3>1, <3>2 DEF Serving
    <3>4. QED
      BY <3>1, <3>3 DEF KeepsStep
  <2>6. DriverKeepsStep'
    <3>1. Len(moved') = Before(driver.operation, driver.count) * WordsPerSector + (k + 1)
      BY <1>5, <1>10
    <3>2. driver.operation <= Ide!Operations(driver.count)
      <4>1. Ide!Operations(driver.count) \in Nat
        BY <1>2, OperationsAddUp
      <4>2. QED
        BY <1>2, <1>3, <4>1
    <3>3. Ide!TransferMode(Ide!Start(driver), devices[driver.device].lba)' # "unsupported"
      BY <1>3, <2>2 DEF Ide!Start
    <3>4. k + 1 < Asked * WordsPerSector
      BY <1>5, <1>13
    <3>5. QED
      BY <1>3, <1>4, <2>2, <2>3, <3>1, <3>2, <3>3, <3>4 DEF DriverKeepsStep, Ide!Transferring
  <2>7. QED
    BY <1>11, <1>13, <2>2, <2>5, <2>6
<1>14. ASSUME NEW r \in DriveState, r.is = drive[t].is, r.left <= MaxSectorsPerOperation, r.word < WordsPerSector,
              drive' = [drive EXCEPT ![t] = r], r.command = drive[t].command,
              r.status = {"BUSY"}, r.left = 0, k + 1 = a * c
       PROVE  IDEInv'
  <2>1. driver' = IF driver.write THEN [driver EXCEPT !.at = "flush"]
                  ELSE [driver EXCEPT !.at = "operation", !.operation = n + 1]
    BY <1>5, <1>7, <1>14
  <2>2. /\ driver' \in TransferState
        /\ driver'.write = driver.write /\ driver'.device = driver.device /\ driver'.lba = driver.lba
        /\ driver'.count = driver.count
        /\ driver.write = TRUE => driver'.at = "flush" /\ driver'.operation = driver.operation
        /\ driver.write = FALSE => driver'.at = "operation" /\ driver'.operation = driver.operation + 1
    <3>1. CASE driver.write = TRUE
      <4>1. driver' = [driver EXCEPT !.at = "flush"]
        BY <2>1, <3>1
      <4>2. QED
        BY <1>2, <3>1, <4>1 DEF TransferState
    <3>2. CASE driver.write = FALSE
      <4>1. PICK succ \in Nat : succ = n + 1
        OBVIOUS
      <4>2. driver' = [driver EXCEPT !.at = "operation", !.operation = succ]
        BY <2>1, <3>2, <4>1
      <4>3. driver' \in TransferState
        BY <1>2, <4>2 DEF TransferState
      <4>4. QED
        BY <1>2, <1>5, <3>2, <4>1, <4>2, <4>3 DEF TransferState
    <3>3. QED
      BY <1>2, <3>1, <3>2
  <2>3. drive'[t] = r
    BY <1>14, DriveChanges
  <2>4. KeepsStep(t)'
    <3>1. selected' = t /\ drive'[t].is.kind = "ata"
      BY <1>1, <1>12, <1>14, <2>3
    <3>2. drive[t].command \in (IF driver.write THEN {"WRITE", "WRITE_EXT"} ELSE {"READ", "READ_EXT"})
      BY <1>1 DEF Serving
    <3>3. Finishing(t)'
      BY <1>2, <1>14, <2>2, <2>3, <3>1, <3>2 DEF Finishing
    <3>4. QED
      BY <3>1, <3>3 DEF KeepsStep
  <2>5. Len(moved') = Before(driver.operation + 1, driver.count) * WordsPerSector
    <3>1. (d + a) * c = d * c + a * c /\ d * c \in Nat /\ a * c \in Nat
      BY <1>5
    <3>2. QED
      BY <1>5, <1>10, <1>14, <3>1
  <2>6. DriverKeepsStep'
    <3>1. CASE driver.write = TRUE
      <4>1. driver'.at = "flush" /\ driver'.operation = driver.operation /\ Target' = Target
        BY <2>2, <3>1 DEF Target
      <4>2. driver.operation <= Ide!Operations(driver.count)
        <5>1. Ide!Operations(driver.count) \in Nat
          BY <1>2, OperationsAddUp
        <5>2. QED
          BY <1>2, <1>3, <5>1
      <4>3. Ide!TransferMode(Ide!Start(driver), devices[driver.device].lba)' # "unsupported"
        BY <1>3, <2>2, <4>1 DEF Ide!Start
      <4>4. QED
        BY <1>3, <2>2, <2>5, <3>1, <4>1, <4>2, <4>3 DEF DriverKeepsStep, Ide!Transferring
    <3>2. CASE driver.write = FALSE
      BY <1>3, <1>4, <1>5, <2>2, <2>5, <3>2 DEF DriverKeepsStep, Ide!Transferring
    <3>3. QED
      BY <1>2, <3>1, <3>2
  <2>7. driver'.at \in {"words", "flush", "operation"}
    BY <1>2, <2>2
  <2>8. QED
    BY <1>11, <1>14, <2>2, <2>4, <2>6, <2>7
<1>15. (a - l) * c + c = (a - (l - 1)) * c /\ (a - (l - 1)) * c <= a * c /\ a * c \in Nat /\ (a - l) * c \in Nat
  <2>1. PICK b \in Nat : b = a - l
    BY <1>5
  <2>2. b * c + c = (b + 1) * c /\ b + 1 <= a /\ b * c \in Nat
    BY <1>5, <2>1
  <2>3. (b + 1) * c <= a * c /\ a * c \in Nat
    BY <1>5, <2>2
  <2>4. a - (l - 1) = b + 1
    BY <2>1
  <2>5. QED
    BY <2>1, <2>2, <2>3, <2>4
<1>16. CASE w + 1 < c
  <2> DEFINE r == [drive[t] EXCEPT !.word = w + 1]
  <2>1. /\ r \in DriveState /\ r.is = drive[t].is /\ r.left = l /\ r.word = w + 1 /\ r.command = drive[t].command
        /\ r.status = {"READY", "REQUEST"} /\ r.at = p
    <3>1. PICK y \in Nat : y = w + 1
      BY <1>5
    <3>2. r = [drive[t] EXCEPT !.word = y] /\ drive[t].status = {"READY", "REQUEST"}
      BY <1>1, <3>1
    <3>3. QED
      BY <1>2, <1>5, <3>1, <3>2 DEF DriveState
  <2>2. drive' = [drive EXCEPT ![t] = r]
    BY <1>7, <1>16
  <2> HIDE DEF r
  <2>3. k + 1 = (a - l) * c + (w + 1) /\ k + 1 < a * c
    BY <1>5, <1>6, <1>15, <1>16
  <2>4. r.left <= MaxSectorsPerOperation /\ r.word < WordsPerSector
    BY <1>2, <1>5, <1>16, <2>1
  <2>5. QED
    BY <1>5, <1>6, <1>13, <2>1, <2>2, <2>3, <2>4
<1>17. CASE ~(w + 1 < c)
  <2> DEFINE r == [drive[t] EXCEPT !.status = {"BUSY"}, !.word = 0, !.at = p + 1, !.left = l - 1]
  <2>1. /\ r \in DriveState /\ r.is = drive[t].is /\ r.left = l - 1 /\ r.word = 0 /\ r.command = drive[t].command
        /\ r.status = {"BUSY"} /\ r.at = p + 1
    <3>1. p + 1 \in Nat /\ l - 1 \in Nat /\ {"BUSY"} \in SUBSET Ide!Flags
      BY <1>5 DEF Ide!Flags
    <3>2. QED
      BY <1>2, <3>1 DEF DriveState
  <2>2. drive' = [drive EXCEPT ![t] = r]
    BY <1>7, <1>17
  <2> HIDE DEF r
  <2>3. k + 1 = (a - (l - 1)) * c + 0
    <3>1. w + 1 = c
      BY <1>5, <1>17
    <3>2. QED
      BY <1>5, <1>6, <1>15, <3>1
  <2>4. r.left <= MaxSectorsPerOperation /\ r.word < WordsPerSector
    BY <1>2, <1>5, <2>1, IDEConstants
  <2>5. CASE l > 1
    <3>1. k + 1 < a * c
      <4>1. (a - (l - 1)) * c + c <= a * c
        <5>1. PICK b \in Nat : b = a - (l - 1)
          BY <1>5
        <5>2. b + 1 <= a /\ (b + 1) * c = b * c + c
          BY <1>5, <2>5, <5>1
        <5>3. (b + 1) * c <= a * c
          BY <1>5, <5>2
        <5>4. QED
          BY <5>1, <5>2, <5>3
      <4>2. QED
        BY <1>5, <1>15, <2>3, <4>1
    <3>2. r.left > 0 /\ r.left <= a /\ r.at = Aim + (a - r.left)
      BY <1>5, <1>6, <2>1, <2>5
    <3>3. k + 1 = (a - r.left) * c + r.word
      BY <2>1, <2>3
    <3>4. QED
      BY <1>13, <2>1, <2>2, <2>4, <3>1, <3>2, <3>3
  <2>6. CASE l = 1
    <3>1. k + 1 = a * c
      BY <1>5, <1>15, <2>3, <2>6
    <3>2. r.left = 0
      BY <2>1, <2>6
    <3>3. QED
      BY <1>14, <2>1, <2>2, <2>4, <3>1, <3>2
  <2>7. QED
    BY <1>5, <2>5, <2>6
<1>18. QED
  BY <1>16, <1>17

(* What a polling driver meets: a sector to transfer, or a drive that has  *)
(* failed.                                                                 *)
LEMMA PolledDrive ==
  ASSUME IDEInv, driver.at = "words", "BUSY" \notin drive[selected].status
  PROVE  \/ Serving(selected) /\ drive[selected].status = {"READY", "REQUEST"}
         \/ /\ Quiet(selected) /\ failed = TRUE /\ "REQUEST" \notin drive[selected].status
            /\ "ERROR" \in drive[selected].status \/ "FAULT" \in drive[selected].status
<1>1. selected = Target
  BY IDEFacts DEF DriverKeepsStep, Ide!Transferring
<1>2. drive[selected].is.kind = "ata" /\ selected \in Ide!Types
  BY <1>1, TargetIsDrive
<1>3. KeepsStep(selected)
  BY <1>2, IDEFacts
<1>4. ~BeingIdentified(selected) /\ ~Finishing(selected)
  BY DEF BeingIdentified, Finishing
<1>5. \/ Serving(selected)
      \/ Quiet(selected) /\ failed = TRUE /\ {"ERROR", "FAULT"} \cap drive[selected].status # {}
  BY <1>2, <1>3, <1>4 DEF KeepsStep
<1>6. CASE Serving(selected)
  BY <1>6 DEF Serving
<1>7. CASE Quiet(selected) /\ failed = TRUE /\ {"ERROR", "FAULT"} \cap drive[selected].status # {}
  BY <1>7 DEF Quiet
<1>8. QED
  BY <1>5, <1>6, <1>7

LEMMA IDEReadStep == IDEInv /\ Ide!ReadWord => IDEInv'
<1> SUFFICES ASSUME IDEInv, Ide!ReadWord PROVE IDEInv'
  OBVIOUS
<1>1. /\ driver.at = "words" /\ ~driver.write /\ "BUSY" \notin drive[selected].status
      /\ selected' = selected /\ devices' = devices /\ failed' = failed
      /\ IF Ide!Polling = "SUCCESS" THEN Ide!MoveWord
         ELSE driver' = Ide!Finished(Ide!Polling) /\ moved' = moved /\ drive' = drive
  BY DEF Ide!ReadWord, Ide!Status
<1>2. CASE Serving(selected) /\ drive[selected].status = {"READY", "REQUEST"}
  <2>1. Ide!Polling = "SUCCESS"
    BY <1>2 DEF Ide!Polling, Ide!Status
  <2>2. Ide!MoveWord
    BY <1>1, <2>1
  <2>3. QED
    BY <1>1, <1>2, <2>2, IDEServedStep
<1>3. CASE /\ Quiet(selected) /\ failed = TRUE
           /\ "ERROR" \in drive[selected].status \/ "FAULT" \in drive[selected].status
  <2>1. PICK reason \in {"ERROR", "FAULT"} : reason = Ide!Polling
    BY <1>3 DEF Ide!Polling, Ide!Status
  <2>2. driver' = [driver EXCEPT !.at = "done", !.result = reason] /\ moved' = moved /\ drive' = drive
    BY <1>1, <2>1 DEF Ide!Finished
  <2>3. driver \in TransferState /\ DriverKeepsStep
    BY <1>1, IDEFacts
  <2>4. /\ driver' \in TransferState /\ driver'.at = "done" /\ driver'.result # "SUCCESS"
        /\ driver'.write = driver.write /\ driver'.device = driver.device /\ driver'.lba = driver.lba
        /\ driver'.count = driver.count /\ driver'.operation = driver.operation
    BY <2>2, <2>3 DEF TransferState, Results
  <2>5. DriverKeepsStep'
    BY <1>1, <2>2, <2>3, <2>4 DEF DriverKeepsStep, Ide!Transferring
  <2>6. QED
    BY <1>1, <1>3, <2>2, <2>4, <2>5, IDELeaves
<1>4. QED
  BY <1>1, <1>2, <1>3, PolledDrive

LEMMA IDEWriteStep == IDEInv /\ Ide!WriteWord => IDEInv'
<1> SUFFICES ASSUME IDEInv, Ide!WriteWord PROVE IDEInv'
  OBVIOUS
<1>1. /\ driver.at = "words" /\ driver.write /\ "BUSY" \notin drive[selected].status
      /\ selected' = selected /\ devices' = devices /\ failed' = failed /\ Ide!MoveWord
  BY DEF Ide!WriteWord, Ide!Status
<1>2. CASE Serving(selected) /\ drive[selected].status = {"READY", "REQUEST"}
  BY <1>1, <1>2, IDEServedStep
<1>3. CASE Quiet(selected) /\ failed = TRUE /\ "REQUEST" \notin drive[selected].status
           /\ ("ERROR" \in drive[selected].status \/ "FAULT" \in drive[selected].status)
  <2>1. /\ driver \in TransferState /\ driver.operation \in Nat /\ driver.count \in Nat /\ driver.word \in Nat
        /\ driver.write = TRUE /\ DriverKeepsStep /\ Len(moved) \in Nat /\ moved \in Seq(Words)
        /\ drive \in [Ide!Types -> DriveState] /\ selected \in Ide!Types
    BY <1>1, IDEFacts
  <2>2. /\ driver.device \in DOMAIN devices /\ driver.operation < Ide!Operations(driver.count) /\ selected = Target
        /\ Ide!TransferMode(Ide!Start(driver), devices[driver.device].lba) # "unsupported"
        /\ Len(moved) = Before(driver.operation, driver.count) * WordsPerSector + driver.word
        /\ driver.word < Asked * WordsPerSector
    BY <1>1, <2>1 DEF DriverKeepsStep, Ide!Transferring
  <2>3. /\ Ide!Operations(driver.count) \in Nat /\ Asked \in Nat /\ Before(driver.operation, driver.count) \in Nat
        /\ Before(driver.operation + 1, driver.count) = Before(driver.operation, driver.count) + Asked
    <3>1. /\ Ide!Operations(driver.count) \in Nat /\ Asked \in Nat
          /\ driver.operation * MaxSectorsPerOperation \in Nat
          /\ Before(driver.operation, driver.count) = driver.operation * MaxSectorsPerOperation
          /\ Before(driver.operation + 1, driver.count) = driver.operation * MaxSectorsPerOperation + Asked
      BY <2>1, <2>2, OperationsAddUp, Zenon DEF Asked
    <3>2. QED
      BY <3>1, Zenon
  <2>4. PICK b \in Nat, a \in Nat, c \in Nat, k \in Nat :
          /\ b = Before(driver.operation, driver.count) /\ a = Asked /\ c = WordsPerSector /\ k = driver.word
    BY <2>1, <2>3, IDEConstants
  <2>5. PICK succ \in Nat : succ = k + 1
    OBVIOUS
  <2>6. moved' = Append(moved, <<>>) /\ drive' = drive
    BY <1>1, <1>3 DEF Ide!MoveWord, Ide!WordMoved, Ide!WordOffered, Ide!Status, Ide!NoWord
  <2>7. driver' = IF succ < a * c THEN [driver EXCEPT !.word = succ] ELSE [driver EXCEPT !.at = "flush"]
    <3>1. driver' = Ide!Moved
      BY <1>1 DEF Ide!MoveWord
    <3>2. a = Ide!SectorsOf(driver.operation, driver.count) /\ c = WordsPerSector /\ succ = driver.word + 1
      BY <2>4, <2>5 DEF Asked
    <3>3. QED
      BY <2>1, <3>1, <3>2, Zenon DEF Ide!Moved
  <2>8. <<>> \in Words
    BY DEF Words
  <2>9. Len(moved') = b * c + succ /\ b * c \in Nat /\ a * c \in Nat
    <3>1. Len(moved') = Len(moved) + 1
      BY <2>1, <2>6, <2>8, AppendProperties
    <3>2. b * c \in Nat /\ a * c \in Nat /\ Len(moved) = b * c + k
      BY <2>2, <2>4
    <3>3. QED
      BY <2>4, <2>5, <3>1, <3>2
  <2>10. /\ driver' \in TransferState /\ driver'.write = driver.write /\ driver'.device = driver.device
         /\ driver'.lba = driver.lba /\ driver'.count = driver.count /\ driver'.operation = driver.operation
         /\ succ < a * c => driver'.at = "words" /\ driver'.word = succ
         /\ ~(succ < a * c) => driver'.at = "flush"
    <3>1. CASE succ < a * c
      <4>1. driver' = [driver EXCEPT !.word = succ]
        BY <2>7, <3>1
      <4>2. driver' \in TransferState
        BY <2>1, <4>1 DEF TransferState
      <4>3. QED
        BY <1>1, <2>1, <3>1, <4>1, <4>2 DEF TransferState
    <3>2. CASE ~(succ < a * c)
      <4>1. driver' = [driver EXCEPT !.at = "flush"]
        BY <2>7, <3>2
      <4>2. driver' \in TransferState
        BY <2>1, <4>1 DEF TransferState
      <4>3. QED
        BY <2>1, <3>2, <4>1, <4>2 DEF TransferState
    <3>3. QED
      BY <3>1, <3>2
  <2>11. Asked' = Asked /\ Aim' = Aim /\ Target' = Target /\ Ide!Start(driver)' = Ide!Start(driver)
    BY <1>1, <2>10 DEF Asked, Aim, Target, Ide!Start
  <2>12. ASSUME NEW t \in Ide!Types, t = selected PROVE KeepsStep(t)'
    BY <1>1, <1>3, <2>1, <2>2, <2>6, <2>10, <2>12, TargetIsDrive DEF KeepsStep, Quiet
  <2>13. driver.operation <= Ide!Operations(driver.count)
    BY <2>1, <2>2, <2>3
  <2>14. DriverKeepsStep'
    <3>1. CASE succ < a * c
      <4>1. driver'.at = "words" /\ driver'.word = succ /\ Len(moved') = Before(driver.operation, driver.count) * WordsPerSector + succ
            /\ succ < Asked * WordsPerSector
        BY <2>4, <2>9, <2>10, <3>1
      <4>2. QED
        BY <1>1, <2>1, <2>2, <2>10, <2>11, <2>13, <4>1 DEF DriverKeepsStep, Ide!Transferring
    <3>2. CASE ~(succ < a * c)
      <4>1. driver'.at = "flush"
        BY <2>10, <3>2
      <4>2. succ = a * c
        BY <2>2, <2>4, <2>5, <2>9, <3>2
      <4>3. Len(moved') = Before(driver.operation + 1, driver.count) * WordsPerSector
        <5>1. (b + a) * c = b * c + a * c
          BY <2>4
        <5>2. QED
          BY <2>3, <2>4, <2>9, <4>2, <5>1
      <4>4. QED
        BY <1>1, <2>1, <2>2, <2>10, <2>11, <2>13, <4>1, <4>3 DEF DriverKeepsStep, Ide!Transferring
    <3>3. QED
      BY <3>1, <3>2
  <2>15. Moves(<<>>)
    <3>1. \A t \in Ide!Types :
            /\ drive'[t].is = drive[t].is
            /\ drive'[t].left <= MaxSectorsPerOperation /\ drive'[t].word < WordsPerSector
            /\ t # selected => drive'[t] = drive[t]
            /\ t = selected => KeepsStep(t)'
      BY <2>6, <2>12, IDEFacts
    <3>2. driver'.at \in {"words", "flush", "operation"} /\ drive' \in [Ide!Types -> DriveState]
      BY <2>1, <2>6, <2>10
    <3>3. QED
      <4>1. driver.at = "words" /\ selected' = selected /\ devices' = devices /\ failed' = failed
            /\ driver.write = TRUE /\ failed = TRUE
        BY <1>1, <1>3, <2>1
      <4>2. /\ driver' \in TransferState /\ driver'.write = driver.write /\ driver'.device = driver.device
            /\ driver'.lba = driver.lba /\ driver'.count = driver.count /\ moved' = Append(moved, <<>>)
        BY <2>6, <2>10
      <4>3. QED
        BY <2>14, <3>1, <3>2, <4>1, <4>2, Zenon DEF Moves
  <2>16. QED
    BY <2>8, <2>15, IDEMoves
<1>4. QED
  BY <1>1, <1>2, <1>3, PolledDrive

LEMMA IDEStep == IDEInv /\ [Ide!Next]_ideVars => IDEInv'
<1> SUFFICES ASSUME IDEInv, [Ide!Next]_ideVars PROVE IDEInv'
  OBVIOUS
<1>1. CASE UNCHANGED ideVars
  <2>1. /\ drive' = drive /\ selected' = selected /\ devices' = devices /\ driver' = driver
        /\ moved' = moved /\ failed' = failed
    BY <1>1 DEF ideVars
  <2>2. Asked' = Asked /\ Aim' = Aim /\ Target' = Target
    BY <2>1, SameAim
  <2>3. EntryOf(0)' = EntryOf(0) /\ EntryOf(1)' = EntryOf(1)
    BY <2>1 DEF EntryOf, EntryFor
  <2>4. IDEType'
    BY <2>1, Zenon DEF IDEInv, IDEType
  <2>5. PlacesAreListed'
    <3>1. PlacesAreListed
      BY DEF IDEInv
    <3>2. QED
      BY <2>1, <2>3, <3>1 DEF PlacesAreListed
  <2>6. ASSUME NEW t \in Ide!Types PROVE KeepsStep(t)'
    <3>1. KeepsStep(t)
      BY IDEFacts
    <3>2. /\ Quiet(t)' = Quiet(t) /\ BeingIdentified(t)' = BeingIdentified(t)
          /\ Finishing(t)' = Finishing(t) /\ Serving(t)' = Serving(t)
      BY <2>1, <2>2, Zenon DEF Quiet, BeingIdentified, Finishing, Serving
    <3>3. QED
      BY <2>1, <3>1, <3>2, Zenon DEF KeepsStep
  <2>7. DriverKeepsStep'
    BY <2>1, <2>2, IDEFacts DEF DriverKeepsStep, Ide!Transferring, Quiet
  <2>8. Ide!WordsInPlace'
    BY <2>1, IDEFacts DEF Ide!WordsInPlace, Ide!Transferring, Ide!Wanted
  <2>9. QED
    BY <2>4, <2>5, <2>6, <2>7, <2>8 DEF IDEInv
<1>2. CASE Ide!DriveStep
  BY <1>2, IDEDriveStep
<1>3. CASE Ide!DriverStep
  BY <1>3, IDESelectStep, IDEPresenceStep, IDEIdentifyStep, IDEEndStep, IDEStartStep, IDEReadStep, IDEWriteStep,
     IDEEndWriteStep, IDEReturnStep DEF Ide!DriverStep
<1>4. CASE \E write \in BOOLEAN, device \in DOMAIN devices, lba \in Sectors, count \in Counts :
             Ide!Transfer(write, device, lba, count)
  BY <1>4, IDETransferStep
<1>5. QED
  BY <1>1, <1>2, <1>3, <1>4 DEF Ide!Next

(* The driver of ide.cxx finds the ATA drives of a channel, each once and  *)
(* at its own place; every word of a transfer is read from or written to   *)
(* the place on the disk it belongs to; and SUCCESS means that all words   *)
(* have been moved and, of a read, that no drive has failed.  It holds for *)
(* every number of sectors, however a transfer is cut into operations, and *)
(* whenever the drives answer or fail.                                     *)
THEOREM TransfersAreSoundAlways == BootSpec => []TransfersAreSound
<1> DEFINE Inv == stage = "drives" => IDEInv
<1>1. BootInit => Inv
  BY IDEInit DEF BootInit
<1>2. Inv /\ [BootNext]_bootVars => Inv'
  BY StageSteps, IDEStep
<1>3. Inv => TransfersAreSound
  <2> SUFFICES ASSUME IDEInv PROVE /\ Ide!TypeOK /\ Ide!DevicesAreDrives
                                   /\ Ide!WordsInPlace /\ Ide!SuccessIsComplete
    BY DEF TransfersAreSound
  <2>1. Ide!TypeOK
    <3>1. \A t \in Ide!Types : drive[t].status \subseteq Ide!Flags /\ drive[t].left \in 0 .. MaxSectorsPerOperation
      BY IDEFacts, IDEConstants DEF DriveState
    <3>2. ASSUME NEW n \in DOMAIN devices
          PROVE  devices[n].type \in Ide!Types /\ devices[n].sectorsCount < Ide!LBA28Limit
      <4>1. CASE driver.at \in {"select", "present", "identify"}
        <5>1. driver.type \in Ide!Types /\ PlacesAreListed
          BY <4>1, IDEFacts
        <5>2. devices = <<>> \/ devices = EntryOf(0)
          BY <4>1, <5>1 DEF PlacesAreListed
        <5>3. devices = <<EntryFor(0)>>
          BY <5>2 DEF EntryOf
        <5>4. n = 1 /\ devices[n] = EntryFor(0) /\ 0 \in Ide!Types
          BY <5>3 DEF Ide!Types
        <5>5. QED
          BY <5>4, EntryIsATA
      <4>2. CASE driver.at \notin {"select", "present", "identify"}
        BY <4>2, ListedPlaces
      <4>3. QED
        BY <4>1, <4>2
    <3>3. QED
      BY <3>1, <3>2, IDEFacts DEF Ide!TypeOK
  <2>2. Ide!DevicesAreDrives
    <3>1. ASSUME driver.at \notin {"select", "present", "identify"}
          PROVE  /\ {devices[n].type : n \in DOMAIN devices} = Ide!Places("ata")
                 /\ Len(devices) = Cardinality(Ide!Places("ata"))
      BY <3>1, ListedPlaces
    <3>2. Ide!Cardinality(Ide!Places("ata")) = Cardinality(Ide!Places("ata"))
      BY DEF Cardinality, Ide!Cardinality
    <3>3. QED
      BY <3>1, <3>2 DEF Ide!DevicesAreDrives, Ide!Identified
  <2>3. Ide!WordsInPlace /\ Ide!SuccessIsComplete
    <3>1. Ide!WordsInPlace /\ DriverKeepsStep /\ failed \in BOOLEAN
      BY IDEFacts
    <3>2. driver.at = "done" => driver.write \in BOOLEAN
      BY IDEFacts
    <3>3. QED
      BY <3>1, <3>2 DEF Ide!SuccessIsComplete, DriverKeepsStep, Ide!Transferring
  <2>4. QED
    BY <2>1, <2>2, <2>3
<1>4. QED
  BY <1>1, <1>2, <1>3, PTL DEF BootSpec

(* A command is written to a drive only when that drive is done with the   *)
(* command before, although NativeReadSectors and NativeWriteSectors look  *)
(* at the status of the drive selected before they select the other one.   *)
THEOREM CommandsReachIdleDrivesAlways == BootSpec => CommandsReachIdleDrives
<1> DEFINE Inv == stage = "drives" => IDEInv
<1>1. BootInit => Inv
  BY IDEInit DEF BootInit
<1>2. Inv /\ [BootNext]_bootVars => Inv'
  BY StageSteps, IDEStep
<1>3. Inv /\ [BootNext]_bootVars =>
        [driver.at = "operation" /\ driver'.at = "words"
           => {"BUSY", "REQUEST"} \cap drive[selected'].status = {}]_ideVars
  <2> SUFFICES ASSUME Inv, [BootNext]_bootVars, ideVars' # ideVars, driver.at = "operation", driver'.at = "words"
               PROVE  {"BUSY", "REQUEST"} \cap drive[selected'].status = {}
    OBVIOUS
  <2>1. stage = "drives" /\ Ide!Next
    BY DEF BootNext, bootVars, Tables, MemoryMapping, Buses, Channel, Start, Configuration
  <2>2. IDEInv /\ driver \in TransferState
    BY <2>1, IDEFacts
  <2>3. Ide!StartOperation
    <3>1. driver' # driver
      BY <2>2
    <3>2. ~Ide!DriveStep
      BY <3>1 DEF Ide!DriveStep
    <3>3. Ide!DriverStep
      BY <2>1, <3>2 DEF Ide!Next, Ide!Transfer
    <3>4. QED
      <4>1. ~Ide!EndTransfer
        BY <2>2 DEF Ide!EndTransfer, Ide!Finished, TransferState
      <4>2. QED
        BY <3>3, <4>1 DEF Ide!DriverStep, Ide!SelectDevice, Ide!TestPresence, Ide!Identify, Ide!ReadWord, Ide!WriteWord,
           Ide!EndWrite, Ide!Return
  <2>4. selected' = Target /\ "BUSY" \notin drive[selected].status
    <3>1. driver' # Ide!Finished("LBA48_UNSUPPORTED")
      BY <2>2 DEF Ide!Finished, TransferState
    <3>2. QED
      BY <2>3, <3>1 DEF Ide!StartOperation, Ide!MayCommand, Ide!Status, Target
  <2>5. Quiet(Target)
    BY <2>2, <2>4, TargetIsDrive, NoneIsBusy
  <2>6. QED
    BY <2>4, <2>5 DEF Quiet
<1>4. QED
  BY <1>1, <1>2, <1>3, PTL DEF BootSpec, CommandsReachIdleDrives, Ide!CommandsReachIdleDrives, Ide!vars, ideVars

-----------------------------------------------------------------------------
(* The configuration.  What a skip over characters finds: the first place  *)
(* that is none of them, or the one behind the text. *)
Characters == {"c", "=", "_", "/"}
Behind == Len(text) + 1

IsPast(S, n, m) ==
  /\ m \in n .. Behind
  /\ m = Behind \/ text[m] \notin S
  /\ \A k \in n .. m - 1 : text[k] \in S

LEMMA PastIsFound ==
  ASSUME text \in Seq(Characters), NEW S, NEW n \in 1 .. Behind
  PROVE  IsPast(S, n, Rpf!Past(S, n))
<1> DEFINE ends == {m \in n .. Behind : m = Behind \/ text[m] \notin S}
<1>1. Behind \in Nat /\ n \in Nat
  BY DEF Behind
<1>2. ends \subseteq Nat /\ Behind \in ends
  BY <1>1
<1>3. PICK m \in ends : \A k \in ends : m <= k
  <2> HIDE DEF ends
  <2> QED
    BY <1>2, LeastNumber
<1>4. \A k \in n .. m - 1 : text[k] \in S
  BY <1>1, <1>3
<1>5. IsPast(S, n, m)
  BY <1>3, <1>4 DEF IsPast
<1>6. Rpf!Past(S, n) = CHOOSE k : IsPast(S, n, k)
  <2>1. \A k : k \in n .. Rpf!Size + 1 /\ (/\ k = Rpf!Size + 1 \/ text[k] \notin S
                                        /\ \A q \in n .. k - 1 : text[q] \in S)
                 <=> IsPast(S, n, k)
    BY DEF IsPast, Behind, Rpf!Size
  <2> QED
    BY <2>1, Zenon DEF Rpf!Past
<1> QED
  BY <1>5, <1>6

LEMMA PastIsOne ==
  ASSUME text \in Seq(Characters), NEW S, NEW n \in 1 .. Behind,
         NEW m, IsPast(S, n, m), NEW k, IsPast(S, n, k)
  PROVE  m = k
<1>1. Behind \in Nat /\ m \in Nat /\ k \in Nat /\ n <= m /\ n <= k /\ m <= Behind /\ k <= Behind
  BY DEF Behind, IsPast
<1>2. ASSUME m < k PROVE FALSE
  BY <1>1, <1>2 DEF IsPast
<1>3. ASSUME k < m PROVE FALSE
  BY <1>1, <1>3 DEF IsPast
<1> QED
  BY <1>1, <1>2, <1>3

(* An element that has been read: its key, the blank behind it, what is    *)
(* skipped up to the value, and the value. *)
Span == [first : Nat, behind : Nat]
Element == [key : Span, value : Span]

StartsAt(n, start) == \E f \in n .. Len(text) :
  IsPast(Rpf!White, n, f) /\ IF text[f] = "=" THEN IsPast(Rpf!White, f + 1, start) ELSE start = f

IsKey(k) ==
  /\ k \in Span /\ k.first >= 1 /\ k.first < k.behind /\ k.behind < Len(text)
  /\ IsPast(Rpf!KeyEnds, k.first, k.behind)

IsElement(e) ==
  /\ e \in Element /\ IsKey(e.key)
  /\ StartsAt(e.key.behind + 1, e.value.first)
  /\ IsPast(Rpf!ValueEnds, e.value.first, e.value.behind)

RpfTypes ==
  /\ text \in Texts /\ text \in Seq(Characters) /\ part \in {"key", "value", "done"}
  /\ offset \in 1 .. Len(text) + 2 /\ emptied \in BOOLEAN
  /\ elements \in Seq(Element) /\ \A n \in 1 .. Len(elements) : IsElement(elements[n])
  /\ part = "key" => key = Rpf!Null
  /\ part = "value" => IsKey(key) /\ offset = key.behind + 1
  /\ part # "done" => lost = {}
  /\ lost = {} \/ \E k : lost = {k}
  /\ emptied <=> \E n \in 1 .. Len(elements) : elements[n].value.first = Behind

LEMMA StartIsBehind ==
  ASSUME text \in Seq(Characters), NEW n \in 2 .. Len(text), NEW start, StartsAt(n, start)
  PROVE  /\ start \in n .. Behind
         /\ start = Behind \/ text[start] \notin Rpf!White
         /\ \A k \in n .. start - 1 : text[k] \in {"_", "/", "="}
         /\ start = Behind => \E f \in n .. Len(text) :
              /\ text[f] = "=" /\ \A k \in n .. f - 1 : text[k] \in Rpf!White
              /\ \A k \in f + 1 .. Len(text) : text[k] \in Rpf!White
<1>1. Len(text) \in Nat
  OBVIOUS
<1>2. PICK f \in n .. Len(text) :
        /\ IsPast(Rpf!White, n, f)
        /\ IF text[f] = "=" THEN IsPast(Rpf!White, f + 1, start) ELSE start = f
  BY DEF StartsAt
<1>3. /\ text[f] \notin Rpf!White /\ \A k \in n .. f - 1 : text[k] \in Rpf!White
  BY <1>1, <1>2 DEF IsPast, Behind
<1>4. CASE text[f] = "="
  <2>1. /\ start \in f + 1 .. Behind /\ (start = Behind \/ text[start] \notin Rpf!White)
        /\ \A k \in f + 1 .. start - 1 : text[k] \in Rpf!White
    BY <1>2, <1>4 DEF IsPast
  <2>2. start \in n .. Behind
    BY <1>1, <2>1 DEF Behind
  <2>3. \A k \in n .. start - 1 : text[k] \in {"_", "/", "="}
    <3> SUFFICES ASSUME NEW k \in n .. start - 1 PROVE text[k] \in {"_", "/", "="}
      OBVIOUS
    <3>1. k < f \/ k = f \/ k \in f + 1 .. start - 1
      BY <1>1, <2>1 DEF Behind
    <3>2. k < f => k \in n .. f - 1
      BY <1>1
    <3> QED
      BY <1>3, <1>4, <2>1, <3>1, <3>2 DEF Rpf!White
  <2>4. start = Behind => \A k \in f + 1 .. Len(text) : text[k] \in Rpf!White
    BY <1>1, <2>1 DEF Behind
  <2> QED
    BY <1>3, <1>4, <2>1, <2>2, <2>3, <2>4
<1>5. CASE text[f] # "="
  <2>1. start = f /\ start # Behind
    BY <1>1, <1>2, <1>5 DEF Behind
  <2>2. start \in n .. Behind
    BY <1>1, <2>1 DEF Behind
  <2> QED
    BY <1>3, <2>1, <2>2 DEF Rpf!White
<1> QED
  BY <1>4, <1>5

(* A value is empty exactly when it is behind the text.                    *)
LEMMA EmptyIsBehind ==
  ASSUME text \in Seq(Characters), NEW start \in 1 .. Behind,
         start = Behind \/ text[start] \notin Rpf!White,
         NEW end, IsPast(Rpf!ValueEnds, start, end)
  PROVE  /\ start <= end /\ end <= Behind /\ end \in Nat
         /\ start = end <=> start = Behind
<1>1. Len(text) \in Nat /\ Behind \in Nat
  BY DEF Behind
<1>2. end \in start .. Behind /\ (end = Behind \/ text[end] \notin Rpf!ValueEnds)
  BY DEF IsPast
<1>3. ASSUME start = end, start # Behind PROVE FALSE
  <2>1. text[start] \in Characters
    BY <1>1, <1>3 DEF Behind
  <2> QED
    BY <1>2, <1>3, <2>1 DEF Characters, Rpf!White, Rpf!ValueEnds
<1> QED
  BY <1>1, <1>2, <1>3

(* What a step reads. *)
LEMMA KeyIsRead ==
  ASSUME RpfTypes, part = "key", Rpf!ReadKey
  PROVE  LET first  == Rpf!Past(Rpf!White, offset)
             behind == Rpf!Past(Rpf!KeyEnds, first)
         IN  \/ /\ offset > Len(text) \/ first > Len(text)
                /\ part' = "done" /\ lost' = {} /\ UNCHANGED <<offset, key>>
             \/ /\ offset <= Len(text) /\ first <= Len(text)
                /\ IsPast(Rpf!White, offset, first) /\ IsPast(Rpf!KeyEnds, first, behind)
                /\ first \in 1 .. Len(text) /\ behind \in Nat /\ first < behind /\ behind <= Behind
                /\ key' = [first |-> first, behind |-> behind] /\ offset' = behind + 1
                /\ \/ offset' > Len(text) /\ part' = "done" /\ \E k : lost' = {k}
                   \/ offset' <= Len(text) /\ part' = "value" /\ lost' = {}
<1> DEFINE first  == Rpf!Past(Rpf!White, offset)
           behind == Rpf!Past(Rpf!KeyEnds, first)
<1>1. /\ text \in Seq(Characters) /\ Len(text) \in Nat /\ offset \in Nat /\ offset >= 1
      /\ key = Rpf!Null /\ lost = {} /\ Rpf!Size = Len(text)
  BY DEF RpfTypes, Rpf!Size
<1>2. /\ IF offset > Len(text) \/ first > Len(text)
         THEN part' = "done" /\ UNCHANGED <<offset, key>>
         ELSE /\ key' = [first |-> first, behind |-> behind]
              /\ offset' = behind + 1
              /\ part' = IF offset' > Len(text) THEN "done" ELSE "value"
      /\ lost' = IF part' = "done" /\ key' # Rpf!Null THEN lost \cup {key'} ELSE lost
  BY <1>1, Zenon DEF Rpf!ReadKey, Rpf!Places
<1>3. CASE offset > Len(text) \/ first > Len(text)
  BY <1>1, <1>2, <1>3, Zenon
<1>4. CASE ~(offset > Len(text) \/ first > Len(text))
  <2>1. offset \in 1 .. Behind
    BY <1>1, <1>4 DEF Behind
  <2>2. IsPast(Rpf!White, offset, first)
    BY <1>1, <2>1, PastIsFound
  <2> HIDE DEF first
  <2>3. first \in 1 .. Behind /\ first \in 1 .. Len(text) /\ text[first] \notin Rpf!White
    BY <1>1, <1>4, <2>1, <2>2 DEF IsPast, Behind
  <2>4. IsPast(Rpf!KeyEnds, first, behind)
    BY <1>1, <2>3, PastIsFound
  <2> HIDE DEF behind
  <2>5. behind \in first .. Behind /\ (behind = Behind \/ text[behind] \notin Rpf!KeyEnds)
    BY <2>4 DEF IsPast
  <2>6. first # behind
    <3>1. text[first] \in Characters
      BY <1>1, <2>3
    <3>2. text[first] \in Rpf!KeyEnds
      BY <2>3, <3>1 DEF Characters, Rpf!White, Rpf!KeyEnds
    <3> QED
      BY <1>1, <2>3, <2>5, <3>2 DEF Behind
  <2>7. behind \in Nat /\ first < behind /\ behind <= Behind
    BY <1>1, <2>3, <2>5, <2>6 DEF Behind
  <2>8. /\ key' = [first |-> first, behind |-> behind] /\ offset' = behind + 1
        /\ part' = IF offset' > Len(text) THEN "done" ELSE "value"
    BY <1>2, <1>4, Zenon DEF first, behind
  <2>9. key' # Rpf!Null
    <3>1. key'.first = first
      BY <2>8
    <3>2. DOMAIN key' = {"first", "behind"}
      BY <2>8
    <3>3. DOMAIN Rpf!Null = {}
      BY DEF Rpf!Null
    <3> QED
      BY <3>2, <3>3
  <2>10. \/ offset' > Len(text) /\ part' = "done" /\ \E k : lost' = {k}
         \/ offset' <= Len(text) /\ part' = "value" /\ lost' = {}
    <3>1. CASE offset' > Len(text)
      BY <1>1, <1>2, <2>8, <2>9, <3>1
    <3>2. CASE ~(offset' > Len(text))
      BY <1>1, <1>2, <2>7, <2>8, <3>2
    <3> QED
      BY <3>1, <3>2
  <2>11. /\ offset <= Len(text) /\ first <= Len(text)
         /\ IsPast(Rpf!White, offset, first) /\ IsPast(Rpf!KeyEnds, first, behind)
         /\ first \in 1 .. Len(text) /\ behind \in Nat /\ first < behind /\ behind <= Behind
         /\ key' = [first |-> first, behind |-> behind] /\ offset' = behind + 1
         /\ \/ offset' > Len(text) /\ part' = "done" /\ \E k : lost' = {k}
            \/ offset' <= Len(text) /\ part' = "value" /\ lost' = {}
    <3>1. offset <= Len(text) /\ first <= Len(text)
      BY <1>1, <1>4, <2>3
    <3> QED
      BY <2>2, <2>3, <2>4, <2>7, <2>8, <2>10, <3>1, Zenon
  <2> QED
    BY <2>11, Zenon DEF first, behind
<1> QED
  BY <1>3, <1>4

LEMMA ValueIsRead ==
  ASSUME RpfTypes, part = "value", Rpf!ReadValue
  PROVE  \E start, end :
    /\ StartsAt(offset, start) /\ IsPast(Rpf!ValueEnds, start, end)
    /\ start \in offset .. Behind /\ start <= end /\ end <= Behind /\ end \in Nat
    /\ start = end <=> start = Behind
    /\ elements' = Append(elements, [key |-> key, value |-> [first |-> start, behind |-> end]])
    /\ emptied' = (emptied \/ start = Behind)
    /\ offset' = end + 1 /\ key' = Rpf!Null /\ part' = "key" /\ UNCHANGED <<text, lost>>
<1>1. /\ text \in Seq(Characters) /\ Len(text) \in Nat /\ Rpf!Size = Len(text)
      /\ offset \in 2 .. Len(text) /\ offset \in 1 .. Behind
  BY DEF RpfTypes, Rpf!Size, IsKey, Span, Behind
<1> DEFINE first == Rpf!Past(Rpf!White, offset)
           start == Rpf!ValueStart
           end   == Rpf!Past(Rpf!ValueEnds, start)
<1>2. first <= Len(text)
  BY <1>1 DEF Rpf!ReadValue, Rpf!HasValue
<1>3. IsPast(Rpf!White, offset, first)
  BY <1>1, PastIsFound
<1>4. start = IF text[first] = "=" THEN Rpf!Past(Rpf!White, first + 1) ELSE first
  BY <1>1, <1>2 DEF Rpf!ValueStart
<1>5. /\ elements' = Append(elements, [key |-> key, value |-> [first |-> start, behind |-> end]])
      /\ emptied' = (emptied \/ start = end)
      /\ offset' = end + 1 /\ key' = Rpf!Null /\ part' = "key" /\ UNCHANGED <<text, lost>>
  BY Zenon DEF Rpf!ReadValue, Rpf!Places
<1> HIDE DEF first, start
<1>6. first \in offset .. Len(text) /\ first + 1 \in 1 .. Behind
  BY <1>1, <1>2, <1>3 DEF IsPast, Behind
<1>7. IF text[first] = "=" THEN IsPast(Rpf!White, first + 1, start) ELSE start = first
  BY <1>1, <1>4, <1>6, PastIsFound
<1>8. StartsAt(offset, start)
  BY <1>3, <1>6, <1>7 DEF StartsAt
<1>9. start \in offset .. Behind /\ (start = Behind \/ text[start] \notin Rpf!White)
  BY <1>1, <1>8, StartIsBehind
<1>10. start \in 1 .. Behind
  BY <1>1, <1>9 DEF Behind
<1>11. IsPast(Rpf!ValueEnds, start, end)
  BY <1>1, <1>10, PastIsFound
<1> HIDE DEF end
<1>12. start <= end /\ end <= Behind /\ end \in Nat /\ (start = end <=> start = Behind)
  BY <1>1, <1>9, <1>10, <1>11, EmptyIsBehind
<1> QED
  BY <1>5, <1>8, <1>9, <1>11, <1>12

LEMMA TextStays ==
  ASSUME text' = text
  PROVE  /\ Behind' = Behind
         /\ \A k : IsKey(k)' <=> IsKey(k)
         /\ \A e : IsElement(e)' <=> IsElement(e)
<1>1. Behind' = Behind
  BY DEF Behind
<1>2. /\ \A n, m : IsPast(Rpf!White, n, m)' <=> IsPast(Rpf!White, n, m)
      /\ \A n, m : IsPast(Rpf!KeyEnds, n, m)' <=> IsPast(Rpf!KeyEnds, n, m)
      /\ \A n, m : IsPast(Rpf!ValueEnds, n, m)' <=> IsPast(Rpf!ValueEnds, n, m)
  BY <1>1 DEF IsPast, Rpf!White, Rpf!KeyEnds, Rpf!ValueEnds
<1>3. \A n, m : StartsAt(n, m)' <=> StartsAt(n, m)
  BY <1>2 DEF StartsAt
<1>4. \A k : IsKey(k)' <=> IsKey(k)
  BY <1>2 DEF IsKey
<1>5. \A e : IsElement(e)' <=> IsElement(e)
  BY <1>2, <1>3, <1>4 DEF IsElement
<1> QED
  BY <1>1, <1>4, <1>5

LEMMA RpfTypesInitially == Rpf!Init => RpfTypes
<1> SUFFICES ASSUME Rpf!Init PROVE RpfTypes
  OBVIOUS
<1>1. /\ text \in Texts /\ part = "key" /\ offset = 1 /\ key = Rpf!Null
      /\ elements = <<>> /\ lost = {} /\ emptied = FALSE
  BY DEF Rpf!Init
<1>2. text \in Seq(Characters)
  BY <1>1, BootAssumption DEF Rpf!TextsAssumption, Characters
<1>3. Len(elements) = 0 /\ elements \in Seq(Element) /\ 1 .. Len(elements) = {}
  BY <1>1
<1>4. offset \in 1 .. Len(text) + 2
  BY <1>1, <1>2
<1> QED
  BY <1>1, <1>2, <1>3, <1>4, Zenon DEF RpfTypes

LEMMA RpfTypesStep ==
  ASSUME RpfTypes, [Rpf!Next]_rpfVars
  PROVE  RpfTypes'
<1>1. /\ text \in Texts /\ text \in Seq(Characters) /\ Len(text) \in Nat
      /\ offset \in 1 .. Len(text) + 2 /\ emptied \in BOOLEAN /\ elements \in Seq(Element)
      /\ \A n \in 1 .. Len(elements) : IsElement(elements[n])
  BY DEF RpfTypes
<1>2. CASE UNCHANGED rpfVars
  <2>1. UNCHANGED <<text, part, offset, key, elements, lost, emptied>>
    BY <1>2 DEF rpfVars
  <2>2. /\ Behind' = Behind /\ Rpf!Null' = Rpf!Null
        /\ \A k : IsKey(k)' <=> IsKey(k)
        /\ \A e : IsElement(e)' <=> IsElement(e)
    BY <2>1, TextStays DEF Rpf!Null
  <2>3. IsKey(key)' <=> IsKey(key)
    BY <2>1, <2>2 DEF IsKey, IsPast, Rpf!KeyEnds
  <2>4. \A n \in 1 .. Len(elements) : IsElement(elements[n])'
    BY <1>1, <2>1, <2>2
  <2> QED
    BY <2>1, <2>2, <2>3, <2>4 DEF RpfTypes
<1> DEFINE Same == UNCHANGED <<text, elements, emptied>>
<1>3. ASSUME Same
      PROVE  /\ text' \in Texts /\ text' \in Seq(Characters) /\ emptied' \in BOOLEAN
             /\ elements' \in Seq(Element) /\ (\A n \in 1 .. Len(elements) : IsElement(elements[n]))'
             /\ emptied' <=> \E n \in 1 .. Len(elements') : elements'[n].value.first = Behind'
  BY <1>1, <1>3, TextStays DEF RpfTypes
<1>4. CASE Rpf!ReadKey
  <2>1. part = "key" /\ Same
    BY <1>4 DEF Rpf!ReadKey
  <2> DEFINE first  == Rpf!Past(Rpf!White, offset)
             behind == Rpf!Past(Rpf!KeyEnds, first)
  <2>2. \/ /\ offset > Len(text) \/ first > Len(text)
           /\ part' = "done" /\ lost' = {} /\ UNCHANGED <<offset, key>>
        \/ /\ offset <= Len(text) /\ first <= Len(text)
           /\ IsPast(Rpf!White, offset, first) /\ IsPast(Rpf!KeyEnds, first, behind)
           /\ first \in 1 .. Len(text) /\ behind \in Nat /\ first < behind /\ behind <= Behind
           /\ key' = [first |-> first, behind |-> behind] /\ offset' = behind + 1
           /\ \/ offset' > Len(text) /\ part' = "done" /\ \E k : lost' = {k}
              \/ offset' <= Len(text) /\ part' = "value" /\ lost' = {}
    BY <1>4, <2>1, KeyIsRead, Zenon
  <2> HIDE DEF first, behind
  <2>3. /\ offset' \in 1 .. Len(text) + 2 /\ part' \in {"value", "done"}
        /\ part' # "done" => lost' = {}
        /\ lost' = {} \/ \E k : lost' = {k}
    <3>1. CASE part' = "done" /\ lost' = {} /\ UNCHANGED <<offset, key>>
      BY <1>1, <3>1
    <3>2. CASE /\ behind \in Nat /\ behind <= Behind /\ offset' = behind + 1
               /\ \/ part' = "done" /\ \E k : lost' = {k}
                  \/ part' = "value" /\ lost' = {}
      <4>1. offset' \in 1 .. Len(text) + 2
        BY <1>1, <3>2 DEF Behind
      <4> QED
        BY <3>2, <4>1, Zenon
    <3> QED
      BY <2>2, <3>1, <3>2
  <2>4. ASSUME part' = "value" PROVE IsKey(key)' /\ offset' = key'.behind + 1
    <3>1. /\ key' = [first |-> first, behind |-> behind] /\ offset' = behind + 1
          /\ offset' <= Len(text) /\ first \in Nat /\ first >= 1 /\ behind \in Nat /\ first < behind
          /\ IsPast(Rpf!KeyEnds, first, behind)
      BY <1>1, <2>2, <2>4
    <3>2. key' \in Span /\ key'.first = first /\ key'.behind = behind
      BY <3>1 DEF Span
    <3>3. IsPast(Rpf!KeyEnds, key.first, key.behind)' /\ Len(text)' = Len(text)
      BY <2>1, <3>1, <3>2 DEF IsPast, Behind, Rpf!KeyEnds
    <3>4. key'.first >= 1 /\ key'.first < key'.behind /\ key'.behind < Len(text)
      BY <1>1, <3>1, <3>2
    <3>5. offset' = key'.behind + 1
      BY <3>1, <3>2
    <3>6. (key \in Span)'
      BY <3>2 DEF Span
    <3> QED
      BY <3>3, <3>4, <3>5, <3>6 DEF IsKey
  <2>5. /\ text' \in Texts /\ text' \in Seq(Characters) /\ emptied' \in BOOLEAN
        /\ elements' \in Seq(Element) /\ (\A n \in 1 .. Len(elements) : IsElement(elements[n]))'
        /\ emptied' <=> \E n \in 1 .. Len(elements') : elements'[n].value.first = Behind'
    BY <1>3, <2>1
  <2> QED
    BY <2>1, <2>3, <2>4, <2>5 DEF RpfTypes, Rpf!Null
<1>5. CASE Rpf!MissValue
  <2>1. /\ part = "value" /\ part' = "done" /\ lost' = lost \cup {key} /\ Same
        /\ UNCHANGED <<offset, key>>
    BY <1>5 DEF Rpf!MissValue
  <2>2. lost' = {key}
    BY <2>1 DEF RpfTypes
  <2>3. /\ text' \in Texts /\ text' \in Seq(Characters) /\ emptied' \in BOOLEAN
        /\ elements' \in Seq(Element) /\ (\A n \in 1 .. Len(elements) : IsElement(elements[n]))'
        /\ emptied' <=> \E n \in 1 .. Len(elements') : elements'[n].value.first = Behind'
    BY <1>3, <2>1
  <2> QED
    BY <1>1, <2>1, <2>2, <2>3 DEF RpfTypes, Rpf!Null
<1>6. CASE Rpf!ReadValue
  <2>1. part = "value"
    BY <1>6 DEF Rpf!ReadValue
  <2>2. PICK start, end :
    /\ StartsAt(offset, start) /\ IsPast(Rpf!ValueEnds, start, end)
    /\ start \in offset .. Behind /\ start <= end /\ end <= Behind /\ end \in Nat
    /\ start = end <=> start = Behind
    /\ elements' = Append(elements, [key |-> key, value |-> [first |-> start, behind |-> end]])
    /\ emptied' = (emptied \/ start = Behind)
    /\ offset' = end + 1 /\ key' = Rpf!Null /\ part' = "key" /\ UNCHANGED <<text, lost>>
    BY <1>6, <2>1, ValueIsRead
  <2>3. IsKey(key) /\ offset = key.behind + 1 /\ lost = {}
    BY <2>1 DEF RpfTypes
  <2> DEFINE e == [key |-> key, value |-> [first |-> start, behind |-> end]]
  <2>4. start \in Nat
    BY <1>1, <2>2 DEF Behind
  <2>5. e \in Element /\ e.key = key /\ e.value.first = start /\ e.value.behind = end
    BY <2>2, <2>3, <2>4 DEF Element, Span, IsKey
  <2> HIDE DEF e
  <2>6. IsElement(e)
    BY <2>2, <2>3, <2>5 DEF IsElement
  <2>7. /\ elements' = Append(elements, e) /\ Len(elements') = Len(elements) + 1
        /\ elements' \in Seq(Element) /\ elements'[Len(elements) + 1] = e
        /\ \A n \in 1 .. Len(elements) : elements'[n] = elements[n]
        /\ Len(elements) \in Nat
    BY <1>1, <2>2, <2>5 DEF e
  <2>8. \A n \in 1 .. Len(elements') : n \in 1 .. Len(elements) \/ n = Len(elements) + 1
    BY <2>7
  <2>9. \A n \in 1 .. Len(elements') : IsElement(elements'[n])
    BY <1>1, <2>6, <2>7, <2>8
  <2>10. (\A n \in 1 .. Len(elements) : IsElement(elements[n]))'
    BY <2>2, <2>9, TextStays
  <2>11. emptied' <=> \E n \in 1 .. Len(elements') : elements'[n].value.first = Behind'
    <3>1. Behind' = Behind /\ (emptied <=> \E n \in 1 .. Len(elements) : elements[n].value.first = Behind)
      BY <2>2 DEF Behind, RpfTypes
    <3>2. Len(elements) + 1 \in 1 .. Len(elements') /\ 1 .. Len(elements) \subseteq 1 .. Len(elements')
      BY <2>7
    <3> QED
      BY <2>2, <2>5, <2>7, <2>8, <3>1, <3>2
  <2>12. offset' \in 1 .. Len(text) + 2 /\ emptied' \in BOOLEAN
    BY <1>1, <2>2, <2>4 DEF Behind
  <2> QED
    BY <1>1, <2>2, <2>3, <2>7, <2>10, <2>11, <2>12 DEF RpfTypes, Rpf!Null
<1> QED
  BY <1>2, <1>4, <1>5, <1>6 DEF Rpf!Next

(* An element, in numbers. *)
LEMMA ElementInNumbers ==
  ASSUME text \in Seq(Characters), NEW first \in Nat, NEW behind \in Nat, NEW start \in Nat,
         NEW end, 1 <= first, first < behind, behind < Len(text),
         IsPast(Rpf!KeyEnds, first, behind), StartsAt(behind + 1, start),
         IsPast(Rpf!ValueEnds, start, end)
  PROVE  /\ start \in behind + 1 .. Behind /\ end \in Nat /\ start <= end /\ end <= Behind
         /\ behind \in 2 .. Len(text) - 1 /\ text[behind] \in Rpf!White
         /\ \A k \in behind .. start - 1 : text[k] \in {"_", "/", "="}
<1>1. Len(text) \in Nat
  OBVIOUS
<1>2. behind + 1 \in 2 .. Len(text)
  BY <1>1
<1>3. /\ start \in behind + 1 .. Behind
      /\ start = Behind \/ text[start] \notin Rpf!White
      /\ \A k \in behind + 1 .. start - 1 : text[k] \in {"_", "/", "="}
  BY <1>2, StartIsBehind
<1>4. start \in 1 .. Behind /\ behind \in 2 .. Len(text) - 1
  <2>1. start \in behind + 1 .. Behind
    BY <1>3
  <2> QED
    BY <1>1, <2>1 DEF Behind
<1>5. start <= end /\ end <= Behind /\ end \in Nat
  BY <1>3, <1>4, EmptyIsBehind
<1>6. text[behind] \in Rpf!White
  <2>1. text[behind] \in Characters /\ text[behind] \notin Rpf!KeyEnds
    BY <1>1 DEF IsPast, Behind
  <2> QED
    BY <2>1 DEF Characters, Rpf!KeyEnds, Rpf!White
<1>7. \A k \in behind .. start - 1 : text[k] \in {"_", "/", "="}
  <2>1. \A k \in behind .. start - 1 : k = behind \/ k \in behind + 1 .. start - 1
    OBVIOUS
  <2> QED
    BY <1>3, <1>6, <2>1 DEF Rpf!White
<1> QED
  BY <1>3, <1>4, <1>5, <1>6, <1>7, Zenon

(* The types, the swallowed lines and the empty value follow from what an  *)
(* element is. *)
LEMMA RpfTypesImply ==
  ASSUME RpfTypes
  PROVE  Rpf!TypeOK /\ Rpf!SwallowsForBareKeys /\ Rpf!EmptiedByEquals
<1>1. /\ text \in Texts /\ text \in Seq(Characters) /\ Len(text) \in Nat
      /\ Rpf!Size = Len(text) /\ DOMAIN elements = 1 .. Len(elements)
  BY DEF RpfTypes, Rpf!Size
<1>2. ASSUME NEW n \in DOMAIN elements
      PROVE  /\ IsElement(elements[n])
             /\ elements[n].key.behind \in 2 .. Len(text) - 1
             /\ elements[n].key.first \in Nat /\ elements[n].key.first < elements[n].key.behind
             /\ StartsAt(elements[n].key.behind + 1, elements[n].value.first)
             /\ elements[n].value.first \in elements[n].key.behind + 1 .. Behind
             /\ elements[n].value.behind \in Nat
             /\ elements[n].value.first <= elements[n].value.behind
             /\ elements[n].value.behind <= Behind
             /\ text[elements[n].key.behind] \in Rpf!White
             /\ \A k \in elements[n].key.behind .. elements[n].value.first - 1 : text[k] \in {"_", "/", "="}
  <2> DEFINE e == elements[n]
  <2>1. IsElement(e)
    BY <1>1 DEF RpfTypes
  <2> HIDE DEF e
  <2>2. /\ e.key.first \in Nat /\ e.key.behind \in Nat /\ e.value.first \in Nat /\ e.value.behind \in Nat
        /\ 1 <= e.key.first /\ e.key.first < e.key.behind /\ e.key.behind < Len(text)
        /\ IsPast(Rpf!KeyEnds, e.key.first, e.key.behind)
        /\ StartsAt(e.key.behind + 1, e.value.first)
        /\ IsPast(Rpf!ValueEnds, e.value.first, e.value.behind)
    BY <2>1 DEF IsElement, IsKey, Element, Span
  <2>3. /\ e.value.first \in e.key.behind + 1 .. Behind /\ e.value.behind \in Nat
        /\ e.value.first <= e.value.behind /\ e.value.behind <= Behind
        /\ e.key.behind \in 2 .. Len(text) - 1 /\ text[e.key.behind] \in Rpf!White
        /\ \A k \in e.key.behind .. e.value.first - 1 : text[k] \in {"_", "/", "="}
    <3> DEFINE first == e.key.first
               behind == e.key.behind
               start == e.value.first
               end == e.value.behind
    <3>1. /\ first \in Nat /\ behind \in Nat /\ start \in Nat
          /\ 1 <= first /\ first < behind /\ behind < Len(text)
          /\ IsPast(Rpf!KeyEnds, first, behind) /\ StartsAt(behind + 1, start)
          /\ IsPast(Rpf!ValueEnds, start, end)
      BY <2>2
    <3> HIDE DEF first, behind, start, end
    <3>2. /\ start \in behind + 1 .. Behind /\ end \in Nat /\ start <= end /\ end <= Behind
          /\ behind \in 2 .. Len(text) - 1 /\ text[behind] \in Rpf!White
          /\ \A k \in behind .. start - 1 : text[k] \in {"_", "/", "="}
      BY <1>1, <3>1, ElementInNumbers
    <3> QED
      BY <3>2, Zenon DEF first, behind, start, end
  <2> QED
    BY <2>1, <2>2, <2>3 DEF e
<1>3. Rpf!TypeOK
  <2>1. \A S : Rpf!Cardinality(S) = Cardinality(S)
    BY Zenon DEF Rpf!Cardinality, Cardinality
  <2>2. Cardinality(lost) <= 1
    <3>1. lost = {} \/ \E k : lost = {k}
      BY DEF RpfTypes
    <3>2. CASE lost = {}
      BY <3>2, FS_EmptySet
    <3>3. ASSUME NEW k, lost = {k} PROVE Cardinality(lost) <= 1
      BY <3>3, FS_Singleton
    <3> QED
      BY <3>1, <3>2, <3>3
  <2>3. Rpf!Cardinality(lost) <= 1
    BY <2>1, <2>2
  <2>4. \A n \in DOMAIN elements :
       /\ elements[n].key.first < elements[n].key.behind
       /\ elements[n].value.first <= elements[n].value.behind
       /\ elements[n].value.behind <= Rpf!Size + 1
    BY <1>1, <1>2, Zenon DEF Behind
  <2> QED
    BY <1>1, <2>3, <2>4 DEF Rpf!TypeOK, RpfTypes
<1>4. Rpf!SwallowsForBareKeys
  <2> SUFFICES ASSUME NEW n \in DOMAIN elements,
                      NEW m \in elements[n].key.behind .. elements[n].value.first - 1, text[m] = "/"
      PROVE  LET between == elements[n].key.behind .. elements[n].value.first - 1
                 end == CHOOSE k \in between :
                          /\ text[k] = "/"
                          /\ \A q \in elements[n].key.behind .. k - 1 : text[q] # "/"
             IN  \A k \in elements[n].key.behind .. end - 1 : text[k] \in {"_", "="}
    BY Zenon DEF Rpf!SwallowsForBareKeys
  <2> DEFINE from == elements[n].key.behind
             between == from .. elements[n].value.first - 1
             IsEnd(k) == text[k] = "/" /\ \A q \in from .. k - 1 : text[q] # "/"
             end == CHOOSE k \in between : IsEnd(k)
             slashes == {k \in between : text[k] = "/"}
  <2>1. from \in Nat /\ elements[n].value.first \in Nat
    <3>1. from \in 2 .. Len(text) - 1 /\ elements[n].value.first \in from + 1 .. Behind
      BY <1>2
    <3> HIDE DEF from
    <3> QED
      BY <1>1, <3>1 DEF Behind
  <2>2. slashes \in SUBSET Nat /\ m \in slashes
    BY <2>1
  <2>3. PICK k \in slashes : \A q \in slashes : k <= q
    <3> HIDE DEF slashes
    <3> QED
      BY <2>2, LeastNumber
  <2>4. k \in between /\ IsEnd(k)
    BY <2>1, <2>3
  <2>5. end \in between /\ IsEnd(end)
    <3> HIDE DEF between, IsEnd
    <3> QED
      BY <2>4
  <2>6. \A q \in between : text[q] \in {"_", "/", "="}
    BY <1>2
  <2> HIDE DEF end, from, slashes
  <2>7. \A q \in from .. end - 1 : text[q] \in {"_", "="}
    <3> SUFFICES ASSUME NEW q \in from .. end - 1 PROVE text[q] \in {"_", "="}
      OBVIOUS
    <3>1. q \in between
      BY <2>1, <2>5
    <3>2. text[q] # "/"
      BY <2>5
    <3> QED
      BY <2>6, <3>1, <3>2
  <2> QED
    BY <2>7, Zenon DEF end, from, between, IsEnd
<1>5. Rpf!EmptiedByEquals
  <2>1. ASSUME emptied
        PROVE  \E n \in 3 .. Rpf!Size :
                 /\ text[n] = "=" /\ \A m \in n + 1 .. Rpf!Size : text[m] \in Rpf!White
                 /\ \E e \in DOMAIN elements :
                      /\ elements[e].key.behind < n
                      /\ \A m \in elements[e].key.behind .. n - 1 : text[m] \in Rpf!White
    <3>1. PICK e \in DOMAIN elements : elements[e].value.first = Behind
      BY <1>1, <2>1 DEF RpfTypes
    <3> DEFINE from == elements[e].key.behind
    <3>2. from \in 2 .. Len(text) - 1 /\ StartsAt(from + 1, Behind) /\ text[from] \in Rpf!White
      BY <1>2, <3>1
    <3> HIDE DEF from
    <3>3. from + 1 \in 2 .. Len(text)
      BY <1>1, <3>2
    <3>4. PICK n \in from + 1 .. Len(text) :
            /\ text[n] = "=" /\ \A k \in from + 1 .. n - 1 : text[k] \in Rpf!White
            /\ \A k \in n + 1 .. Len(text) : text[k] \in Rpf!White
      BY <1>1, <3>2, <3>3, StartIsBehind
    <3>5. n \in 3 .. Rpf!Size /\ from < n
      BY <1>1, <3>2
    <3>6. \A m \in from .. n - 1 : text[m] \in Rpf!White
      <4>1. \A m \in from .. n - 1 : m = from \/ m \in from + 1 .. n - 1
        BY <1>1, <3>2
      <4> QED
        BY <3>2, <3>4, <4>1
    <3> QED
      BY <1>1, <3>1, <3>4, <3>5, <3>6 DEF from
  <2>2. ASSUME NEW n \in 3 .. Rpf!Size, text[n] = "=",
               \A m \in n + 1 .. Rpf!Size : text[m] \in Rpf!White,
               NEW e \in DOMAIN elements, elements[e].key.behind < n,
               \A m \in elements[e].key.behind .. n - 1 : text[m] \in Rpf!White
        PROVE  emptied
    <3> DEFINE from == elements[e].key.behind
               start == elements[e].value.first
    <3>1. from \in 2 .. Len(text) - 1 /\ StartsAt(from + 1, start)
      BY <1>2
    <3>2. from < n /\ \A m \in from .. n - 1 : text[m] \in Rpf!White
      BY <2>2
    <3> HIDE DEF from, start
    <3>3. PICK f \in from + 1 .. Len(text) :
            /\ IsPast(Rpf!White, from + 1, f)
            /\ IF text[f] = "=" THEN IsPast(Rpf!White, f + 1, start) ELSE start = f
      BY <3>1 DEF StartsAt
    <3>4. from + 1 \in 1 .. Behind /\ n + 1 \in 1 .. Behind
      BY <1>1, <3>1 DEF Behind
    <3>5. IsPast(Rpf!White, from + 1, n)
      <4>1. n \in from + 1 .. Behind /\ \A k \in from + 1 .. n - 1 : k \in from .. n - 1
        BY <1>1, <3>1, <3>2 DEF Behind
      <4>2. text[n] \notin Rpf!White
        BY <2>2 DEF Rpf!White
      <4> QED
        BY <3>2, <4>1, <4>2 DEF IsPast
    <3>6. f = n
      BY <1>1, <3>3, <3>4, <3>5, PastIsOne
    <3>7. IsPast(Rpf!White, n + 1, Behind)
      BY <1>1, <2>2, <3>4 DEF IsPast, Behind
    <3>8. start = Behind
      BY <1>1, <2>2, <3>3, <3>4, <3>6, <3>7, PastIsOne
    <3> QED
      BY <1>1, <3>8 DEF start, RpfTypes
  <2> QED
    BY <2>1, <2>2 DEF Rpf!EmptiedByEquals
<1> QED
  BY <1>3, <1>4, <1>5

-----------------------------------------------------------------------------
(* Texts of lines that follow the templates. *)
Templates == \A line \in Rpf!Lines : Rpf!Follows(line)

LineOf(e) == [first |-> e.key.first, behind |-> e.value.behind]

(* A line with a key up to behind and a value from start on. *)
TemplateOf(line, behind, start) ==
  /\ behind \in Nat /\ start \in Nat
  /\ line.first < behind /\ behind < start /\ start < line.behind
  /\ \A n \in line.first .. behind - 1 : text[n] = "c"
  /\ text[behind] = "_" /\ text[start] = "c"
  /\ \A n \in behind .. start - 1 : text[n] \in {"_", "="}
  /\ \A p, q \in behind .. start - 1 : text[p] = "=" /\ text[q] = "=" => p = q
  /\ Rpf!Reads(line, [key   |-> [first |-> line.first, behind |-> behind],
                      value |-> [first |-> start, behind |-> line.behind]])

LEMMA RpfCardinality == \A S : Rpf!Cardinality(S) = Cardinality(S)
BY Zenon DEF Rpf!Cardinality, Cardinality

LEMMA LineFacts ==
  ASSUME text \in Seq(Characters), NEW line \in Rpf!Lines
  PROVE  /\ line.first \in 1 .. Len(text) /\ line.behind \in 1 .. Behind /\ line.first < line.behind
         /\ line = [first |-> line.first, behind |-> line.behind]
         /\ \A n \in line.first .. line.behind - 1 : text[n] # "/"
         /\ line.first = 1 \/ text[line.first - 1] = "/"
         /\ line.behind = Behind \/ text[line.behind] = "/"
         /\ \A n \in line.first .. line.behind : IsPast(Rpf!ValueEnds, n, line.behind)
<1>1. /\ line \in [first : 1 .. Len(text), behind : 1 .. Behind]
      /\ line.first < line.behind /\ Rpf!IsLine(line.first, line.behind) /\ Len(text) \in Nat
  BY DEF Rpf!Lines, Rpf!Size, Behind
<1>2. /\ line.first \in 1 .. Len(text) /\ line.behind \in 1 .. Behind
      /\ line = [first |-> line.first, behind |-> line.behind]
  BY <1>1
<1>3. /\ \A n \in line.first .. line.behind - 1 : text[n] # "/"
      /\ line.first = 1 \/ text[line.first - 1] = "/"
      /\ line.behind = Behind \/ text[line.behind] = "/"
  BY <1>1 DEF Rpf!IsLine, Rpf!Size, Behind
<1> DEFINE first == line.first
           end == line.behind
<1>4. /\ first \in 1 .. Len(text) /\ end \in 1 .. Behind /\ first < end /\ end - 1 <= Len(text)
      /\ \A n \in first .. end - 1 : text[n] # "/"
      /\ end = Behind \/ text[end] = "/"
  BY <1>1, <1>2, <1>3 DEF Behind
<1> HIDE DEF first, end
<1>5. ASSUME NEW n \in first .. end PROVE IsPast(Rpf!ValueEnds, n, end)
  <2>1. ASSUME NEW k \in n .. end - 1 PROVE text[k] \in Rpf!ValueEnds
    <3>1. k \in first .. end - 1 /\ k \in 1 .. Len(text)
      BY <1>1, <1>4
    <3>2. text[k] \in Characters
      BY <3>1
    <3> QED
      BY <1>4, <3>1, <3>2 DEF Characters, Rpf!ValueEnds
  <2>2. n <= end /\ end \in n .. Behind
    BY <1>1, <1>4 DEF Behind
  <2> QED
    BY <1>4, <2>1, <2>2 DEF IsPast, Rpf!ValueEnds
<1> QED
  BY <1>1, <1>2, <1>3, <1>5, Zenon DEF first, end

LEMMA LineIsOne ==
  ASSUME text \in Seq(Characters), NEW line \in Rpf!Lines, NEW other \in Rpf!Lines,
         line.first = other.first
  PROVE  line = other
<1> DEFINE n == line.first
           end == line.behind
           last == other.behind
<1>1. n \in 1 .. Len(text) /\ n \in n .. end /\ n \in n .. last
  BY LineFacts DEF Behind
<1>2. IsPast(Rpf!ValueEnds, n, end) /\ IsPast(Rpf!ValueEnds, n, last)
  BY <1>1, LineFacts
<1> HIDE DEF n, end, last
<1>3. n \in 1 .. Behind
  BY <1>1 DEF Behind
<1>4. end = last
  BY <1>2, <1>3, PastIsOne
<1> QED
  BY <1>4, LineFacts DEF end, last

LEMMA LineFollows ==
  ASSUME text \in Seq(Characters), NEW line \in Rpf!Lines, Rpf!Follows(line)
  PROVE  \E behind, start \in Nat : TemplateOf(line, behind, start)
<1> DEFINE Made(behind, start) == [key   |-> [first |-> line.first, behind |-> behind],
                                   value |-> [first |-> start, behind |-> line.behind]]
<1>1. PICK behind, start \in line.first .. line.behind - 1 : Rpf!Reads(line, Made(behind, start))
  BY DEF Rpf!Follows, Rpf!Places
<1>2. line.first \in Nat /\ line.behind \in Nat
  BY LineFacts DEF Behind
<1>3. behind \in Nat /\ start \in Nat
  BY <1>1, <1>2
<1> DEFINE equals == {n \in behind .. start - 1 : text[n] = "="}
<1>4. /\ line.first < behind /\ behind < start /\ start < line.behind
      /\ \A n \in line.first .. behind - 1 : text[n] = "c"
      /\ text[behind] = "_" /\ text[start] = "c"
      /\ \A n \in behind .. start - 1 : text[n] \in {"_", "="}
      /\ Rpf!Cardinality(equals) <= 1
  BY <1>1, Zenon DEF Rpf!Reads
<1>5. ASSUME NEW p \in behind .. start - 1, NEW q \in behind .. start - 1,
             text[p] = "=", text[q] = "=", p # q
      PROVE  FALSE
  <2>1. IsFiniteSet(equals) /\ Cardinality(equals) <= 1
    <3>1. IsFiniteSet(behind .. start - 1)
      BY <1>3, FS_Interval
    <3>2. equals \subseteq behind .. start - 1
      OBVIOUS
    <3> HIDE DEF equals
    <3> QED
      BY <1>4, <3>1, <3>2, FS_Subset, RpfCardinality
  <2>2. {p, q} \subseteq equals
    BY <1>5
  <2> HIDE DEF equals
  <2>3. Cardinality({p, q}) <= Cardinality(equals)
    BY <2>1, <2>2, FS_Subset
  <2>4. Cardinality({p, q}) = 2
    <3>1. IsFiniteSet({p}) /\ Cardinality({p}) = 1
      BY FS_Singleton
    <3>2. q \notin {p}
      BY <1>5
    <3>3. Cardinality({p} \cup {q}) = 1 + 1
      BY <3>1, <3>2, FS_AddElement
    <3>4. {p, q} = {p} \cup {q}
      OBVIOUS
    <3>5. Cardinality({p, q}) = 1 + 1
      BY <3>3, <3>4, Zenon
    <3> QED
      BY <3>5
  <2> QED
    BY <2>1, <2>3, <2>4, FS_CardinalityType
<1>6. TemplateOf(line, behind, start)
  BY <1>1, <1>3, <1>4, <1>5, Zenon DEF TemplateOf
<1> QED
  BY <1>3, <1>6

(* Where the parser sees key, value and end of such a line. *)
LEMMA TemplateInParts ==
  ASSUME text \in Seq(Characters), NEW line \in Rpf!Lines, NEW behind, NEW start,
         TemplateOf(line, behind, start)
  PROVE  /\ IsPast(Rpf!KeyEnds, line.first, behind)
         /\ behind + 1 <= start /\ start <= Len(text)
         /\ text[line.first] = "c" /\ text[start] = "c"
         /\ StartsAt(behind + 1, start)
         /\ IsPast(Rpf!ValueEnds, start, line.behind)
<1> DEFINE first == line.first
           end == line.behind
<1>1. /\ Len(text) \in Nat /\ first \in 1 .. Len(text) /\ end \in 1 .. Behind /\ first < end
      /\ \A n \in first .. end : IsPast(Rpf!ValueEnds, n, end)
  BY LineFacts
<1>2. /\ behind \in Nat /\ start \in Nat /\ first < behind /\ behind < start /\ start < end
      /\ \A n \in first .. behind - 1 : text[n] = "c"
      /\ text[behind] = "_" /\ text[start] = "c"
      /\ \A n \in behind .. start - 1 : text[n] \in {"_", "="}
      /\ \A p, q \in behind .. start - 1 : text[p] = "=" /\ text[q] = "=" => p = q
  BY DEF TemplateOf
<1> HIDE DEF first, end
<1>8. /\ Len(text) \in Nat /\ first \in 1 .. Len(text) /\ end \in 1 .. Behind /\ first < end
      /\ behind \in Nat /\ start \in Nat /\ first < behind /\ behind < start /\ start < end
  BY <1>1, <1>2
<1>3. behind \in first .. Behind /\ start <= Len(text) /\ behind + 1 <= start /\ start \in first .. end
  BY <1>8 DEF Behind
<1>4. IsPast(Rpf!KeyEnds, first, behind)
  BY <1>1, <1>2, <1>3 DEF IsPast, Rpf!KeyEnds
<1>5. text[first] = "c"
  <2>1. first \in first .. behind - 1
    BY <1>8
  <2> QED
    BY <1>2, <2>1
<1>6. IsPast(Rpf!ValueEnds, start, end)
  BY <1>1, <1>3
<1>7. StartsAt(behind + 1, start)
  <2>1. CASE \E q \in behind .. start - 1 : text[q] = "="
    <3>1. PICK q \in behind .. start - 1 : text[q] = "="
      BY <2>1
    <3>2. q # behind
      BY <1>2, <3>1
    <3>3. q \in behind + 1 .. Len(text) /\ q \in behind + 1 .. Behind /\ start \in q + 1 .. Behind
      BY <1>3, <1>8, <3>2 DEF Behind
    <3>4. ASSUME NEW k \in behind + 1 .. start - 1, k # q PROVE text[k] \in Rpf!White
      <4>1. k \in behind .. start - 1
        BY <1>8
      <4>2. text[k] # "="
        BY <1>2, <3>1, <3>4, <4>1
      <4> QED
        BY <1>2, <4>1, <4>2 DEF Rpf!White
    <3>5. /\ \A k \in behind + 1 .. q - 1 : k \in behind + 1 .. start - 1 /\ k # q
          /\ \A k \in q + 1 .. start - 1 : k \in behind + 1 .. start - 1 /\ k # q
      BY <1>8, <3>3
    <3>6. IsPast(Rpf!White, behind + 1, q)
      BY <3>1, <3>3, <3>4, <3>5 DEF IsPast, Rpf!White
    <3>7. IsPast(Rpf!White, q + 1, start)
      BY <1>2, <3>3, <3>4, <3>5 DEF IsPast, Rpf!White
    <3> QED
      BY <3>1, <3>3, <3>6, <3>7 DEF StartsAt
  <2>2. CASE ~(\E q \in behind .. start - 1 : text[q] = "=")
    <3>1. \A k \in behind + 1 .. start - 1 : text[k] \in Rpf!White
      <4>1. \A k \in behind + 1 .. start - 1 : k \in behind .. start - 1
        BY <1>8
      <4> QED
        BY <1>2, <2>2, <4>1 DEF Rpf!White
    <3>2. start \in behind + 1 .. Len(text) /\ start \in behind + 1 .. Behind
      BY <1>3, <1>8 DEF Behind
    <3>3. IsPast(Rpf!White, behind + 1, start)
      BY <1>2, <3>1, <3>2 DEF IsPast, Rpf!White
    <3> QED
      BY <1>2, <3>2, <3>3 DEF StartsAt
  <2> QED
    BY <2>1, <2>2
<1> QED
  BY <1>2, <1>3, <1>4, <1>5, <1>6, <1>7 DEF first, end

LEMMA StartIsOne ==
  ASSUME text \in Seq(Characters), NEW n \in 1 .. Behind, NEW start, NEW other,
         StartsAt(n, start), StartsAt(n, other)
  PROVE  start = other
<1>1. Len(text) \in Nat
  OBVIOUS
<1>2. PICK f \in n .. Len(text) :
        IsPast(Rpf!White, n, f) /\ IF text[f] = "=" THEN IsPast(Rpf!White, f + 1, start) ELSE start = f
  BY DEF StartsAt
<1>3. PICK g \in n .. Len(text) :
        IsPast(Rpf!White, n, g) /\ IF text[g] = "=" THEN IsPast(Rpf!White, g + 1, other) ELSE other = g
  BY DEF StartsAt
<1>4. f = g
  BY <1>2, <1>3, PastIsOne
<1>5. f + 1 \in 1 .. Behind
  BY <1>1 DEF Behind
<1> QED
  BY <1>2, <1>3, <1>4, <1>5, PastIsOne

(* Between lines there is nothing but their ends.                          *)
LEMMA NextLine ==
  ASSUME text \in Seq(Characters), Templates, NEW from \in 1 .. Len(text),
         from = 1 \/ text[from - 1] = "/", NEW first \in 1 .. Len(text),
         IsPast(Rpf!White, from, first)
  PROVE  \E line \in Rpf!Lines : line.first = first
<1> DEFINE ahead == {k \in from .. first : \A q \in k .. first - 1 : text[q] # "/"}
<1>1. /\ Len(text) \in Nat /\ from <= first /\ text[first] \notin Rpf!White
      /\ \A k \in from .. first - 1 : text[k] \in Rpf!White
  BY DEF IsPast, Behind
<1>2. ahead \in SUBSET Nat /\ first \in ahead
  BY <1>1
<1>3. PICK start \in ahead : \A k \in ahead : start <= k
  <2> HIDE DEF ahead
  <2> QED
    BY <1>2, LeastNumber
<1>4. start \in from .. first /\ \A q \in start .. first - 1 : text[q] # "/"
  BY <1>3
<1>5. start = 1 \/ text[start - 1] = "/"
  <2>1. CASE start = from
    BY <2>1
  <2>2. CASE start # from
    <3>1. start - 1 \in from .. first /\ start - 1 \notin ahead
      BY <1>2, <1>3, <1>4, <2>2
    <3>2. PICK q \in start - 1 .. first - 1 : text[q] = "/"
      BY <3>1
    <3>3. q = start - 1
      BY <1>4, <3>2
    <3> QED
      BY <3>2, <3>3
  <2> QED
    BY <2>1, <2>2
<1> DEFINE end == Rpf!Past(Rpf!ValueEnds, first)
<1>6. IsPast(Rpf!ValueEnds, first, end)
  <2>1. first \in 1 .. Behind
    BY <1>1 DEF Behind
  <2> QED
    BY <2>1, PastIsFound
<1> HIDE DEF end, ahead
<1>7. /\ end \in first .. Behind /\ (end = Behind \/ text[end] \notin Rpf!ValueEnds)
      /\ \A k \in first .. end - 1 : text[k] \in Rpf!ValueEnds
  BY <1>6 DEF IsPast
<1>8. end = Behind \/ text[end] = "/"
  <2>1. ASSUME end # Behind PROVE text[end] \in Characters
    BY <1>1, <1>7, <2>1 DEF Behind
  <2> QED
    BY <1>7, <2>1 DEF Characters, Rpf!ValueEnds
<1>9. first < end
  <2>1. text[first] \in Characters
    OBVIOUS
  <2>2. text[first] \in Rpf!ValueEnds
    BY <1>1, <2>1 DEF Characters, Rpf!ValueEnds, Rpf!White
  <2> QED
    BY <1>1, <1>7, <2>2 DEF Behind
<1>10. \A k \in start .. end - 1 : text[k] # "/"
  <2> SUFFICES ASSUME NEW k \in start .. end - 1 PROVE text[k] # "/"
    OBVIOUS
  <2>1. k \in start .. first - 1 \/ k \in first .. end - 1
    BY <1>4, <1>7
  <2> QED
    BY <1>4, <1>7, <2>1 DEF Rpf!ValueEnds
<1> DEFINE line == [first |-> start, behind |-> end]
<1>11. line \in Rpf!Lines
  <2>1. start \in 1 .. Rpf!Size /\ end \in 1 .. Rpf!Size + 1 /\ start < end
    BY <1>1, <1>4, <1>7, <1>9 DEF Rpf!Size, Behind
  <2>2. Rpf!IsLine(start, end)
    BY <1>5, <1>8, <1>10 DEF Rpf!IsLine, Rpf!Size, Behind
  <2> QED
    BY <2>1, <2>2 DEF Rpf!Lines
<1>12. text[start] = "c"
  <2>1. line.first = start
    OBVIOUS
  <2> HIDE DEF line
  <2>2. PICK behind, begin \in Nat : TemplateOf(line, behind, begin)
    BY <1>11, LineFollows DEF Templates
  <2>3. text[line.first] = "c"
    BY <1>11, <2>2, TemplateInParts
  <2> QED
    BY <2>1, <2>3
<1>13. start = first
  <2>1. ASSUME start # first PROVE FALSE
    <3>1. start \in from .. first - 1
      BY <1>4, <2>1
    <3> QED
      BY <1>1, <1>12, <3>1 DEF Rpf!White
  <2> QED
    BY <2>1
<1> QED
  BY <1>11, <1>13

-----------------------------------------------------------------------------
(* How far the lines have been read: every line that starts before Reached *)
(* is one of the elements. *)
Reached == IF part = "value" THEN key.first ELSE IF part = "key" THEN offset ELSE Behind

LinesRead ==
  /\ lost = {}
  /\ part = "key" => offset = 1 \/ offset = Len(text) + 2 \/ text[offset - 1] = "/"
  /\ part = "value" => \E line \in Rpf!Lines : line.first = key.first
  /\ \A n \in 1 .. Len(elements) :
       /\ LineOf(elements[n]) \in Rpf!Lines /\ Rpf!Reads(LineOf(elements[n]), elements[n])
       /\ part # "done" => elements[n].value.behind < Reached
  /\ \A m, n \in 1 .. Len(elements) : m < n => elements[m].value.behind < elements[n].key.first
  /\ \A line \in Rpf!Lines : line.first < Reached =>
       \E n \in 1 .. Len(elements) : LineOf(elements[n]) = line

RpfInv == RpfTypes /\ (Templates => LinesRead)

LEMMA LinesStay ==
  ASSUME text' = text
  PROVE  /\ Rpf!Lines' = Rpf!Lines
         /\ Templates' <=> Templates
         /\ \A line, e : Rpf!Reads(line, e)' <=> Rpf!Reads(line, e)
<1>1. Rpf!Lines' = Rpf!Lines
  BY DEF Rpf!Lines, Rpf!IsLine, Rpf!Size
<1>2. \A line, e : Rpf!Reads(line, e)' <=> Rpf!Reads(line, e)
  BY DEF Rpf!Reads
<1>3. \A line : Rpf!Follows(line)' <=> Rpf!Follows(line)
  BY <1>2 DEF Rpf!Follows, Rpf!Places
<1> QED
  BY <1>1, <1>2, <1>3 DEF Templates

(* A line follows its template, so it starts with a character of its key.  *)
LEMMA LineStarts ==
  ASSUME text \in Seq(Characters), Templates, NEW line \in Rpf!Lines
  PROVE  text[line.first] = "c"
<1>1. PICK behind, start \in Nat : TemplateOf(line, behind, start)
  BY LineFollows DEF Templates
<1> QED
  BY <1>1, TemplateInParts

LEMMA NoLineBetween ==
  ASSUME text \in Seq(Characters), Templates, NEW from \in Nat, NEW to \in Nat,
         \A k \in from .. to - 1 : text[k] \in Rpf!White,
         NEW line \in Rpf!Lines, line.first < to
  PROVE  line.first < from
<1>1. line.first \in Nat
  BY LineFacts
<1>2. text[line.first] = "c"
  BY LineStarts
<1>3. ASSUME from <= line.first PROVE FALSE
  <2>1. line.first \in from .. to - 1
    BY <1>1, <1>3
  <2> QED
    BY <1>2, <2>1 DEF Rpf!White
<1> QED
  BY <1>1, <1>3

LEMMA LinesReadInitially == Rpf!Init => LinesRead
<1> SUFFICES ASSUME Rpf!Init PROVE LinesRead
  OBVIOUS
<1>1. part = "key" /\ offset = 1 /\ elements = <<>> /\ lost = {}
  BY DEF Rpf!Init
<1>2. 1 .. Len(elements) = {} /\ Reached = 1
  BY <1>1 DEF Reached
<1>3. text \in Seq(Characters)
  BY RpfTypesInitially DEF RpfTypes
<1>4. \A line \in Rpf!Lines : ~(line.first < 1)
  <2> SUFFICES ASSUME NEW line \in Rpf!Lines PROVE ~(line.first < 1)
    OBVIOUS
  <2>1. line.first \in 1 .. Len(text)
    BY <1>3, LineFacts
  <2> QED
    BY <1>3, <2>1
<1> QED
  BY <1>1, <1>2, <1>4 DEF LinesRead

(* What reading a key does to the lines: a line begins at the key, and no  *)
(* other line begins between it and the place from which it was looked for. *)
LEMMA KeyKeepsLines ==
  ASSUME RpfTypes, Templates, LinesRead, part = "key", Rpf!ReadKey
  PROVE  LinesRead'
<1> DEFINE first  == Rpf!Past(Rpf!White, offset)
           behind == Rpf!Past(Rpf!KeyEnds, first)
           N == 1 .. Len(elements)
<1>1. /\ text \in Seq(Characters) /\ Len(text) \in Nat /\ offset \in 1 .. Len(text) + 2
      /\ elements \in Seq(Element) /\ Len(elements) \in Nat
  BY DEF RpfTypes
<1>2. text' = text /\ elements' = elements
  BY DEF Rpf!ReadKey
<1>3. \/ /\ offset > Len(text) \/ first > Len(text)
         /\ part' = "done" /\ lost' = {} /\ UNCHANGED <<offset, key>>
      \/ /\ offset <= Len(text) /\ first <= Len(text)
         /\ IsPast(Rpf!White, offset, first) /\ IsPast(Rpf!KeyEnds, first, behind)
         /\ first \in 1 .. Len(text) /\ behind \in Nat /\ first < behind /\ behind <= Behind
         /\ key' = [first |-> first, behind |-> behind] /\ offset' = behind + 1
         /\ \/ offset' > Len(text) /\ part' = "done" /\ \E k : lost' = {k}
            \/ offset' <= Len(text) /\ part' = "value" /\ lost' = {}
  BY KeyIsRead, Zenon
<1>4. /\ offset = 1 \/ offset = Len(text) + 2 \/ text[offset - 1] = "/"
      /\ \A n \in N : LineOf(elements[n]) \in Rpf!Lines /\ Rpf!Reads(LineOf(elements[n]), elements[n])
      /\ \A n \in N : elements[n].value.behind < offset
      /\ \A m, n \in N : m < n => elements[m].value.behind < elements[n].key.first
      /\ \A line \in Rpf!Lines : line.first < offset => \E n \in N : LineOf(elements[n]) = line
  BY DEF LinesRead, Reached
<1>5. /\ \A n \in N : LineOf(elements[n])' \in Rpf!Lines' /\ Rpf!Reads(LineOf(elements[n]), elements[n])'
      /\ \A m, n \in N : m < n => elements'[m].value.behind < elements'[n].key.first
      /\ N' = N
  <2>1. Rpf!Lines' = Rpf!Lines /\ \A line, e : Rpf!Reads(line, e)' <=> Rpf!Reads(line, e)
    BY <1>2, LinesStay
  <2>2. \A n \in N : LineOf(elements[n])' = LineOf(elements[n])
    BY <1>2 DEF LineOf
  <2>3. \A n \in N : Rpf!Reads(LineOf(elements[n]), elements[n])' <=> Rpf!Reads(LineOf(elements[n]), elements[n])
    BY <1>2, <2>2 DEF Rpf!Reads
  <2> QED
    BY <1>2, <1>4, <2>1, <2>2, <2>3
<1> HIDE DEF first, behind
<1>6. CASE part' = "done" /\ lost' = {} /\ (offset > Len(text) \/ first > Len(text))
  <2>1. \A line \in Rpf!Lines : line.first < offset
    <3> SUFFICES ASSUME NEW line \in Rpf!Lines PROVE line.first < offset
      OBVIOUS
    <3>1. line.first \in 1 .. Len(text)
      BY <1>1, LineFacts
    <3>2. CASE offset > Len(text)
      BY <1>1, <3>1, <3>2
    <3>3. CASE offset <= Len(text) /\ first > Len(text)
      <4>1. offset \in 1 .. Behind /\ offset \in Nat /\ Behind \in Nat /\ line.first < Behind
        BY <1>1, <3>1, <3>3 DEF Behind
      <4>2. IsPast(Rpf!White, offset, first)
        BY <1>1, <4>1, PastIsFound DEF first
      <4>3. \A k \in offset .. Behind - 1 : text[k] \in Rpf!White
        BY <1>1, <3>3, <4>2 DEF IsPast, Behind
      <4> QED
        BY <1>1, <4>1, <4>3, NoLineBetween
    <3> QED
      BY <1>1, <1>6, <3>2, <3>3
  <2>2. \A line \in Rpf!Lines' : \E n \in N : LineOf(elements[n])' = line
    <3>1. Rpf!Lines' = Rpf!Lines
      BY <1>2, LinesStay
    <3>2. \A n \in N : LineOf(elements[n])' = LineOf(elements[n])
      BY <1>2 DEF LineOf
    <3> QED
      BY <1>4, <2>1, <3>1, <3>2
  <2> QED
    BY <1>2, <1>5, <1>6, <2>2 DEF LinesRead
<1>7. CASE /\ offset <= Len(text) /\ first <= Len(text)
           /\ IsPast(Rpf!White, offset, first) /\ IsPast(Rpf!KeyEnds, first, behind)
           /\ first \in 1 .. Len(text) /\ behind \in Nat /\ first < behind /\ behind <= Behind
           /\ key' = [first |-> first, behind |-> behind] /\ offset' = behind + 1
           /\ \/ offset' > Len(text) /\ part' = "done" /\ \E k : lost' = {k}
              \/ offset' <= Len(text) /\ part' = "value" /\ lost' = {}
  <2>1. offset \in 1 .. Len(text) /\ (offset = 1 \/ text[offset - 1] = "/")
    BY <1>1, <1>4, <1>7
  <2>2. PICK line \in Rpf!Lines : line.first = first
    BY <1>1, <1>7, <2>1, NextLine
  <2>3. PICK b, s \in Nat : TemplateOf(line, b, s)
    BY <1>1, <2>2, LineFollows DEF Templates
  <2>4. IsPast(Rpf!KeyEnds, first, b) /\ b + 1 <= s /\ s <= Len(text)
    BY <1>1, <2>2, <2>3, TemplateInParts
  <2>5. b = behind
    <3>1. first \in 1 .. Behind
      BY <1>1, <1>7 DEF Behind
    <3> QED
      BY <1>1, <1>7, <2>4, <3>1, PastIsOne
  <2>6. part' = "value" /\ lost' = {}
    BY <1>1, <1>7, <2>3, <2>4, <2>5
  <2>7. key'.first = first /\ Reached' = first
    BY <1>7, <2>6 DEF Reached
  <2>8. \A n \in N : elements[n].value.behind < first
    <3> SUFFICES ASSUME NEW n \in N PROVE elements[n].value.behind < first
      OBVIOUS
    <3>3. elements[n] \in Element
      BY <1>1
    <3>1. elements[n].value.behind \in Nat /\ elements[n].value.behind < offset
      BY <1>4, <3>3 DEF Element, Span
    <3>2. first \in Nat /\ offset \in Nat /\ offset <= first
      BY <1>1, <1>7 DEF IsPast, Behind
    <3> QED
      BY <3>1, <3>2
  <2>9. \A l \in Rpf!Lines : l.first < first => \E n \in N : LineOf(elements[n]) = l
    <3> SUFFICES ASSUME NEW l \in Rpf!Lines, l.first < first PROVE \E n \in N : LineOf(elements[n]) = l
      OBVIOUS
    <3>1. offset \in Nat /\ first \in Nat /\ \A k \in offset .. first - 1 : text[k] \in Rpf!White
      BY <1>1, <1>7 DEF IsPast
    <3>2. l.first < offset
      BY <1>1, <3>1, NoLineBetween
    <3> QED
      BY <1>4, <3>2
  <2>10. /\ \A l \in Rpf!Lines' : l.first < Reached' => \E n \in N : LineOf(elements[n])' = l
         /\ \E l \in Rpf!Lines' : l.first = key'.first
         /\ \A n \in N : elements'[n].value.behind < Reached'
    <3>1. Rpf!Lines' = Rpf!Lines
      BY <1>2, LinesStay
    <3>2. \A n \in N : LineOf(elements[n])' = LineOf(elements[n])
      BY <1>2 DEF LineOf
    <3> QED
      BY <1>2, <2>2, <2>7, <2>8, <2>9, <3>1, <3>2
  <2> QED
    BY <1>2, <1>5, <2>6, <2>10 DEF LinesRead
<1> QED
  BY <1>3, <1>6, <1>7

(* Under the templates every key has a value.                              *)
LEMMA NoValueMissed ==
  ASSUME RpfTypes, Templates, LinesRead
  PROVE  ~Rpf!MissValue
<1> SUFFICES ASSUME Rpf!MissValue PROVE FALSE
  OBVIOUS
<1>1. part = "value" /\ ~Rpf!HasValue
  BY DEF Rpf!MissValue
<1>2. /\ text \in Seq(Characters) /\ Len(text) \in Nat /\ Rpf!Size = Len(text)
      /\ IsPast(Rpf!KeyEnds, key.first, key.behind) /\ offset = key.behind + 1
      /\ key.first \in 1 .. Behind /\ key.behind \in Nat /\ key.behind < Len(text)
  BY <1>1 DEF RpfTypes, IsKey, Span, Behind, Rpf!Size
<1>3. PICK line \in Rpf!Lines : line.first = key.first
  BY <1>1 DEF LinesRead
<1>4. PICK b, s \in Nat : TemplateOf(line, b, s)
  BY <1>2, <1>3, LineFollows DEF Templates
<1>5. /\ IsPast(Rpf!KeyEnds, key.first, b) /\ StartsAt(b + 1, s)
  BY <1>2, <1>3, <1>4, TemplateInParts
<1>6. b = key.behind
  BY <1>2, <1>5, PastIsOne
<1>7. PICK f \in offset .. Len(text) : IsPast(Rpf!White, offset, f)
  BY <1>2, <1>5, <1>6 DEF StartsAt
<1>8. offset \in 1 .. Behind
  BY <1>2 DEF Behind
<1>9. IsPast(Rpf!White, offset, Rpf!Past(Rpf!White, offset))
  BY <1>2, <1>8, PastIsFound
<1>10. Rpf!Past(Rpf!White, offset) = f
  BY <1>2, <1>7, <1>8, <1>9, PastIsOne
<1> QED
  BY <1>1, <1>2, <1>7, <1>10 DEF Rpf!HasValue

(* Reading a value ends the line that the key began.                       *)
LEMMA ValueKeepsLines ==
  ASSUME RpfTypes, Templates, LinesRead, part = "value", Rpf!ReadValue
  PROVE  LinesRead'
<1> DEFINE N == 1 .. Len(elements)
           M == 1 .. Len(elements) + 1
<1>1. /\ text \in Seq(Characters) /\ Len(text) \in Nat
      /\ elements \in Seq(Element) /\ Len(elements) \in Nat /\ lost = {}
      /\ key \in Span /\ key.first \in 1 .. Behind /\ key.behind \in Nat /\ key.behind < Len(text)
      /\ IsPast(Rpf!KeyEnds, key.first, key.behind) /\ offset = key.behind + 1
  BY DEF RpfTypes, IsKey, Span, Behind
<1>2. PICK start, end :
    /\ StartsAt(offset, start) /\ IsPast(Rpf!ValueEnds, start, end)
    /\ start \in offset .. Behind /\ start <= end /\ end <= Behind /\ end \in Nat
    /\ elements' = Append(elements, [key |-> key, value |-> [first |-> start, behind |-> end]])
    /\ offset' = end + 1 /\ part' = "key" /\ UNCHANGED <<text, lost>>
  BY ValueIsRead
<1>3. /\ \A n \in N : LineOf(elements[n]) \in Rpf!Lines /\ Rpf!Reads(LineOf(elements[n]), elements[n])
      /\ \A n \in N : elements[n].value.behind < key.first
      /\ \A m, n \in N : m < n => elements[m].value.behind < elements[n].key.first
      /\ \A line \in Rpf!Lines : line.first < key.first => \E n \in N : LineOf(elements[n]) = line
  BY DEF LinesRead, Reached
<1>4. PICK line \in Rpf!Lines : line.first = key.first
  BY DEF LinesRead
<1>5. PICK b, s \in Nat : TemplateOf(line, b, s)
  BY <1>1, <1>4, LineFollows DEF Templates
<1>6. /\ IsPast(Rpf!KeyEnds, key.first, b) /\ StartsAt(b + 1, s) /\ IsPast(Rpf!ValueEnds, s, line.behind)
      /\ s <= Len(text) /\ b + 1 <= s
  BY <1>1, <1>4, <1>5, TemplateInParts
<1>7. b = key.behind
  BY <1>1, <1>6, PastIsOne
<1>8. s = start
  <2>1. offset \in 1 .. Behind
    BY <1>1 DEF Behind
  <2> QED
    BY <1>1, <1>2, <1>6, <1>7, <2>1, StartIsOne
<1>9. end = line.behind
  <2>1. s \in 1 .. Behind
    BY <1>1, <1>6 DEF Behind
  <2> QED
    BY <1>1, <1>2, <1>6, <1>8, <2>1, PastIsOne
<1> DEFINE e == [key |-> key, value |-> [first |-> start, behind |-> end]]
<1>10. /\ e.key = key /\ e.value.behind = end /\ LineOf(e) = line
  <2>1. line = [first |-> line.first, behind |-> line.behind]
    BY <1>1, LineFacts
  <2> QED
    BY <1>4, <1>9, <2>1 DEF LineOf
<1>11. Rpf!Reads(line, e)
  <2>1. Rpf!Reads(line, [key   |-> [first |-> line.first, behind |-> b],
                         value |-> [first |-> s, behind |-> line.behind]])
    BY <1>5 DEF TemplateOf
  <2>2. key = [first |-> line.first, behind |-> b]
    BY <1>1, <1>4, <1>7 DEF Span
  <2> QED
    BY <1>8, <1>9, <2>1, <2>2, Zenon
<1> HIDE DEF e
<1>12. /\ elements' = Append(elements, e) /\ Len(elements') = Len(elements) + 1
       /\ elements'[Len(elements) + 1] = e
       /\ \A n \in N : elements'[n] = elements[n]
       /\ \A n \in M : n \in N \/ n = Len(elements) + 1
       /\ N \subseteq M /\ Len(elements) + 1 \in M /\ 1 .. Len(elements') = M
  BY <1>1, <1>2 DEF e
<1>13. line.first \in 1 .. Len(text) /\ line.behind \in 1 .. Behind /\ line.first < line.behind
       /\ (\A n \in line.first .. line.behind - 1 : text[n] # "/")
       /\ (line.behind = Behind \/ text[line.behind] = "/")
  BY <1>1, LineFacts
<1>14. \A n \in M : LineOf(elements'[n]) \in Rpf!Lines /\ Rpf!Reads(LineOf(elements'[n]), elements'[n])
  BY <1>3, <1>10, <1>11, <1>12
<1>15. \A n \in M : elements'[n].value.behind < end + 1
  <2> SUFFICES ASSUME NEW n \in M PROVE elements'[n].value.behind < end + 1
    OBVIOUS
  <2>1. CASE n = Len(elements) + 1
    BY <1>2, <1>10, <1>12, <2>1
  <2>2. CASE n \in N
    <3>1. elements[n] \in Element
      BY <1>1, <2>2
    <3>2. elements[n].value.behind \in Nat /\ elements[n].value.behind < line.first
      BY <1>3, <1>4, <2>2, <3>1 DEF Element, Span
    <3>3. elements'[n].value.behind = elements[n].value.behind
      BY <1>12, <2>2
    <3>4. line.first \in Nat /\ line.first < end /\ end \in Nat
      BY <1>2, <1>9, <1>13
    <3> QED
      BY <3>2, <3>3, <3>4
  <2> QED
    BY <1>12, <2>1, <2>2
<1>16. ASSUME NEW m \in M, NEW n \in M, m < n PROVE elements'[m].value.behind < elements'[n].key.first
  <2>1. m \in N
    BY <1>1, <1>12, <1>16
  <2>2. CASE n \in N
    BY <1>3, <1>12, <1>16, <2>1, <2>2
  <2>3. CASE n = Len(elements) + 1
    BY <1>3, <1>10, <1>12, <2>1, <2>3
  <2> QED
    BY <1>12, <2>2, <2>3
<1>17. ASSUME NEW l \in Rpf!Lines, l.first < end + 1
       PROVE  \E n \in M : LineOf(elements'[n]) = l
  <2>1. l.first \in 1 .. Len(text) /\ (l.first = 1 \/ text[l.first - 1] = "/")
    BY <1>1, LineFacts
  <2>2. CASE l.first < key.first
    BY <1>3, <1>12, <2>2
  <2>3. CASE l.first = key.first
    <3>1. l = line
      BY <1>1, <1>4, <2>3, LineIsOne
    <3> QED
      BY <1>10, <1>12, <3>1
  <2>4. CASE l.first > key.first
    <3>1. l.first - 1 \in line.first .. line.behind - 1 /\ l.first # 1
      <4>1. line.first \in Nat /\ line.first >= 1 /\ line.first < l.first /\ l.first \in Nat
        BY <1>4, <1>13, <2>1, <2>4
      <4>2. l.first <= line.behind /\ line.behind \in Nat
        BY <1>2, <1>9, <1>17, <2>1
      <4> QED
        BY <4>1, <4>2
    <3> QED
      BY <1>13, <2>1, <3>1
  <2> QED
    <3>1. l.first \in Nat /\ key.first \in Nat
      BY <1>4, <1>13, <2>1
    <3> QED
      BY <2>2, <2>3, <2>4, <3>1
<1>18. Reached' = end + 1 /\ Rpf!Lines' = Rpf!Lines
  BY <1>2, LinesStay DEF Reached
<1>19. offset' = Len(text) + 2 \/ text[offset' - 1] = "/"
  BY <1>2, <1>9, <1>13 DEF Behind
<1>20. /\ \A n \in M : LineOf(elements[n])' = LineOf(elements'[n])
       /\ \A n \in M : Rpf!Reads(LineOf(elements[n]), elements[n])' <=> Rpf!Reads(LineOf(elements'[n]), elements'[n])
  <2>1. \A n \in M : LineOf(elements[n])' = LineOf(elements'[n])
    BY DEF LineOf
  <2>2. text' = text
    BY <1>2
  <2> QED
    BY <2>1, <2>2 DEF Rpf!Reads
<1>21. /\ lost' = {} /\ part' = "key" /\ text' = text /\ 1 .. Len(elements') = M
  BY <1>1, <1>2, <1>12
<1> HIDE DEF N, M
<1> QED
  BY <1>14, <1>15, <1>16, <1>17, <1>18, <1>19, <1>20, <1>21 DEF LinesRead

LEMMA RpfInvStep ==
  ASSUME RpfInv, [Rpf!Next]_rpfVars
  PROVE  RpfInv'
<1>1. RpfTypes /\ RpfTypes'
  BY RpfTypesStep DEF RpfInv
<1>2. text' = text
  BY DEF Rpf!Next, Rpf!ReadKey, Rpf!MissValue, Rpf!ReadValue, rpfVars
<1>3. ASSUME Templates PROVE LinesRead'
  <2>1. LinesRead
    BY <1>3 DEF RpfInv
  <2>2. CASE UNCHANGED rpfVars
    <3>1. Rpf!Lines' = Rpf!Lines /\ \A line, e : Rpf!Reads(line, e)' <=> Rpf!Reads(line, e)
      BY <1>2, LinesStay
    <3>2. Reached' = Reached
      BY <2>2 DEF rpfVars, Reached, Behind
    <3>3. \A n \in 1 .. Len(elements) : LineOf(elements[n])' = LineOf(elements[n])
      BY <2>2 DEF rpfVars, LineOf
    <3>4. \A n \in 1 .. Len(elements) :
            Rpf!Reads(LineOf(elements[n]), elements[n])' <=> Rpf!Reads(LineOf(elements[n]), elements[n])
      BY <2>2, <3>3 DEF rpfVars, Rpf!Reads
    <3> QED
      BY <2>1, <2>2, <3>1, <3>2, <3>3, <3>4 DEF LinesRead, rpfVars
  <2>3. CASE Rpf!ReadKey
    <3>1. part = "key"
      BY <2>3 DEF Rpf!ReadKey
    <3> QED
      BY <1>1, <1>3, <2>1, <2>3, <3>1, KeyKeepsLines
  <2>4. CASE Rpf!MissValue
    BY <1>1, <1>3, <2>1, <2>4, NoValueMissed
  <2>5. CASE Rpf!ReadValue
    <3>1. part = "value"
      BY <2>5 DEF Rpf!ReadValue
    <3> QED
      BY <1>1, <1>3, <2>1, <2>5, <3>1, ValueKeepsLines
  <2> QED
    BY <2>2, <2>3, <2>4, <2>5 DEF Rpf!Next
<1>4. Templates' <=> Templates
  BY <1>2, LinesStay
<1> QED
  BY <1>1, <1>3, <1>4 DEF RpfInv

(* At the end there is an element for every line, and no other.            *)
LEMMA TemplatesGiveTheirLines ==
  ASSUME RpfInv
  PROVE  Rpf!TemplatesAreRead
<1> SUFFICES ASSUME part = "done", Templates PROVE
      /\ Rpf!Cardinality(Rpf!Lines) = Len(elements) /\ lost = {}
      /\ \A n \in DOMAIN elements :
           /\ \E line \in Rpf!Lines : Rpf!Reads(line, elements[n])
           /\ n > 1 => elements[n - 1].value.behind < elements[n].key.first
  BY Zenon DEF Rpf!TemplatesAreRead, Templates
<1> DEFINE N == 1 .. Len(elements)
           F == [n \in N |-> LineOf(elements[n])]
<1>1. /\ text \in Seq(Characters) /\ Len(text) \in Nat
      /\ elements \in Seq(Element) /\ Len(elements) \in Nat /\ DOMAIN elements = N
      /\ LinesRead
  BY DEF RpfInv, RpfTypes
<1>2. /\ lost = {}
      /\ \A n \in N : LineOf(elements[n]) \in Rpf!Lines /\ Rpf!Reads(LineOf(elements[n]), elements[n])
      /\ \A m, n \in N : m < n => elements[m].value.behind < elements[n].key.first
      /\ \A line \in Rpf!Lines : line.first < Behind => \E n \in N : LineOf(elements[n]) = line
  BY <1>1 DEF LinesRead, Reached
<1>3. \A line \in Rpf!Lines : \E n \in N : LineOf(elements[n]) = line
  <2> SUFFICES ASSUME NEW line \in Rpf!Lines PROVE \E n \in N : LineOf(elements[n]) = line
    OBVIOUS
  <2>1. line.first \in 1 .. Len(text)
    BY <1>1, LineFacts
  <2>2. line.first < Behind
    BY <1>1, <2>1 DEF Behind
  <2> QED
    BY <1>2, <2>2
<1>4. ASSUME NEW m \in N, NEW n \in N, m < n PROVE LineOf(elements[m]) # LineOf(elements[n])
  <2> DEFINE a == LineOf(elements[m])
             b == LineOf(elements[n])
  <2>1. a \in Rpf!Lines /\ b \in Rpf!Lines /\ a.behind < b.first
    <3>1. elements[m].value.behind = a.behind /\ elements[n].key.first = b.first
      BY DEF LineOf
    <3> QED
      BY <1>2, <1>4, <3>1
  <2> HIDE DEF a, b
  <2>2. a.first < a.behind /\ a.first \in Nat /\ a.behind \in Nat
    BY <1>1, <2>1, LineFacts DEF Behind
  <2>3. a # b
    BY <2>1, <2>2
  <2> QED
    BY <2>3 DEF a, b
<1>5. \A m, n \in N : LineOf(elements[m]) = LineOf(elements[n]) => m = n
  <2> SUFFICES ASSUME NEW m \in N, NEW n \in N, m # n PROVE LineOf(elements[m]) # LineOf(elements[n])
    OBVIOUS
  <2>1. m < n \/ n < m
    BY <1>1
  <2> QED
    BY <1>4, <2>1
<1>6. Cardinality(Rpf!Lines) = Len(elements)
  <2>1. F \in [N -> Rpf!Lines]
    BY <1>2
  <2>2. \A n \in N : F[n] = LineOf(elements[n])
    OBVIOUS
  <2> HIDE DEF F
  <2>3. F \in Injection(N, Rpf!Lines)
    BY <1>5, <2>1, <2>2 DEF Injection, IsInjective
  <2>4. F \in Surjection(N, Rpf!Lines)
    BY <1>3, <2>1, <2>2 DEF Surjection
  <2>5. ExistsBijection(N, Rpf!Lines)
    BY <2>3, <2>4 DEF ExistsBijection, Bijection
  <2> QED
    BY <1>1, <2>5, FS_CountingElements
<1>7. \A n \in N : n > 1 => elements[n - 1].value.behind < elements[n].key.first
  <2> SUFFICES ASSUME NEW n \in N, n > 1 PROVE elements[n - 1].value.behind < elements[n].key.first
    OBVIOUS
  <2>1. n - 1 \in N /\ n - 1 < n
    BY <1>1
  <2> QED
    BY <1>2, <2>1
<1>8. Rpf!Cardinality(Rpf!Lines) = Len(elements)
  BY <1>6, RpfCardinality, Zenon
<1> QED
  BY <1>1, <1>2, <1>7, <1>8, Zenon

(* Lines that follow the templates are read as they say, one element for   *)
(* each and in their order, no key is left behind, a value is taken from a *)
(* later line only for a bare key and a block of no bytes is asked for     *)
(* only behind the last equals sign, whatever the text.                    *)
THEOREM ConfigurationIsReadAlways == BootSpec => []ConfigurationIsRead
<1> DEFINE Inv == stage = "text" => RpfInv
<1>1. BootInit => Inv
  BY RpfTypesInitially, LinesReadInitially DEF BootInit, RpfInv
<1>2. Inv /\ [BootNext]_bootVars => Inv'
  BY StageSteps, RpfInvStep
<1>3. Inv => ConfigurationIsRead
  <2> SUFFICES ASSUME RpfInv PROVE Rpf!TypeOK /\ Rpf!TemplatesAreRead
                                   /\ Rpf!SwallowsForBareKeys /\ Rpf!EmptiedByEquals
    BY Zenon DEF ConfigurationIsRead
  <2>1. RpfTypes
    BY DEF RpfInv
  <2> QED
    BY <2>1, RpfTypesImply, TemplatesGiveTheirLines, Zenon
<1>4. QED
  BY <1>1, <1>2, <1>3, PTL DEF BootSpec
=============================================================================
