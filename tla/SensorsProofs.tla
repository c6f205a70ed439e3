--------------------------- MODULE SensorsProofs ---------------------------
(***************************************************************************)
(* Theorems about Sensors, for any devices, any ways to number them and    *)
(* any files that fail and recover.                                        *)
(***************************************************************************)
EXTENDS Sensors, FiniteSetTheorems, WellFoundedInduction, TLAPS

-----------------------------------------------------------------------------
(* The last of some directories.                                           *)

\* What has no largest member.
Endless == {S \in SUBSET Nat : IsFiniteSet(S) /\ S # {} /\ \A s \in S : \E t \in S : ~(t <= s)}

\* A finite set of numbers has a largest one: of the sets that had none, one
\* with the fewest members would have one without any of its members.
LEMMA HasLast ==
  ASSUME NEW S \in SUBSET Nat, IsFiniteSet(S), S # {}
  PROVE  Last(S) \in S /\ \A t \in S : t <= Last(S)
<1>1. Endless = {}
  <2> SUFFICES ASSUME Endless # {} PROVE FALSE
    OBVIOUS
  <2> DEFINE Sizes == {Cardinality(T) : T \in Endless}
  <2>1. Sizes \subseteq Nat /\ Sizes # {}
    BY FS_CardinalityType DEF Endless
  <2>2. PICK n \in Sizes : \A m \in Sizes : ~(<<m, n>> \in OpToRel(<, Nat))
    BY <2>1, NatLessThanWellFounded, WFMin
  <2>3. PICK T \in Endless : Cardinality(T) = n
    BY <2>2
  <2>4. PICK x \in T : x \in Nat
    BY DEF Endless
  <2>5. /\ IsFiniteSet(T \ {x}) /\ Cardinality(T \ {x}) = Cardinality(T) - 1
        /\ T \ {x} \in SUBSET Nat
    BY <2>4, FS_RemoveElement DEF Endless
  <2>6. Cardinality(T \ {x}) \in Nat /\ Cardinality(T) \in Nat
    BY <2>5, FS_CardinalityType DEF Endless
  <2>7. T \ {x} \notin Endless
    <3>1. Cardinality(T \ {x}) < n
      BY <2>3, <2>5, <2>6
    <3>2. Cardinality(T \ {x}) \notin Sizes
      BY <2>1, <2>2, <2>6, <3>1 DEF OpToRel
    <3> QED BY <3>2
  <2>8. CASE T \ {x} = {}
    BY <2>4, <2>8 DEF Endless
  <2>9. CASE T \ {x} # {}
    <3>1. PICK y \in T \ {x} : \A t \in T \ {x} : t <= y
      BY <2>5, <2>7, <2>9 DEF Endless
    <3>2. x \in Nat /\ \A t \in T : t \in Nat
      BY <2>4 DEF Endless
    <3>3. (\A t \in T : t <= y) \/ (\A t \in T : t <= x)
      BY <3>1, <3>2
    <3> QED BY <2>4, <3>1, <3>3 DEF Endless
  <2> QED BY <2>8, <2>9
<1>2. \E s \in S : \A t \in S : t <= s
  BY <1>1 DEF Endless
<1> QED BY <1>2 DEF Last

-----------------------------------------------------------------------------
(* What the enumeration finds, whatever it can read.                       *)

\* A file of a device that is there.
Live(p) ==
    \E s \in Slots : \E c \in node[s].inputs : node[s] \in Devices /\ p = <<s, c>>

\* The constants, where they are needed.
LEMMA Constants ==
  /\ Slots \subseteq Nat /\ IsFiniteSet(Slots) /\ NoDevice \notin Devices
  /\ \A t \in Trees : \A s \in Slots : t[s] \in Devices \/ t[s] = NoDevice
  /\ \A d \in Devices : DOMAIN d.label \subseteq d.inputs
  /\ Temps \subseteq Roles /\ Speeds \subseteq Roles /\ Roles = Temps \cup Speeds
BY SensorsAssumption DEF SensorsAssumption, Roles

\* A path that is found is one, and none is not.
LEMMA LiveIsPath ==
  ASSUME NEW p, Live(p)
  PROVE  p \in Paths /\ p # None /\ p[1] \in Slots /\ node[p[1]] \in Devices
         /\ p[2] \in node[p[1]].inputs
<1>1. PICK s \in Slots : \E c \in node[s].inputs : node[s] \in Devices /\ p = <<s, c>>
  BY DEF Live
<1>2. PICK c \in node[s].inputs : node[s] \in Devices /\ p = <<s, c>>
  BY <1>1
<1>3. c \in UNION {d.inputs : d \in Devices}
  BY <1>2
<1>4. p \in Paths
  BY <1>2, <1>3 DEF Paths
<1> QED BY <1>2, <1>4, SensorsAssumption DEF SensorsAssumption

\* Looking in a directory gives one of its channels or nothing.
LEMMA FindIsLive ==
  ASSUME NEW s \in Slots, node[s] \in Devices, NEW prefix, NEW labels, NEW default
  PROVE  Find(s, prefix, labels, default) = None \/ Live(Find(s, prefix, labels, default))
<1>1. Labelled(s, prefix, labels) \subseteq node[s].inputs
  BY Constants DEF Labelled
<1>2. CASE Labelled(s, prefix, labels) # {}
  BY <1>1, <1>2 DEF Find, Live
<1>3. CASE Labelled(s, prefix, labels) = {}
  BY <1>3 DEF Find, Live
<1> QED BY <1>2, <1>3

\* Whatever does not read, what the enumeration finds is there.
LEMMA ResolvedIsLive ==
  ASSUME node \in Trees
  PROVE  \A r \in Roles : Resolved[r] = None \/ Live(Resolved[r])
<1>1. ASSUME NEW names, NEW prefix, NEW labels, NEW default
      PROVE  FindIn(names, prefix, labels, default) = None \/ Live(FindIn(names, prefix, labels, default))
  <2>1. CASE Named(names) = {}
    BY <2>1 DEF FindIn
  <2>2. CASE Named(names) # {}
    <3>1. Named(names) \in SUBSET Nat /\ IsFiniteSet(Named(names))
      BY Constants, FS_Subset DEF Named
    <3>2. Last(Named(names)) \in Named(names)
      BY <2>2, <3>1, HasLast
    <3>3. Last(Named(names)) \in Slots /\ node[Last(Named(names))] \in Devices
      BY <3>2, Constants DEF Named, Reads
    <3> QED BY <2>2, <3>3, FindIsLive DEF FindIn
  <2> QED BY <2>1, <2>2
<1>2. \A r \in Temps : Dedicated[r] = None \/ Live(Dedicated[r])
  <2>1. /\ Dedicated["cpuTemp"] = FindIn({"coretemp"}, "temp", {"Package id 0"}, "temp1")
        /\ Dedicated["gpuTemp"] = FindIn({"nvidia", "amdgpu"}, "temp", {}, "temp1")
    BY DEF Dedicated
  <2>2. Dedicated["cpuTemp"] = None \/ Live(Dedicated["cpuTemp"])
    BY <1>1, <2>1
  <2>3. Dedicated["gpuTemp"] = None \/ Live(Dedicated["gpuTemp"])
    BY <1>1, <2>1
  <2> QED BY <2>2, <2>3 DEF Temps
<1> QED BY <1>1, <1>2 DEF Resolved

-----------------------------------------------------------------------------
(* Types, and paths that are gone.                                         *)

\* What a reading is.
LEMMA ReadingIs ==
  ASSUME node \in Trees, NEW p \in Paths
  PROVE  /\ p[1] \in Slots /\ p # None
         /\ Reading(p) = None <=>
              ~(node[p[1]] \in Devices /\ p[2] \in node[p[1]].inputs
                  /\ <<node[p[1]], "input", p[2]>> \notin sick)
         /\ Reading(p) # None => Reading(p) = <<node[p[1]], p[2]>>
<1>1. p[1] \in Slots /\ p # None
  BY SensorsAssumption DEF SensorsAssumption, Paths
<1>2. node[p[1]] # NoDevice <=> node[p[1]] \in Devices
  BY <1>1, Constants
<1>3. ASSUME node[p[1]] \in Devices, p[2] \in node[p[1]].inputs
      PROVE  <<node[p[1]], p[2]>> # None
  <2>1. p[2] \in UNION {d.inputs : d \in Devices}
    BY <1>3
  <2> QED BY <1>3, <2>1, SensorsAssumption DEF SensorsAssumption
<1> QED BY <1>1, <1>2, <1>3 DEF Reading, Reads

\* The types hold, and so does what a single pair of readings promises.
BaseInv == TypeOK /\ DeadPathNoticed

\* Taking a pair of readings keeps the types and leaves no dead path.
LEMMA TakeKeepsBaseInv ==
  ASSUME BaseInv, NEW pair \in {Temps, Speeds}, Take(pair), turn' \in {"fans", "temperatures"}
  PROVE  BaseInv'
<1>1. node \in Trees /\ node' = node /\ sick' = sick /\ pair \subseteq Roles
  BY Constants DEF BaseInv, TypeOK, Take, hardware
<1>2. /\ DOMAIN sensors' = Roles
      /\ \A r \in Roles : sensors'[r] \in Paths \cup {None}
  <2>1. CASE sensors' = Resolved
    <3>1. DOMAIN Resolved = Roles
      BY DEF Resolved
    <3> QED BY <1>1, <2>1, <3>1, ResolvedIsLive, LiveIsPath
  <2>2. CASE sensors' = sensors
    BY <2>2 DEF BaseInv, TypeOK
  <2> QED BY <2>1, <2>2 DEF Take
<1>3. DOMAIN got' = pair /\ \A r \in pair : got'[r] = Reading(sensors'[r])
  BY DEF Take
<1>4. ASSUME NEW r \in pair
      PROVE  got'[r] = None \/ (got'[r][1] \in Devices /\ got'[r][2] \in got'[r][1].inputs)
  <2>1. CASE sensors'[r] = None
    BY <1>3, <2>1 DEF Reading
  <2>2. CASE sensors'[r] \in Paths
    <3>1. PICK p \in Paths : p = sensors'[r]
      BY <2>2
    <3>2. got'[r] = Reading(p)
      BY <1>3, <3>1
    <3>3. \/ Reading(p) = None
          \/ \E d \in Devices : \E c \in d.inputs : Reading(p) = <<d, c>>
      BY <1>1, ReadingIs
    <3> QED BY <3>2, <3>3
  <2> QED BY <1>1, <1>2, <2>1, <2>2
<1>5. TypeOK'
  <2>1. clean' \in BOOLEAN
    BY DEF Take, WellNamed, BaseInv, TypeOK
  <2>2. node' \in Trees /\ sick' \subseteq Files
    BY <1>1 DEF BaseInv, TypeOK
  <2>3. Files' = Files /\ DOMAIN got' \in {{}, Temps, Speeds}
    BY <1>3 DEF Files
  <2>4. \A r \in DOMAIN got' :
          got'[r] = None \/ (got'[r][1] \in Devices /\ got'[r][2] \in got'[r][1].inputs)
    BY <1>3, <1>4
  <2> QED BY <1>2, <2>1, <2>2, <2>3, <2>4 DEF TypeOK
<1>6. DeadPathNoticed'
  <2> SUFFICES ASSUME sick = {}, NEW r \in pair, sensors'[r] # None PROVE got'[r] # None
    BY <1>1, <1>3 DEF DeadPathNoticed
  <2>1. CASE WentStale(pair)
    <3>1. sensors' = Resolved
      BY <2>1 DEF Take
    <3>2. Live(sensors'[r])
      BY <1>1, <3>1, ResolvedIsLive
    <3> QED BY <1>1, <1>3, <3>2, LiveIsPath, ReadingIs
  <2>2. CASE ~WentStale(pair)
    BY <1>3, <2>2 DEF Take, WentStale
  <2> QED BY <2>1, <2>2
<1> QED BY <1>5, <1>6 DEF BaseInv

\* Every step keeps the types and leaves no dead path.
LEMMA StepKeepsBaseInv == BaseInv /\ [Next]_vars => BaseInv'
<1> SUFFICES ASSUME BaseInv, [Next]_vars PROVE BaseInv'
  OBVIOUS
<1>1. CASE ReadFanRPM \/ ReadTemperatures
  BY <1>1, TakeKeepsBaseInv DEF ReadFanRPM, ReadTemperatures
<1>2. CASE Renumber \/ Sicken \/ Heal
  <2>1. DOMAIN got' = {} /\ sensors' = sensors /\ turn' = turn
    BY <1>2 DEF Renumber, Sicken, Heal, Nothing
  <2>2. node' \in Trees /\ sick' \subseteq Files /\ clean' \in BOOLEAN
    BY <1>2 DEF Renumber, Sicken, Heal, BaseInv, TypeOK
  <2> QED BY <2>1, <2>2 DEF BaseInv, TypeOK, DeadPathNoticed, Files
<1>3. CASE UNCHANGED vars
  BY <1>3 DEF vars, hardware, BaseInv, TypeOK, DeadPathNoticed, Files
<1> QED BY <1>1, <1>2, <1>3 DEF Next

\* They hold after NewController has enumerated.
LEMMA InitBaseInv == Init => BaseInv
<1> SUFFICES ASSUME Init PROVE BaseInv
  OBVIOUS
<1>1. node \in Trees /\ sensors = Resolved /\ DOMAIN got = {} /\ DOMAIN Resolved = Roles
  BY DEF Init, Resolved, Nothing
<1>2. \A r \in Roles : sensors[r] \in Paths \cup {None}
  BY <1>1, ResolvedIsLive, LiveIsPath
<1> QED BY <1>1, <1>2 DEF Init, BaseInv, TypeOK, DeadPathNoticed

\* They hold throughout.
LEMMA BaseInvariance == Spec => []BaseInv
BY InitBaseInv, StepKeepsBaseInv, PTL DEF Spec

\* Every variable of Sensors keeps its type: the cache holds paths of
\* directories, and a reading is that of a sensor of some device.
THEOREM TypeCorrect == Spec => []TypeOK
<1>1. BaseInv => TypeOK
  BY DEF BaseInv
<1> QED BY <1>1, BaseInvariance, PTL

\* While every file reads, no reading leaves a path in the cache that is gone
\* (sensorsWentStale).
THEOREM DeadPathsAreNoticed == Spec => []DeadPathNoticed
<1>1. BaseInv => DeadPathNoticed
  BY DEF BaseInv
<1> QED BY <1>1, BaseInvariance, PTL

-----------------------------------------------------------------------------
(* The right sensor.                                                       *)

\* The machines the service is made for: one processor package and one
\* dedicated GPU with a first temperature, and one acer device on which no two
\* channels of a prefix have the same of the labels that are looked for.
OrdinaryMachine ==
    /\ \A t \in Trees : \A names \in {{"coretemp"}, {"nvidia", "amdgpu"}, {"acer"}} :
         \A s, u \in Slots :
            /\ t[s] # NoDevice /\ t[s].name \in names
            /\ t[u] # NoDevice /\ t[u].name \in names
            => s = u
    /\ \A d \in Devices :
         /\ d.name \in {"coretemp", "nvidia", "amdgpu"} => "temp1" \in d.inputs
         /\ d.name = "coretemp" =>
              \A c \in DOMAIN d.label :
                 Prefix[c] = "temp" /\ d.label[c] = "Package id 0" => c = "temp1"
         /\ d.name = "acer" =>
              \A r \in Roles : \A b, c \in d.inputs :
                 Carries(d, b, r) /\ Carries(d, c, r) => b = c

\* The path is that of the one right sensor, or there is none.
Good(r, p) ==
    \/ p = None /\ Right(r) = {}
    \/ \E s \in Slots : \E c \in node[s].inputs :
         node[s] \in Devices /\ p = <<s, c>> /\ Right(r) = {<<node[s], c>>}

\* Until the nodes move the cache is as the enumeration would have it, and
\* what was read last was read from the cache.
SensorsInv ==
    /\ BaseInv
    /\ \A r \in DOMAIN got : got[r] = Reading(sensors[r])
    /\ clean => \A r \in Roles : Good(r, sensors[r])

\* The right sensors, directory by directory.
LEMMA RightAre ==
  ASSUME node \in Trees, NEW r, NEW x
  PROVE  x \in Right(r) <=>
           \E s \in Slots : \E c \in node[s].inputs :
             /\ node[s] \in Devices /\ x = <<node[s], c>>
             /\ RightName(r, node[s].name) /\ RightChannel(r, node[s], c)
<1>1. ASSUME x \in Right(r)
      PROVE  \E s \in Slots : \E c \in node[s].inputs :
               /\ node[s] \in Devices /\ x = <<node[s], c>>
               /\ RightName(r, node[s].name) /\ RightChannel(r, node[s], c)
  <2>1. PICK p \in Paths :
          /\ node[p[1]] # NoDevice /\ p[2] \in node[p[1]].inputs
          /\ RightName(r, node[p[1]].name) /\ RightChannel(r, node[p[1]], p[2])
          /\ x = <<node[p[1]], p[2]>>
    BY <1>1 DEF Right
  <2>2. p[1] \in Slots
    BY DEF Paths
  <2> QED BY <2>1, <2>2, Constants
<1>2. ASSUME NEW s \in Slots, NEW c \in node[s].inputs, node[s] \in Devices, x = <<node[s], c>>,
             RightName(r, node[s].name), RightChannel(r, node[s], c)
      PROVE  x \in Right(r)
  <2>1. <<s, c>> \in Paths
    <3>1. c \in UNION {d.inputs : d \in Devices}
      BY <1>2
    <3> QED BY <3>1 DEF Paths
  <2>2. PICK p \in Paths : p = <<s, c>>
    BY <2>1
  <2>3. p[1] = s /\ p[2] = c
    BY <2>2
  <2> QED BY <1>2, <2>3, Constants DEF Right
<1> QED BY <1>1, <1>2

\* Of the devices with some names there is none, or the enumeration finds it.
LEMMA OneOfThem ==
  ASSUME OrdinaryMachine, WellNamed, node \in Trees,
         NEW names \in {{"coretemp"}, {"nvidia", "amdgpu"}, {"acer"}}
  PROVE  \/ Named(names) = {} /\ ~Present(names)
         \/ \E s \in Slots :
              /\ node[s] \in Devices /\ node[s].name \in names /\ Present(names)
              /\ \A prefix, labels, default :
                   FindIn(names, prefix, labels, default) = Find(s, prefix, labels, default)
              /\ \A u \in Slots : node[u] \in Devices /\ node[u].name \in names => u = s
<1>1. \A s \in Slots : s \in Named(names) <=> node[s] \in Devices /\ node[s].name \in names
  BY Constants DEF WellNamed, Named, Reads
<1>2. CASE Named(names) = {}
  BY <1>1, <1>2, Constants DEF Present
<1>3. CASE Named(names) # {}
  <2>1. PICK s \in Slots : s \in Named(names)
    BY <1>3 DEF Named
  <2>2. \A u \in Slots : node[u] \in Devices /\ node[u].name \in names => u = s
    <3>1. \A t, u \in Slots :
            /\ node[t] # NoDevice /\ node[t].name \in names
            /\ node[u] # NoDevice /\ node[u].name \in names
            => t = u
      BY Zenon DEF OrdinaryMachine
    <3> QED BY <1>1, <2>1, <3>1, Constants
  <2>3. Named(names) = {s}
    BY <1>1, <2>1, <2>2 DEF Named
  <2>4. Last(Named(names)) = s
    BY <2>3, Constants DEF Last
  <2>5. \A prefix, labels, default :
          FindIn(names, prefix, labels, default) = Find(s, prefix, labels, default)
    BY <1>3, <2>4 DEF FindIn
  <2> QED BY <1>1, <2>1, <2>2, <2>5, Constants DEF Present
<1> QED BY <1>2, <1>3

\* A dedicated sensor is found where there is one.
LEMMA DedicatedIsGood ==
  ASSUME OrdinaryMachine, WellNamed, node \in Trees, NEW r, NEW names, NEW labels,
         \/ r = "cpuTemp" /\ names = {"coretemp"} /\ labels = {"Package id 0"}
         \/ r = "gpuTemp" /\ names = {"nvidia", "amdgpu"} /\ labels = {}
  PROVE  LET p == FindIn(names, "temp", labels, "temp1") IN
         \/ p = None /\ ~Present(names)
         \/ p # None /\ Present(names) /\ Good(r, p)
<1>1. CASE Named(names) = {} /\ ~Present(names)
  BY <1>1 DEF FindIn
<1>2. CASE \E s \in Slots :
             /\ node[s] \in Devices /\ node[s].name \in names /\ Present(names)
             /\ FindIn(names, "temp", labels, "temp1") = Find(s, "temp", labels, "temp1")
             /\ \A u \in Slots : node[u] \in Devices /\ node[u].name \in names => u = s
  <2>1. PICK s \in Slots :
             /\ node[s] \in Devices /\ node[s].name \in names /\ Present(names)
             /\ FindIn(names, "temp", labels, "temp1") = Find(s, "temp", labels, "temp1")
             /\ \A u \in Slots : node[u] \in Devices /\ node[u].name \in names => u = s
    BY <1>2
  <2>2. "temp1" \in node[s].inputs /\ \A c \in Labelled(s, "temp", labels) : c = "temp1"
    BY <2>1 DEF OrdinaryMachine, Labelled
  <2>3. Find(s, "temp", labels, "temp1") = <<s, "temp1">>
    BY <2>2 DEF Find
  <2>4. \A n : RightName(r, n) <=> n \in names
    BY <2>1 DEF RightName
  <2>5. \A c : RightChannel(r, node[s], c) <=> c = "temp1"
    BY <2>1 DEF RightChannel
  <2>6. Right(r) = {<<node[s], "temp1">>}
    <3>1. \A x : x \in Right(r) <=> x = <<node[s], "temp1">>
      BY <2>1, <2>2, <2>4, <2>5, RightAre
    <3> QED BY <3>1
  <2>7. Live(<<s, "temp1">>)
    BY <2>1, <2>2 DEF Live
  <2> QED BY <2>1, <2>2, <2>3, <2>6, <2>7, LiveIsPath DEF Good
<1>3. names \in {{"coretemp"}, {"nvidia", "amdgpu"}, {"acer"}}
  OBVIOUS
<1>4. CASE \E s \in Slots :
             /\ node[s] \in Devices /\ node[s].name \in names /\ Present(names)
             /\ \A prefix, ls, default :
                  FindIn(names, prefix, ls, default) = Find(s, prefix, ls, default)
             /\ \A u \in Slots : node[u] \in Devices /\ node[u].name \in names => u = s
  BY <1>2, <1>4
<1> QED BY <1>1, <1>3, <1>4, OneOfThem

\* Else the acer device has it, by its label or by its documented channel.
LEMMA AcerIsGood ==
  ASSUME OrdinaryMachine, WellNamed, node \in Trees, NEW r \in Roles,
         \A n : RightName(r, n) <=> n = "acer"
  PROVE  Good(r, FindIn({"acer"}, RolePrefix(r), {Label[r]}, Default[r]))
<1>1. CASE Named({"acer"}) = {} /\ ~Present({"acer"})
  <2>1. \A x : x \notin Right(r)
    BY <1>1, RightAre, Constants DEF Present
  <2> QED BY <1>1, <2>1 DEF FindIn, Good
<1>2. CASE \E s \in Slots :
             /\ node[s] \in Devices /\ node[s].name \in {"acer"}
             /\ FindIn({"acer"}, RolePrefix(r), {Label[r]}, Default[r]) =
                  Find(s, RolePrefix(r), {Label[r]}, Default[r])
             /\ \A u \in Slots : node[u] \in Devices /\ node[u].name \in {"acer"} => u = s
  <2>1. PICK s \in Slots :
             /\ node[s] \in Devices /\ node[s].name = "acer"
             /\ FindIn({"acer"}, RolePrefix(r), {Label[r]}, Default[r]) =
                  Find(s, RolePrefix(r), {Label[r]}, Default[r])
             /\ \A u \in Slots : node[u] \in Devices /\ node[u].name = "acer" => u = s
    BY <1>2
  <2>2. \A x : x \in Right(r) <=>
          \E c \in node[s].inputs : RightChannel(r, node[s], c) /\ x = <<node[s], c>>
    BY <2>1, RightAre
  <2>3. /\ DOMAIN node[s].label \subseteq node[s].inputs
        /\ \A c : c \in Labelled(s, RolePrefix(r), {Label[r]}) <=> Carries(node[s], c, r)
    BY <2>1, Constants DEF WellNamed, Labelled, Reads, Carries
  <2>4. CASE Labelled(s, RolePrefix(r), {Label[r]}) # {}
    <3>1. PICK c \in Labelled(s, RolePrefix(r), {Label[r]}) :
            Find(s, RolePrefix(r), {Label[r]}, Default[r]) = <<s, c>>
      BY <2>4 DEF Find
    <3>2. c \in node[s].inputs /\ \A b : RightChannel(r, node[s], b) <=> b = c
      <4>1. c \in node[s].inputs /\ Carries(node[s], c, r)
        BY <2>3 DEF Carries
      <4>2. \A b \in node[s].inputs : Carries(node[s], b, r) => b = c
        BY <2>1, <4>1 DEF OrdinaryMachine
      <4>3. \A b : RightChannel(r, node[s], b) <=> Carries(node[s], b, r)
        BY <2>1, <4>1 DEF RightChannel
      <4>4. \A b : Carries(node[s], b, r) => b \in node[s].inputs
        BY <2>3 DEF Carries
      <4> QED BY <4>1, <4>2, <4>3, <4>4
    <3>3. Right(r) = {<<node[s], c>>}
      <4>1. \A x : x \in Right(r) <=> x = <<node[s], c>>
        BY <2>2, <3>2
      <4> QED BY <4>1
    <3> QED BY <2>1, <3>1, <3>2, <3>3 DEF Good
  <2>5. CASE Labelled(s, RolePrefix(r), {Label[r]}) = {}
    <3>1. \A b : RightChannel(r, node[s], b) <=> b = Default[r]
      BY <2>1, <2>3, <2>5 DEF RightChannel
    <3>2. CASE Default[r] \in node[s].inputs
      <4>1. Find(s, RolePrefix(r), {Label[r]}, Default[r]) = <<s, Default[r]>>
        BY <2>5, <3>2 DEF Find
      <4>2. Right(r) = {<<node[s], Default[r]>>}
        <5>1. \A x : x \in Right(r) <=> x = <<node[s], Default[r]>>
          BY <2>2, <3>1, <3>2
        <5> QED BY <5>1
      <4> QED BY <2>1, <3>2, <4>1, <4>2 DEF Good
    <3>3. CASE Default[r] \notin node[s].inputs
      <4>1. Find(s, RolePrefix(r), {Label[r]}, Default[r]) = None
        BY <2>5, <3>3 DEF Find
      <4>2. Right(r) = {}
        <5>1. \A x : x \notin Right(r)
          BY <2>2, <3>1, <3>3
        <5> QED BY <5>1
      <4> QED BY <2>1, <4>1, <4>2 DEF Good
    <3> QED BY <3>2, <3>3
  <2> QED BY <2>4, <2>5
<1> QED BY <1>1, <1>2, OneOfThem

\* An enumeration that can read every name and label finds the right sensors.
LEMMA ResolvedIsGood ==
  ASSUME OrdinaryMachine, WellNamed, node \in Trees
  PROVE  \A r \in Roles : Good(r, Resolved[r])
<1>1. /\ Dedicated["cpuTemp"] = FindIn({"coretemp"}, "temp", {"Package id 0"}, "temp1")
      /\ Dedicated["gpuTemp"] = FindIn({"nvidia", "amdgpu"}, "temp", {}, "temp1")
  BY DEF Dedicated
<1>2. ASSUME NEW r \in Temps, NEW names,
             \/ r = "cpuTemp" /\ names = {"coretemp"}
             \/ r = "gpuTemp" /\ names = {"nvidia", "amdgpu"},
             \/ Dedicated[r] = None /\ ~Present(names)
             \/ Dedicated[r] # None /\ Present(names) /\ Good(r, Dedicated[r])
      PROVE  Good(r, Resolved[r])
  <2>1. CASE Dedicated[r] # None
    BY <1>2, <2>1 DEF Resolved, Roles
  <2>2. CASE Dedicated[r] = None
    <3>1. \A n : RightName(r, n) <=> n = "acer"
      BY <1>2, <2>2 DEF RightName
    <3>2. Good(r, FindIn({"acer"}, RolePrefix(r), {Label[r]}, Default[r]))
      BY <3>1, AcerIsGood DEF Roles
    <3> QED BY <2>2, <3>2 DEF Resolved, Roles
  <2> QED BY <2>1, <2>2
<1>3. Good("cpuTemp", Resolved["cpuTemp"])
  BY <1>1, <1>2, DedicatedIsGood DEF Temps
<1>4. Good("gpuTemp", Resolved["gpuTemp"])
  BY <1>1, <1>2, DedicatedIsGood DEF Temps
<1>5. ASSUME NEW r \in Speeds PROVE Good(r, Resolved[r])
  <2>1. \A n : RightName(r, n) <=> n = "acer"
    BY DEF RightName, Speeds
  <2>2. Good(r, FindIn({"acer"}, RolePrefix(r), {Label[r]}, Default[r]))
    BY <2>1, AcerIsGood DEF Roles
  <2> QED BY <2>2 DEF Resolved, Roles, Speeds, Temps
<1> QED BY <1>3, <1>4, <1>5 DEF Roles, Temps

\* While the nodes stay, the same paths are good.
LEMMA GoodStays ==
  ASSUME node' = node, NEW r, Good(r, sensors'[r])
  PROVE  Good(r, sensors[r])'
<1>1. Right(r)' = Right(r)
  BY DEF Right, RightName, RightChannel, Present
<1> QED BY <1>1 DEF Good

\* Every step keeps the invariant.
LEMMA StepKeepsSensorsInv == OrdinaryMachine /\ SensorsInv /\ [Next]_vars => SensorsInv'
<1> SUFFICES ASSUME OrdinaryMachine, SensorsInv, [Next]_vars PROVE SensorsInv'
  OBVIOUS
<1>1. BaseInv'
  BY StepKeepsBaseInv DEF SensorsInv
<1>2. ASSUME NEW pair \in {Temps, Speeds}, Take(pair)
      PROVE  /\ \A r \in DOMAIN got' : got'[r] = Reading(sensors[r])'
             /\ clean' => \A r \in Roles : Good(r, sensors[r])'
  <2>1. node' = node /\ sick' = sick /\ node \in Trees
    BY <1>2 DEF Take, hardware, SensorsInv, BaseInv, TypeOK
  <2>2. \A r \in DOMAIN got' : got'[r] = Reading(sensors[r])'
    BY <1>2, <2>1 DEF Take, Reading, Reads
  <2>3. clean' => \A r \in Roles : Good(r, sensors'[r])
    <3>1. CASE WentStale(pair)
      <4>1. sensors' = Resolved /\ clean' = WellNamed
        BY <1>2, <3>1 DEF Take
      <4> QED BY <2>1, <4>1, ResolvedIsGood
    <3>2. CASE ~WentStale(pair)
      <4>1. sensors' = sensors /\ clean' = clean
        BY <1>2, <3>2 DEF Take
      <4> QED BY <4>1 DEF SensorsInv
    <3> QED BY <3>1, <3>2
  <2> QED BY <2>1, <2>2, <2>3, GoodStays
<1>3. CASE ReadFanRPM \/ ReadTemperatures
  BY <1>1, <1>2, <1>3 DEF ReadFanRPM, ReadTemperatures, SensorsInv
<1>4. CASE Renumber
  <2>1. DOMAIN got' = {} /\ ~clean'
    BY <1>4 DEF Renumber, Nothing
  <2> QED BY <1>1, <2>1 DEF SensorsInv
<1>5. CASE Sicken \/ Heal
  <2>1. DOMAIN got' = {} /\ node' = node /\ sensors' = sensors /\ clean' = clean
    BY <1>5 DEF Sicken, Heal, Nothing
  <2>2. clean' => \A r \in Roles : Good(r, sensors[r])'
    BY <2>1, GoodStays DEF SensorsInv
  <2> QED BY <1>1, <2>1, <2>2 DEF SensorsInv
<1>6. CASE UNCHANGED vars
  <2>1. node' = node /\ sick' = sick /\ sensors' = sensors /\ got' = got /\ clean' = clean
    BY <1>6 DEF vars, hardware
  <2>2. clean' => \A r \in Roles : Good(r, sensors[r])'
    BY <2>1, GoodStays DEF SensorsInv
  <2>3. \A r \in DOMAIN got' : got'[r] = Reading(sensors[r])'
    BY <2>1 DEF SensorsInv, Reading, Reads
  <2> QED BY <1>1, <2>2, <2>3 DEF SensorsInv
<1> QED BY <1>3, <1>4, <1>5, <1>6 DEF Next

\* On an ordinary machine, between an enumeration that could read every name
\* and label and the next move of the nodes, a role is read from the right
\* sensor, whatever fails and recovers in between (resolveSensors,
\* sensorsWentStale).
THEOREM RightSensors ==
  ASSUME OrdinaryMachine
  PROVE  Spec => []RightUntilMoved
<1>1. Init => SensorsInv
  <2> SUFFICES ASSUME Init PROVE SensorsInv
    OBVIOUS
  <2>1. node \in Trees /\ sensors = Resolved /\ WellNamed /\ DOMAIN got = {}
    BY DEF Init, WellNamed, Nothing
  <2> QED BY <2>1, InitBaseInv, ResolvedIsGood DEF SensorsInv
<1>2. SensorsInv /\ [Next]_vars => SensorsInv'
  BY StepKeepsSensorsInv
<1>3. SensorsInv => RightUntilMoved
  <2> SUFFICES ASSUME SensorsInv, clean, NEW r \in DOMAIN got
               PROVE  \/ got[r] \in Right(r)
                      \/ got[r] = None /\ \A x \in Right(r) : <<x[1], "input", x[2]>> \in sick
    BY DEF RightUntilMoved
  <2>1. /\ node \in Trees /\ r \in Roles /\ got[r] = Reading(sensors[r])
        /\ Good(r, sensors[r])
    BY Constants DEF SensorsInv, BaseInv, TypeOK
  <2>2. CASE sensors[r] = None /\ Right(r) = {}
    BY <2>1, <2>2 DEF Reading
  <2>3. CASE \E s \in Slots : \E c \in node[s].inputs :
               node[s] \in Devices /\ sensors[r] = <<s, c>> /\ Right(r) = {<<node[s], c>>}
    <3>1. PICK s \in Slots : \E c \in node[s].inputs :
               node[s] \in Devices /\ sensors[r] = <<s, c>> /\ Right(r) = {<<node[s], c>>}
      BY <2>3
    <3>2. PICK c \in node[s].inputs :
               node[s] \in Devices /\ sensors[r] = <<s, c>> /\ Right(r) = {<<node[s], c>>}
      BY <3>1
    <3>3. <<s, c>> \in Paths
      BY <3>2, LiveIsPath DEF Live
    <3>4. PICK p \in Paths : p = <<s, c>> /\ p[1] = s /\ p[2] = c
      BY <3>3
    <3>5. got[r] = Reading(p)
      BY <2>1, <3>2, <3>4
    <3>6. CASE Reading(p) = None
      <4>1. <<node[s], "input", c>> \in sick
        BY <2>1, <3>2, <3>4, <3>6, ReadingIs
      <4> QED BY <3>2, <3>5, <3>6, <4>1
    <3>7. CASE Reading(p) # None
      <4>1. Reading(p) = <<node[s], c>>
        BY <2>1, <3>4, <3>7, ReadingIs
      <4> QED BY <3>2, <3>5, <4>1
    <3> QED BY <3>6, <3>7
  <2> QED BY <2>1, <2>2, <2>3 DEF Good
<1> QED BY <1>1, <1>2, <1>3, PTL DEF Spec
=============================================================================
