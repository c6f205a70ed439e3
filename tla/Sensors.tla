------------------------------ MODULE Sensors ------------------------------
(***************************************************************************)
(* Temperature and fan-speed readings: the cache of hwmon paths, how it is *)
(* filled by device name and channel label, and how it is renewed when a   *)
(* path stops reading.  Source: internal/sysfs/controller.go.              *)
(*                                                                         *)
(* A snapshot reads the pair of fan speeds, then the pair of temperatures, *)
(* with the mutex of Controller held; between the two the hardware may     *)
(* move.  One enumeration of /sys/class/hwmon is taken as an instant.  A   *)
(* reading is represented by the sensor it comes from.                     *)
(***************************************************************************)
EXTENDS Integers, FiniteSets

CONSTANTS
    Slots,    \* hwmon directories in sorted order: 1..n
    Devices,  \* [name, inputs, label: the labelled inputs -> labels]
    Trees,    \* the ways the devices may be numbered: slot -> device, NoDevice
    NoDevice, \* an empty slot
    Prefix,   \* "temp" or "fan": what the names of a channel's files begin with
    MaxSick,  \* bound: files that exist and do not read at one time
    None      \* no path and no reading

Temps == {"cpuTemp", "gpuTemp"}
Speeds == {"cpuFan", "gpuFan"}
Roles == Temps \cup Speeds

RolePrefix(r) == IF r \in Temps THEN "temp" ELSE "fan"

\* The label of a channel on the acer device, and its channel without labels.
Label == [cpuTemp |-> "CPU", gpuTemp |-> "GPU", cpuFan |-> "CPU Fan", gpuFan |-> "GPU Fan"]
Default == [cpuTemp |-> "temp1", gpuTemp |-> "temp2", cpuFan |-> "fan1", gpuFan |-> "fan2"]

Paths == Slots \X UNION {d.inputs : d \in Devices}

ASSUME SensorsAssumption ==
    /\ Slots \subseteq Nat /\ IsFiniteSet(Slots)
    /\ NoDevice \notin Devices
    /\ Trees \subseteq [Slots -> Devices \cup {NoDevice}]
    /\ None \notin Paths /\ None \notin Devices \X UNION {d.inputs : d \in Devices}
    /\ \A d \in Devices : DOMAIN d.label \subseteq d.inputs
    /\ Prefix \in [UNION {d.inputs : d \in Devices} -> {"temp", "fan"}]
    /\ MaxSick \in Nat

VARIABLES
    node,    \* the hardware: the device behind each hwmon directory,
    sick,    \* and the files <<device, kind, channel>> that do not read
    sensors, \* Controller.sensors: a path <<slot, channel>> per role, or None
    turn,    \* the readings a snapshot takes next
    got,     \* the readings the last step took, none after a move of the hardware
    clean    \* history: nodes unmoved and well named since the last enumeration

hardware == <<node, sick>>
vars == <<hardware, sensors, turn, got, clean>>

-----------------------------------------------------------------------------
(* resolveSensors.                                                         *)

Reads(d, kind, c) == d # NoDevice /\ <<d, kind, c>> \notin sick

\* The directories of the devices with one of these names whose name reads.
Named(names) ==
    {s \in Slots : Reads(node[s], "name", "name") /\ node[s].name \in names}

\* Every directory that matches overwrites what an earlier one resolved to.
Last(slots) == CHOOSE s \in slots : \A t \in slots : t <= s

\* inputByLabel: the channels of a directory with this prefix and one of the
\* labels looked for, which are the one label of a role, or none where the code
\* asks for none.
Labelled(s, prefix, labels) ==
    {c \in DOMAIN node[s].label :
        /\ Prefix[c] = prefix
        /\ node[s].label[c] \in labels /\ Reads(node[s], "label", c)}

\* Mutant: the documented channel order wins over the labels.
FindByOrder(s, prefix, labels, default) ==
    LET found == Labelled(s, prefix, labels) IN
    IF default \in node[s].inputs THEN <<s, default>>
    ELSE IF found # {} THEN <<s, CHOOSE c \in found : TRUE>>
    ELSE None

\* firstExisting of the labelled channel and the default one.
Find(s, prefix, labels, default) ==
    LET found == Labelled(s, prefix, labels) IN
    IF found # {} THEN <<s, CHOOSE c \in found : TRUE>>
    ELSE IF default \in node[s].inputs THEN <<s, default>>
    ELSE None

FindIn(names, prefix, labels, default) ==
    IF Named(names) = {} THEN None ELSE Find(Last(Named(names)), prefix, labels, default)

Dedicated ==
    [cpuTemp |-> FindIn({"coretemp"}, "temp", {"Package id 0"}, "temp1"),
     gpuTemp |-> FindIn({"nvidia", "amdgpu"}, "temp", {}, "temp1")]

Resolved ==
    [r \in Roles |->
        IF r \in Temps /\ Dedicated[r] # None THEN Dedicated[r]
        ELSE FindIn({"acer"}, RolePrefix(r), {Label[r]}, Default[r])]

-----------------------------------------------------------------------------
(* Reading.                                                                *)

\* Mutant: the error of the read is dropped.
ReadingUnchecked(p) ==
    IF p = None THEN None
    ELSE LET d == node[p[1]] IN IF d # NoDevice THEN <<d, p[2]>> ELSE None

\* readOptionalInt: the file at this path, whichever device is behind it now.
Reading(p) ==
    IF p = None THEN None
    ELSE LET d == node[p[1]] IN
         IF d # NoDevice /\ p[2] \in d.inputs /\ Reads(d, "input", p[2])
         THEN <<d, p[2]>> ELSE None

\* Mutant: only a pair that fails altogether is looked up anew.
WentStaleTogether(pair) == \A r \in pair : sensors[r] # None /\ Reading(sensors[r]) = None

\* sensorsWentStale: a path that was found no longer reads.
WentStale(pair) == \E r \in pair : sensors[r] # None /\ Reading(sensors[r]) = None

\* All names and labels read, so an enumeration sees the devices as they are.
WellNamed == \A f \in sick : f[2] = "input"

\* readFanRPM or readTemperatures.
Take(pair) ==
    /\ IF WentStale(pair)
       THEN sensors' = Resolved /\ clean' = WellNamed
       ELSE UNCHANGED <<sensors, clean>>
    /\ got' = [r \in pair |-> Reading(sensors'[r])]
    /\ UNCHANGED hardware

ReadFanRPM == turn = "fans" /\ Take(Speeds) /\ turn' = "temperatures"
ReadTemperatures == turn = "temperatures" /\ Take(Temps) /\ turn' = "fans"

-----------------------------------------------------------------------------
(* The hardware.                                                           *)

Nothing == [r \in {} |-> None]

\* A driver is loaded, unloaded or exchanged, and the nodes are renumbered.
Renumber ==
    /\ node' \in Trees \ {node}
    /\ got' = Nothing /\ clean' = FALSE
    /\ UNCHANGED <<sick, sensors, turn>>

Files ==
    UNION {{<<d, "name", "name">>}
           \cup {<<d, "label", c>> : c \in DOMAIN d.label}
           \cup {<<d, "input", c>> : c \in d.inputs} : d \in Devices}

Sicken ==
    /\ Cardinality(sick) < MaxSick
    /\ \E f \in Files \ sick : sick' = sick \cup {f}
    /\ got' = Nothing
    /\ UNCHANGED <<node, sensors, turn, clean>>

Heal ==
    /\ \E f \in sick : sick' = sick \ {f}
    /\ got' = Nothing
    /\ UNCHANGED <<node, sensors, turn, clean>>

\* NewController enumerates; the readings of its probe are those of a snapshot.
Init ==
    /\ node \in Trees
    /\ sick = {}
    /\ sensors = Resolved
    /\ turn = "fans"
    /\ got = Nothing
    /\ clean = TRUE

Next == ReadFanRPM \/ ReadTemperatures \/ Renumber \/ Sicken \/ Heal

Spec == Init /\ [][Next]_vars

-----------------------------------------------------------------------------
(* Properties.                                                             *)

TypeOK ==
    /\ node \in Trees /\ sick \subseteq Files
    /\ DOMAIN sensors = Roles
    /\ \A r \in Roles : sensors[r] \in Paths \cup {None}
    /\ DOMAIN got \in {{}, Temps, Speeds}
    /\ \A r \in DOMAIN got :
          got[r] = None \/ (got[r][1] \in Devices /\ got[r][2] \in got[r][1].inputs)
    /\ turn \in {"fans", "temperatures"}
    /\ clean \in BOOLEAN

Present(names) == \E s \in Slots : node[s] # NoDevice /\ node[s].name \in names

\* The sensors that may stand for a role: the CPU package or a dedicated GPU
\* where the machine has one, else the channel the acer driver labels so, else,
\* on a driver without that label, its documented channel.
RightName(r, name) ==
    CASE r = "cpuTemp" /\ Present({"coretemp"}) -> name = "coretemp"
      [] r = "gpuTemp" /\ Present({"nvidia", "amdgpu"}) -> name \in {"nvidia", "amdgpu"}
      [] OTHER -> name = "acer"
Carries(d, c, r) == c \in DOMAIN d.label /\ Prefix[c] = RolePrefix(r) /\ d.label[c] = Label[r]
RightChannel(r, d, c) ==
    IF d.name = "acer" /\ \E x \in d.inputs : Carries(d, x, r)
    THEN Carries(d, c, r)
    ELSE c = IF d.name = "acer" THEN Default[r] ELSE "temp1"
Right(r) ==
    {<<node[p[1]], p[2]>> : p \in
        {q \in Paths : /\ node[q[1]] # NoDevice /\ q[2] \in node[q[1]].inputs
                       /\ RightName(r, node[q[1]].name)
                       /\ RightChannel(r, node[q[1]], q[2])}}

\* Since the last enumeration that could read every name and label, and until
\* the nodes move, a role is read from the right sensor, and not at all only
\* when the machine has none or it does not read (resolveSensors,
\* sensorsWentStale): labels beat the channel order, a dedicated GPU sensor the
\* acer one, whatever fails and recovers in between.
RightUntilMoved ==
    clean => \A r \in DOMAIN got :
        \/ got[r] \in Right(r)
        \/ got[r] = None /\ \A x \in Right(r) : <<x[1], "input", x[2]>> \in sick

\* No reading leaves a path in the cache that is gone while the rest of the
\* machine reads (sensorsWentStale): it is looked up anew at once, also when
\* the other path of the pair still reads.
DeadPathNoticed ==
    sick = {} => \A r \in DOMAIN got : sensors[r] # None => got[r] # None

\* "enumerated by name and not by a fixed number, so that even a change of the
\* hwmon numbers is adapted to" (INSTALL.md): when every file reads, so does
\* every sensor the machine has, and from the right device.
FollowsRenumbering ==
    sick = {} => \A r \in DOMAIN got :
        IF Right(r) = {} THEN got[r] = None ELSE got[r] \in Right(r)

=============================================================================
