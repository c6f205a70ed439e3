----------------------------- MODULE Controller -----------------------------
(***************************************************************************)
(* The sysfs controller: the driver's attributes, the capabilities probed  *)
(* once, the cache of the slow attributes, Snapshot and the setters with   *)
(* their interlocks.  Source: internal/sysfs/controller.go.                *)
(*                                                                         *)
(* The mutex of Controller serialises the calls.  A setter is two steps:   *)
(* the checks and the write, then, with the mutex still held, the          *)
(* read-back.  The hardware has a life of its own and moves between them   *)
(* too: the firmware, hotkeys and other tools change values and the power  *)
(* source, attributes stop reading and recover, and a write may fail or be *)
(* accepted and ignored.  A change between a check and the write amounts   *)
(* to one after the write, since they are about different attributes.  The *)
(* temperature and fan-speed readings of a snapshot, with their own cache  *)
(* of paths, are not part of this module.                                  *)
(***************************************************************************)
EXTENDS Integers, FiniteSets

CONSTANTS
    Switches,   \* the attributes SetBoolean writes: battery_limiter, ...
    Codes,      \* the validated ones: usb_charging, per_zone_mode, four_zone_mode
    Legal,      \* [Attrs -> the values that read back and parse]
    Valid,      \* [Codes -> those of them that Validate lets a caller write]
    Zero,       \* [Attrs -> the Go zero value shown when nothing was read]
    Fans,       \* fan settings a caller may ask for: [cpu, gpu]
    Junk,       \* a value a caller may ask for that neither parses nor validates
    PowerSources, \* those that occur: a subset of "ac", "battery", "unknown"
    Machines,   \* the sets of attributes that exist when the service starts
    SlowTTL,    \* defaultSlowTTL, in ticks
    MaxBroken,  \* bound: attributes that exist and do not read at one time
    None        \* no state returned

Profiles == {"low-power", "quiet", "balanced", "balanced-performance", "performance"}

Live == {"profile", "fans"}                     \* read on every snapshot
Cached == {"choices"} \cup Switches \cup Codes  \* read through the slow cache
Attrs == Live \cup Cached

\* FanSetting.Validate
ValidFans(f) == f.cpu \in 0..100 /\ f.gpu \in 0..100
AutoFans == [cpu |-> 0, gpu |-> 0]

ASSUME ControllerAssumption ==
    /\ Live \cap Cached = {} /\ Switches \cap Codes = {}
    /\ "choices" \notin Switches \cup Codes
    /\ \A a \in Switches : {FALSE, TRUE} = Legal[a] /\ Zero[a] = FALSE
    /\ Legal["profile"] \subseteq Profiles
    /\ Legal["choices"] \subseteq SUBSET Legal["profile"] /\ Zero["choices"] = {}
    /\ Fans \subseteq [cpu : Int, gpu : Int]
    /\ Legal["fans"] = {f \in Fans : ValidFans(f)} /\ AutoFans \in Fans
    /\ \A a \in Attrs : Legal[a] # {}
    /\ \A a \in Codes : Valid[a] \subseteq Legal[a] /\ Junk \notin Legal[a]
    /\ PowerSources \subseteq {"ac", "battery", "unknown"}
    /\ Machines \subseteq SUBSET Attrs
    /\ SlowTTL \in Nat /\ MaxBroken \in Nat

VARIABLES
    value,  \* the hardware: the value each attribute of the driver has,
    broken, \* the attributes that do not read or do not parse,
    power,  \* and the power source
    caps,   \* Controller.caps: the attributes a snapshot reports
    slow,   \* Controller.slow: age of the stamp, values, degraded sections
    wrote,  \* a setter holds the mutex, has written and is to read back
    reply,  \* the state the last step returned, None after any other step
    since   \* history: ticks since a cached attribute last changed, broke or recovered

hardware == <<value, broken, power>>
vars == <<hardware, caps, slow, wrote, reply, since>>

\* The age of a stamp that is the zero time, or older than SlowTTL.
Expired == SlowTTL + 1
Ages == 0..Expired

-----------------------------------------------------------------------------
(* Reading.                                                                *)

\* probe(): a node is supported when it exists; the profile needs both nodes.
Probe(nodes) ==
    IF {"profile", "choices"} \subseteq nodes THEN nodes
    ELSE nodes \ {"profile", "choices"}

\* One attribute as readText and its parser return it.
Reading(a) == IF a \in caps \ broken THEN value[a] ELSE Zero[a]

\* Mutant: an attribute the machine lacks is noted as degraded too.
RefreshedUnprobed ==
    [age |-> 0,
     value |-> [a \in Cached |-> Reading(a)],
     degraded |-> Cached \cap broken]

\* refreshSlow: every supported slow attribute is read, and one that fails is
\* noted and left at its zero value.
Refreshed ==
    [age |-> 0,
     value |-> [a \in Cached |-> Reading(a)],
     degraded |-> Cached \cap caps \cap broken]

\* Mutant: every use of the cache renews its stamp.
UsableSliding ==
    IF slow.age > SlowTTL THEN Refreshed ELSE [slow EXCEPT !.age = 0]

\* The cache after snapshot() has looked at its stamp.
Usable == IF slow.age > SlowTTL THEN Refreshed ELSE slow

\* availableProfiles: what the driver offers and the power source permits.
Permitted(source) ==
    CASE source = "battery" -> {"low-power", "balanced"}
      [] source = "ac" -> {"quiet", "balanced", "balanced-performance", "performance"}
      [] OTHER -> {"balanced"}

\* Mutant: the choices are not filtered by the power source.
ViewUnfiltered(s) ==
    [shown |-> [a \in Attrs |-> IF a \in Cached THEN s.value[a] ELSE Reading(a)],
     available |-> IF "profile" \in caps THEN s.value["choices"] ELSE {},
     manualAllowed |-> "fans" \in caps \ broken /\ Reading("profile") # "quiet",
     degraded |-> (Live \cap caps \cap broken) \cup s.degraded]

\* snapshot(): the live attributes from the hardware, the others from cache s.
View(s) ==
    [shown |-> [a \in Attrs |-> IF a \in Cached THEN s.value[a] ELSE Reading(a)],
     available |-> IF "profile" \in caps
                   THEN s.value["choices"] \cap Permitted(power) ELSE {},
     manualAllowed |-> "fans" \in caps \ broken /\ Reading("profile") # "quiet",
     degraded |-> (Live \cap caps \cap broken) \cup s.degraded]

Answer(op) ==
    /\ slow' = Usable
    /\ reply' = [op |-> op, state |-> View(slow')]
    /\ UNCHANGED <<hardware, caps, since>>

Snapshot == ~wrote /\ Answer("read") /\ UNCHANGED wrote

-----------------------------------------------------------------------------
(* Writing.                                                                *)

\* An error is returned and nothing is written; finishMutation turns it into
\* 404 unsupported, 409 conflict, 409 confirmation_required or 400.
Refuse ==
    /\ reply' = None
    /\ UNCHANGED <<hardware, caps, slow, wrote, since>>

Touch(a) == since' = IF a \in Cached THEN [since EXCEPT ![a] = 0] ELSE since

\* Mutant: a setter that does not invalidate the cache.
WriteKeepsCache(a, v) ==
    \/ /\ \E now \in {v, value[a]} : value' = [value EXCEPT ![a] = now]
       /\ wrote' = TRUE
       /\ reply' = None
       /\ Touch(a)
       /\ UNCHANGED <<broken, power, caps, slow>>
    \/ Refuse

\* fs.WriteFile and invalidateSlow, or the error of the write.
Write(a, v) ==
    \/ /\ \E now \in {v, value[a]} : value' = [value EXCEPT ![a] = now]
       /\ slow' = [slow EXCEPT !.age = Expired]
       /\ wrote' = TRUE
       /\ reply' = None
       /\ Touch(a)
       /\ UNCHANGED <<broken, power, caps>>
    \/ Refuse

\* The snapshot() every setter returns with, and the end of its call.
ReadBack == wrote /\ Answer("write") /\ wrote' = FALSE

\* The choices are read afresh, whatever the cache holds.
SetProfile(p) ==
    IF "profile" \notin caps THEN Refuse
    ELSE IF "choices" \in broken
            \/ p \notin value["choices"] \cap Permitted(power)
         THEN Refuse
    ELSE Write("profile", p)

\* SetFans reads the profile itself and takes a failed read for no profile.
ProfileRead == IF "profile" \in broken THEN "" ELSE value["profile"]
Hot(p) == p \in {"balanced-performance", "performance"}
Low(f) == f # AutoFans /\ (f.cpu < 20 \/ f.gpu < 20)

SetFans(f, confirmed) ==
    IF "fans" \notin caps THEN Refuse
    ELSE IF ~ValidFans(f) THEN Refuse
    ELSE IF ProfileRead = "quiet" /\ f # AutoFans THEN Refuse
    ELSE IF Hot(ProfileRead) /\ Low(f) /\ ~confirmed THEN Refuse
    ELSE Write("fans", f)

\* Starting a battery calibration needs confirmation before anything else.
SetBoolean(a, v, confirmed) ==
    IF a = "battery_calibration" /\ v /\ ~confirmed THEN Refuse
    ELSE IF a \notin caps THEN Refuse
    ELSE Write(a, v)

\* SetUSBCharging, SetPerZone and SetEffect; Validate is stricter than Parse,
\* which takes the direction 0 that some effects report.
SetCode(a, v) ==
    IF a \notin caps THEN Refuse
    ELSE IF v \notin Valid[a] THEN Refuse
    ELSE Write(a, v)

Set ==
    /\ ~wrote
    /\ \/ \E p \in Profiles : SetProfile(p)
       \/ \E f \in Fans, c \in BOOLEAN : SetFans(f, c)
       \/ \E a \in Switches, v \in BOOLEAN, c \in BOOLEAN : SetBoolean(a, v, c)
       \/ \E a \in Codes : \E v \in Legal[a] \cup {Junk} : SetCode(a, v)

Call == Snapshot \/ Set \/ ReadBack

-----------------------------------------------------------------------------
(* The hardware.                                                           *)

Change(a) ==
    /\ \E v \in Legal[a] \ {value[a]} : value' = [value EXCEPT ![a] = v]
    /\ Touch(a)
    /\ reply' = None
    /\ UNCHANGED <<broken, power, caps, slow, wrote>>

Break(a) ==
    /\ a \notin broken
    /\ Cardinality(broken \cap caps) < MaxBroken
    /\ broken' = broken \cup {a}
    /\ Touch(a)
    /\ reply' = None
    /\ UNCHANGED <<value, power, caps, slow, wrote>>

Mend(a) ==
    /\ a \in broken
    /\ broken' = broken \ {a}
    /\ Touch(a)
    /\ reply' = None
    /\ UNCHANGED <<value, power, caps, slow, wrote>>

ChangePower ==
    /\ power' \in PowerSources \ {power}
    /\ reply' = None
    /\ UNCHANGED <<value, broken, caps, slow, wrote, since>>

Older(age) == IF age = Expired THEN age ELSE age + 1

Tick ==
    /\ slow' = [slow EXCEPT !.age = Older(@)]
    /\ since' = [a \in Cached |-> Older(since[a])]
    /\ reply' = None
    /\ UNCHANGED <<hardware, caps, wrote>>

Environment ==
    \/ \E a \in Attrs : Change(a) \/ Break(a) \/ Mend(a)
    \/ ChangePower
    \/ Tick

-----------------------------------------------------------------------------
(* The specification.  NewController probes the nodes that exist; a node   *)
(* that does not exist is one that does not read.  The values the hardware *)
(* starts with do not matter: Change leads to all others.                  *)

Init ==
    /\ \E nodes \in Machines :
          /\ caps = Probe(nodes)
          /\ broken = Attrs \ nodes
    /\ value = [a \in Attrs |-> CHOOSE v \in Legal[a] : TRUE]
    /\ power \in PowerSources
    /\ slow = [age |-> Expired, value |-> [a \in Cached |-> Zero[a]], degraded |-> {}]
    /\ wrote = FALSE
    /\ reply = None
    /\ since = [a \in Cached |-> Expired]

Next == Call \/ Environment

Spec == Init /\ [][Next]_vars

-----------------------------------------------------------------------------
(* Properties.                                                             *)

TypeOK ==
    /\ DOMAIN value = Attrs /\ \A a \in Attrs : value[a] \in Legal[a]
    /\ broken \subseteq Attrs /\ power \in PowerSources
    /\ caps \subseteq Attrs
    /\ DOMAIN slow = {"age", "value", "degraded"} /\ slow.age \in Ages
    /\ DOMAIN slow.value = Cached
    /\ \A a \in Cached : slow.value[a] \in Legal[a] \cup {Zero[a]}
    /\ slow.degraded \subseteq Cached \cap caps
    /\ wrote \in BOOLEAN
    /\ \/ reply = None
       \/ reply.op \in {"read", "write"} /\ reply.state.degraded \subseteq caps
    /\ since \in [Cached -> Ages]

\* What a state says of an attribute is true of the hardware: its value, or
\* that it does not read.
Correct(state, a) ==
    IF a \in broken THEN a \in state.degraded
    ELSE a \notin state.degraded /\ state.shown[a] = value[a]

Answered(ops) == reply # None /\ reply.op \in ops

\* "a write is always followed by a truthful read-back" (invalidateSlow): the
\* state a setter returns is true of every supported attribute, the one it
\* wrote, those it did not write and those that failed to read.
TruthfulReadBack ==
    Answered({"write"}) => \A a \in caps : Correct(reply.state, a)

\* No snapshot is wrong about an attribute, whether its value or its being
\* degraded, for longer than SlowTTL after it changed, broke or recovered
\* (defaultSlowTTL), and never about the profile or the fans; so one failing
\* attribute does not blank another.
BoundedStaleness ==
    Answered({"read", "write"}) =>
        \A a \in caps :
            \/ Correct(reply.state, a)
            \/ a \in Cached /\ since[a] <= SlowTTL

\* The profiles a snapshot offers are those SetProfile would accept at that
\* moment, although one reads the cache and the other the driver; they can
\* differ for SlowTTL after the driver's choices changed (availableProfiles).
OfferIsHonoured ==
    Answered({"read", "write"}) /\ "profile" \in caps =>
        \/ reply.state.available =
              IF "choices" \in broken THEN {}
              ELSE value["choices"] \cap Permitted(power)
        \/ since["choices"] <= SlowTTL

\* "manual fan control is disabled in Silent mode" (SetFans): no write of the
\* panel takes the fans from automatic control while the machine is in quiet.
SilentLocksFans ==
    [][wrote' /\ ~wrote /\ value'["fans"] \notin {value["fans"], AutoFans} =>
         value["profile"] # "quiet"]_vars

-----------------------------------------------------------------------------
(* The inductive invariant behind these properties.                        *)

\* The profile is supported together with the list of its choices.
ProbedTogether == "profile" \in caps <=> "choices" \in caps

\* A cache that may still be used is right about an attribute, unless that
\* attribute moved after the cache was filled.
CacheRight(a) ==
    IF a \in broken THEN a \in slow.degraded
    ELSE a \notin slow.degraded /\ slow.value[a] = value[a]

CacheIsRecent ==
    slow.age <= SlowTTL =>
        \A a \in Cached \cap caps : CacheRight(a) \/ since[a] <= slow.age

\* An attribute noted as degraded is left at its zero value.
NotedIsZero == \A a \in slow.degraded : slow.value[a] = Zero[a]

\* While a setter holds the mutex the cache is void.
WrittenMeansExpired == wrote => slow.age = Expired

IndInv ==
    /\ TypeOK /\ ProbedTogether /\ CacheIsRecent /\ NotedIsZero /\ WrittenMeansExpired
    /\ TruthfulReadBack /\ BoundedStaleness /\ OfferIsHonoured

=============================================================================
