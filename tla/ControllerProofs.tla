-------------------------- MODULE ControllerProofs --------------------------
(***************************************************************************)
(* Theorems about Controller, for any attributes and values, any machine,  *)
(* any lifetime of the cache and any behaviour of the hardware.            *)
(***************************************************************************)
EXTENDS Controller, TLAPS

\* The cache a new controller starts with is void, and no state is returned.
LEMMA InitIndInv == Init => IndInv
<1> SUFFICES ASSUME Init PROVE IndInv
  OBVIOUS
<1>1. TypeOK
  <2>1. DOMAIN value = Attrs /\ \A a \in Attrs : value[a] \in Legal[a]
    BY ControllerAssumption DEF Init
  <2>2. broken \subseteq Attrs /\ power \in PowerSources /\ caps \subseteq Attrs
    BY ControllerAssumption DEF Init, Probe
  <2>3. DOMAIN slow = {"age", "value", "degraded"} /\ slow.age \in Ages
    BY ControllerAssumption DEF Init, Ages, Expired
  <2>4. /\ DOMAIN slow.value = Cached
        /\ \A a \in Cached : slow.value[a] \in Legal[a] \cup {Zero[a]}
    BY DEF Init
  <2>5. slow.degraded \subseteq Cached \cap caps
    BY DEF Init
  <2>6. wrote \in BOOLEAN /\ reply = None
    BY DEF Init
  <2>7. since \in [Cached -> Ages]
    BY ControllerAssumption DEF Init, Ages, Expired
  <2> QED BY <2>1, <2>2, <2>3, <2>4, <2>5, <2>6, <2>7 DEF TypeOK
<1>2. ProbedTogether
  BY DEF Init, ProbedTogether, Probe
<1>3. CacheIsRecent /\ NotedIsZero /\ WrittenMeansExpired
  BY ControllerAssumption DEF Init, CacheIsRecent, NotedIsZero, WrittenMeansExpired, Expired
<1>4. TruthfulReadBack /\ BoundedStaleness /\ OfferIsHonoured
  BY DEF Init, TruthfulReadBack, BoundedStaleness, OfferIsHonoured, Answered
<1> QED BY <1>1, <1>2, <1>3, <1>4 DEF IndInv

\* What refreshSlow leaves is right about every supported attribute.
LEMMA RefreshedIsRight ==
  ASSUME IndInv
  PROVE  /\ DOMAIN Refreshed = {"age", "value", "degraded"}
         /\ Refreshed.age = 0
         /\ DOMAIN Refreshed.value = Cached
         /\ \A a \in Cached : Refreshed.value[a] \in Legal[a] \cup {Zero[a]}
         /\ Refreshed.degraded = Cached \cap caps \cap broken
         /\ \A a \in (Cached \cap caps) \ broken : Refreshed.value[a] = value[a]
         /\ \A a \in Cached \cap broken : Refreshed.value[a] = Zero[a]
  BY DEF IndInv, TypeOK, Refreshed, Reading, Attrs

\* The cache a snapshot uses is right about every supported attribute that has
\* not moved for longer than SlowTTL; a void cache is never used.
LEMMA UsableIsRight ==
  ASSUME IndInv
  PROVE  /\ DOMAIN Usable = {"age", "value", "degraded"}
         /\ Usable.age \in 0..SlowTTL
         /\ DOMAIN Usable.value = Cached
         /\ \A a \in Cached : Usable.value[a] \in Legal[a] \cup {Zero[a]}
         /\ Usable.degraded \subseteq Cached \cap caps
         /\ \A a \in Usable.degraded : Usable.value[a] = Zero[a]
         /\ \A a \in Cached \cap caps :
               \/ IF a \in broken THEN a \in Usable.degraded
                  ELSE a \notin Usable.degraded /\ Usable.value[a] = value[a]
               \/ ~wrote /\ since[a] <= Usable.age
<1>1. CASE slow.age > SlowTTL
  BY <1>1, RefreshedIsRight, ControllerAssumption DEF Usable
<1>2. CASE ~(slow.age > SlowTTL)
  BY <1>2, ControllerAssumption
  DEF Usable, IndInv, TypeOK, CacheIsRecent, CacheRight, NotedIsZero, WrittenMeansExpired,
      Ages, Expired
<1> QED BY <1>1, <1>2

\* Both snapshots, the plain one and the read-back, keep the invariant.
LEMMA AnswerKeepsIndInv ==
  ASSUME IndInv, Snapshot \/ ReadBack
  PROVE  IndInv'
<1>1. PICK op \in {"read", "write"} :
        /\ slow' = Usable /\ reply' = [op |-> op, state |-> View(Usable)]
        /\ UNCHANGED <<hardware, caps, since>>
        /\ wrote' = FALSE
        /\ op = "write" => wrote
  BY DEF Snapshot, ReadBack, Answer, IndInv, TypeOK
<1> DEFINE seen == View(Usable)
<1>2. /\ seen.degraded = (Live \cap caps \cap broken) \cup Usable.degraded
      /\ \A a \in Attrs : seen.shown[a] =
            IF a \in Cached THEN Usable.value[a] ELSE Reading(a)
      /\ seen.available = IF "profile" \in caps
                          THEN Usable.value["choices"] \cap Permitted(power) ELSE {}
  BY DEF View
<1>3. \A a \in caps : \/ Correct(seen, a)
                      \/ a \in Cached /\ ~wrote /\ since[a] <= SlowTTL
  <2> TAKE a \in caps
  <2>1. CASE a \in Cached
    BY <2>1, <1>2, UsableIsRight, ControllerAssumption
    DEF Correct, IndInv, TypeOK, Attrs, Ages, Expired
  <2>2. CASE a \notin Cached
    BY <2>2, <1>2, UsableIsRight DEF Correct, IndInv, TypeOK, Attrs, Reading
  <2> QED BY <2>1, <2>2
<1>4. TypeOK'
  <2>1. /\ DOMAIN slow' = {"age", "value", "degraded"} /\ slow'.age \in Ages
        /\ DOMAIN slow'.value = Cached
        /\ \A a \in Cached : slow'.value[a] \in Legal[a] \cup {Zero[a]}
        /\ slow'.degraded \subseteq Cached \cap caps
    BY <1>1, UsableIsRight, ControllerAssumption DEF Ages, Expired
  <2>2. reply'.op \in {"read", "write"} /\ reply'.state.degraded \subseteq caps
    BY <1>1, <1>2, UsableIsRight
  <2>3. UNCHANGED <<value, broken, power, caps, since>> /\ wrote' \in BOOLEAN
    BY <1>1 DEF hardware
  <2> QED BY <2>1, <2>2, <2>3 DEF IndInv, TypeOK, Ages, Expired
<1>5. CacheIsRecent' /\ NotedIsZero' /\ WrittenMeansExpired' /\ ProbedTogether'
  BY <1>1, UsableIsRight
  DEF IndInv, CacheIsRecent, CacheRight, NotedIsZero, WrittenMeansExpired, ProbedTogether,
      hardware
<1>6. TruthfulReadBack' /\ BoundedStaleness'
  BY <1>1, <1>3 DEF TruthfulReadBack, BoundedStaleness, Answered, Correct, hardware
<1>7. OfferIsHonoured'
  <2>1. "choices" \in Cached
    BY DEF Cached
  <2>2. CASE "profile" \in caps
    <3>1. "choices" \in caps
      BY <2>2 DEF IndInv, ProbedTogether
    <3>2. \/ since["choices"] <= SlowTTL
          \/ "choices" \notin broken /\ Usable.value["choices"] = value["choices"]
          \/ "choices" \in broken /\ Usable.value["choices"] = {}
      BY <2>1, <3>1, UsableIsRight, ControllerAssumption
      DEF IndInv, TypeOK, Ages, Expired
    <3> QED BY <1>1, <1>2, <2>2, <3>2 DEF OfferIsHonoured, Answered, hardware
  <2> QED BY <1>1, <2>2 DEF OfferIsHonoured, hardware
<1> QED BY <1>4, <1>5, <1>6, <1>7 DEF IndInv

\* A step that returns no state keeps the invariant when what it does to the
\* hardware is legal, the values in the cache stay, a setter that has written
\* leaves the cache void, and an attribute that moved is remembered to have.
LEMMA MoveKeepsIndInv ==
  ASSUME IndInv, reply' = None, caps' = caps,
         DOMAIN value' = Attrs, \A a \in Attrs : value'[a] \in Legal[a],
         broken' \subseteq Attrs, power' \in PowerSources,
         NEW age \in Ages, DOMAIN slow' = DOMAIN slow, slow'.age = age,
         slow'.value = slow.value, slow'.degraded = slow.degraded,
         wrote' \in BOOLEAN, wrote' => age = Expired,
         since' \in [Cached -> Ages],
         age <= SlowTTL =>
            /\ slow.age <= SlowTTL
            /\ \A a \in Cached :
                  \/ since'[a] = 0
                  \/ /\ value'[a] = value[a] /\ (a \in broken' <=> a \in broken)
                     /\ since[a] <= slow.age => since'[a] <= age
  PROVE  IndInv'
<1>1. /\ DOMAIN slow' = {"age", "value", "degraded"}
      /\ slow'.age = age /\ slow'.value = slow.value /\ slow'.degraded = slow.degraded
  BY DEF IndInv, TypeOK
<1>2. TypeOK'
  <2>1. /\ DOMAIN slow'.value = Cached
        /\ \A a \in Cached : slow'.value[a] \in Legal[a] \cup {Zero[a]}
        /\ slow'.degraded \subseteq Cached \cap caps'
    BY <1>1 DEF IndInv, TypeOK
  <2>2. caps' \subseteq Attrs
    BY DEF IndInv, TypeOK
  <2> QED BY <1>1, <2>1, <2>2 DEF TypeOK
<1>3. CacheIsRecent'
  <2> SUFFICES ASSUME age <= SlowTTL, NEW a \in Cached \cap caps
               PROVE  CacheRight(a)' \/ since'[a] <= age
    BY <1>1 DEF CacheIsRecent
  <2>1. CASE since'[a] = 0
    BY <2>1, ControllerAssumption DEF Ages, Expired
  <2>2. CASE since'[a] # 0
    BY <1>1, <2>2 DEF IndInv, CacheIsRecent, CacheRight
  <2> QED BY <2>1, <2>2
<1>4. NotedIsZero' /\ WrittenMeansExpired' /\ ProbedTogether'
  BY <1>1 DEF IndInv, NotedIsZero, WrittenMeansExpired, ProbedTogether
<1>5. TruthfulReadBack' /\ BoundedStaleness' /\ OfferIsHonoured'
  BY DEF TruthfulReadBack, BoundedStaleness, OfferIsHonoured, Answered
<1> QED BY <1>2, <1>3, <1>4, <1>5 DEF IndInv

\* What remembering does: the attribute, when cached, moved just now.
LEMMA TouchRemembers ==
  ASSUME IndInv, NEW a, Touch(a)
  PROVE  /\ since' \in [Cached -> Ages]
         /\ \A b \in Cached : since'[b] = IF b = a THEN 0 ELSE since[b]
  BY ControllerAssumption DEF Touch, IndInv, TypeOK, Ages, Expired

\* A call that is refused changes nothing.
LEMMA RefuseKeepsIndInv ==
  ASSUME IndInv, Refuse
  PROVE  IndInv'
<1>1. UNCHANGED <<value, broken, power, caps, wrote, since>> /\ reply' = None
  BY DEF Refuse, hardware
<1>2. TypeOK'
  BY <1>1 DEF Refuse, IndInv, TypeOK
<1>3. CacheIsRecent' /\ NotedIsZero' /\ WrittenMeansExpired' /\ ProbedTogether'
  BY <1>1 DEF Refuse, IndInv, CacheIsRecent, CacheRight, NotedIsZero, WrittenMeansExpired,
              ProbedTogether
<1>4. TruthfulReadBack' /\ BoundedStaleness' /\ OfferIsHonoured'
  BY <1>1 DEF TruthfulReadBack, BoundedStaleness, OfferIsHonoured, Answered
<1> QED BY <1>2, <1>3, <1>4 DEF IndInv

\* A write that is accepted, ignored or refused keeps the invariant.
LEMMA WriteKeepsIndInv ==
  ASSUME IndInv, ~wrote, NEW a \in Attrs, NEW v \in Legal[a], Write(a, v)
  PROVE  IndInv'
<1>1. CASE Refuse
  BY <1>1, RefuseKeepsIndInv
<1>2. CASE ~Refuse
  <2>1. PICK now \in {v, value[a]} :
          /\ value' = [value EXCEPT ![a] = now]
          /\ slow' = [slow EXCEPT !.age = Expired]
          /\ wrote' = TRUE /\ reply' = None /\ Touch(a)
          /\ UNCHANGED <<broken, power, caps>>
    BY <1>2 DEF Write
  <2>2. DOMAIN value' = Attrs /\ \A b \in Attrs : value'[b] \in Legal[b]
    BY <2>1 DEF IndInv, TypeOK
  <2>3. Expired \in Ages /\ ~(Expired <= SlowTTL)
    BY ControllerAssumption DEF Ages, Expired
  <2>4. broken' \subseteq Attrs /\ power' \in PowerSources
    BY <2>1 DEF IndInv, TypeOK
  <2>5. /\ DOMAIN slow' = DOMAIN slow /\ slow'.age = Expired
        /\ slow'.value = slow.value /\ slow'.degraded = slow.degraded
    BY <2>1 DEF IndInv, TypeOK
  <2> QED BY <2>1, <2>2, <2>3, <2>4, <2>5, TouchRemembers, MoveKeepsIndInv
<1> QED BY <1>1, <1>2

\* Every setter refuses, or writes a legal value to an attribute.
LEMMA SetKeepsIndInv ==
  ASSUME IndInv, Set
  PROVE  IndInv'
<1>1. ASSUME NEW p \in Profiles, SetProfile(p)
      PROVE  Refuse \/ (Write("profile", p) /\ p \in Legal["profile"])
  <2> USE <1>1 DEF SetProfile
  <2>1. CASE Refuse
    BY <2>1
  <2>2. CASE ~Refuse
    <3>1. Write("profile", p) /\ p \in value["choices"]
      BY <2>2
    <3>2. value["choices"] \subseteq Legal["profile"]
      BY ControllerAssumption DEF IndInv, TypeOK, Attrs, Cached
    <3> QED BY <3>1, <3>2
  <2> QED BY <2>1, <2>2
<1>2. ASSUME NEW f \in Fans, NEW c \in BOOLEAN, SetFans(f, c)
      PROVE  Refuse \/ (Write("fans", f) /\ f \in Legal["fans"])
  BY <1>2, ControllerAssumption DEF SetFans
<1>3. ASSUME NEW a \in Switches, NEW v \in BOOLEAN, NEW c \in BOOLEAN, SetBoolean(a, v, c)
      PROVE  Refuse \/ (Write(a, v) /\ v \in Legal[a])
  BY <1>3, ControllerAssumption DEF SetBoolean
<1>4. ASSUME NEW a \in Codes, NEW v \in Legal[a] \cup {Junk}, SetCode(a, v)
      PROVE  Refuse \/ (Write(a, v) /\ v \in Legal[a])
  BY <1>4, ControllerAssumption DEF SetCode
<1>5. \/ Refuse
      \/ ~wrote /\ \E a \in Attrs : \E v \in Legal[a] : Write(a, v)
  BY <1>1, <1>2, <1>3, <1>4 DEF Set, Attrs, Live, Cached
<1> QED BY <1>5, RefuseKeepsIndInv, WriteKeepsIndInv

\* Whatever the hardware does, and the passing of time, keeps the invariant.
LEMMA EnvironmentKeepsIndInv ==
  ASSUME IndInv, Environment
  PROVE  IndInv'
<1>1. /\ slow.age \in Ages /\ (wrote => slow.age = Expired)
      /\ since \in [Cached -> Ages]
      /\ DOMAIN value = Attrs /\ \A a \in Attrs : value[a] \in Legal[a]
      /\ broken \subseteq Attrs /\ power \in PowerSources /\ wrote \in BOOLEAN
  BY DEF IndInv, TypeOK, WrittenMeansExpired
<1>2. ASSUME NEW a \in Attrs, Change(a)
      PROVE  IndInv'
  <2>1. /\ DOMAIN value' = Attrs
        /\ \A b \in Attrs : value'[b] \in Legal[b]
        /\ \A b \in Attrs : b # a => value'[b] = value[b]
    BY <1>1, <1>2 DEF Change
  <2>2. /\ Touch(a) /\ reply' = None
        /\ UNCHANGED <<broken, power, caps, slow, wrote>>
    BY <1>2 DEF Change
  <2>3. Cached \subseteq Attrs
    BY DEF Attrs
  <2> QED BY <1>1, <2>1, <2>2, <2>3, TouchRemembers, MoveKeepsIndInv
<1>3. ASSUME NEW a \in Attrs, Break(a) \/ Mend(a)
      PROVE  IndInv'
  <2>1. broken' \subseteq Attrs /\ \A b \in Attrs : b # a => (b \in broken' <=> b \in broken)
    BY <1>1, <1>3 DEF Break, Mend
  <2>2. /\ Touch(a) /\ reply' = None
        /\ UNCHANGED <<value, power, caps, slow, wrote>>
    BY <1>3 DEF Break, Mend
  <2>3. Cached \subseteq Attrs
    BY DEF Attrs
  <2> QED BY <1>1, <2>1, <2>2, <2>3, TouchRemembers, MoveKeepsIndInv
<1>4. ASSUME ChangePower
      PROVE  IndInv'
  <2>1. power' \in PowerSources /\ reply' = None
        /\ UNCHANGED <<value, broken, caps, slow, wrote, since>>
    BY <1>4 DEF ChangePower
  <2> QED BY <1>1, <2>1, MoveKeepsIndInv
<1>5. ASSUME Tick
      PROVE  IndInv'
  <2>1. /\ slow' = [slow EXCEPT !.age = Older(slow.age)]
        /\ since' = [a \in Cached |-> Older(since[a])]
        /\ reply' = None
        /\ UNCHANGED <<value, broken, power, caps, wrote>>
    BY <1>5 DEF Tick, hardware
  <2>2. /\ DOMAIN slow' = DOMAIN slow /\ slow'.age = Older(slow.age)
        /\ slow'.value = slow.value /\ slow'.degraded = slow.degraded
    BY <2>1 DEF IndInv, TypeOK
  <2>3. /\ \A age \in Ages : Older(age) \in Ages
        /\ Older(Expired) = Expired
        /\ \A age \in Ages : Older(age) <= SlowTTL => age <= SlowTTL
        /\ \A age, other \in Ages : age <= other => Older(age) <= Older(other)
    BY ControllerAssumption DEF Older, Ages, Expired
  <2>4. since' \in [Cached -> Ages]
    BY <1>1, <2>1, <2>3
  <2>5. \A a \in Cached : since[a] <= slow.age => since'[a] <= Older(slow.age)
    BY <1>1, <2>1, <2>3
  <2> QED BY <1>1, <2>1, <2>2, <2>3, <2>4, <2>5, MoveKeepsIndInv
<1> QED BY <1>2, <1>3, <1>4, <1>5 DEF Environment

\* A stuttering step keeps the invariant.
LEMMA StutterKeepsIndInv ==
  ASSUME IndInv, UNCHANGED vars
  PROVE  IndInv'
<1>1. UNCHANGED <<value, broken, power, caps, slow, wrote, reply, since>>
  BY DEF vars, hardware
<1>2. TypeOK'
  BY <1>1 DEF IndInv, TypeOK
<1>3. ProbedTogether' /\ CacheIsRecent' /\ NotedIsZero' /\ WrittenMeansExpired'
  BY <1>1 DEF IndInv, ProbedTogether, CacheIsRecent, CacheRight, NotedIsZero,
              WrittenMeansExpired
<1>4. TruthfulReadBack' /\ BoundedStaleness' /\ OfferIsHonoured'
  BY <1>1 DEF IndInv, TruthfulReadBack, BoundedStaleness, OfferIsHonoured, Answered, Correct
<1> QED BY <1>2, <1>3, <1>4 DEF IndInv

-----------------------------------------------------------------------------
\* The inductive invariant holds in every state of every machine.
THEOREM Invariance == Spec => []IndInv
<1>1. IndInv /\ [Next]_vars => IndInv'
  BY AnswerKeepsIndInv, SetKeepsIndInv, EnvironmentKeepsIndInv, StutterKeepsIndInv
  DEF Next, Call
<1> QED BY InitIndInv, <1>1, PTL DEF Spec

\* Every variable keeps its type.
THEOREM TypeCorrect == Spec => []TypeOK
<1>1. IndInv => TypeOK
  BY DEF IndInv
<1> QED BY Invariance, <1>1, PTL

\* The state a setter returns is true of the hardware (invalidateSlow and
\* snapshot under the same lock).
THEOREM ReadBackIsTruthful == Spec => []TruthfulReadBack
<1>1. IndInv => TruthfulReadBack
  BY DEF IndInv
<1> QED BY Invariance, <1>1, PTL

\* A snapshot is wrong about an attribute for SlowTTL at most (refreshSlow).
THEOREM StalenessIsBounded == Spec => []BoundedStaleness
<1>1. IndInv => BoundedStaleness
  BY DEF IndInv
<1> QED BY Invariance, <1>1, PTL

\* The profiles offered are those that would be accepted, SlowTTL after the
\* driver's choices last changed (availableProfiles).
THEOREM OffersAreHonoured == Spec => []OfferIsHonoured
<1>1. IndInv => OfferIsHonoured
  BY DEF IndInv
<1> QED BY Invariance, <1>1, PTL

=============================================================================
