-------------------------- MODULE ThrottlesProofs --------------------------
(***************************************************************************)
(* Theorems about the login limiter, the write limiter and the TLS noise   *)
(* filter: for any number of requests and addresses, any limit and any     *)
(* windows (ThrottlesAssumption), and any interval that is not above the   *)
(* second in which Retry-After counts (WriteLimiterAssumption).            *)
(***************************************************************************)
EXTENDS MCThrottles, FiniteSetTheorems, TLAPS

-----------------------------------------------------------------------------
(* loginLimiter: its records, and what it counts in them.                  *)

\* The counts of one address, as the limiter or the history keeps them.
Records == [Login!Times -> Nat]

\* What has failed at a time and has a number up to the count of that time.
LEMMA FailuresAre ==
  ASSUME NEW r \in Records, NEW x
  PROVE  x \in Login!Failures(r) <=> \E t \in Login!Times : \E n \in 1..r[t] : x = <<t, n>>
<1>1. x \in Login!Failures(r) <=> \E t \in Login!Times : x \in {t} \X (1..r[t])
  BY DEF Login!Failures
<1>2. \A t : x \in {t} \X (1..r[t]) <=> \E n \in 1..r[t] : x = <<t, n>>
  OBVIOUS
<1> QED BY <1>1, <1>2

\* A record without failures.
LEMMA NoneAreNone == Login!NoFailures \in Records /\ Login!Failures(Login!NoFailures) = {}
<1>1. Login!NoFailures \in Records /\ \A t \in Login!Times : 1..Login!NoFailures[t] = {}
  BY DEF Records, Login!NoFailures
<1> QED BY <1>1, FailuresAre

\* Failures that have left the window are dropped, and no others.
LEMMA RecentAre ==
  ASSUME NEW r \in Records, NEW t \in Nat
  PROVE  /\ Login!Recent(r, t) \in Records
         /\ \A u \in Login!Times :
              Login!Recent(r, t)[u] = IF u + LoginWindow > t THEN r[u] ELSE 0
BY DEF Records, Login!Recent

\* A record that has no more at any time has no more at all.
LEMMA Fewer ==
  ASSUME NEW r \in Records, NEW s \in Records, \A t \in Login!Times : r[t] <= s[t]
  PROVE  Login!Failures(r) \subseteq Login!Failures(s)
<1> SUFFICES ASSUME NEW x \in Login!Failures(r) PROVE x \in Login!Failures(s)
  OBVIOUS
<1>1. PICK t \in Login!Times : \E n \in 1..r[t] : x = <<t, n>>
  BY FailuresAre
<1>2. 1..r[t] \subseteq 1..s[t]
  BY DEF Records
<1> QED BY <1>1, <1>2, FailuresAre

\* One failure more.
LEMMA OneMore ==
  ASSUME NEW r \in Records, NEW t \in Login!Times
  PROVE  LET more == [r EXCEPT ![t] = @ + 1] IN
         /\ more \in Records
         /\ Login!Failures(more) = Login!Failures(r) \cup {<<t, r[t] + 1>>}
         /\ <<t, r[t] + 1>> \notin Login!Failures(r)
<1> DEFINE more == [r EXCEPT ![t] = @ + 1]
<1>1. more \in Records /\ more[t] = r[t] + 1 /\ r[t] \in Nat
      /\ \A u \in Login!Times : u # t => more[u] = r[u]
  BY DEF Records
<1> HIDE DEF more
<1>2. ASSUME NEW x PROVE x \in Login!Failures(more) <=> x \in Login!Failures(r) \/ x = <<t, r[t] + 1>>
  <2>1. ASSUME x \in Login!Failures(more) PROVE x \in Login!Failures(r) \/ x = <<t, r[t] + 1>>
    <3>1. PICK u \in Login!Times : \E n \in 1..more[u] : x = <<u, n>>
      BY <1>1, <2>1, FailuresAre
    <3>2. CASE u = t
      BY <1>1, <3>1, <3>2, FailuresAre
    <3>3. CASE u # t
      BY <1>1, <3>1, <3>3, FailuresAre
    <3> QED BY <3>2, <3>3
  <2>2. ASSUME x \in Login!Failures(r) PROVE x \in Login!Failures(more)
    <3>1. PICK u \in Login!Times : \E n \in 1..r[u] : x = <<u, n>>
      BY <2>2, FailuresAre
    <3>2. 1..r[u] \subseteq 1..more[u]
      BY <1>1, <3>1
    <3> QED BY <1>1, <3>1, <3>2, FailuresAre
  <2>3. <<t, r[t] + 1>> \in Login!Failures(more)
    <3>1. r[t] + 1 \in 1..more[t]
      BY <1>1
    <3> QED BY <1>1, <3>1, FailuresAre
  <2> QED BY <2>1, <2>2, <2>3
<1>3. <<t, r[t] + 1>> \notin Login!Failures(r)
  <2> SUFFICES ASSUME \E u \in Login!Times : \E n \in 1..r[u] : <<t, r[t] + 1>> = <<u, n>>
               PROVE  FALSE
    BY FailuresAre
  <2> QED BY <1>1
<1> QED BY <1>1, <1>2, <1>3 DEF more


\* The clock counts from nought.
LEMMA TimesAre ==
  /\ Login!Times \subseteq Nat /\ 0 \in Login!Times
  /\ LoginWindow \in Nat \ {0} /\ Limit \in Nat \ {0} /\ LoginTime \in Nat
  /\ None \notin Addresses
BY ThrottlesAssumption DEF ThrottlesAssumption, Login!Times

\* Of two records the one with fewer failures in its window has fewer recent ones.
LEMMA RecentFewer ==
  ASSUME NEW r \in Records, NEW s \in Records, NEW t \in Nat, NEW u \in Nat,
         \A v \in Login!Times : v + LoginWindow > t => v + LoginWindow > u /\ r[v] <= s[v]
  PROVE  Login!Failures(Login!Recent(r, t)) \subseteq Login!Failures(Login!Recent(s, u))
<1> DEFINE p == Login!Recent(r, t)
           q == Login!Recent(s, u)
<1>1. /\ p \in Records /\ q \in Records
      /\ \A v \in Login!Times : p[v] = IF v + LoginWindow > t THEN r[v] ELSE 0
      /\ \A v \in Login!Times : q[v] = IF v + LoginWindow > u THEN s[v] ELSE 0
  BY RecentAre
<1> HIDE DEF p, q
<1>2. ASSUME NEW v \in Login!Times PROVE p[v] <= q[v]
  <2>1. r[v] \in Nat /\ s[v] \in Nat
    BY DEF Records
  <2> QED BY <1>1, <2>1
<1>3. Login!Failures(p) \subseteq Login!Failures(q)
  BY <1>1, <1>2, Fewer
<1> QED BY <1>3 DEF p, q

\* What is recent was in the record.
LEMMA RecentWere ==
  ASSUME NEW r \in Records, NEW t \in Nat
  PROVE  Login!Failures(Login!Recent(r, t)) \subseteq Login!Failures(r)
<1> DEFINE p == Login!Recent(r, t)
<1>1. p \in Records /\ \A v \in Login!Times : p[v] = IF v + LoginWindow > t THEN r[v] ELSE 0
  BY RecentAre
<1> HIDE DEF p
<1>2. ASSUME NEW v \in Login!Times PROVE p[v] <= r[v]
  <2>1. r[v] \in Nat
    BY DEF Records
  <2> QED BY <1>1, <2>1
<1>3. Login!Failures(p) \subseteq Login!Failures(r)
  BY <1>1, <1>2, Fewer
<1> QED BY <1>3 DEF p

-----------------------------------------------------------------------------
(* loginLimiter: the inductive invariant.                                  *)

\* The failures of an address that are younger than a window.
InWindow(a) == Login!Failures(Login!Recent(log[a], lnow))

\* A handler that does something knows its address, and its clock is not ahead.
Busy == \A h \in Handlers : lpc[h] # "idle" => from[h] \in Addresses /\ lat[h] <= lnow

\* A record has only failures there were, and all of those that still count.
TrueRecord(a) ==
    /\ IsFiniteSet(Login!Failures(log[a]))
    /\ \A t \in Login!Times :
         /\ Login!RecordOf(a)[t] <= log[a][t]
         /\ t + LoginWindow > lnow => Login!RecordOf(a)[t] = log[a][t]
RecordsAreTrue == \A a \in Addresses : TrueRecord(a)

\* The failures in the window and the attempts under way are within the bound.
Bounded(a) ==
    Cardinality(InWindow(a)) + Cardinality(Login!UnderWay(a)) < Limit + Cardinality(Handlers)
AllBounded == \A a \in Addresses : Bounded(a)

LoginInv == Login!TypeOK /\ Busy /\ RecordsAreTrue /\ AllBounded

\* The instance counts as the module does.
LEMMA SameCardinality == \A S : Login!Cardinality(S) = Cardinality(S)
BY DEF Login!Cardinality, Cardinality

\* The bound of the limiter is that of every address.
LEMMA Bounds == AllBounded <=> Login!WindowBound
BY SameCardinality DEF Login!WindowBound, Login!Total, InWindow, AllBounded, Bounded

\* Sets of handlers are finite.
LEMMA SomeHandlers ==
  ASSUME NEW S, S \subseteq Handlers
  PROVE  /\ IsFiniteSet(S) /\ Cardinality(S) \in Nat /\ Cardinality(Handlers) \in Nat
         /\ Cardinality(S) <= Cardinality(Handlers)
BY ThrottlesAssumption, FS_Subset, FS_CardinalityType DEF ThrottlesAssumption

\* The types of what the limiter looks at.
LEMMA LoginTypes ==
  ASSUME Login!TypeOK
  PROVE  /\ lnow \in Nat
         /\ \A h \in Handlers : lat[h] \in Login!Times /\ lat[h] \in Nat
         /\ \A a \in Addresses : Login!RecordOf(a) \in Records /\ log[a] \in Records
BY TimesAre, NoneAreNone DEF Login!TypeOK, Login!RecordOf, Records

\* What is stored for an address is its record, and the others keep theirs.
LEMMA Stored ==
  ASSUME Login!TypeOK, NEW a \in Addresses, NEW r \in Records, records' = Login!Store(a, r)
  PROVE  /\ DOMAIN records' \subseteq Addresses
         /\ \A b \in DOMAIN records' : records'[b] \in [Login!Times -> Nat]
         /\ Login!RecordOf(a)' = r
         /\ \A b \in Addresses \ {a} : Login!RecordOf(b)' = Login!RecordOf(b)
BY DEF Login!TypeOK, Login!Store, Login!RecordOf, Records

\* Of an address the failures in the window are finite.
LEMMA WindowIsFinite ==
  ASSUME LoginInv, NEW a \in Addresses
  PROVE  IsFiniteSet(InWindow(a)) /\ Cardinality(InWindow(a)) \in Nat
<1>1. log[a] \in Records /\ lnow \in Nat /\ IsFiniteSet(Login!Failures(log[a]))
  BY LoginTypes DEF LoginInv, RecordsAreTrue, TrueRecord
<1>2. InWindow(a) \subseteq Login!Failures(log[a])
  BY <1>1, RecentWere DEF InWindow
<1> QED BY <1>1, <1>2, FS_Subset, FS_CardinalityType

\* They are among those that allow finds with a clock that is not ahead.
LEMMA WindowIsFound ==
  ASSUME LoginInv, NEW a \in Addresses, NEW t \in Nat, t <= lnow
  PROVE  InWindow(a) \subseteq Login!Failures(Login!Recent(Login!RecordOf(a), t))
<1>1. log[a] \in Records /\ Login!RecordOf(a) \in Records /\ lnow \in Nat /\ TrueRecord(a)
  BY LoginTypes DEF LoginInv, RecordsAreTrue
<1>2. ASSUME NEW v \in Login!Times, v + LoginWindow > lnow
      PROVE  v + LoginWindow > t /\ log[a][v] <= Login!RecordOf(a)[v]
  <2>1. log[a][v] = Login!RecordOf(a)[v] /\ log[a][v] \in Nat
    BY <1>1, <1>2 DEF TrueRecord, Records
  <2>2. v \in Nat
    BY TimesAre
  <2> QED BY <1>1, <1>2, <2>1, <2>2, TimesAre
<1> QED BY <1>1, <1>2, RecentFewer DEF InWindow

\* An address with no more failures and no more attempts keeps its bound.
LEMMA BoundKept ==
  ASSUME LoginInv, NEW a \in Addresses,
         InWindow(a)' \subseteq InWindow(a), Login!UnderWay(a)' \subseteq Login!UnderWay(a)
  PROVE  Bounded(a)'
<1>1. /\ IsFiniteSet(InWindow(a)) /\ Cardinality(InWindow(a)) \in Nat
      /\ Cardinality(InWindow(a)) + Cardinality(Login!UnderWay(a)) < Limit + Cardinality(Handlers)
  BY WindowIsFinite DEF LoginInv, AllBounded, Bounded
<1>2. Cardinality(InWindow(a)') <= Cardinality(InWindow(a)) /\ Cardinality(InWindow(a)') \in Nat
  BY <1>1, FS_Subset, FS_CardinalityType
<1>3. Login!UnderWay(a) \subseteq Handlers
  BY DEF Login!UnderWay
<1>4. /\ IsFiniteSet(Login!UnderWay(a)) /\ Cardinality(Login!UnderWay(a)) \in Nat
      /\ Cardinality(Handlers) \in Nat
  BY <1>3, SomeHandlers
<1>5. /\ Cardinality(Login!UnderWay(a)') <= Cardinality(Login!UnderWay(a))
      /\ Cardinality(Login!UnderWay(a)') \in Nat
  BY <1>4, FS_Subset, FS_CardinalityType
<1> QED BY <1>1, <1>2, <1>4, <1>5, TimesAre DEF Bounded

\* A handler that is done.
LEMMA Ended ==
  ASSUME Login!TypeOK, Busy, NEW h \in Handlers, Login!Done(h), lnow' = lnow
  PROVE  /\ lnow' \in Login!Times
         /\ lpc' \in [Handlers -> {"idle", "allow", "check", "failed"}]
         /\ from' \in [Handlers -> Addresses \cup {None}]
         /\ lat' \in [Handlers -> Login!Times]
         /\ Busy'
         /\ lpc'[h] = "idle"
         /\ \A a \in Addresses : Login!UnderWay(a)' = Login!UnderWay(a) \ {h}
<1>1. /\ lnow' \in Login!Times
      /\ lpc' \in [Handlers -> {"idle", "allow", "check", "failed"}]
      /\ from' \in [Handlers -> Addresses \cup {None}]
      /\ lat' \in [Handlers -> Login!Times]
      /\ lpc'[h] = "idle"
      /\ \A g \in Handlers \ {h} : lpc'[g] = lpc[g] /\ from'[g] = from[g] /\ lat'[g] = lat[g]
  BY TimesAre DEF Login!Done, Login!TypeOK
<1>2. Busy'
  BY <1>1 DEF Busy
<1>3. \A a \in Addresses : Login!UnderWay(a)' = Login!UnderWay(a) \ {h}
  BY <1>1 DEF Login!UnderWay
<1> QED BY <1>1, <1>2, <1>3

\* Steps that leave the records and the log alone and begin no attempt.
LEMMA OtherLoginSteps ==
  ASSUME LoginInv, Login!TypeOK', Busy', UNCHANGED <<records, log>>, lnow <= lnow',
         \A h \in Handlers : lpc'[h] \in {"check", "failed"} =>
            lpc[h] \in {"check", "failed"} /\ from'[h] = from[h]
  PROVE  LoginInv'
<1>1. lnow \in Nat /\ lnow' \in Nat
  BY LoginTypes, TimesAre DEF LoginInv, Login!TypeOK
<1>2. ASSUME NEW a \in Addresses PROVE TrueRecord(a)'
  <2>1. /\ TrueRecord(a) /\ Login!RecordOf(a)' = Login!RecordOf(a)
        /\ Login!Failures(log[a])' = Login!Failures(log[a])
    BY DEF LoginInv, RecordsAreTrue, Login!RecordOf, Login!Failures
  <2>2. \A t \in Login!Times : t + LoginWindow > lnow' => t + LoginWindow > lnow
    BY <1>1, TimesAre
  <2> QED BY <2>1, <2>2 DEF TrueRecord
<1>3. ASSUME NEW a \in Addresses PROVE InWindow(a)' \subseteq InWindow(a)
  <2>1. log[a] \in Records /\ \A v \in Login!Times : log[a][v] \in Nat
    BY LoginTypes DEF LoginInv, Records
  <2>2. \A v \in Login!Times :
          v + LoginWindow > lnow' => v + LoginWindow > lnow /\ log[a][v] <= log[a][v]
    BY <1>1, <2>1, TimesAre
  <2>3. Login!Failures(Login!Recent(log[a], lnow')) \subseteq Login!Failures(Login!Recent(log[a], lnow))
    BY <1>1, <2>1, <2>2, RecentFewer
  <2>4. InWindow(a)' = Login!Failures(Login!Recent(log[a], lnow'))
    BY DEF InWindow, Login!Failures, Login!Recent
  <2> QED BY <2>3, <2>4 DEF InWindow
<1>4. \A a \in Addresses : Login!UnderWay(a)' \subseteq Login!UnderWay(a)
  BY DEF Login!UnderWay
<1> QED BY <1>2, <1>3, <1>4, BoundKept DEF LoginInv, RecordsAreTrue, AllBounded

\* allow: an attempt that passes finds fewer failures than the limit.
LEMMA AllowKeepsLoginInv ==
  ASSUME LoginInv, NEW h \in Handlers, Login!Allow(h)
  PROVE  LoginInv'
<1>1. /\ from[h] \in Addresses /\ lat[h] \in Nat /\ lat[h] <= lnow
      /\ lpc[h] = "allow" /\ UNCHANGED <<lnow, log>>
  BY LoginTypes DEF LoginInv, Login!Allow, Busy
<1>2. PICK a \in Addresses : a = from[h]
  BY <1>1
<1>3. Login!RecordOf(a) \in Records /\ log[a] \in Records /\ lnow \in Nat
  BY LoginTypes DEF LoginInv
<1>4. PICK record \in Records : record = Login!Recent(Login!RecordOf(a), lat[h])
  BY <1>1, <1>3, RecentAre
<1>5. records' = Login!Store(a, record) /\ Login!Decide(h, record)
  BY <1>2, <1>4 DEF Login!Allow
<1>6. /\ DOMAIN records' \subseteq Addresses
      /\ \A b \in DOMAIN records' : records'[b] \in [Login!Times -> Nat]
      /\ Login!RecordOf(a)' = record
      /\ \A b \in Addresses \ {a} : Login!RecordOf(b)' = Login!RecordOf(b)
  BY <1>5, Stored DEF LoginInv
<1>7. \/ /\ Login!Total(record) < Limit /\ lpc' = [lpc EXCEPT ![h] = "check"]
         /\ UNCHANGED <<from, lat>>
      \/ Login!Done(h)
  BY <1>5 DEF Login!Decide
<1>8. Login!TypeOK'
  <2>1. /\ lnow' \in Login!Times
        /\ lpc' \in [Handlers -> {"idle", "allow", "check", "failed"}]
        /\ from' \in [Handlers -> Addresses \cup {None}]
        /\ lat' \in [Handlers -> Login!Times]
    BY <1>1, <1>7, Ended DEF LoginInv, Login!TypeOK
  <2>2. log' \in [Addresses -> [Login!Times -> Nat]]
    BY <1>1 DEF LoginInv, Login!TypeOK
  <2> QED BY <1>6, <2>1, <2>2 DEF Login!TypeOK, Login!Times
<1>9. Busy'
  <2>1. CASE Login!Done(h)
    BY <1>1, <2>1, Ended DEF LoginInv
  <2>2. CASE lpc' = [lpc EXCEPT ![h] = "check"] /\ UNCHANGED <<from, lat>>
    BY <1>1, <2>2 DEF LoginInv, Busy, Login!TypeOK
  <2> QED BY <1>7, <2>1, <2>2
<1>10. \A t \in Login!Times :
         /\ record[t] <= log[a][t]
         /\ t + LoginWindow > lnow => record[t] = log[a][t]
  <2> TAKE t \in Login!Times
  <2>1. record[t] = IF t + LoginWindow > lat[h] THEN Login!RecordOf(a)[t] ELSE 0
    BY <1>1, <1>3, <1>4, RecentAre
  <2>2. /\ Login!RecordOf(a)[t] <= log[a][t]
        /\ t + LoginWindow > lnow => Login!RecordOf(a)[t] = log[a][t]
    BY DEF LoginInv, RecordsAreTrue, TrueRecord
  <2>3. Login!RecordOf(a)[t] \in Nat /\ log[a][t] \in Nat /\ t \in Nat
    BY <1>3, TimesAre DEF Records
  <2> QED BY <1>1, <1>3, <2>1, <2>2, <2>3, TimesAre
<1>11. ASSUME NEW b \in Addresses PROVE TrueRecord(b)'
  <2>1. TrueRecord(b) /\ Login!Failures(log[b])' = Login!Failures(log[b])
    BY <1>1 DEF LoginInv, RecordsAreTrue, Login!Failures
  <2>2. CASE b = a
    BY <1>1, <1>6, <1>10, <2>1, <2>2 DEF TrueRecord
  <2>3. CASE b # a
    BY <1>1, <1>6, <2>1, <2>3 DEF TrueRecord
  <2> QED BY <2>2, <2>3
<1>12. ASSUME NEW b \in Addresses PROVE Bounded(b)'
  <2>1. InWindow(b)' = InWindow(b)
    BY <1>1 DEF InWindow, Login!Failures, Login!Recent
  <2>2. CASE b = a /\ Login!Total(record) < Limit
    <3>1. Cardinality(Login!Failures(record)) < Limit
      BY <2>2, SameCardinality DEF Login!Total
    <3>2. InWindow(a) \subseteq Login!Failures(record)
      BY <1>1, <1>4, WindowIsFound
    <3>3. IsFiniteSet(Login!Failures(record))
      <4>1. Login!Failures(record) \subseteq Login!Failures(log[a])
        BY <1>3, <1>10, Fewer
      <4> QED BY <4>1, FS_Subset DEF LoginInv, RecordsAreTrue, TrueRecord
    <3>4. Cardinality(InWindow(a)) <= Cardinality(Login!Failures(record))
          /\ Cardinality(Login!Failures(record)) \in Nat
      BY <3>2, <3>3, FS_Subset, FS_CardinalityType
    <3>5. Login!UnderWay(b)' \subseteq Handlers
      BY DEF Login!UnderWay
    <3>6. /\ Cardinality(Login!UnderWay(b)') <= Cardinality(Handlers)
          /\ Cardinality(Login!UnderWay(b)') \in Nat /\ Cardinality(Handlers) \in Nat
      BY <3>5, SomeHandlers
    <3>7. Cardinality(InWindow(a)) \in Nat
      BY WindowIsFinite
    <3> QED BY <2>1, <2>2, <3>1, <3>4, <3>6, <3>7, TimesAre DEF Bounded
  <2>3. CASE b # a \/ Login!Done(h)
    <3>1. Login!UnderWay(b)' \subseteq Login!UnderWay(b)
      <4>1. CASE Login!Done(h)
        BY <1>1, <4>1, Ended DEF LoginInv
      <4>2. CASE b # a /\ lpc' = [lpc EXCEPT ![h] = "check"] /\ UNCHANGED from
        BY <1>2, <4>2 DEF Login!UnderWay, LoginInv, Login!TypeOK
      <4> QED BY <1>7, <2>3, <4>1, <4>2
    <3> QED BY <2>1, <3>1, BoundKept
  <2> QED BY <1>7, <2>2, <2>3
<1> QED BY <1>8, <1>9, <1>11, <1>12 DEF LoginInv, RecordsAreTrue, AllBounded

\* failed: the attempt that ends is counted as a failure instead.
LEMMA FailKeepsLoginInv ==
  ASSUME LoginInv, NEW h \in Handlers, Login!Fail(h)
  PROVE  LoginInv'
<1>1. /\ from[h] \in Addresses /\ lat[h] \in Login!Times /\ lpc[h] = "failed"
      /\ lnow' = lnow /\ Login!Done(h)
  BY LoginTypes DEF LoginInv, Login!Fail, Busy
<1>2. PICK a \in Addresses : a = from[h]
  BY <1>1
<1>3. PICK t \in Login!Times : t = lat[h]
  BY <1>1
<1>4. Login!RecordOf(a) \in Records /\ log[a] \in Records /\ lnow \in Nat /\ TrueRecord(a)
  BY LoginTypes DEF LoginInv, RecordsAreTrue
<1>5. PICK record \in Records : record = [Login!RecordOf(a) EXCEPT ![t] = @ + 1]
  BY <1>4, OneMore
<1>6. PICK more \in Records : more = [log[a] EXCEPT ![t] = @ + 1]
  BY <1>4, OneMore
<1>7. records' = Login!Store(a, record)
  BY <1>2, <1>3, <1>5 DEF Login!Fail
<1>8. log'[a] = more /\ \A b \in Addresses \ {a} : log'[b] = log[b]
  BY <1>2, <1>3, <1>6 DEF Login!Fail, LoginInv, Login!TypeOK
<1>9. /\ DOMAIN records' \subseteq Addresses
      /\ \A b \in DOMAIN records' : records'[b] \in [Login!Times -> Nat]
      /\ Login!RecordOf(a)' = record
      /\ \A b \in Addresses \ {a} : Login!RecordOf(b)' = Login!RecordOf(b)
  BY <1>7, Stored DEF LoginInv
<1>10. /\ lnow' \in Login!Times
       /\ lpc' \in [Handlers -> {"idle", "allow", "check", "failed"}]
       /\ from' \in [Handlers -> Addresses \cup {None}]
       /\ lat' \in [Handlers -> Login!Times]
       /\ Busy'
       /\ \A b \in Addresses : Login!UnderWay(b)' = Login!UnderWay(b) \ {h}
  BY <1>1, Ended DEF LoginInv
<1>11. Login!TypeOK'
  <2>1. log' \in [Addresses -> [Login!Times -> Nat]]
    <3>1. log' = [log EXCEPT ![a] = more]
      BY <1>2, <1>3, <1>6 DEF Login!Fail
    <3> QED BY <3>1 DEF Records, LoginInv, Login!TypeOK
  <2> QED BY <1>9, <1>10, <2>1 DEF Login!TypeOK, Login!Times
<1>12. \A u \in Login!Times :
         /\ record[u] <= more[u]
         /\ u + LoginWindow > lnow => record[u] = more[u]
  <2> TAKE u \in Login!Times
  <2>1. Login!RecordOf(a)[u] \in Nat /\ log[a][u] \in Nat
    BY <1>4 DEF Records
  <2>2. /\ record[u] = IF u = t THEN Login!RecordOf(a)[u] + 1 ELSE Login!RecordOf(a)[u]
        /\ more[u] = IF u = t THEN log[a][u] + 1 ELSE log[a][u]
    BY <1>4, <1>5, <1>6 DEF Records
  <2> QED BY <1>4, <2>1, <2>2 DEF TrueRecord
<1>13. IsFiniteSet(Login!Failures(more))
  <2>1. Login!Failures(more) = Login!Failures(log[a]) \cup {<<t, log[a][t] + 1>>}
    BY <1>4, <1>6, OneMore
  <2> QED BY <1>4, <2>1, FS_AddElement DEF TrueRecord
<1>14. ASSUME NEW b \in Addresses PROVE TrueRecord(b)'
  <2>1. TrueRecord(b) /\ Login!Failures(log[b])' = Login!Failures(log'[b])
    BY DEF LoginInv, RecordsAreTrue, Login!Failures
  <2>2. CASE b = a
    BY <1>1, <1>8, <1>9, <1>12, <1>13, <2>1, <2>2 DEF TrueRecord
  <2>3. CASE b # a
    BY <1>1, <1>8, <1>9, <2>1, <2>3 DEF TrueRecord
  <2> QED BY <2>2, <2>3
<1>15. PICK recent \in Records : recent = Login!Recent(log[a], lnow)
  BY <1>4, RecentAre
<1>16. InWindow(a) = Login!Failures(recent)
  BY <1>15 DEF InWindow
<1>17. Login!Failures(Login!Recent(more, lnow)) \subseteq InWindow(a) \cup {<<t, recent[t] + 1>>}
  <2>1. PICK grown \in Records : grown = [recent EXCEPT ![t] = @ + 1]
    BY OneMore
  <2>2. Login!Failures(grown) = Login!Failures(recent) \cup {<<t, recent[t] + 1>>}
    BY <2>1, OneMore
  <2>3. ASSUME NEW u \in Login!Times PROVE Login!Recent(more, lnow)[u] <= grown[u]
    <3>1. log[a][u] \in Nat /\ recent[u] \in Nat
      BY <1>4 DEF Records
    <3>2. /\ more[u] = IF u = t THEN log[a][u] + 1 ELSE log[a][u]
          /\ grown[u] = IF u = t THEN recent[u] + 1 ELSE recent[u]
      BY <1>4, <1>6, <2>1 DEF Records
    <3>3. /\ recent[u] = IF u + LoginWindow > lnow THEN log[a][u] ELSE 0
          /\ Login!Recent(more, lnow)[u] = IF u + LoginWindow > lnow THEN more[u] ELSE 0
      BY <1>4, <1>15, RecentAre
    <3> QED BY <3>1, <3>2, <3>3
  <2>4. Login!Recent(more, lnow) \in Records
    BY <1>4, RecentAre
  <2>5. Login!Failures(Login!Recent(more, lnow)) \subseteq Login!Failures(grown)
    BY <2>3, <2>4, Fewer
  <2> QED BY <1>16, <2>2, <2>5
<1>18. ASSUME NEW b \in Addresses PROVE Bounded(b)'
  <2>1. CASE b = a
    <3>1. PICK x : x = <<t, recent[t] + 1>>
      OBVIOUS
    <3>2. InWindow(a)' = Login!Failures(Login!Recent(more, lnow))
      BY <1>1, <1>8 DEF InWindow, Login!Failures, Login!Recent
    <3>3. InWindow(a)' \subseteq InWindow(a) \cup {x}
      BY <1>17, <3>1, <3>2
    <3>4. IsFiniteSet(InWindow(a)) /\ Cardinality(InWindow(a)) \in Nat
      BY WindowIsFinite
    <3>5. /\ IsFiniteSet(InWindow(a) \cup {x})
          /\ Cardinality(InWindow(a) \cup {x}) <= Cardinality(InWindow(a)) + 1
      <4>1. Cardinality(InWindow(a) \cup {x}) =
              IF x \in InWindow(a) THEN Cardinality(InWindow(a)) ELSE Cardinality(InWindow(a)) + 1
        BY <3>4, FS_AddElement
      <4> QED BY <3>4, <4>1, FS_AddElement
    <3>6. /\ Cardinality(InWindow(a)') <= Cardinality(InWindow(a) \cup {x})
          /\ Cardinality(InWindow(a)') \in Nat /\ Cardinality(InWindow(a) \cup {x}) \in Nat
      BY <3>3, <3>5, FS_Subset, FS_CardinalityType
    <3>7. h \in Login!UnderWay(a) /\ Login!UnderWay(a) \subseteq Handlers
          /\ Login!UnderWay(a)' = Login!UnderWay(a) \ {h}
      BY <1>1, <1>2, <1>10 DEF Login!UnderWay
    <3>8. /\ IsFiniteSet(Login!UnderWay(a)) /\ Cardinality(Login!UnderWay(a)) \in Nat
          /\ Cardinality(Handlers) \in Nat
      BY <3>7, SomeHandlers
    <3>9. Cardinality(Login!UnderWay(a)') = Cardinality(Login!UnderWay(a)) - 1
      BY <3>7, <3>8, FS_RemoveElement
    <3>10. Cardinality(InWindow(a)) + Cardinality(Login!UnderWay(a)) < Limit + Cardinality(Handlers)
      BY DEF LoginInv, AllBounded, Bounded
    <3> QED BY <2>1, <3>4, <3>5, <3>6, <3>8, <3>9, <3>10, TimesAre DEF Bounded
  <2>2. CASE b # a
    <3>1. InWindow(b)' = InWindow(b)
      BY <1>1, <1>8, <2>2 DEF InWindow, Login!Failures, Login!Recent
    <3>2. Login!UnderWay(b)' \subseteq Login!UnderWay(b)
      BY <1>10
    <3> QED BY <3>1, <3>2, BoundKept
  <2> QED BY <2>1, <2>2
<1> QED BY <1>10, <1>11, <1>14, <1>18 DEF LoginInv, RecordsAreTrue, AllBounded

\* succeeded: nothing is left of the failures of the address.
LEMMA SucceedKeepsLoginInv ==
  ASSUME LoginInv, NEW h \in Handlers, Login!Succeed(h)
  PROVE  LoginInv'
<1>1. from[h] \in Addresses /\ lpc[h] = "check" /\ lnow' = lnow /\ Login!Done(h)
  BY DEF LoginInv, Login!Succeed, Busy
<1>2. PICK a \in Addresses : a = from[h]
  BY <1>1
<1>3. records' = [b \in DOMAIN records \ {a} |-> records[b]]
  BY <1>2 DEF Login!Succeed
<1>4. log' = [log EXCEPT ![a] = Login!NoFailures]
  BY <1>2 DEF Login!Succeed
<1>5. PICK none \in Records :
        /\ none = Login!NoFailures /\ Login!Failures(none) = {}
        /\ \A t \in Login!Times : none[t] = 0
  BY NoneAreNone DEF Login!NoFailures
<1>6. /\ Login!RecordOf(a)' = none
      /\ \A b \in Addresses \ {a} : Login!RecordOf(b)' = Login!RecordOf(b)
  BY <1>3, <1>5 DEF Login!RecordOf, Login!NoFailures, Login!Times
<1>7. log'[a] = none /\ \A b \in Addresses \ {a} : log'[b] = log[b]
  BY <1>4, <1>5 DEF LoginInv, Login!TypeOK
<1>8. /\ lnow' \in Login!Times
      /\ lpc' \in [Handlers -> {"idle", "allow", "check", "failed"}]
      /\ from' \in [Handlers -> Addresses \cup {None}]
      /\ lat' \in [Handlers -> Login!Times]
      /\ Busy'
      /\ \A b \in Addresses : Login!UnderWay(b)' = Login!UnderWay(b) \ {h}
  BY <1>1, Ended DEF LoginInv
<1>9. Login!TypeOK'
  <2>1. log' \in [Addresses -> [Login!Times -> Nat]]
    BY <1>4, <1>5 DEF Records, LoginInv, Login!TypeOK
  <2>2. DOMAIN records' \subseteq Addresses
        /\ \A b \in DOMAIN records' : records'[b] \in [Login!Times -> Nat]
    BY <1>3 DEF LoginInv, Login!TypeOK
  <2> QED BY <1>8, <2>1, <2>2 DEF Login!TypeOK, Login!Times
<1>10. ASSUME NEW b \in Addresses PROVE TrueRecord(b)'
  <2>1. TrueRecord(b) /\ Login!Failures(log[b])' = Login!Failures(log'[b])
    BY DEF LoginInv, RecordsAreTrue, Login!Failures
  <2>2. CASE b = a
    BY <1>1, <1>5, <1>6, <1>7, <2>1, <2>2, FS_EmptySet DEF TrueRecord
  <2>3. CASE b # a
    BY <1>1, <1>6, <1>7, <2>1, <2>3 DEF TrueRecord
  <2> QED BY <2>2, <2>3
<1>11. ASSUME NEW b \in Addresses PROVE InWindow(b)' \subseteq InWindow(b)
  <2>1. CASE b = a
    <3>1. lnow \in Nat
      BY LoginTypes DEF LoginInv
    <3>2. InWindow(a)' = Login!Failures(Login!Recent(none, lnow))
      BY <1>1, <1>7 DEF InWindow, Login!Failures, Login!Recent
    <3>3. Login!Failures(Login!Recent(none, lnow)) \subseteq Login!Failures(none)
      BY <3>1, RecentWere
    <3> QED BY <1>5, <2>1, <3>2, <3>3
  <2>2. CASE b # a
    BY <1>1, <1>7, <2>2 DEF InWindow, Login!Failures, Login!Recent
  <2> QED BY <2>1, <2>2
<1>12. \A b \in Addresses : Bounded(b)'
  BY <1>8, <1>11, BoundKept
<1> QED BY <1>8, <1>9, <1>10, <1>12 DEF LoginInv, RecordsAreTrue, AllBounded

\* Every step of the limiter keeps its invariant.
LEMMA StepKeepsLoginInv == LoginInv /\ [Login!Next]_(Login!vars) => LoginInv'
<1> SUFFICES ASSUME LoginInv, [Login!Next]_(Login!vars) PROVE LoginInv'
  OBVIOUS
<1>1. ASSUME NEW h \in Handlers, Login!Arrive(h) PROVE LoginInv'
  <2>1. UNCHANGED <<records, log, lnow>>
    BY <1>1 DEF Login!Arrive
  <2>2. Login!TypeOK'
    BY <1>1 DEF LoginInv, Login!TypeOK, Login!Arrive, Login!Times
  <2>3. Busy'
    <3>1. lat'[h] = lnow /\ from'[h] \in Addresses /\ lnow \in Nat
      BY <1>1, LoginTypes DEF LoginInv, Login!TypeOK, Login!Arrive
    <3>2. \A g \in Handlers \ {h} : lpc'[g] = lpc[g] /\ from'[g] = from[g] /\ lat'[g] = lat[g]
      BY <1>1 DEF LoginInv, Login!TypeOK, Login!Arrive
    <3> QED BY <2>1, <3>1, <3>2 DEF LoginInv, Busy
  <2>4. \A g \in Handlers : lpc'[g] \in {"check", "failed"} =>
          lpc[g] \in {"check", "failed"} /\ from'[g] = from[g]
    BY <1>1 DEF LoginInv, Login!TypeOK, Login!Arrive
  <2>5. lnow <= lnow'
    BY <2>1, LoginTypes DEF LoginInv
  <2> QED BY <2>1, <2>2, <2>3, <2>4, <2>5, OtherLoginSteps
<1>2. ASSUME NEW h \in Handlers, Login!Mismatch(h) PROVE LoginInv'
  <2>1. UNCHANGED <<records, log, lnow, from>>
    BY <1>2 DEF Login!Mismatch
  <2>2. Login!TypeOK'
    BY <1>2 DEF LoginInv, Login!TypeOK, Login!Mismatch, Login!Times
  <2>3. Busy'
    BY <1>2, LoginTypes DEF LoginInv, Login!TypeOK, Login!Mismatch, Busy
  <2>4. \A g \in Handlers : lpc'[g] \in {"check", "failed"} =>
          lpc[g] \in {"check", "failed"} /\ from'[g] = from[g]
    BY <1>2 DEF LoginInv, Login!TypeOK, Login!Mismatch
  <2>5. lnow <= lnow'
    BY <2>1, LoginTypes DEF LoginInv
  <2> QED BY <2>1, <2>2, <2>3, <2>4, <2>5, OtherLoginSteps
<1>3. ASSUME NEW h \in Handlers, Login!Leave(h) PROVE LoginInv'
  <2>1. UNCHANGED <<records, log, lnow>> /\ Login!Done(h)
    BY <1>3 DEF Login!Leave
  <2>2. Login!TypeOK' /\ Busy'
    BY <2>1, Ended DEF LoginInv, Login!TypeOK, Login!Times
  <2>3. \A g \in Handlers : lpc'[g] \in {"check", "failed"} =>
          lpc[g] \in {"check", "failed"} /\ from'[g] = from[g]
    BY <2>1 DEF LoginInv, Login!TypeOK, Login!Done
  <2>4. lnow <= lnow'
    BY <2>1, LoginTypes DEF LoginInv
  <2> QED BY <2>1, <2>2, <2>3, <2>4, OtherLoginSteps
<1>4. CASE Login!Tick
  <2>1. lnow' = lnow + 1 /\ lnow < LoginTime /\ UNCHANGED <<records, log, lpc, from, lat>>
    BY <1>4 DEF Login!Tick, Login!handlers
  <2>2. lnow \in Nat /\ lnow <= lnow' /\ lnow' \in Login!Times
    BY <2>1, LoginTypes, TimesAre DEF LoginInv, Login!Times
  <2>3. Login!TypeOK'
    BY <2>1, <2>2 DEF LoginInv, Login!TypeOK, Login!Times
  <2>4. Busy'
    BY <2>1, <2>2, LoginTypes DEF LoginInv, Busy
  <2> QED BY <2>1, <2>2, <2>3, <2>4, OtherLoginSteps
<1>5. CASE UNCHANGED Login!vars
  <2>1. UNCHANGED <<lnow, records, log, lpc, from, lat>>
    BY <1>5 DEF Login!vars, Login!handlers
  <2>2. lnow <= lnow'
    BY <2>1, LoginTypes DEF LoginInv
  <2>3. Login!TypeOK' /\ Busy'
    BY <2>1 DEF LoginInv, Login!TypeOK, Busy, Login!Times
  <2> QED BY <2>1, <2>2, <2>3, OtherLoginSteps
<1> QED
  BY <1>1, <1>2, <1>3, <1>4, <1>5, AllowKeepsLoginInv, FailKeepsLoginInv, SucceedKeepsLoginInv
  DEF Login!Next

\* It holds of a limiter that has no records.
LEMMA InitLoginInv == Login!Init => LoginInv
<1> SUFFICES ASSUME Login!Init PROVE LoginInv
  OBVIOUS
<1>1. Login!TypeOK /\ Busy
  BY TimesAre, NoneAreNone DEF Login!Init, Login!TypeOK, Busy, Records
<1>2. PICK none \in Records :
        /\ none = Login!NoFailures /\ Login!Failures(none) = {}
        /\ \A t \in Login!Times : none[t] = 0
  BY NoneAreNone DEF Login!NoFailures
<1>3. \A a \in Addresses : log[a] = none /\ Login!RecordOf(a) = none
  BY <1>2 DEF Login!Init, Login!RecordOf
<1>4. \A a \in Addresses : TrueRecord(a)
  BY <1>2, <1>3, FS_EmptySet DEF TrueRecord
<1>5. ASSUME NEW a \in Addresses PROVE Bounded(a)
  <2>1. Login!Failures(Login!Recent(none, lnow)) \subseteq Login!Failures(none)
    BY <1>1, LoginTypes, RecentWere
  <2>2. InWindow(a) = {}
    BY <1>2, <1>3, <2>1 DEF InWindow
  <2>3. Login!UnderWay(a) = {}
    BY DEF Login!UnderWay, Login!Init
  <2>4. Cardinality(Handlers) \in Nat
    BY SomeHandlers
  <2> QED BY <2>2, <2>3, <2>4, FS_EmptySet, TimesAre DEF Bounded
<1> QED BY <1>1, <1>4, <1>5 DEF LoginInv, RecordsAreTrue, AllBounded

\* The invariant of the limiter holds throughout.
LEMMA LoginInvariance == Login!Spec => []LoginInv
BY InitLoginInv, StepKeepsLoginInv, PTL DEF Login!Spec

-----------------------------------------------------------------------------
(* The limiter against the counter on which Setup is built, and why it     *)
(* refuses.                                                                *)

Count == [a \in Addresses |-> Cardinality(Login!Failures(Login!RecordOf(a)))]
Trying == [h \in Handlers |-> IF lpc[h] \in {"check", "failed"} THEN from[h] ELSE None]

\* The steps of the counter, in terms of the limiter.
LEMMA CounterSteps ==
  /\ Login!Counter!vars = <<Count, Trying>>
  /\ Login!Counter!vars' = <<Count', Trying'>>
  /\ \A h, a :
       /\ Trying[h] = None
       /\ \E n \in 0..Count[a] :
            /\ Count' = [Count EXCEPT ![a] = n]
            /\ Trying' = IF n < Limit THEN [Trying EXCEPT ![h] = a] ELSE Trying
       => Login!Counter!Allow(h, a)
  /\ \A h :
       /\ Trying[h] # None
       /\ Count' = [Count EXCEPT ![Trying[h]] = @ + 1]
       /\ Trying' = [Trying EXCEPT ![h] = None]
       => Login!Counter!Fail(h)
  /\ \A h :
       /\ Trying[h] # None
       /\ Count' = [Count EXCEPT ![Trying[h]] = 0]
       /\ Trying' = [Trying EXCEPT ![h] = None]
       => Login!Counter!Succeed(h)
  /\ \A h :
       /\ Count' = Count
       /\ Trying' = [Trying EXCEPT ![h] = None]
       => Login!Counter!GiveUp(h)
BY SameCardinality
   DEF Login!Counter!vars, Login!Counter!Allow, Login!Counter!Fail, Login!Counter!Succeed,
       Login!Counter!GiveUp, Login!Total, Count, Trying

\* The counts of two states that differ in the record of one address.
LEMMA CountChanges ==
  ASSUME NEW a \in Addresses, \A b \in Addresses \ {a} : Login!RecordOf(b)' = Login!RecordOf(b)
  PROVE  Count' = [Count EXCEPT ![a] = Cardinality(Login!Failures(Login!RecordOf(a)'))]
<1>1. Count' = [b \in Addresses |-> Cardinality(Login!Failures(Login!RecordOf(b)'))]
  BY DEF Count, Login!Failures
<1> QED BY <1>1 DEF Count

\* A handler that is done has no attempt under way.
LEMMA DoneTries ==
  ASSUME Login!TypeOK, NEW h \in Handlers, Login!Done(h)
  PROVE  Trying' = [Trying EXCEPT ![h] = None]
BY DEF Login!Done, Login!TypeOK, Trying

\* Of every address the stored failures are finite, and so are the recent ones.
LEMMA StoredIsFinite ==
  ASSUME LoginInv, NEW a \in Addresses
  PROVE  /\ IsFiniteSet(Login!Failures(Login!RecordOf(a)))
         /\ Cardinality(Login!Failures(Login!RecordOf(a))) \in Nat
         /\ Login!Failures(Login!RecordOf(a)) \subseteq Login!Failures(log[a])
<1>1. Login!RecordOf(a) \in Records /\ log[a] \in Records /\ TrueRecord(a)
  BY LoginTypes DEF LoginInv, RecordsAreTrue
<1>2. Login!Failures(Login!RecordOf(a)) \subseteq Login!Failures(log[a])
  BY <1>1, Fewer DEF TrueRecord
<1> QED BY <1>1, <1>2, FS_Subset, FS_CardinalityType DEF TrueRecord

\* What allow finds of an address.
LEMMA AllowFinds ==
  ASSUME LoginInv, NEW h \in Handlers, Login!Allow(h)
  PROVE  \E a \in Addresses : a = from[h] /\ \E record \in Records :
           /\ record = Login!Recent(Login!RecordOf(a), lat[h])
           /\ Login!RecordOf(a)' = record
           /\ \A b \in Addresses \ {a} : Login!RecordOf(b)' = Login!RecordOf(b)
           /\ Login!Decide(h, record)
           /\ Cardinality(Login!Failures(record)) \in 0..Count[a]
<1>1. from[h] \in Addresses /\ lat[h] \in Nat
  BY LoginTypes DEF LoginInv, Login!Allow, Busy
<1>2. PICK a \in Addresses : a = from[h]
  BY <1>1
<1>3. Login!RecordOf(a) \in Records
  BY LoginTypes DEF LoginInv
<1>4. PICK record \in Records : record = Login!Recent(Login!RecordOf(a), lat[h])
  BY <1>1, <1>3, RecentAre
<1>5. records' = Login!Store(a, record) /\ Login!Decide(h, record)
  BY <1>2, <1>4 DEF Login!Allow
<1>6. /\ Login!RecordOf(a)' = record
      /\ \A b \in Addresses \ {a} : Login!RecordOf(b)' = Login!RecordOf(b)
  BY <1>5, Stored DEF LoginInv
<1>7. Login!Failures(record) \subseteq Login!Failures(Login!RecordOf(a))
  BY <1>1, <1>3, <1>4, RecentWere
<1>8. /\ IsFiniteSet(Login!Failures(Login!RecordOf(a)))
      /\ Count[a] \in Nat /\ Count[a] = Cardinality(Login!Failures(Login!RecordOf(a)))
  BY StoredIsFinite DEF Count
<1>9. /\ Cardinality(Login!Failures(record)) \in Nat
      /\ Cardinality(Login!Failures(record)) <= Count[a]
  BY <1>7, <1>8, FS_Subset, FS_CardinalityType
<1>10. Cardinality(Login!Failures(record)) \in 0..Count[a]
  BY <1>8, <1>9
<1> QED BY <1>2, <1>4, <1>5, <1>6, <1>10

\* Every step of the limiter is a step of the counter, or none.
LEMMA LimiterCounts ==
  LoginInv /\ [Login!Next]_(Login!vars) => [Login!Counter!Next]_(Login!Counter!vars)
<1> SUFFICES ASSUME LoginInv, [Login!Next]_(Login!vars)
             PROVE  Login!Counter!Next \/ Login!Counter!vars' = Login!Counter!vars
  OBVIOUS
<1>0. None \notin Addresses /\ Login!TypeOK
  BY TimesAre DEF LoginInv
<1>1. ASSUME Count' = Count, Trying' = Trying PROVE Login!Counter!vars' = Login!Counter!vars
  BY <1>1, CounterSteps
<1>2. ASSUME records' = records PROVE Count' = Count
  BY <1>2 DEF Count, Login!RecordOf, Login!Failures
<1>3. ASSUME NEW h \in Handlers, Login!Arrive(h) PROVE Count' = Count /\ Trying' = Trying
  BY <1>0, <1>2, <1>3 DEF Login!Arrive, Login!TypeOK, Trying
<1>4. ASSUME NEW h \in Handlers, Login!Mismatch(h) PROVE Count' = Count /\ Trying' = Trying
  BY <1>0, <1>2, <1>4 DEF Login!Mismatch, Login!TypeOK, Trying
<1>5. ASSUME NEW h \in Handlers, Login!Leave(h) PROVE Login!Counter!GiveUp(h)
  <2>1. Count' = Count /\ Login!Done(h)
    BY <1>2, <1>5 DEF Login!Leave
  <2> QED BY <1>0, <2>1, DoneTries, CounterSteps
<1>6. ASSUME NEW h \in Handlers, Login!Allow(h)
      PROVE  \E a \in Addresses : Login!Counter!Allow(h, a)
  <2>1. PICK a \in Addresses : a = from[h] /\ \E record \in Records :
          /\ record = Login!Recent(Login!RecordOf(a), lat[h])
          /\ Login!RecordOf(a)' = record
          /\ \A b \in Addresses \ {a} : Login!RecordOf(b)' = Login!RecordOf(b)
          /\ Login!Decide(h, record)
          /\ Cardinality(Login!Failures(record)) \in 0..Count[a]
    BY <1>6, AllowFinds
  <2>2. PICK record \in Records :
          /\ Login!RecordOf(a)' = record
          /\ \A b \in Addresses \ {a} : Login!RecordOf(b)' = Login!RecordOf(b)
          /\ Login!Decide(h, record)
          /\ Cardinality(Login!Failures(record)) \in 0..Count[a]
    BY <2>1
  <2>3. Count' = [Count EXCEPT ![a] = Cardinality(Login!Failures(record))]
    BY <2>2, CountChanges
  <2>4. lpc[h] = "allow" /\ Trying[h] = None
    BY <1>6 DEF Login!Allow, Trying
  <2>5. Trying' = IF Cardinality(Login!Failures(record)) < Limit
                    THEN [Trying EXCEPT ![h] = a] ELSE Trying
    <3>1. CASE Cardinality(Login!Failures(record)) < Limit
      <4>1. lpc' = [lpc EXCEPT ![h] = "check"] /\ UNCHANGED from
        BY <2>2, <3>1, SameCardinality DEF Login!Decide, Login!Total
      <4> QED BY <1>0, <2>1, <3>1, <4>1 DEF Login!TypeOK, Trying
    <3>2. CASE ~(Cardinality(Login!Failures(record)) < Limit)
      <4>1. Login!Done(h)
        BY <2>2, <3>2, SameCardinality DEF Login!Decide, Login!Total
      <4>2. Trying' = [Trying EXCEPT ![h] = None]
        BY <1>0, <4>1, DoneTries
      <4> QED BY <2>4, <3>2, <4>2 DEF Trying
    <3> QED BY <3>1, <3>2
  <2>6. PICK n \in 0..Count[a] : n = Cardinality(Login!Failures(record))
    BY <2>2
  <2>7. Login!Counter!Allow(h, a)
    BY <2>3, <2>4, <2>5, <2>6, CounterSteps
  <2> QED BY <2>7
<1>7. ASSUME NEW h \in Handlers, Login!Fail(h) PROVE Login!Counter!Fail(h)
  <2>1. /\ from[h] \in Addresses /\ lat[h] \in Login!Times /\ Login!Done(h)
        /\ Trying[h] = from[h]
    BY <1>7, LoginTypes DEF LoginInv, Login!Fail, Busy, Trying
  <2>2. PICK a \in Addresses : a = from[h]
    BY <2>1
  <2>3. PICK t \in Login!Times : t = lat[h]
    BY <2>1
  <2>4. Login!RecordOf(a) \in Records
    BY <1>0, LoginTypes
  <2>5. PICK record \in Records : record = [Login!RecordOf(a) EXCEPT ![t] = @ + 1]
    BY <2>4, OneMore
  <2>6. records' = Login!Store(a, record)
    BY <1>7, <2>2, <2>3, <2>5 DEF Login!Fail
  <2>7. /\ Login!RecordOf(a)' = record
        /\ \A b \in Addresses \ {a} : Login!RecordOf(b)' = Login!RecordOf(b)
    BY <1>0, <2>6, Stored
  <2>8. PICK x : x = <<t, Login!RecordOf(a)[t] + 1>>
    OBVIOUS
  <2>9. /\ Login!Failures(record) = Login!Failures(Login!RecordOf(a)) \cup {x}
        /\ x \notin Login!Failures(Login!RecordOf(a))
    BY <2>4, <2>5, <2>8, OneMore
  <2>10. Cardinality(Login!Failures(record)) = Cardinality(Login!Failures(Login!RecordOf(a))) + 1
    BY <2>9, StoredIsFinite, FS_AddElement
  <2>11. Count' = [Count EXCEPT ![a] = @ + 1]
    BY <2>7, <2>10, CountChanges DEF Count
  <2>12. Trying' = [Trying EXCEPT ![h] = None]
    BY <1>0, <2>1, DoneTries
  <2> QED BY <1>0, <2>1, <2>2, <2>11, <2>12, CounterSteps
<1>8. ASSUME NEW h \in Handlers, Login!Succeed(h) PROVE Login!Counter!Succeed(h)
  <2>1. from[h] \in Addresses /\ Login!Done(h) /\ Trying[h] = from[h]
    BY <1>8 DEF LoginInv, Login!Succeed, Busy, Trying
  <2>2. PICK a \in Addresses : a = from[h]
    BY <2>1
  <2>3. /\ Login!RecordOf(a)' = Login!NoFailures
        /\ \A b \in Addresses \ {a} : Login!RecordOf(b)' = Login!RecordOf(b)
    BY <1>8, <2>2 DEF Login!Succeed, Login!RecordOf, Login!NoFailures, Login!Times
  <2>4. Cardinality(Login!Failures(Login!NoFailures)) = 0
    BY NoneAreNone, FS_EmptySet
  <2>5. Count' = [Count EXCEPT ![a] = 0]
    BY <2>3, <2>4, CountChanges
  <2>6. Trying' = [Trying EXCEPT ![h] = None]
    BY <1>0, <2>1, DoneTries
  <2> QED BY <1>0, <2>1, <2>2, <2>5, <2>6, CounterSteps
<1>9. ASSUME Login!Tick \/ UNCHANGED Login!vars PROVE Count' = Count /\ Trying' = Trying
  <2>1. UNCHANGED <<records, lpc, from>>
    BY <1>9 DEF Login!Tick, Login!vars, Login!handlers
  <2> QED BY <1>2, <2>1 DEF Trying
<1>10. ASSUME NEW h \in Handlers,
              Login!Counter!Fail(h) \/ Login!Counter!Succeed(h) \/ Login!Counter!GiveUp(h)
                \/ \E a \in Addresses : Login!Counter!Allow(h, a)
       PROVE  Login!Counter!Next
  BY <1>10 DEF Login!Counter!Next
<1>11. ASSUME NEW h \in Handlers,
              Login!Arrive(h) \/ Login!Allow(h) \/ Login!Mismatch(h) \/ Login!Fail(h)
                \/ Login!Succeed(h) \/ Login!Leave(h)
       PROVE  Login!Counter!Next \/ Login!Counter!vars' = Login!Counter!vars
  <2>1. CASE Login!Arrive(h) \/ Login!Mismatch(h)
    BY <1>1, <1>3, <1>4, <2>1
  <2>2. CASE Login!Allow(h)
    BY <1>6, <1>10, <2>2
  <2>3. CASE Login!Fail(h)
    BY <1>7, <1>10, <2>3
  <2>4. CASE Login!Succeed(h)
    BY <1>8, <1>10, <2>4
  <2>5. CASE Login!Leave(h)
    BY <1>5, <1>10, <2>5
  <2> QED BY <1>11, <2>1, <2>2, <2>3, <2>4, <2>5
<1> QED BY <1>1, <1>9, <1>11 DEF Login!Next

\* The limiter that has no records is a counter at nought.
LEMMA LimiterBegins == Login!Init => Login!Counter!Init
BY SameCardinality, NoneAreNone, FS_EmptySet
   DEF Login!Init, Login!Counter!Init, Login!RecordOf, Login!Total

\* Whoever is refused has failed as often as the limit in the window that
\* ends with the clock of the request.
LEMMA RefusalHasCause ==
  ASSUME LoginInv, [Login!Next]_(Login!vars), NEW h \in Handlers, lpc[h] = "allow", lpc'[h] = "idle"
  PROVE  Login!Total(Login!Recent(log[from[h]], lat[h])) >= Limit
<1>1. Login!Allow(h)
  <2>1. ASSUME NEW g \in Handlers, g # h,
               Login!Arrive(g) \/ Login!Allow(g) \/ Login!Mismatch(g) \/ Login!Fail(g)
                 \/ Login!Succeed(g) \/ Login!Leave(g)
        PROVE  lpc'[h] = lpc[h]
    BY <2>1 DEF LoginInv, Login!TypeOK, Login!Arrive, Login!Allow, Login!Mismatch, Login!Fail,
                Login!Succeed, Login!Leave, Login!Done, Login!Decide
  <2>2. ~Login!Arrive(h) /\ ~Login!Mismatch(h) /\ ~Login!Fail(h) /\ ~Login!Succeed(h) /\ ~Login!Leave(h)
    BY DEF Login!Arrive, Login!Mismatch, Login!Fail, Login!Succeed, Login!Leave
  <2>3. ~Login!Tick /\ ~UNCHANGED Login!vars
    BY DEF Login!Tick, Login!vars, Login!handlers
  <2> QED BY <2>1, <2>2, <2>3 DEF Login!Next
<1>2. PICK a \in Addresses : a = from[h] /\ \E record \in Records :
        /\ record = Login!Recent(Login!RecordOf(a), lat[h])
        /\ Login!Decide(h, record)
  BY <1>1, AllowFinds
<1>3. PICK record \in Records :
        /\ record = Login!Recent(Login!RecordOf(a), lat[h])
        /\ Login!Decide(h, record)
  BY <1>2
<1>4. ~(Login!Total(record) < Limit)
  BY <1>3 DEF Login!Decide, LoginInv, Login!TypeOK
<1>5. /\ lat[h] \in Nat /\ Login!RecordOf(a) \in Records /\ log[a] \in Records /\ TrueRecord(a)
      /\ \A v \in Login!Times : Login!RecordOf(a)[v] <= log[a][v]
  BY LoginTypes DEF LoginInv, RecordsAreTrue, TrueRecord
<1>6. Login!Failures(record) \subseteq Login!Failures(Login!Recent(log[a], lat[h]))
  BY <1>3, <1>5, RecentFewer
<1>7. IsFiniteSet(Login!Failures(Login!Recent(log[a], lat[h])))
  BY <1>5, RecentWere, FS_Subset DEF TrueRecord
<1>8. /\ Cardinality(Login!Failures(record)) <= Cardinality(Login!Failures(Login!Recent(log[a], lat[h])))
      /\ Cardinality(Login!Failures(record)) \in Nat
      /\ Cardinality(Login!Failures(Login!Recent(log[a], lat[h]))) \in Nat
  BY <1>6, <1>7, FS_Subset, FS_CardinalityType
<1>9. /\ Login!Total(record) = Cardinality(Login!Failures(record))
      /\ Login!Total(Login!Recent(log[from[h]], lat[h]))
           = Cardinality(Login!Failures(Login!Recent(log[a], lat[h])))
  BY <1>2, SameCardinality DEF Login!Total
<1> QED BY <1>4, <1>8, <1>9, TimesAre

\* For any number of requests and addresses, whatever the order in which the
\* clocks they read come to the lock: in no window an address has more
\* failures than the limit, but for the requests that allow let through
\* together (loginLimiter).
THEOREM FailuresAreBounded == Login!Spec => []WindowBound
<1>1. LoginInv => WindowBound
  BY Bounds DEF LoginInv, WindowBound
<1> QED BY <1>1, LoginInvariance, PTL

\* An address is refused only for as many failures of its own as the limit,
\* since its last success and younger than the window (loginLimiter.allow).
THEOREM RefusalsHaveCause == Login!Spec => RefusedForCause
<1> DEFINE Caused == \A h \in Handlers :
        lpc[h] = "allow" /\ lpc'[h] = "idle"
          => Login!Total(Login!Recent(log[from[h]], lat[h])) >= Limit
<1>1. LoginInv /\ [Login!Next]_(Login!vars) => [Caused]_(Login!vars)
  BY RefusalHasCause
<1> HIDE DEF Caused
<1>2. Login!Spec => [][Caused]_(Login!vars)
  BY <1>1, LoginInvariance, PTL DEF Login!Spec
<1> QED BY <1>2 DEF RefusedForCause, Login!RefusedForCause, Caused

\* With its clocks and the time between a lock and the next, the limiter does
\* what the counter of Attempts may do (allow, failed, succeeded).
THEOREM LimiterIsACounter == Login!Spec => ImplementsAttempts
<1>1. Login!Spec => Login!Counter!Spec
  BY LimiterBegins, LimiterCounts, LoginInvariance, PTL DEF Login!Spec, Login!Counter!Spec
<1> QED BY <1>1 DEF ImplementsAttempts, Login!ImplementsAttempts

-----------------------------------------------------------------------------
(* writeLimiter: any number of requests.                                   *)

\* Nobody has a time from the future, and there is a last write once there was
\* a first one.
TimesArePast ==
    /\ \A h \in Handlers : at[h] <= now
    /\ last # None => first <= last /\ last <= now
    /\ (last = None) <=> (writes = 0)

\* The writes so far took an interval each, up to the last one.
SpreadToLast == writes > 0 => (writes - 1) * Interval <= last - first

\* The hint a handler got reaches past the interval it has to wait for.
HintReaches == \A h \in Handlers : alone[h] => last # None /\ last + Interval <= ready[h]

WriteInv == TypeOK /\ TimesArePast /\ SpreadToLast /\ HintReaches

\* Retry-After is at least a second.
LEMMA HintIsPositive ==
  ASSUME NEW n \in Int
  PROVE  Hint(n) \in Nat /\ Hint(n) >= 1
<1> DEFINE rounded == (2 * n + Second) \div (2 * Second)
<1>1. rounded \in Int
  BY WriteLimiterAssumption
<1> HIDE DEF rounded
<1>2. (IF rounded < 1 THEN 1 ELSE rounded) \in Nat /\ (IF rounded < 1 THEN 1 ELSE rounded) >= 1
  BY <1>1
<1> QED BY <1>2 DEF Hint, rounded

\* A product with one factor more is larger by the other one.
LEMMA TimesGrow ==
  ASSUME NEW n \in Nat, NEW m \in Nat \ {0}
  PROVE  n * m \in Nat /\ n <= n * m /\ (m - 1) * n + n = m * n
  OBVIOUS

\* The invariant holds before the first request.
LEMMA InitWriteInv == Init => WriteInv
  BY WriteLimiterAssumption DEF Init, WriteInv, TypeOK, Times, TimesArePast, SpreadToLast, HintReaches

\* A write that is let through is an interval after the last one, and takes
\* their hints from the others.
LEMMA PassKeepsWriteInv ==
  ASSUME WriteInv, NEW h \in Handlers, Pass(h)
  PROVE  WriteInv'
<1> USE WriteLimiterAssumption DEF WriteInv, TypeOK, Times, TimesArePast
<1>1. TypeOK' /\ TimesArePast'
  BY DEF Pass, Early, Elapsed
<1>2. SpreadToLast'
  <2>1. CASE writes = 0
    BY <2>1 DEF Pass, SpreadToLast
  <2>2. CASE writes # 0
    <3>1. last + Interval <= at[h] /\ (writes - 1) * Interval <= last - first
      BY <2>2 DEF Pass, Early, Elapsed, SpreadToLast
    <3>2. (writes - 1) * Interval + Interval = writes * Interval
      BY <2>2, TimesGrow
    <3>3. (writes - 1) * Interval \in Nat
      BY <2>2, TimesGrow
    <3>4. writes * Interval <= at[h] - first
      BY <3>1, <3>2, <3>3, <2>2
    <3> QED BY <3>4, <2>2 DEF Pass, SpreadToLast
  <2> QED BY <2>1, <2>2
<1>3. HintReaches'
  BY DEF Pass, HintReaches
<1> QED BY <1>1, <1>2, <1>3

\* The hint of a refused request reaches past the interval.
LEMMA RefuseKeepsWriteInv ==
  ASSUME WriteInv, NEW h \in Handlers, Refuse(h)
  PROVE  WriteInv'
<1> USE WriteLimiterAssumption DEF WriteInv, TypeOK, Times
<1> DEFINE wait == Second * Hint(Interval - Elapsed(h))
<1>1. last # None /\ last \in Int /\ at[h] \in Int
  BY DEF Refuse, Early
<1>2. Interval - Elapsed(h) \in Int
  BY <1>1 DEF Elapsed
<1>3. wait \in Nat /\ Second <= wait
  BY <1>2, HintIsPositive, TimesGrow
<1> HIDE DEF wait
<1>4. ready' = [ready EXCEPT ![h] = now + wait]
  BY DEF Refuse, wait
<1>5. TypeOK'
  BY <1>3, <1>4 DEF Refuse
<1>6. TimesArePast' /\ SpreadToLast'
  BY DEF Refuse, TimesArePast, SpreadToLast
<1>7. HintReaches'
  BY <1>1, <1>3, <1>4 DEF Refuse, HintReaches, TimesArePast
<1> QED BY <1>5, <1>6, <1>7

\* Every step keeps the invariant.
LEMMA StepKeepsWriteInv == WriteInv /\ [Next]_vars => WriteInv'
<1> SUFFICES ASSUME WriteInv, [Next]_vars PROVE WriteInv'
  OBVIOUS
<1>1. ASSUME NEW h \in Handlers, Arrive(h) PROVE WriteInv'
  BY <1>1, WriteLimiterAssumption DEF WriteInv, TypeOK, Times, TimesArePast, SpreadToLast, HintReaches,
     Arrive, history
<1>2. ASSUME NEW h \in Handlers, Finish(h) PROVE WriteInv'
  BY <1>2, WriteLimiterAssumption DEF WriteInv, TypeOK, Times, TimesArePast, SpreadToLast, HintReaches,
     Finish, history
<1>3. CASE Tick
  BY <1>3, WriteLimiterAssumption DEF WriteInv, TypeOK, Times, TimesArePast, SpreadToLast, HintReaches,
     Tick, history
<1>4. CASE UNCHANGED vars
  BY <1>4 DEF WriteInv, TypeOK, Times, TimesArePast, SpreadToLast, HintReaches, vars, history
<1> QED BY <1>1, <1>2, <1>3, <1>4, PassKeepsWriteInv, RefuseKeepsWriteInv DEF Next

\* The invariant holds throughout, whatever the order in which the handlers'
\* times come to the lock of writeLimiter.
LEMMA WriteInvariance == Spec => []WriteInv
<1>1. Init => WriteInv
  BY InitWriteInv
<1>2. WriteInv /\ [Next]_vars => WriteInv'
  BY StepKeepsWriteInv
<1> QED BY <1>1, <1>2, PTL DEF Spec

\* However the clocks of concurrent handlers are read, writes are let through
\* at most once per interval (writeLimiter.allow).
THEOREM RateIsBounded == Spec => []RateBound
<1>1. WriteInv => RateBound
  <2> SUFFICES ASSUME WriteInv, writes > 0 PROVE (writes - 1) * Interval <= now - first
    BY DEF RateBound
  <2>1. (writes - 1) * Interval <= last - first /\ last # None /\ last <= now
    BY DEF WriteInv, TypeOK, SpreadToLast, TimesArePast
  <2>2. (writes - 1) * Interval \in Nat
    BY TimesGrow, WriteLimiterAssumption DEF WriteInv, TypeOK
  <2> QED BY <2>1, <2>2, WriteLimiterAssumption DEF WriteInv, TypeOK, Times
<1> QED BY <1>1, WriteInvariance, PTL

\* Waiting as long as Retry-After says is enough (prepareMutation).
THEOREM HintIsEnough == Spec => HintSuffices
<1> DEFINE Enough == \A h \in Handlers :
        pc[h] = "allow" /\ alone[h] /\ at[h] >= ready[h] => pc'[h] # "refused"
<1>1. ASSUME WriteInv, Next PROVE Enough
  <2> SUFFICES ASSUME NEW h \in Handlers, pc[h] = "allow", alone[h], at[h] >= ready[h]
                PROVE pc'[h] # "refused"
    OBVIOUS
  <2>1. ~Early(h)
    BY <1>1, WriteLimiterAssumption DEF WriteInv, TypeOK, Times, HintReaches, Early, Elapsed
  <2>2. ~Refuse(h)
    BY <2>1 DEF Refuse
  <2>3. PICK g \in Handlers : Arrive(g) \/ Pass(g) \/ Refuse(g) \/ Finish(g) \/ Tick
    BY <1>1 DEF Next
  <2>4. pc \in [Handlers -> {"idle", "allow", "write", "refused"}]
    BY <1>1 DEF WriteInv, TypeOK
  <2>5. CASE Refuse(g)
    BY <2>2, <2>4, <2>5 DEF Refuse
  <2>6. CASE Arrive(g) \/ Pass(g) \/ Finish(g) \/ Tick
    BY <2>4, <2>6 DEF Arrive, Pass, Finish, Tick
  <2> QED BY <2>3, <2>5, <2>6
<1>2. WriteInv /\ [Next]_vars => [Enough]_vars
  BY <1>1
<1> HIDE DEF Enough
<1>3. Spec => [][Enough]_vars
  BY <1>2, WriteInvariance, PTL DEF Spec
<1> QED BY <1>3 DEF HintSuffices, Enough

-----------------------------------------------------------------------------
(* tlsNoiseFilter: any window and any run of errors.                       *)

\* The zero time is not a time.
LEMMA NoiseAre ==
  /\ NoiseWindow \in Nat /\ MaxTime \in Nat /\ MaxErrors \in Nat
  /\ None \notin Int
BY ThrottlesAssumption, WriteLimiterAssumption DEF ThrottlesAssumption, WriteLimiterAssumption

\* While a line is being reported, its error is the one not yet counted; and
\* the stamp is the time of the last attempt to write a line.
NoiseInv ==
    /\ Noise!TypeOK
    /\ errors = told + lost + dropped + (IF tpc = "report" THEN 1 ELSE 0)
    /\ lastSeen = tried

\* Every step keeps the invariant.
LEMMA StepKeepsNoiseInv == NoiseInv /\ [Noise!Next]_(Noise!vars) => NoiseInv'
<1> SUFFICES ASSUME NoiseInv, [Noise!Next]_(Noise!vars) PROVE NoiseInv'
  OBVIOUS
<1> USE NoiseAre DEF NoiseInv, Noise!TypeOK
<1>1. CASE Noise!Drop
  BY <1>1 DEF Noise!Drop, Noise!Error
<1>2. CASE Noise!Decide
  BY <1>2 DEF Noise!Decide, Noise!Error
<1>3. CASE Noise!Report
  <2>1. lastSeen' = tnow /\ tried' = tnow /\ dropped' = 0 /\ tpc' = "idle" /\ errors' = errors
    BY <1>3 DEF Noise!Report
  <2>2. CASE told' = told + 1 + dropped /\ lost' = lost
    BY <1>3, <2>1, <2>2 DEF Noise!Report
  <2>3. CASE lost' = lost + 1 + dropped /\ told' = told
    BY <1>3, <2>1, <2>3 DEF Noise!Report
  <2> QED BY <1>3, <2>2, <2>3 DEF Noise!Report
<1>4. CASE Noise!Tick
  BY <1>4 DEF Noise!Tick, Noise!history
<1>5. CASE UNCHANGED Noise!vars
  BY <1>5 DEF Noise!vars, Noise!history
<1> QED BY <1>1, <1>2, <1>3, <1>4, <1>5 DEF Noise!Next

\* The invariant holds throughout, also between the two readings of the clock
\* in tlsNoiseFilter.Write.
LEMMA NoiseInvariance == Noise!Spec => []NoiseInv
<1>1. Noise!Init => NoiseInv
  BY NoiseAre DEF Noise!Init, NoiseInv, Noise!TypeOK
<1>2. NoiseInv /\ [Noise!Next]_(Noise!vars) => NoiseInv'
  BY StepKeepsNoiseInv
<1> QED BY <1>1, <1>2, PTL DEF Noise!Spec

\* Every handshake error is in the count of some line, or will be in that of
\* the next (tlsNoiseFilter.Write).
THEOREM ErrorsAreAccountedFor == Noise!Spec => []Accounted
<1>1. NoiseInv => Accounted
  BY DEF NoiseInv, Noise!TypeOK, Accounted, Noise!Accounted
<1> QED BY <1>1, NoiseInvariance, PTL

\* An error goes unwritten only within a window of a line (tlsNoiseFilter.Write).
THEOREM FaultsStayVisible == Noise!Spec => StaysVisible
<1> DEFINE Visible == dropped' > dropped => tried # None /\ tnow - tried < NoiseWindow
<1>1. ASSUME NoiseInv, Noise!Next PROVE Visible
  <2>1. CASE Noise!Drop
    BY <1>1, <2>1 DEF Noise!Drop, Noise!Noisy, NoiseInv
  <2>2. CASE Noise!Decide \/ Noise!Report \/ Noise!Tick
    BY <1>1, <2>2 DEF Noise!Decide, Noise!Report, Noise!Tick, NoiseInv, Noise!TypeOK
  <2> QED BY <1>1, <2>1, <2>2 DEF Noise!Next
<1>2. NoiseInv /\ [Noise!Next]_(Noise!vars) => [Visible]_(Noise!vars)
  BY <1>1
<1> HIDE DEF Visible
<1>3. Noise!Spec => [][Visible]_(Noise!vars)
  BY <1>2, NoiseInvariance, PTL DEF Noise!Spec
<1> QED BY <1>3 DEF StaysVisible, Noise!StaysVisible, Visible

-----------------------------------------------------------------------------
(* The three beside one another.                                           *)

\* A behaviour of one of them is one of each, the others at rest.
LEMMA EachByItself == AnySpec => Login!Spec /\ Spec /\ Noise!Spec
<1>1. AnyInit => Login!Init /\ Init /\ Noise!Init
  BY DEF AnyInit
<1>2. [AnyNext]_<<which, vars, login, noise>> => [Login!Next]_(Login!vars)
  BY DEF AnyNext, login, Login!vars, Login!handlers
<1>3. [AnyNext]_<<which, vars, login, noise>> => [Next]_vars
  BY DEF AnyNext
<1>4. [AnyNext]_<<which, vars, login, noise>> => [Noise!Next]_(Noise!vars)
  BY DEF AnyNext, noise, Noise!vars, Noise!history
<1> QED BY <1>1, <1>2, <1>3, <1>4, PTL DEF AnySpec, Login!Spec, Spec, Noise!Spec

\* Every variable of the three limiters keeps its type.
THEOREM TypesAreRight == AnySpec => []TypesOK
<1>1. LoginInv /\ WriteInv /\ NoiseInv => TypesOK
  BY DEF LoginInv, WriteInv, NoiseInv, TypesOK
<1> QED BY <1>1, EachByItself, LoginInvariance, WriteInvariance, NoiseInvariance, PTL

\* What is promised of each of them is kept where they run beside one another.
THEOREM AllTogether ==
  AnySpec =>
    /\ [](WindowBound /\ RateBound /\ Accounted)
    /\ RefusedForCause /\ ImplementsAttempts /\ HintSuffices /\ StaysVisible
<1> DEFINE Cause == RefusedForCause
           Counts == ImplementsAttempts
           Hints == HintSuffices
           Stays == StaysVisible
<1>1. /\ Login!Spec => []WindowBound
      /\ Login!Spec => Cause
      /\ Login!Spec => Counts
      /\ Spec => []RateBound
      /\ Spec => Hints
      /\ Noise!Spec => []Accounted
      /\ Noise!Spec => Stays
  BY FailuresAreBounded, RefusalsHaveCause, LimiterIsACounter, RateIsBounded, HintIsEnough,
     ErrorsAreAccountedFor, FaultsStayVisible
<1> HIDE DEF Cause, Counts, Hints, Stays
<1>2. AnySpec => [](WindowBound /\ RateBound /\ Accounted) /\ Cause /\ Counts /\ Hints /\ Stays
  BY <1>1, EachByItself, PTL
<1> QED BY <1>2 DEF Cause, Counts, Hints, Stays
=============================================================================
