--------------------------- MODULE LoginLimiter ---------------------------
(***************************************************************************)
(* loginLimiter: a sliding window of failures per client address, shared   *)
(* by login and setup.  Source: internal/server/server.go.                 *)
(*                                                                         *)
(* The caller reads the clock, then the limiter takes its lock, and        *)
(* between allow and failed the password is compared: each of these is a   *)
(* step.  The order of failures in a record does not matter to the code,   *)
(* so a record is the number of failures at each time.                     *)
(***************************************************************************)
EXTENDS Naturals, FiniteSets

CONSTANTS
    Handlers,   \* requests in flight at the same time
    Addresses,  \* client addresses
    Window,     \* how long a failure counts (15 minutes)
    Limit,      \* failures after which the limiter refuses (5)
    MaxTime,    \* bound: the clock
    None

VARIABLES
    now,      \* the clock
    pc,       \* per handler: "idle", "allow", "check", "failed"
    from, at, \* per handler: the client's address, the clock as it read it
    records,  \* loginLimiter.records, for the addresses it has
    log       \* history: failures since the last success, whatever is stored

handlers == <<pc, from, at>>
vars == <<now, handlers, records, log>>

Times == 0..MaxTime
NoFailures == [t \in Times |-> 0]

TypeOK ==
    /\ now \in Times
    /\ pc \in [Handlers -> {"idle", "allow", "check", "failed"}]
    /\ from \in [Handlers -> Addresses \cup {None}]
    /\ at \in [Handlers -> Times]
    /\ DOMAIN records \subseteq Addresses
    /\ \A a \in DOMAIN records : records[a] \in [Times -> Nat]
    /\ log \in [Addresses -> [Times -> Nat]]

Init ==
    /\ now = 0
    /\ pc = [h \in Handlers |-> "idle"]
    /\ from = [h \in Handlers |-> None]
    /\ at = [h \in Handlers |-> 0]
    /\ records = [a \in {} |-> NoFailures]
    /\ log = [a \in Addresses |-> NoFailures]

\* The failures of a record, how many they are, and those younger than the
\* window at time t.
Failures(record) == UNION {{t} \X (1..record[t]) : t \in Times}
Total(record) == Cardinality(Failures(record))
Recent(record, t) == [u \in Times |-> IF u + Window > t THEN record[u] ELSE 0]

\* The zero value of an address that has no record.
RecordOf(a) == IF a \in DOMAIN records THEN records[a] ELSE NoFailures
Store(a, record) == [b \in DOMAIN records \cup {a} |-> IF b = a THEN record ELSE records[b]]

Done(h) ==
    /\ pc' = [pc EXCEPT ![h] = "idle"]
    /\ from' = [from EXCEPT ![h] = None]
    /\ at' = [at EXCEPT ![h] = 0]

\* handleLogin or performSetup: clientIP, and the clock before the lock.
Arrive(h) ==
    /\ pc[h] = "idle"
    /\ \E a \in Addresses : from' = [from EXCEPT ![h] = a]
    /\ pc' = [pc EXCEPT ![h] = "allow"]
    /\ at' = [at EXCEPT ![h] = now]
    /\ UNCHANGED <<now, records, log>>

Decide(h, record) ==
    IF Total(record) < Limit
      THEN pc' = [pc EXCEPT ![h] = "check"] /\ UNCHANGED <<from, at>>
      ELSE Done(h)

\* Mutant: the window begins anew with the first failure that has left it.
AllowFixedWindow(h) ==
    /\ pc[h] = "allow"
    /\ LET old == RecordOf(from[h])
           record == IF Recent(old, at[h]) = old THEN old ELSE NoFailures IN
         /\ records' = Store(from[h], record)
         /\ Decide(h, record)
    /\ UNCHANGED <<now, log>>

\* Mutant: the recent failures are counted after the new record is stored.
AllowOffByOne(h) ==
    /\ pc[h] = "allow"
    /\ LET record == Recent(RecordOf(from[h]), at[h]) IN
         /\ records' = Store(from[h], record)
         /\ IF Total(record) <= Limit
              THEN pc' = [pc EXCEPT ![h] = "check"] /\ UNCHANGED <<from, at>>
              ELSE Done(h)
    /\ UNCHANGED <<now, log>>

\* allow: what has left the window is dropped from the record, which is
\* stored even if it is empty, and what remains is counted.
Allow(h) ==
    /\ pc[h] = "allow"
    /\ LET record == Recent(RecordOf(from[h]), at[h]) IN
         /\ records' = Store(from[h], record)
         /\ Decide(h, record)
    /\ UNCHANGED <<now, log>>

\* The token or the password did not match; the clock is read for failed.
Mismatch(h) ==
    /\ pc[h] = "check"
    /\ pc' = [pc EXCEPT ![h] = "failed"]
    /\ at' = [at EXCEPT ![h] = now]
    /\ UNCHANGED <<now, from, records, log>>

\* failed: the failure is appended to the record there is by now.
Fail(h) ==
    /\ pc[h] = "failed"
    /\ records' = Store(from[h], [RecordOf(from[h]) EXCEPT ![at[h]] = @ + 1])
    /\ log' = [log EXCEPT ![from[h]][at[h]] = @ + 1]
    /\ Done(h)
    /\ UNCHANGED now

\* Mutant: a success leaves the record.
SucceedKeeps(h) ==
    /\ pc[h] = "check"
    /\ log' = [log EXCEPT ![from[h]] = NoFailures]
    /\ Done(h)
    /\ UNCHANGED <<now, records>>

\* succeeded: the record is deleted.
Succeed(h) ==
    /\ pc[h] = "check"
    /\ records' = [a \in DOMAIN records \ {from[h]} |-> records[a]]
    /\ log' = [log EXCEPT ![from[h]] = NoFailures]
    /\ Done(h)
    /\ UNCHANGED now

\* An answer that is neither: bad JSON, 409, a password that is too weak.
Leave(h) ==
    /\ pc[h] = "check"
    /\ Done(h)
    /\ UNCHANGED <<now, records, log>>

Tick ==
    /\ now < MaxTime
    /\ now' = now + 1
    /\ UNCHANGED <<handlers, records, log>>

Next ==
    \/ \E h \in Handlers :
        Arrive(h) \/ Allow(h) \/ Mismatch(h) \/ Fail(h) \/ Succeed(h) \/ Leave(h)
    \/ Tick

Spec == Init /\ [][Next]_vars

-----------------------------------------------------------------------------
(* Properties                                                              *)

UnderWay(a) == {h \in Handlers : from[h] = a /\ pc[h] \in {"check", "failed"}}

\* In no window does an address have more failures than the limit, but for
\* the requests that passed allow together; the failures are counted apart
\* from the record, so nothing that was stored may be lost too early.
WindowBound ==
    \A a \in Addresses :
        Total(Recent(log[a], now)) + Cardinality(UnderWay(a))
            < Limit + Cardinality(Handlers)

\* An address is refused only for failures of its own, since its last
\* success, that are still in the window: nobody stays locked out.
RefusedForCause ==
    [][\A h \in Handlers :
        pc[h] = "allow" /\ pc'[h] = "idle" => Total(Recent(log[from[h]], at[h])) >= Limit]_vars

\* The limiter with its clocks does what the counter of Attempts allows,
\* which is how Setup models it.
Counter ==
    INSTANCE Attempts WITH
        count <- [a \in Addresses |-> Total(RecordOf(a))],
        trying <- [h \in Handlers |-> IF pc[h] \in {"check", "failed"} THEN from[h] ELSE None]
ImplementsAttempts == Counter!Spec
=============================================================================
