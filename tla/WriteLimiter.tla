--------------------------- MODULE WriteLimiter ---------------------------
(***************************************************************************)
(* writeLimiter: one hardware write per interval, for all clients          *)
(* together, and the hint a refused one is given.                          *)
(* Source: internal/server/server.go.                                      *)
(*                                                                         *)
(* A handler reads the clock and then takes the lock, so its time may be   *)
(* older than the one stored, and the elapsed time negative.  Times are in *)
(* a unit in which the interval and a second are whole.                    *)
(***************************************************************************)
EXTENDS Integers

CONSTANTS
    Handlers,  \* requests in flight at the same time
    Interval,  \* Config.WriteInterval (150 ms)
    Second,    \* the unit of Retry-After, in which the interval is short
    MaxTime,   \* bound: the clock
    None

ASSUME WriteLimiterAssumption ==
    /\ Interval \in Nat
    /\ Second \in Nat \ {0}
    /\ Interval <= Second
    /\ MaxTime \in Nat
    /\ None \notin Int

VARIABLES
    now,      \* the clock
    pc,       \* per handler: "idle", "allow", "write", "refused"
    at,       \* per handler: the clock as it read it
    last,     \* writeLimiter.last, None for the zero time
    ready,    \* per handler that was refused: when Retry-After has passed
    alone,    \* history: no write was let through since it was refused
    writes,   \* history: how many writes were let through, and
    first     \* history: the time of the first of them

history == <<alone, writes, first>>
vars == <<now, pc, at, last, ready, history>>

Times == 0..MaxTime

TypeOK ==
    /\ now \in Times
    /\ pc \in [Handlers -> {"idle", "allow", "write", "refused"}]
    /\ at \in [Handlers -> Times]
    /\ last \in Times \cup {None}
    /\ ready \in [Handlers -> Nat]
    /\ alone \in [Handlers -> BOOLEAN]
    /\ writes \in Nat
    /\ first \in Times

Init ==
    /\ now = 0
    /\ pc = [h \in Handlers |-> "idle"]
    /\ at = [h \in Handlers |-> 0]
    /\ last = None
    /\ ready = [h \in Handlers |-> 0]
    /\ alone = [h \in Handlers |-> FALSE]
    /\ writes = 0
    /\ first = 0

\* prepareMutation: time.Now() is an argument of allow.
Arrive(h) ==
    /\ pc[h] \in {"idle", "refused"}
    /\ pc' = [pc EXCEPT ![h] = "allow"]
    /\ at' = [at EXCEPT ![h] = now]
    /\ UNCHANGED <<now, last, ready, history>>

Elapsed(h) == at[h] - last

\* Mutant: only a time after the last one can be early.
EarlyAfter(h) == last # None /\ Elapsed(h) >= 0 /\ Elapsed(h) < Interval

Early(h) == last # None /\ Elapsed(h) < Interval

\* Mutant: rounded to the nearest second.
HintRounded(remaining) == (2 * remaining + Second) \div (2 * Second)

\* Retry-After in seconds: rounded to the nearest one, and at least one.
Hint(remaining) ==
    LET rounded == (2 * remaining + Second) \div (2 * Second)
    IN IF rounded < 1 THEN 1 ELSE rounded

\* allow lets the write through, and remembers the caller's time.
Pass(h) ==
    /\ pc[h] = "allow"
    /\ ~Early(h)
    /\ last' = at[h]
    /\ pc' = [pc EXCEPT ![h] = "write"]
    /\ alone' = [g \in Handlers |-> FALSE]
    /\ writes' = writes + 1
    /\ first' = IF writes = 0 THEN at[h] ELSE first
    /\ UNCHANGED <<now, at, ready>>

\* The answer is 429 with Retry-After.
Refuse(h) ==
    /\ pc[h] = "allow"
    /\ Early(h)
    /\ ready' = [ready EXCEPT ![h] = now + Second * Hint(Interval - Elapsed(h))]
    /\ pc' = [pc EXCEPT ![h] = "refused"]
    /\ alone' = [alone EXCEPT ![h] = TRUE]
    /\ UNCHANGED <<now, at, last, writes, first>>

\* The handler calls the controller, which may still refuse, and returns.
Finish(h) ==
    /\ pc[h] = "write"
    /\ pc' = [pc EXCEPT ![h] = "idle"]
    /\ UNCHANGED <<now, at, last, ready, history>>

Tick ==
    /\ now < MaxTime
    /\ now' = now + 1
    /\ UNCHANGED <<pc, at, last, ready, history>>

Next ==
    \/ \E h \in Handlers : Arrive(h) \/ Pass(h) \/ Refuse(h) \/ Finish(h)
    \/ Tick

Spec == Init /\ [][Next]_vars

-----------------------------------------------------------------------------
(* Properties                                                              *)

\* Since the first write there was not more than one per interval, although
\* the times come to the lock out of order.
RateBound == writes > 0 => (writes - 1) * Interval <= now - first

\* A client that waits as long as Retry-After says is not refused again
\* unless another write came in between.
HintSuffices ==
    [][\A h \in Handlers :
        pc[h] = "allow" /\ alone[h] /\ at[h] >= ready[h] => pc'[h] # "refused"]_vars
=============================================================================
