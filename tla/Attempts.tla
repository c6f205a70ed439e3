----------------------------- MODULE Attempts -----------------------------
(***************************************************************************)
(* What the login limiter comes to without clocks: failures are counted    *)
(* per address, may be forgotten at any time, and an attempt may begin     *)
(* only while fewer than Limit are remembered.  Setup is built on this.    *)
(***************************************************************************)
EXTENDS Naturals

CONSTANTS Handlers, Addresses, Limit, None

VARIABLES
    count,   \* failures remembered per address
    trying   \* the address for which a handler has been allowed to try

vars == <<count, trying>>

Init ==
    /\ count = [a \in Addresses |-> 0]
    /\ trying = [h \in Handlers |-> None]

\* An attempt of address a is let through, or not.
Allow(h, a) ==
    /\ trying[h] = None
    /\ \E n \in 0..count[a] :
         /\ count' = [count EXCEPT ![a] = n]
         /\ trying' = IF n < Limit THEN [trying EXCEPT ![h] = a] ELSE trying

Fail(h) ==
    /\ trying[h] # None
    /\ count' = [count EXCEPT ![trying[h]] = @ + 1]
    /\ trying' = [trying EXCEPT ![h] = None]

Succeed(h) ==
    /\ trying[h] # None
    /\ count' = [count EXCEPT ![trying[h]] = 0]
    /\ trying' = [trying EXCEPT ![h] = None]

\* Neither: the attempt was refused before its password was compared.
GiveUp(h) ==
    /\ trying' = [trying EXCEPT ![h] = None]
    /\ UNCHANGED count

Next ==
    \E h \in Handlers :
        \/ \E a \in Addresses : Allow(h, a)
        \/ Fail(h)
        \/ Succeed(h)
        \/ GiveUp(h)

Spec == Init /\ [][Next]_vars
=============================================================================
