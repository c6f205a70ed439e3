------------------------------ MODULE Display ------------------------------
(***************************************************************************)
(* What the panel promises to the browsers that keep its page open: each   *)
(* shows some state the hardware really had, possibly an older one than it *)
(* showed before, and never stops short of the current one.                *)
(***************************************************************************)
EXTENDS Naturals

CONSTANT Browsers

VARIABLES
    version,  \* the state of the hardware, counted
    shown     \* per browser: the state its page shows

vars == <<version, shown>>

Init ==
    /\ version = 0
    /\ shown = [b \in Browsers |-> 0]

Change ==
    /\ version' = version + 1
    /\ UNCHANGED shown

Show(b) ==
    /\ \E v \in 0..version : shown' = [shown EXCEPT ![b] = v]
    /\ UNCHANGED version

Next == Change \/ \E b \in Browsers : Show(b)

ShowCurrent(b) == Show(b) /\ shown[b] # version /\ shown'[b] = version

Safety == Init /\ [][Next]_vars

Spec == Safety /\ \A b \in Browsers : WF_vars(ShowCurrent(b))
=============================================================================
