------------------------------ MODULE Latest ------------------------------
(***************************************************************************)
(* What coalesce promises to a stream of choices: one is worked on at a    *)
(* time, each later than the one before it, and the last one is not left   *)
(* out.                                                                    *)
(***************************************************************************)
EXTENDS Naturals

VARIABLES
    chosen,  \* how many choices were made
    taken,   \* the last one that was worked on
    busy     \* it still is

vars == <<chosen, taken, busy>>

Init ==
    /\ chosen = 0
    /\ taken = 0
    /\ busy = FALSE

Choose ==
    /\ chosen' = chosen + 1
    /\ UNCHANGED <<taken, busy>>

Take ==
    /\ ~busy
    /\ taken < chosen
    /\ taken' = chosen
    /\ busy' = TRUE
    /\ UNCHANGED chosen

Finish ==
    /\ busy
    /\ busy' = FALSE
    /\ UNCHANGED <<chosen, taken>>

Next == Choose \/ Take \/ Finish

Safety == Init /\ [][Next]_vars

Spec == Safety /\ WF_vars(Take) /\ WF_vars(Finish)
=============================================================================
