----------------------------- MODULE TlsNoise -----------------------------
(***************************************************************************)
(* tlsNoiseFilter: one "TLS handshake error" line per window, which says   *)
(* how many there were since the last one.  Source: cmd/phnctl/main.go.    *)
(*                                                                         *)
(* The logger in front of it writes one line at a time.  The clock is read *)
(* twice, for the decision and for the stamp.  Other lines pass and change *)
(* nothing.                                                                *)
(***************************************************************************)
EXTENDS Integers

CONSTANTS
    Window,     \* tlsNoiseWindow (5 minutes)
    MaxTime,    \* bound: the clock
    MaxErrors,  \* bound: handshake errors
    None

VARIABLES
    now,       \* the clock
    pc,        \* "idle", or "report" between the decision and the line
    lastSeen,  \* tlsNoiseFilter.lastSeen, None for the zero time
    dropped,   \* tlsNoiseFilter.dropped
    errors,    \* history: errors so far
    told,      \* history: those that some line in the log accounts for
    lost,      \* history: those a line accounted for that could not be written
    tried      \* history: when a line was last written, or failed to be

history == <<errors, told, lost, tried>>
vars == <<now, pc, lastSeen, dropped, history>>

TypeOK ==
    /\ now \in 0..MaxTime
    /\ pc \in {"idle", "report"}
    /\ lastSeen \in 0..MaxTime \cup {None}
    /\ {dropped, told, lost} \subseteq 0..errors
    /\ errors \in 0..MaxErrors
    /\ tried \in 0..MaxTime \cup {None}

Init ==
    /\ now = 0
    /\ pc = "idle"
    /\ lastSeen = None
    /\ dropped = 0
    /\ errors = 0
    /\ told = 0
    /\ lost = 0
    /\ tried = None

\* An error arrives.
Error ==
    /\ pc = "idle"
    /\ errors < MaxErrors
    /\ errors' = errors + 1

Noisy == lastSeen # None /\ now - lastSeen < Window

\* Mutant: the window begins anew with every error.
DropSliding ==
    /\ Error
    /\ Noisy
    /\ dropped' = dropped + 1
    /\ lastSeen' = now
    /\ UNCHANGED <<now, pc, told, lost, tried>>

Drop ==
    /\ Error
    /\ Noisy
    /\ dropped' = dropped + 1
    /\ UNCHANGED <<now, pc, lastSeen, told, lost, tried>>

Decide ==
    /\ Error
    /\ ~Noisy
    /\ pc' = "report"
    /\ UNCHANGED <<now, lastSeen, dropped, told, lost, tried>>

\* Mutant: the count is not reset.
ReportKeepsCount ==
    /\ pc = "report"
    /\ pc' = "idle"
    /\ lastSeen' = now
    /\ tried' = now
    /\ \/ told' = told + 1 + dropped /\ UNCHANGED lost
       \/ lost' = lost + 1 + dropped /\ UNCHANGED told
    /\ UNCHANGED <<now, dropped, errors>>

\* The stamp, the reset, and the line, which may fail to be written.
Report ==
    /\ pc = "report"
    /\ pc' = "idle"
    /\ lastSeen' = now
    /\ dropped' = 0
    /\ tried' = now
    /\ \/ told' = told + 1 + dropped /\ UNCHANGED lost
       \/ lost' = lost + 1 + dropped /\ UNCHANGED told
    /\ UNCHANGED <<now, errors>>

Tick ==
    /\ now < MaxTime
    /\ now' = now + 1
    /\ UNCHANGED <<pc, lastSeen, dropped, history>>

Next == Drop \/ Decide \/ Report \/ Tick

Spec == Init /\ [][Next]_vars

-----------------------------------------------------------------------------
(* Properties                                                              *)

\* Every error is in a line's count, or waits to be in the next one's; only a
\* line that cannot be written takes its count with it.
Accounted == pc = "idle" => errors = told + lost + dropped

\* A fault that persists stays visible: an error is dropped only within one
\* window of an attempt to write a line, however many were dropped since.
StaysVisible == [][dropped' > dropped => tried # None /\ now - tried < Window]_vars
=============================================================================
