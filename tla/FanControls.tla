---------------------------- MODULE FanControls ----------------------------
(***************************************************************************)
(* The fan controls of the page: the slider behind coalesce, the buttons   *)
(* for the fan mode and for battery calibration, and the one dialog that   *)
(* asks for confirmation on behalf of both.                                *)
(* Source: internal/ui/dist/app.js.                                        *)
(*                                                                         *)
(* A step is what the page runs between two awaits.  The server, the user  *)
(* and the telemetry that arrives in between are the environment.          *)
(***************************************************************************)
EXTENDS Naturals

CONSTANTS
    Workers,    \* calls of the slider's worker that could be under way
    Clicks,     \* click handlers that may be under way
    MaxChoices  \* bound: positions of the slider

ASSUME FanControlsAssumption ==
    /\ Workers \cap Clicks = {}
    /\ MaxChoices \in Nat

VARIABLES
    chosen,       \* positions the slider was moved to, counted
    pending,      \* coalesce: the choice to send next, 0 for undefined
    timer,        \* coalesce: its timer is set
    running,      \* coalesce: a worker is under way
    taken,        \* history: the last choice given to a worker
    applied,      \* history: the last choice of the slider the server applied
    late,         \* choices whose request failed and may be applied yet
    flow,         \* what each worker and each click handler is doing
    open, text,   \* the dialog is open, and whose question it shows
    returnValue,  \* confirmDialog.returnValue, "unset" for the empty one
    page          \* currentState, as far as the controls depend on it

queue == <<chosen, pending, timer, running, taken>>
dialog == <<open, text, returnValue>>
service == <<applied, late>>
vars == <<queue, service, flow, dialog, page>>

Flows == Workers \cup Clicks
Topics == {"fans", "calibration"}

\* Fans in automatic mode (or at their maximum), manual, or locked in quiet.
Pages == [fans : {"auto", "manual", "quiet"}, calibrating : BOOLEAN]

Tasks == {"slide", "manual", "auto", "calibrate", "stop"}

\* "auto" is the button of either of the modes that are not manual.
Task(does, value, at) ==
    [does |-> does, value |-> value, at |-> at,
     confirmed |-> FALSE, approved |-> FALSE, answer |-> "none"]
Idle == Task("auto", 0, "idle")

FlowStates ==
    [does : Tasks, value : 0..MaxChoices,
     at : {"idle", "request", "answer", "dialog", "reconcile", "done"},
     confirmed : BOOLEAN, approved : BOOLEAN,
     answer : {"none", "ok", "confirm", "error"}]

TypeOK ==
    /\ chosen \in 0..MaxChoices
    /\ pending \in 0..MaxChoices
    /\ taken \in 0..MaxChoices
    /\ applied \in 0..MaxChoices
    /\ late \subseteq 0..MaxChoices
    /\ timer \in BOOLEAN
    /\ running \in BOOLEAN
    /\ open \in BOOLEAN
    /\ flow \in [Flows -> FlowStates]
    /\ text \in Topics \cup {"none"}
    /\ returnValue \in {"unset", "confirm", "cancel"}
    /\ page \in Pages

Init ==
    /\ chosen = 0
    /\ pending = 0
    /\ timer = FALSE
    /\ running = FALSE
    /\ taken = 0
    /\ applied = 0
    /\ late = {}
    /\ flow = [f \in Flows |-> Idle]
    /\ open = FALSE
    /\ text = "none"
    /\ returnValue = "unset"
    /\ page \in Pages

Topic(f) == IF flow[f].does = "calibrate" THEN "calibration" ELSE "fans"

\* requestFans returns at once for manual fans that the page knows locked.
Unsent(does) == does \in {"slide", "manual"} /\ page.fans = "quiet"
Requested(does, value) == Task(does, value, IF Unsent(does) THEN "done" ELSE "request")

-----------------------------------------------------------------------------
(* The user, who can reach the controls only while no dialog is open       *)

\* An input event of an enabled slider: the choice replaces the pending one
\* and the timer starts anew.
Input ==
    /\ ~open
    /\ page.fans = "manual"
    /\ chosen < MaxChoices
    /\ chosen' = chosen + 1
    /\ pending' = chosen + 1
    /\ timer' = TRUE
    /\ UNCHANGED <<running, taken, service, flow, dialog, page>>

ClickMode(f) ==
    /\ ~open
    /\ flow[f] = Idle
    /\ \E mode \in {"auto", "manual"} :
         /\ ~Unsent(mode)
         /\ flow' = [flow EXCEPT ![f] = Task(mode, 0, "request")]
    /\ UNCHANGED <<queue, service, dialog, page>>

\* Only a start asks first.
ClickCalibration(f) ==
    /\ ~open
    /\ flow[f] = Idle
    /\ IF page.calibrating
         THEN /\ flow' = [flow EXCEPT ![f] = Task("stop", 0, "request")]
              /\ UNCHANGED dialog
         ELSE /\ flow' = [flow EXCEPT ![f] = Task("calibrate", 0, "dialog")]
              /\ open' = TRUE
              /\ text' = "calibration"
              /\ UNCHANGED returnValue
    /\ UNCHANGED <<queue, service, page>>

-----------------------------------------------------------------------------
(* coalesce                                                                *)

\* Mutant: a worker is started while another is under way.
FireUnguarded(w) ==
    /\ timer
    /\ flow[w] = Idle
    /\ timer' = FALSE
    /\ pending # 0
    /\ pending' = 0
    /\ running' = TRUE
    /\ taken' = pending
    /\ flow' = [flow EXCEPT ![w] = Requested("slide", pending)]
    /\ UNCHANGED <<chosen, service, dialog, page>>

\* The timer fires: run returns, or takes the pending choice and calls the
\* worker with it.
Fire(w) ==
    /\ timer
    /\ flow[w] = Idle
    /\ timer' = FALSE
    /\ IF running \/ pending = 0
         THEN UNCHANGED <<pending, running, taken, flow>>
         ELSE /\ pending' = 0
              /\ running' = TRUE
              /\ taken' = pending
              /\ flow' = [flow EXCEPT ![w] = Requested("slide", pending)]
    /\ UNCHANGED <<chosen, service, dialog, page>>

\* Mutant: what was chosen meanwhile waits for the next input.
FinishForgets(f) ==
    /\ flow[f].at = "done"
    /\ flow' = [flow EXCEPT ![f] = Idle]
    /\ running' = IF f \in Workers THEN FALSE ELSE running
    /\ UNCHANGED <<chosen, pending, timer, taken, service, dialog, page>>

\* A handler returns, or throws; of a worker, "finally" sees to the choice
\* that was made in the meantime.
Finish(f) ==
    /\ flow[f].at = "done"
    /\ flow' = [flow EXCEPT ![f] = Idle]
    /\ IF f \in Workers
         THEN /\ running' = FALSE
              /\ timer' = (timer \/ pending # 0)
         ELSE UNCHANGED <<running, timer>>
    /\ UNCHANGED <<chosen, pending, taken, service, dialog, page>>

-----------------------------------------------------------------------------
(* A request and its answer                                                *)

NeedsConfirmation(f) == flow[f].does \in {"slide", "manual"} /\ ~flow[f].confirmed

\* The server applies what it was asked, wants it confirmed or refuses it, or
\* the connection fails.  Of a request that failed the page does not know
\* whether it is applied, which it may be at once, later or never.
Serve(f) ==
    /\ flow[f].at = "request"
    /\ \E answer \in {"ok", "error"} \cup (IF NeedsConfirmation(f) THEN {"confirm"} ELSE {}) :
         /\ flow' = [flow EXCEPT ![f].at = "answer", ![f].answer = answer]
         /\ IF flow[f].does = "slide"
              THEN /\ applied' = IF answer = "ok" THEN flow[f].value ELSE applied
                   /\ late' = IF answer = "error" THEN late \cup {flow[f].value} ELSE late
              ELSE UNCHANGED service
    /\ UNCHANGED <<queue, dialog, page>>

\* The handler of a request that failed for the page writes its choice.
ApplyLate ==
    /\ \E choice \in late :
         /\ applied' = choice
         /\ late' = late \ {choice}
    /\ UNCHANGED <<queue, flow, dialog, page>>

\* acceptState, after which the buttons' state is the one received.
Accepted(f) ==
    /\ flow[f].answer = "ok"
    /\ page' \in Pages
    /\ flow' = [flow EXCEPT ![f].at = "done"]
    /\ UNCHANGED dialog

Failed(f) ==
    /\ flow[f].answer = "error"
    /\ flow' = [flow EXCEPT ![f].at = "reconcile"]
    /\ UNCHANGED <<dialog, page>>

\* confirmAction of requestFans.  While another question is open, showModal
\* does nothing in some browsers and throws in others, so the listener is
\* added or not; the text is replaced in both.
Asked(f) ==
    /\ flow[f].answer = "confirm"
    /\ text' = Topic(f)
    /\ open' = TRUE
    /\ \/ flow' = [flow EXCEPT ![f].at = "dialog"]
       \/ open /\ flow' = [flow EXCEPT ![f].at = "done"]
    /\ UNCHANGED <<returnValue, page>>

Receive(f) ==
    /\ flow[f].at = "answer"
    /\ Accepted(f) \/ Failed(f) \/ Asked(f)
    /\ UNCHANGED <<queue, service>>

\* reconcile: the state is loaded anew, or that fails too.
Reconcile(f) ==
    /\ flow[f].at = "reconcile"
    /\ page' \in Pages
    /\ flow' = [flow EXCEPT ![f].at = "done"]
    /\ UNCHANGED <<queue, service, dialog>>

\* A message on the socket: acceptState.
Push ==
    /\ page' \in Pages
    /\ UNCHANGED <<queue, service, flow, dialog>>

-----------------------------------------------------------------------------
(* The dialog                                                              *)

\* What a listener makes of the closed dialog: the action goes on as a
\* confirmed one, or ends.
Answered(f, how) ==
    LET confirmed == returnValue' = "confirm" IN
    IF confirmed
      THEN [flow[f] EXCEPT
             !.confirmed = TRUE,
             !.approved = (how = "confirm" /\ text = Topic(f)),
             !.at = IF Unsent(flow[f].does) THEN "done" ELSE "request"]
      ELSE [flow[f] EXCEPT !.at = IF flow[f].does = "calibrate" THEN "done" ELSE "reconcile"]

\* Mutant: the dialog has one listener, that of the question it shows.
CloseForOne(how) ==
    /\ open
    /\ open' = FALSE
    /\ text' = "none"
    /\ returnValue' = IF how = "escape" THEN returnValue ELSE how
    /\ flow' = [f \in Flows |->
         IF flow[f].at = "dialog" /\ text = Topic(f) THEN Answered(f, how) ELSE flow[f]]
    /\ UNCHANGED <<queue, service, page>>

\* Mutant: Escape counts as an answer of its own.
CloseNamed(how) ==
    /\ open
    /\ open' = FALSE
    /\ text' = "none"
    /\ returnValue' = how
    /\ flow' = [f \in Flows |->
         IF flow[f].at = "dialog" THEN Answered(f, how) ELSE flow[f]]
    /\ UNCHANGED <<queue, service, page>>

\* A button of its form, which sets returnValue, or Escape, which does not.
\* Every listener of the close event runs.
Close(how) ==
    /\ open
    /\ open' = FALSE
    /\ text' = "none"
    /\ returnValue' = IF how = "escape" THEN returnValue ELSE how
    /\ flow' = [f \in Flows |->
         IF flow[f].at = "dialog" THEN Answered(f, how) ELSE flow[f]]
    /\ UNCHANGED <<queue, service, page>>

Closing == \E how \in {"confirm", "cancel", "escape"} : Close(how)

-----------------------------------------------------------------------------

Step(f) == Serve(f) \/ Receive(f) \/ Reconcile(f) \/ Finish(f)

Next ==
    \/ Input
    \/ Push
    \/ ApplyLate
    \/ Closing
    \/ \E f \in Clicks : ClickMode(f) \/ ClickCalibration(f)
    \/ \E w \in Workers : Fire(w)
    \/ \E f \in Flows : Step(f)

\* Timers fire, requests end one way or the other, and the user answers.
Fairness ==
    /\ WF_vars(\E w \in Workers : Fire(w))
    /\ WF_vars(Closing)
    /\ \A f \in Flows : WF_vars(Step(f))

Spec == Init /\ [][Next]_vars /\ Fairness

-----------------------------------------------------------------------------
(* Properties                                                              *)

\* The server goes back to an earlier position of the slider only by a request
\* of which the page was told that it failed, although requests take any time
\* and are resent when they are confirmed (coalesce runs one worker at a time).
AppliedInOrder == [][applied' < applied => applied' \in late]_vars

\* coalesce does what it promises: one worker at a time, each with a later
\* choice than the one before, and once the user rests the last choice is
\* given to a worker, however long the one before it took.
Coalesced == INSTANCE Latest WITH busy <- running
ImplementsLatest == Coalesced!Spec

\* Whoever waits for an answer of the dialog has an open dialog to answer,
\* also when two questions met in it (confirmAction adds a listener each).
NobodyWaitsInVain == \A f \in Flows : flow[f].at = "dialog" => open

\* A confirmed request is sent only after the confirming button was pressed
\* below the question of that action (confirmAction).
ConfirmedByClick ==
    \A f \in Flows : flow[f].at = "request" /\ flow[f].confirmed => flow[f].approved
=============================================================================
