---------------------------- MODULE PageProofs ----------------------------
(***************************************************************************)
(* Theorems about the controls and the session of the page, for any number *)
(* of handlers, of choices and of sockets whose close events are late.     *)
(***************************************************************************)
EXTENDS MCPage, TLAPS

-----------------------------------------------------------------------------
(* The controls: the inductive invariant.                                  *)

\* The pending choice is the newest one, and there is none only if the newest
\* one has been taken.
PendingIsNewest ==
    /\ pending = 0 => taken = chosen
    /\ pending # 0 => pending = chosen /\ taken < chosen

\* The workers under way, of which there is one while coalesce is running:
\* it has the last choice taken.
Busy == {w \in Workers : flow[w] # Idle}
OneWorker ==
    /\ \A w \in Busy : running /\ flow[w].does = "slide" /\ flow[w].value = taken
    /\ \A v, w \in Busy : v = w

ClicksDoNotSlide == \A f \in Clicks : flow[f].does # "slide"

\* The server has applied, and may yet apply, only choices that were taken.
ServiceIsBehind == applied <= taken /\ \A choice \in late : choice <= taken

\* A handler that is idle has nothing left over.
IdleIsBlank == \A f \in Flows : flow[f].at = "idle" => flow[f] = Idle

ControlsInv ==
    /\ TypeOK
    /\ NobodyWaitsInVain
    /\ PendingIsNewest
    /\ OneWorker
    /\ ClicksDoNotSlide
    /\ IdleIsBlank
    /\ ServiceIsBehind

\* A step that goes back only to a choice whose request failed.
OnlyLateGoesBack == applied' < applied => applied' \in late

LEMMA InitControlsInv == Init => ControlsInv
<1> SUFFICES ASSUME Init PROVE ControlsInv
  OBVIOUS
<1>1. Idle \in FlowStates /\ Idle.at = "idle" /\ Idle.does = "auto"
  BY FanControlsAssumption DEF Idle, Task, FlowStates, Tasks
<1>2. \A f \in Flows : flow[f] = Idle
  BY DEF Init
<1>3. TypeOK
  <2>1. 0 \in 0..MaxChoices
    BY FanControlsAssumption
  <2>2. flow \in [Flows -> FlowStates]
    BY <1>1 DEF Init
  <2> QED BY <2>1, <2>2 DEF Init, TypeOK
<1>4. NobodyWaitsInVain /\ ClicksDoNotSlide /\ IdleIsBlank
  BY <1>1, <1>2 DEF NobodyWaitsInVain, ClicksDoNotSlide, IdleIsBlank, Flows
<1>5. OneWorker
  <2>1. Busy = {}
    BY <1>2 DEF Busy, Flows
  <2> QED BY <2>1 DEF OneWorker
<1>6. PendingIsNewest /\ ServiceIsBehind
  BY DEF Init, PendingIsNewest, ServiceIsBehind
<1> QED
  BY <1>3, <1>4, <1>5, <1>6 DEF ControlsInv

\* The counters are numbers.
LEMMA Numbers ==
  ASSUME TypeOK
  PROVE  /\ MaxChoices \in Nat
         /\ chosen \in Nat /\ pending \in Nat /\ taken \in Nat /\ applied \in Nat
         /\ chosen <= MaxChoices /\ pending <= MaxChoices
         /\ taken <= MaxChoices /\ applied <= MaxChoices
         /\ \A choice \in late : choice \in Nat
BY FanControlsAssumption DEF TypeOK

\* What has to be seen of a step that moves one handler on and touches neither
\* the queue nor, of a worker, its choice.
LEMMA MoveKeepsControlsInv ==
  ASSUME ControlsInv, NEW f \in Flows, NEW s \in FlowStates,
         flow' = [flow EXCEPT ![f] = s],
         UNCHANGED queue,
         f \in Workers => flow[f] # Idle /\ s.does = flow[f].does /\ s.value = flow[f].value,
         f \in Clicks => s.does # "slide",
         s.at = "idle" => s = Idle,
         s.at = "dialog" => open',
         open => open',
         open' \in BOOLEAN, text' \in Topics \cup {"none"},
         returnValue' \in {"unset", "confirm", "cancel"}, page' \in Pages,
         applied' \in {applied, taken}, late' \subseteq late \cup {taken}
  PROVE  ControlsInv'
<1>1. TypeOK'
  BY DEF ControlsInv, TypeOK, queue
<1>2. NobodyWaitsInVain'
  BY DEF ControlsInv, TypeOK, NobodyWaitsInVain
<1>3. PendingIsNewest'
  BY DEF ControlsInv, PendingIsNewest, queue
<1>4. OneWorker'
  <2>1. \A w \in Workers : flow'[w] # Idle => flow[w] # Idle
    BY DEF ControlsInv, TypeOK, Flows
  <2>2. Busy' \subseteq Busy
    BY <2>1 DEF Busy
  <2>3. \A w \in Workers : flow'[w].does = flow[w].does /\ flow'[w].value = flow[w].value
    BY DEF ControlsInv, TypeOK, Flows
  <2> QED BY <2>2, <2>3 DEF ControlsInv, OneWorker, Busy, queue
<1>5. ClicksDoNotSlide'
  BY DEF ControlsInv, TypeOK, ClicksDoNotSlide, Flows
<1>6. IdleIsBlank'
  BY DEF ControlsInv, TypeOK, IdleIsBlank, Idle, Task
<1>7. ServiceIsBehind'
  <2>1. taken \in Nat /\ taken' = taken
    BY Numbers DEF ControlsInv, queue
  <2> QED BY <2>1 DEF ControlsInv, ServiceIsBehind
<1> QED BY <1>1, <1>2, <1>3, <1>4, <1>5, <1>6, <1>7 DEF ControlsInv

LEMMA InputKeepsControlsInv == ASSUME ControlsInv, Input PROVE ControlsInv'
<1>1. /\ chosen' = chosen + 1 /\ pending' = chosen + 1 /\ timer' = TRUE
      /\ chosen < MaxChoices
      /\ UNCHANGED <<running, taken, applied, late, flow, open, text, returnValue, page>>
  BY DEF Input, dialog, service
<1>2. MaxChoices \in Nat /\ chosen \in Nat /\ taken \in Nat /\ pending \in Nat
  BY Numbers DEF ControlsInv
<1>3. TypeOK'
  <2>1. chosen' \in 0..MaxChoices /\ pending' \in 0..MaxChoices
    BY <1>1, <1>2
  <2> QED BY <1>1, <2>1 DEF ControlsInv, TypeOK
<1>4. PendingIsNewest'
  <2>1. taken <= chosen
    BY <1>2 DEF ControlsInv, PendingIsNewest
  <2> QED BY <1>1, <1>2, <2>1 DEF PendingIsNewest
<1>5. NobodyWaitsInVain' /\ OneWorker' /\ ClicksDoNotSlide' /\ IdleIsBlank' /\ ServiceIsBehind'
  BY <1>1 DEF ControlsInv, NobodyWaitsInVain, OneWorker, Busy, ClicksDoNotSlide, IdleIsBlank,
              ServiceIsBehind
<1> QED BY <1>3, <1>4, <1>5 DEF ControlsInv

LEMMA ClickKeepsControlsInv ==
  ASSUME ControlsInv, NEW f \in Clicks, ClickMode(f) \/ ClickCalibration(f)
  PROVE  ControlsInv'
<1>1. f \in Flows /\ f \notin Workers
  BY FanControlsAssumption DEF Flows
<1>2. CASE ClickMode(f)
  <2>1. PICK mode \in {"auto", "manual"} : flow' = [flow EXCEPT ![f] = Task(mode, 0, "request")]
    BY <1>2 DEF ClickMode
  <2>2. Task(mode, 0, "request") \in FlowStates /\ Task(mode, 0, "request").does = mode
        /\ Task(mode, 0, "request").at = "request"
    BY FanControlsAssumption DEF Task, FlowStates, Tasks
  <2> QED BY <1>1, <1>2, <2>1, <2>2, MoveKeepsControlsInv
           DEF ClickMode, dialog, service, ControlsInv, TypeOK
<1>3. CASE ClickCalibration(f) /\ page.calibrating
  <2> DEFINE s == Task("stop", 0, "request")
  <2>1. s \in FlowStates /\ s.does = "stop" /\ s.at = "request"
    BY FanControlsAssumption DEF Task, FlowStates, Tasks
  <2>2. flow' = [flow EXCEPT ![f] = s] /\ UNCHANGED <<queue, applied, late, dialog, page>>
    BY <1>3 DEF ClickCalibration, service
  <2> HIDE DEF s
  <2> QED BY <1>1, <2>1, <2>2, MoveKeepsControlsInv DEF dialog, ControlsInv, TypeOK
<1>4. CASE ClickCalibration(f) /\ ~page.calibrating
  <2> DEFINE s == Task("calibrate", 0, "dialog")
  <2>1. s \in FlowStates /\ s.does = "calibrate" /\ s.at = "dialog"
    BY FanControlsAssumption DEF Task, FlowStates, Tasks
  <2>2. /\ flow' = [flow EXCEPT ![f] = s] /\ UNCHANGED <<queue, applied, late, page>>
        /\ open' = TRUE /\ text' = "calibration" /\ returnValue' = returnValue
    BY <1>4 DEF ClickCalibration, service
  <2> HIDE DEF s
  <2> QED BY <1>1, <2>1, <2>2, MoveKeepsControlsInv DEF Topics, ControlsInv, TypeOK
<1> QED BY <1>2, <1>3, <1>4

LEMMA FireKeepsControlsInv == ASSUME ControlsInv, NEW w \in Workers, Fire(w) PROVE ControlsInv'
<1>1. CASE running \/ pending = 0
  <2>1. /\ timer' = FALSE
        /\ UNCHANGED <<chosen, pending, running, taken, applied, late, flow>>
        /\ UNCHANGED <<open, text, returnValue, page>>
    BY <1>1 DEF Fire, dialog, service
  <2> QED BY <2>1 DEF ControlsInv, TypeOK, NobodyWaitsInVain, PendingIsNewest, OneWorker, Busy,
             ClicksDoNotSlide, IdleIsBlank, ServiceIsBehind
<1>2. CASE ~(running \/ pending = 0)
  <2> DEFINE s == Requested("slide", pending)
  <2>1. /\ timer' = FALSE /\ pending' = 0 /\ running' = TRUE /\ taken' = pending
        /\ flow' = [flow EXCEPT ![w] = s]
        /\ UNCHANGED <<chosen, applied, late>>
        /\ UNCHANGED <<open, text, returnValue, page>>
    BY <1>2 DEF Fire, dialog, service
  <2>2. /\ s \in FlowStates /\ s.does = "slide" /\ s.value = pending
        /\ s.at \in {"request", "done"}
    BY DEF Requested, Task, FlowStates, Tasks, ControlsInv, TypeOK
  <2> HIDE DEF s
  <2>3. /\ w \in Flows /\ w \notin Clicks
    BY FanControlsAssumption DEF Flows
  <2>4. flow'[w] = s /\ \A f \in Flows : f # w => flow'[f] = flow[f]
    BY <2>1, <2>3 DEF ControlsInv, TypeOK
  <2>5. Busy = {}
    BY <1>2 DEF ControlsInv, OneWorker
  <2>6. TypeOK'
    <3>1. flow' \in [Flows -> FlowStates]
      BY <2>1, <2>2 DEF ControlsInv, TypeOK
    <3>2. 0 \in 0..MaxChoices
      BY FanControlsAssumption
    <3> QED BY <2>1, <3>1, <3>2 DEF ControlsInv, TypeOK
  <2>7. PendingIsNewest'
    BY <1>2, <2>1 DEF ControlsInv, PendingIsNewest
  <2>8. OneWorker'
    <3>1. \A v \in Busy' : v = w
      BY <2>4, <2>5 DEF Busy, Flows
    <3> QED BY <2>1, <2>2, <2>4, <3>1 DEF OneWorker
  <2>9. NobodyWaitsInVain' /\ ClicksDoNotSlide' /\ IdleIsBlank'
    BY <2>1, <2>2, <2>3, <2>4
    DEF ControlsInv, NobodyWaitsInVain, ClicksDoNotSlide, IdleIsBlank, Flows
  <2>10. ServiceIsBehind'
    <3>1. taken < chosen /\ pending = chosen
      BY <1>2 DEF ControlsInv, PendingIsNewest
    <3> QED BY <2>1, <3>1, Numbers DEF ControlsInv, ServiceIsBehind
  <2> QED BY <2>6, <2>7, <2>8, <2>9, <2>10 DEF ControlsInv
<1> QED BY <1>1, <1>2

\* A handler that goes on from one of its awaits keeps what it does.
LEMMA GoOnKeepsControlsInv ==
  ASSUME ControlsInv, NEW f \in Flows, flow[f].at # "idle",
         NEW at \in {"request", "answer", "dialog", "reconcile", "done"},
         NEW answer \in {"none", "ok", "confirm", "error"},
         flow' = [flow EXCEPT ![f] = [flow[f] EXCEPT !.at = at, !.answer = answer]],
         UNCHANGED queue,
         at = "dialog" => open',
         open => open',
         open' \in BOOLEAN, text' \in Topics \cup {"none"},
         returnValue' \in {"unset", "confirm", "cancel"}, page' \in Pages,
         applied' = applied \/ (applied' = flow[f].value /\ flow[f].does = "slide"),
         late' = late \/ (late' = late \cup {flow[f].value} /\ flow[f].does = "slide")
  PROVE  ControlsInv' /\ OnlyLateGoesBack
<1> DEFINE s == [flow[f] EXCEPT !.at = at, !.answer = answer]
<1>1. flow[f] \in FlowStates
  BY DEF ControlsInv, TypeOK
<1>2. s \in FlowStates /\ s.at = at /\ s.does = flow[f].does /\ s.value = flow[f].value
  BY <1>1 DEF FlowStates
<1>3. flow[f] # Idle
  BY DEF Idle, Task
<1>4. f \in Clicks => flow[f].does # "slide"
  BY DEF ControlsInv, ClicksDoNotSlide
<1>5. applied' \in {applied, taken} /\ late' \subseteq late \cup {taken}
  BY <1>3, <1>4 DEF ControlsInv, OneWorker, Busy, Flows
<1>6. ControlsInv'
  <2> HIDE DEF s
  <2>1. flow' = [flow EXCEPT ![f] = s]
    BY DEF s
  <2> QED BY <1>2, <1>3, <1>4, <1>5, <2>1, MoveKeepsControlsInv
<1>7. OnlyLateGoesBack
  BY <1>5, Numbers DEF ControlsInv, ServiceIsBehind, OnlyLateGoesBack
<1> QED BY <1>6, <1>7

\* Requests, answers and reconciliations.
LEMMA AwaitKeepsControlsInv ==
  ASSUME ControlsInv, NEW f \in Flows, Serve(f) \/ Receive(f) \/ Reconcile(f)
  PROVE  ControlsInv' /\ OnlyLateGoesBack /\ UNCHANGED queue
<1>1. flow[f] \in FlowStates
  BY DEF ControlsInv, TypeOK
<1>2. CASE Serve(f)
  <2>1. PICK answer \in {"ok", "error", "confirm"} :
          /\ flow' = [flow EXCEPT ![f].at = "answer", ![f].answer = answer]
          /\ applied' = applied \/ (applied' = flow[f].value /\ flow[f].does = "slide")
          /\ late' = late \/ (late' = late \cup {flow[f].value} /\ flow[f].does = "slide")
    BY <1>2 DEF Serve, service
  <2>2. flow' = [flow EXCEPT ![f] = [flow[f] EXCEPT !.at = "answer", !.answer = answer]]
    BY <1>1, <2>1 DEF ControlsInv, TypeOK, FlowStates
  <2>3. UNCHANGED queue /\ UNCHANGED <<open, text, returnValue, page>> /\ flow[f].at # "idle"
    BY <1>2 DEF Serve, dialog
  <2>4. /\ open => open'
        /\ open' \in BOOLEAN /\ text' \in Topics \cup {"none"}
        /\ returnValue' \in {"unset", "confirm", "cancel"} /\ page' \in Pages
    BY <2>3 DEF ControlsInv, TypeOK
  <2> QED BY <2>1, <2>2, <2>3, <2>4, GoOnKeepsControlsInv
<1>3. CASE Receive(f)
  <2>1. UNCHANGED queue /\ applied' = applied /\ late' = late /\ flow[f].at = "answer"
    BY <1>3 DEF Receive, service
  <2>2. flow[f].answer \in {"none", "ok", "confirm", "error"}
    BY <1>1 DEF FlowStates
  <2>3. ASSUME NEW at \in {"dialog", "reconcile", "done"}, flow' = [flow EXCEPT ![f].at = at]
        PROVE  flow' = [flow EXCEPT ![f] = [flow[f] EXCEPT !.at = at, !.answer = flow[f].answer]]
    BY <1>1, <2>3 DEF ControlsInv, TypeOK, FlowStates
  <2>4. flow[f].at # "idle"
    BY <2>1
  <2>5. CASE Accepted(f) \/ Failed(f)
    <3>1. /\ open => open'
          /\ open' \in BOOLEAN /\ text' \in Topics \cup {"none"}
          /\ returnValue' \in {"unset", "confirm", "cancel"} /\ page' \in Pages
      BY <2>5 DEF Accepted, Failed, dialog, ControlsInv, TypeOK
    <3>2. CASE flow' = [flow EXCEPT ![f].at = "reconcile"]
      <4>1. flow' = [flow EXCEPT ![f] =
                       [flow[f] EXCEPT !.at = "reconcile", !.answer = flow[f].answer]]
        BY <2>3, <3>2
      <4> QED BY <2>1, <2>2, <2>4, <3>1, <4>1, GoOnKeepsControlsInv
    <3>3. CASE flow' = [flow EXCEPT ![f].at = "done"]
      <4>1. flow' = [flow EXCEPT ![f] =
                       [flow[f] EXCEPT !.at = "done", !.answer = flow[f].answer]]
        BY <2>3, <3>3
      <4> QED BY <2>1, <2>2, <2>4, <3>1, <4>1, GoOnKeepsControlsInv
    <3> QED BY <2>5, <3>2, <3>3 DEF Accepted, Failed
  <2>6. CASE Asked(f)
    <3>1. /\ open' = TRUE /\ text' \in Topics \cup {"none"}
          /\ returnValue' \in {"unset", "confirm", "cancel"} /\ page' \in Pages
      BY <2>6 DEF Asked, Topic, Topics, ControlsInv, TypeOK
    <3>2. CASE flow' = [flow EXCEPT ![f].at = "dialog"]
      <4>1. flow' = [flow EXCEPT ![f] =
                       [flow[f] EXCEPT !.at = "dialog", !.answer = flow[f].answer]]
        BY <2>3, <3>2
      <4> QED BY <2>1, <2>2, <2>4, <3>1, <4>1, GoOnKeepsControlsInv
    <3>3. CASE flow' = [flow EXCEPT ![f].at = "done"]
      <4>1. flow' = [flow EXCEPT ![f] =
                       [flow[f] EXCEPT !.at = "done", !.answer = flow[f].answer]]
        BY <2>3, <3>3
      <4> QED BY <2>1, <2>2, <2>4, <3>1, <4>1, GoOnKeepsControlsInv
    <3> QED BY <2>6, <3>2, <3>3 DEF Asked
  <2> QED BY <1>3, <2>5, <2>6 DEF Receive
<1>4. CASE Reconcile(f)
  <2>1. /\ UNCHANGED queue /\ applied' = applied /\ late' = late /\ flow[f].at # "idle"
        /\ flow' = [flow EXCEPT ![f].at = "done"]
    BY <1>4 DEF Reconcile, service
  <2>2. flow[f].answer \in {"none", "ok", "confirm", "error"}
    BY <1>1 DEF FlowStates
  <2>3. flow' = [flow EXCEPT ![f] = [flow[f] EXCEPT !.at = "done", !.answer = flow[f].answer]]
    BY <1>1, <2>1 DEF ControlsInv, TypeOK, FlowStates
  <2>4. /\ open => open'
        /\ open' \in BOOLEAN /\ text' \in Topics \cup {"none"}
        /\ returnValue' \in {"unset", "confirm", "cancel"} /\ page' \in Pages
    BY <1>4 DEF Reconcile, dialog, ControlsInv, TypeOK
  <2> QED BY <2>1, <2>2, <2>3, <2>4, GoOnKeepsControlsInv
<1> QED BY <1>2, <1>3, <1>4

LEMMA FinishKeepsControlsInv == ASSUME ControlsInv, NEW f \in Flows, Finish(f) PROVE ControlsInv'
<1>1. /\ flow' = [flow EXCEPT ![f] = Idle] /\ flow[f].at = "done"
      /\ UNCHANGED <<chosen, pending, taken, applied, late>>
      /\ UNCHANGED <<open, text, returnValue, page>>
  BY DEF Finish, dialog, service
<1>2. Idle \in FlowStates /\ Idle.at = "idle" /\ Idle.does = "auto"
  BY FanControlsAssumption DEF Idle, Task, FlowStates, Tasks
<1>3. flow'[f] = Idle /\ \A g \in Flows : g # f => flow'[g] = flow[g]
  BY <1>1 DEF ControlsInv, TypeOK
<1>4. timer' \in BOOLEAN /\ running' \in BOOLEAN
  BY DEF Finish, ControlsInv, TypeOK
<1>5. TypeOK'
  <2>1. flow' \in [Flows -> FlowStates]
    BY <1>1, <1>2 DEF ControlsInv, TypeOK
  <2> QED BY <1>1, <1>4, <2>1 DEF ControlsInv, TypeOK
<1>6. NobodyWaitsInVain' /\ ClicksDoNotSlide' /\ IdleIsBlank'
  BY <1>1, <1>2, <1>3 DEF ControlsInv, NobodyWaitsInVain, ClicksDoNotSlide, IdleIsBlank, Flows
<1>7. PendingIsNewest' /\ ServiceIsBehind'
  BY <1>1 DEF ControlsInv, PendingIsNewest, ServiceIsBehind
<1>8. OneWorker'
  <2>1. Busy' \subseteq Busy \ {f}
    BY <1>3 DEF Busy, Flows
  <2>2. CASE f \in Workers
    <3>1. f \in Busy
      BY <1>1, <1>2, <2>2 DEF Busy
    <3>2. Busy' = {}
      BY <2>1, <3>1 DEF ControlsInv, OneWorker
    <3> QED BY <3>2 DEF OneWorker
  <2>3. CASE f \notin Workers
    <3>1. running' = running
      BY <2>3 DEF Finish
    <3>2. \A w \in Busy' : w \in Busy /\ flow'[w] = flow[w]
      BY <1>3, <2>1 DEF Busy, Flows
    <3> QED BY <1>1, <3>1, <3>2 DEF ControlsInv, OneWorker
  <2> QED BY <2>2, <2>3
<1> QED BY <1>5, <1>6, <1>7, <1>8 DEF ControlsInv

LEMMA PushKeepsControlsInv == ASSUME ControlsInv, Push PROVE ControlsInv'
<1>1. /\ UNCHANGED <<chosen, pending, timer, running, taken, applied, late, flow>>
      /\ UNCHANGED <<open, text, returnValue>> /\ page' \in Pages
  BY DEF Push, queue, dialog, service
<1> QED BY <1>1 DEF ControlsInv, TypeOK, NobodyWaitsInVain, PendingIsNewest, OneWorker, Busy,
           ClicksDoNotSlide, IdleIsBlank, ServiceIsBehind

\* A choice that is applied late was taken before.
LEMMA ApplyLateKeepsControlsInv == ASSUME ControlsInv, ApplyLate PROVE ControlsInv' /\ OnlyLateGoesBack
<1>1. PICK choice \in late : applied' = choice /\ late' = late \ {choice}
  BY DEF ApplyLate
<1>2. /\ UNCHANGED <<chosen, pending, timer, running, taken, flow>>
      /\ UNCHANGED <<open, text, returnValue, page>>
  BY DEF ApplyLate, queue, dialog
<1>3. TypeOK'
  BY <1>1, <1>2 DEF ControlsInv, TypeOK
<1>4. ServiceIsBehind' /\ OnlyLateGoesBack
  BY <1>1, <1>2 DEF ControlsInv, ServiceIsBehind, OnlyLateGoesBack
<1> QED BY <1>2, <1>3, <1>4 DEF ControlsInv, NobodyWaitsInVain, PendingIsNewest, OneWorker, Busy,
           ClicksDoNotSlide, IdleIsBlank

\* A listener that is answered keeps what it does, and waits no longer.
LEMMA AnswerEndsTheWait ==
  ASSUME TypeOK, NEW f \in Flows, NEW how
  PROVE  /\ Answered(f, how) \in FlowStates
         /\ Answered(f, how).at \in {"request", "reconcile", "done"}
         /\ Answered(f, how).does = flow[f].does
         /\ Answered(f, how).value = flow[f].value
<1>1. flow[f] \in FlowStates
  BY DEF TypeOK
<1>2. CASE returnValue' = "confirm"
  <2> DEFINE approved == how = "confirm" /\ text = Topic(f)
             at == IF Unsent(flow[f].does) THEN "done" ELSE "request"
  <2>1. Answered(f, how) =
          [flow[f] EXCEPT !.confirmed = TRUE, !.approved = approved, !.at = at]
    BY <1>2 DEF Answered
  <2>2. approved \in BOOLEAN /\ at \in {"done", "request"}
    OBVIOUS
  <2> HIDE DEF approved, at
  <2> QED BY <1>1, <2>1, <2>2 DEF FlowStates
<1>3. CASE returnValue' # "confirm"
  BY <1>1, <1>3 DEF Answered, FlowStates
<1> QED BY <1>2, <1>3

LEMMA CloseKeepsControlsInv ==
  ASSUME ControlsInv, NEW how \in {"confirm", "cancel", "escape"}, Close(how)
  PROVE  ControlsInv'
<1>1. /\ open' = FALSE /\ text' = "none"
      /\ UNCHANGED <<chosen, pending, timer, running, taken>>
      /\ UNCHANGED <<applied, late, page>>
  BY DEF Close, queue, service
<1>2. \A f \in Flows :
        flow'[f] = IF flow[f].at = "dialog" THEN Answered(f, how) ELSE flow[f]
  BY DEF Close
<1>3. \A f \in Flows :
        /\ flow'[f] \in FlowStates
        /\ flow'[f].at # "dialog"
        /\ flow'[f].does = flow[f].does
        /\ flow'[f].value = flow[f].value
        /\ flow'[f].at = "idle" => flow'[f] = flow[f]
        /\ flow[f].at = "idle" => flow'[f] = flow[f]
  BY <1>2, AnswerEndsTheWait DEF ControlsInv, TypeOK
<1>4. TypeOK'
  <2>1. flow' \in [Flows -> FlowStates]
    BY <1>3 DEF Close
  <2>2. returnValue' \in {"unset", "confirm", "cancel"}
    BY DEF Close, ControlsInv, TypeOK
  <2> QED BY <1>1, <2>1, <2>2 DEF ControlsInv, TypeOK
<1>5. NobodyWaitsInVain' /\ ClicksDoNotSlide' /\ IdleIsBlank'
  BY <1>3 DEF ControlsInv, NobodyWaitsInVain, ClicksDoNotSlide, IdleIsBlank, Flows
<1>6. PendingIsNewest' /\ ServiceIsBehind'
  BY <1>1 DEF ControlsInv, PendingIsNewest, ServiceIsBehind
<1>7. OneWorker'
  <2>1. Idle.at = "idle"
    BY DEF Idle, Task
  <2>2. Busy' \subseteq Busy
    BY <1>3, <2>1 DEF Busy, Flows
  <2> QED BY <1>1, <1>3, <2>2 DEF ControlsInv, OneWorker, Busy, Flows
<1> QED BY <1>4, <1>5, <1>6, <1>7 DEF ControlsInv

-----------------------------------------------------------------------------
(* The controls: what holds throughout.                                    *)

\* Every step keeps the invariant, and applies an earlier choice only late.
LEMMA NextKeepsControlsInv ==
  ASSUME ControlsInv, [Next]_vars
  PROVE  ControlsInv' /\ OnlyLateGoesBack
<1>1. applied' = applied => OnlyLateGoesBack
  BY Numbers DEF ControlsInv, OnlyLateGoesBack
<1>2. CASE Input
  BY <1>1, <1>2, InputKeepsControlsInv DEF Input, service
<1>3. CASE Push
  BY <1>1, <1>3, PushKeepsControlsInv DEF Push, service
<1>4. CASE Closing
  BY <1>1, <1>4, CloseKeepsControlsInv DEF Closing, Close, service
<1>5. ASSUME NEW f \in Clicks, ClickMode(f) \/ ClickCalibration(f)
      PROVE  ControlsInv' /\ OnlyLateGoesBack
  BY <1>1, <1>5, ClickKeepsControlsInv DEF ClickMode, ClickCalibration, service
<1>6. ASSUME NEW w \in Workers, Fire(w)
      PROVE  ControlsInv' /\ OnlyLateGoesBack
  BY <1>1, <1>6, FireKeepsControlsInv DEF Fire, service
<1>7. ASSUME NEW f \in Flows, Step(f)
      PROVE  ControlsInv' /\ OnlyLateGoesBack
  <2>1. CASE Finish(f)
    BY <1>1, <2>1, FinishKeepsControlsInv DEF Finish, service
  <2>2. CASE Serve(f) \/ Receive(f) \/ Reconcile(f)
    BY <2>2, AwaitKeepsControlsInv
  <2> QED BY <1>7, <2>1, <2>2 DEF Step
<1>8. CASE UNCHANGED vars
  <2>1. /\ UNCHANGED <<chosen, pending, timer, running, taken>>
        /\ UNCHANGED <<applied, late, flow, page>>
        /\ UNCHANGED <<open, text, returnValue>>
    BY <1>8 DEF vars, queue, service, dialog
  <2> QED BY <1>1, <2>1 DEF ControlsInv, TypeOK, NobodyWaitsInVain, PendingIsNewest, OneWorker,
             Busy, ClicksDoNotSlide, IdleIsBlank, ServiceIsBehind
<1>9. CASE ApplyLate
  BY <1>9, ApplyLateKeepsControlsInv
<1> QED BY <1>2, <1>3, <1>4, <1>5, <1>6, <1>7, <1>8, <1>9 DEF Next

\* The invariant holds throughout.
LEMMA ControlsInvariance == Spec => []ControlsInv
<1>1. Init => ControlsInv
  BY InitControlsInv
<1>2. ControlsInv /\ [Next]_vars => ControlsInv'
  BY NextKeepsControlsInv
<1> QED BY <1>1, <1>2, PTL DEF Spec

\* The controls have their types.
LEMMA ControlsTypes == Spec => []TypeOK
<1>1. ControlsInv => TypeOK
  BY DEF ControlsInv
<1> QED BY <1>1, ControlsInvariance, PTL

\* Whoever waits for an answer of the dialog has an open dialog to answer, for
\* any number of handlers and of questions that meet in it (confirmAction).
THEOREM NobodyIsLeftWaiting == Spec => []NobodyWaitsInVain
<1>1. ControlsInv => NobodyWaitsInVain
  BY DEF ControlsInv
<1> QED BY <1>1, ControlsInvariance, PTL

\* The server goes back to an earlier position of the slider only by a request
\* of which the page was told that it failed, for any number of choices and of
\* calls that could be under way (coalesce).
THEOREM SliderIsAppliedInOrder == Spec => AppliedInOrder
<1>1. ControlsInv /\ [Next]_vars => [applied' < applied => applied' \in late]_vars
  BY NextKeepsControlsInv DEF OnlyLateGoesBack
<1> QED BY <1>1, ControlsInvariance, PTL DEF Spec, AppliedInOrder

\* A step of the page is a step of Latest, or none: coalesce starts one worker
\* at a time, with the last of the choices, and later ones only.
LEMMA StepsOfLatest ==
  ASSUME ControlsInv, [Next]_vars
  PROVE  [Coalesced!Next]_(Coalesced!vars)
<1>1. CASE Input
  BY <1>1 DEF Input, Coalesced!Next, Coalesced!Choose
<1>2. CASE Push \/ Closing \/ ApplyLate
  BY <1>2 DEF Push, Closing, Close, ApplyLate, queue, Coalesced!vars
<1>3. ASSUME NEW f \in Clicks, ClickMode(f) \/ ClickCalibration(f)
      PROVE  UNCHANGED Coalesced!vars
  BY <1>3 DEF ClickMode, ClickCalibration, queue, Coalesced!vars
<1>4. ASSUME NEW w \in Workers, Fire(w)
      PROVE  [Coalesced!Next]_(Coalesced!vars)
  <2>1. CASE running \/ pending = 0
    BY <1>4, <2>1 DEF Fire, Coalesced!vars
  <2>2. CASE ~(running \/ pending = 0)
    <3>1. ~running /\ running' = TRUE /\ taken' = pending /\ chosen' = chosen
      BY <1>4, <2>2 DEF Fire
    <3>2. pending = chosen /\ taken < chosen
      BY <2>2 DEF ControlsInv, PendingIsNewest
    <3> QED BY <3>1, <3>2 DEF Coalesced!Next, Coalesced!Take
  <2> QED BY <2>1, <2>2
<1>5. ASSUME NEW f \in Flows, Step(f)
      PROVE  [Coalesced!Next]_(Coalesced!vars)
  <2>1. CASE Finish(f)
    <3>1. UNCHANGED <<chosen, taken>>
      BY <2>1 DEF Finish
    <3>2. CASE f \in Workers
      <4>1. flow[f] # Idle
        BY <2>1 DEF Finish, Idle, Task
      <4>2. running
        BY <3>2, <4>1 DEF ControlsInv, OneWorker, Busy
      <4>3. running' = FALSE
        BY <2>1, <3>2 DEF Finish
      <4> QED BY <3>1, <4>2, <4>3 DEF Coalesced!Next, Coalesced!Finish
    <3>3. CASE f \notin Workers
      BY <2>1, <3>1, <3>3 DEF Finish, Coalesced!vars
    <3> QED BY <3>2, <3>3
  <2>2. CASE Serve(f) \/ Receive(f) \/ Reconcile(f)
    BY <2>2, AwaitKeepsControlsInv DEF queue, Coalesced!vars
  <2> QED BY <1>5, <2>1, <2>2 DEF Step
<1>6. CASE UNCHANGED vars
  BY <1>6 DEF vars, queue, Coalesced!vars
<1> QED BY <1>1, <1>2, <1>3, <1>4, <1>5, <1>6 DEF Next

\* The slider implements the safety part of Latest (coalesce).
THEOREM SliderRefinesLatest == Spec => Coalesced!Safety
<1>1. Init => Coalesced!Init
  BY DEF Init, Coalesced!Init
<1>2. ControlsInv /\ [Next]_vars => [Coalesced!Next]_(Coalesced!vars)
  BY StepsOfLatest
<1> QED BY <1>1, <1>2, ControlsInvariance, PTL DEF Spec, Coalesced!Safety

-----------------------------------------------------------------------------
(* The session.                                                            *)

\* Only the socket in the variable can be connecting or open.
LiveIsLatest == \A s \in Sockets : Session!Live(s) => s = socket

\* A page that shows the app, or waits to connect anew, is authenticated.
AuthenticatedWhenNeeded == screen = "app" \/ retry => authenticated

SessionInv == Session!TypeOK /\ LiveIsLatest /\ AuthenticatedWhenNeeded /\ Session!NeverDeaf

\* The invariant holds of the page that boots.
LEMMA InitSessionInv == Session!Init => SessionInv
BY DEF Session!Init, SessionInv, Session!TypeOK, LiveIsLatest, Session!Live, AuthenticatedWhenNeeded, Session!NeverDeaf

\* Closing leaves no socket live and forgets none whose event is to come.
LEMMA ClosedKeeps ==
  ASSUME SessionInv
  PROVE  /\ Session!Closed \in [Sockets -> {"free", "closing", "gone"}]
         /\ \A s \in Sockets : state[s] # "free" => Session!Closed[s] # "free"
BY DEF Session!Closed, SessionInv, Session!TypeOK, LiveIsLatest, Session!Live

\* What showLogin leaves behind.
LEMMA ShowLoginKeepsSessionInv ==
  ASSUME SessionInv, Session!ShowLogin, call' \in [Calls -> {"nothing", "boot", "sign in", "load",
                                                "action", "reconcile", "sign out"}]
  PROVE  SessionInv'
<1>1. /\ state' = Session!Closed /\ socket' = None /\ retry' = FALSE
      /\ screen' = "login" /\ authenticated' = FALSE /\ stray' = FALSE
  BY DEF Session!ShowLogin, Session!CloseSocket
<1>2. Session!TypeOK'
  BY <1>1, ClosedKeeps DEF Session!TypeOK
<1>3. LiveIsLatest'
  BY <1>1, ClosedKeeps DEF LiveIsLatest, Session!Live
<1> QED BY <1>1, <1>2, <1>3 DEF SessionInv, AuthenticatedWhenNeeded, Session!NeverDeaf

\* What connectSocket leaves behind on a page that is authenticated.
LEMMA ConnectKeepsSessionInv ==
  ASSUME SessionInv, Session!ConnectSocket, authenticated' = TRUE, screen' \in {"login", "app"},
         call' \in [Calls -> {"nothing", "boot", "sign in", "load",
                              "action", "reconcile", "sign out"}]
  PROVE  SessionInv'
<1>1. PICK s \in Sockets :
        /\ Session!Closed[s] = "free"
        /\ state' = [Session!Closed EXCEPT ![s] = "connecting"]
        /\ socket' = s /\ retry' = FALSE /\ stray' = FALSE
  BY DEF Session!ConnectSocket, Session!ConnectOver
<1>2. Session!TypeOK'
  BY <1>1, ClosedKeeps DEF Session!TypeOK
<1>3. LiveIsLatest'
  BY <1>1, ClosedKeeps DEF LiveIsLatest, Session!Live
<1>4. Session!NeverDeaf'
  BY <1>1, ClosedKeeps DEF Session!NeverDeaf
<1>5. AuthenticatedWhenNeeded'
  BY DEF AuthenticatedWhenNeeded
<1> QED BY <1>2, <1>3, <1>4, <1>5 DEF SessionInv

\* Answers, by what they do to the page.
LEMMA CallsKeepSessionInv ==
  ASSUME SessionInv, NEW c \in Calls, Session!Submit(c) \/ Session!Answer(c)
  PROVE  SessionInv'
<1>1. call' \in [Calls -> {"nothing", "boot", "sign in", "load",
                           "action", "reconcile", "sign out"}]
  BY DEF Session!Submit, Session!Answer, Session!Granted, Session!Loaded, Session!Updated, Session!Denied, Session!SignedOut, Session!Erred, Session!Goes, SessionInv, Session!TypeOK
<1>2. CASE Session!ShowLogin
  BY <1>1, <1>2, ShowLoginKeepsSessionInv
<1>3. CASE Session!Loaded(c)
  BY <1>1, <1>3, ConnectKeepsSessionInv DEF Session!Loaded, Session!ShowApp
<1>4. CASE Session!Updated(c)
  BY <1>1, <1>4 DEF Session!Updated, Session!ShowApp, Session!connection, SessionInv, Session!TypeOK, LiveIsLatest, Session!Live,
     AuthenticatedWhenNeeded, Session!NeverDeaf
<1>5. CASE Session!Granted(c)
  BY <1>1, <1>5 DEF Session!Granted, Session!connection, SessionInv, Session!TypeOK, LiveIsLatest, Session!Live,
     AuthenticatedWhenNeeded, Session!NeverDeaf
<1>6. CASE UNCHANGED <<screen, authenticated, Session!connection, stray>>
  BY <1>1, <1>6 DEF Session!connection, SessionInv, Session!TypeOK, LiveIsLatest, Session!Live,
     AuthenticatedWhenNeeded, Session!NeverDeaf
<1> QED
  BY <1>2, <1>3, <1>4, <1>5, <1>6 DEF Session!Submit, Session!Answer, Session!Denied, Session!SignedOut, Session!Erred

\* The events of a socket.
LEMMA SocketKeepsSessionInv ==
  ASSUME SessionInv, NEW s \in Sockets, Session!Open(s) \/ Session!Fail(s) \/ Session!Message(s) \/ Session!CloseEvent(s)
  PROVE  SessionInv'
<1>1. CASE Session!Open(s)
  BY <1>1 DEF Session!Open, SessionInv, Session!TypeOK, LiveIsLatest, Session!Live, AuthenticatedWhenNeeded, Session!NeverDeaf
<1>2. CASE Session!Fail(s)
  BY <1>2 DEF Session!Fail, SessionInv, Session!TypeOK, LiveIsLatest, Session!Live, AuthenticatedWhenNeeded, Session!NeverDeaf
<1>3. CASE Session!Message(s)
  BY <1>3 DEF Session!Message, Session!ShowApp, Session!connection, SessionInv, Session!TypeOK, LiveIsLatest, Session!Live,
     AuthenticatedWhenNeeded, Session!NeverDeaf
<1>4. CASE Session!CloseEvent(s)
  BY <1>4 DEF Session!CloseEvent, SessionInv, Session!TypeOK, LiveIsLatest, Session!Live, AuthenticatedWhenNeeded, Session!NeverDeaf
<1> QED BY <1>1, <1>2, <1>3, <1>4

\* The invariant holds throughout.
LEMMA SessionInvariance == Session!Spec => []SessionInv
<1>1. SessionInv /\ [Session!Next]_(Session!vars) => SessionInv'
  <2> SUFFICES ASSUME SessionInv, [Session!Next]_(Session!vars) PROVE SessionInv'
    OBVIOUS
  <2>1. CASE Session!Retry
    BY <2>1, ConnectKeepsSessionInv DEF Session!Retry, SessionInv, Session!TypeOK
  <2>2. CASE UNCHANGED Session!vars
    BY <2>2 DEF Session!vars, Session!connection, SessionInv, Session!TypeOK, LiveIsLatest, Session!Live,
       AuthenticatedWhenNeeded, Session!NeverDeaf
  <2> QED BY <2>1, <2>2, CallsKeepSessionInv, SocketKeepsSessionInv DEF Session!Next
<1> QED BY <1>1, InitSessionInv, PTL DEF Session!Spec

\* The page never holds two sockets open, however late the close events of
\* those it has replaced are (connectSocket).
THEOREM SocketsDoNotPileUp == Session!Spec => []OneLiveSocket
<1>1. SessionInv => OneLiveSocket
  BY DEF SessionInv, LiveIsLatest, OneLiveSocket, Session!OneLiveSocket
<1> QED BY <1>1, SessionInvariance, PTL

\* A page that shows the app has a socket, or an event or a timer to come that
\* opens one, but for an app that a late answer brought back (the close event).
THEOREM PageComesBack == Session!Spec => []NeverDeaf
<1>1. SessionInv => NeverDeaf
  BY DEF SessionInv, NeverDeaf
<1> QED BY <1>1, SessionInvariance, PTL

-----------------------------------------------------------------------------
(* The two beside one another.                                             *)

\* A behaviour of one of them is one of each, the other at rest.
LEMMA EachByItself == AnySpec => Spec /\ Session!Spec
<1>1. AnyInit => Init /\ Session!Init
  BY DEF AnyInit
<1>2. [AnyNext]_<<which, vars, session>> => [Next]_vars
  BY DEF AnyNext
<1>3. [AnyNext]_<<which, vars, session>> => [Session!Next]_(Session!vars)
  BY DEF AnyNext, session, Session!vars, Session!connection
<1> QED BY <1>1, <1>2, <1>3, PTL DEF AnySpec, Spec, Session!Spec

\* Every variable of the page keeps its type.
THEOREM TypesAreRight == AnySpec => []TypesOK
<1>1. ControlsInv /\ SessionInv => TypesOK
  BY DEF ControlsInv, SessionInv, TypesOK
<1> QED BY <1>1, EachByItself, ControlsInvariance, SessionInvariance, PTL

\* What is promised of each of them is kept where they run beside one another.
THEOREM AllTogether ==
  AnySpec => [](NobodyWaitsInVain /\ OneLiveSocket /\ NeverDeaf) /\ AppliedInOrder
<1> DEFINE InOrder == AppliedInOrder
<1>1. Spec => InOrder
  BY SliderIsAppliedInOrder
<1> HIDE DEF InOrder
<1>2. AnySpec => [](NobodyWaitsInVain /\ OneLiveSocket /\ NeverDeaf) /\ InOrder
  BY <1>1, EachByItself, NobodyIsLeftWaiting, SocketsDoNotPileUp, PageComesBack, PTL
<1> QED BY <1>2 DEF InOrder
=============================================================================
