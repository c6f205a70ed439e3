------------------------------- MODULE Panel -------------------------------
(***************************************************************************)
(* How a state of the hardware reaches the browsers: the WebSocket hub,    *)
(* the telemetry ticker, the handlers that answer a read or a write, the   *)
(* connections in between, and the process that may end and start again.   *)
(* Sources: internal/server/websocket.go, internal/server/server.go,       *)
(* cmd/phnctl/main.go, and internal/ui/dist/app.js for the browser.        *)
(*                                                                         *)
(* The hardware is a counter of its changes.  The controller's mutex makes *)
(* a snapshot, or a write with its read-back, one step (see Controller for *)
(* what a snapshot holds); it is sent later, under other locks, so several *)
(* senders may carry states of different moments to the same client.       *)
(***************************************************************************)
EXTENDS Naturals, SequencesExt

CONSTANTS
    Browsers,   \* browsers with the page open and a valid session
    Conns,      \* connections that may exist at a time
    Ticker,     \* the goroutine of RunTelemetry
    Capacity,   \* frames that fit into the buffers of a connection
    MaxInputs,  \* bound: changes of the hardware, and requests of pages
    MaxFaults,  \* bound: connections that fail, late reads, process ends
    None

ASSUME PanelAssumption ==
    /\ IsFiniteSet(Conns)
    /\ Ticker \notin Browsers \cup Conns
    /\ Browsers \cap Conns = {}
    /\ None \notin Conns \cup Nat
    /\ Capacity \in Nat \ {0}
    /\ MaxInputs \in Nat
    /\ MaxFaults \in Nat

Senders == {Ticker} \cup Browsers \cup Conns

VARIABLES
    version,  \* the state of the hardware
    inputs, faults, \* how many of each there were
    proc,     \* "up", "stopping" (after SIGTERM), "down"
    pc,       \* of the ticker, of the request each browser has made, and of
              \* the handler and then the read loop of each connection
    payload,  \* the state a sender has read
    todo,     \* the clients a broadcast has yet to write to
    clients,  \* hub.clients
    link,     \* "up"; "lost": nothing passes any more; "ended": reset, or
              \* closed by the browser; "closed": by the server
    queue,    \* frames written to a connection and not yet read
    sock,     \* the socket of each browser, None while it waits to reconnect
    answer,   \* the HTTP answer under way to each browser
    shown,    \* the state each page shows
    clean,    \* history: no older state was under way when the ticker read
    floor     \* history: what the last clean tick carried

server == <<proc, pc, payload, todo, clients>>
network == <<link, queue>>
pages == <<sock, answer, shown>>
history == <<clean, floor>>
events == <<inputs, faults>>
vars == <<version, events, server, network, pages, history>>

States == 0..MaxInputs

TypeOK ==
    /\ version \in States
    /\ inputs \in 0..MaxInputs
    /\ faults \in 0..MaxFaults
    /\ proc \in {"up", "stopping", "down"}
    /\ pc \in [Senders -> {"idle", "apply", "snapshot", "copy", "send", "reply",
                           "upgrade", "first", "reading"}]
    /\ payload \in [Senders -> States]
    /\ todo \in [Senders -> Seq(Conns)]
    /\ clients \subseteq Conns
    /\ link \in [Conns -> {"up", "lost", "ended", "closed"}]
    /\ queue \in [Conns -> Seq(States)]
    /\ \A k \in Conns : Len(queue[k]) <= Capacity
    /\ sock \in [Browsers -> Conns \cup {None}]
    /\ answer \in [Browsers -> States \cup {None}]
    /\ shown \in [Browsers -> States]
    /\ clean \in BOOLEAN
    /\ floor \in States

\* The page has loaded a state and is about to open its socket.
Init ==
    /\ version = 0
    /\ inputs = 0
    /\ faults = 0
    /\ proc = "up"
    /\ pc = [s \in Senders |-> "idle"]
    /\ payload = [s \in Senders |-> 0]
    /\ todo = [s \in Senders |-> <<>>]
    /\ clients = {}
    /\ link = [k \in Conns |-> "closed"]
    /\ queue = [k \in Conns |-> <<>>]
    /\ sock = [b \in Browsers |-> None]
    /\ answer = [b \in Browsers |-> None]
    /\ shown = [b \in Browsers |-> 0]
    /\ clean = FALSE
    /\ floor = 0

Input ==
    /\ inputs < MaxInputs
    /\ inputs' = inputs + 1
    /\ UNCHANGED faults

Fault ==
    /\ faults < MaxFaults
    /\ faults' = faults + 1
    /\ UNCHANGED inputs

-----------------------------------------------------------------------------
(* Frames and the hub                                                      *)

Full(k) == Len(queue[k]) >= Capacity

\* Mutant: frames are buffered without a bound, and nothing waits.
AcceptsAll(k, frame) ==
    /\ link[k] # "closed"
    /\ queue' = [queue EXCEPT ![k] = Append(@, frame)]
    /\ UNCHANGED <<link, events>>

\* writeFrame succeeds: the buffers take the frame, whether or not the
\* other end is still there.
Accepts(k, frame) ==
    /\ link[k] # "closed"
    /\ ~Full(k)
    /\ queue' = [queue EXCEPT ![k] = Append(@, frame)]
    /\ UNCHANGED <<link, events>>

\* writeFrame fails: the connection is known to be gone, or nothing was read
\* from it for the five seconds of the deadline; for a browser that is
\* there, being that slow is a fault.
Fails(k) ==
    /\ link[k] \in {"ended", "closed"} \/ Full(k)
    /\ IF link[k] = "up" THEN Fault ELSE UNCHANGED events
    /\ UNCHANGED queue

\* Mutant: the entry is deleted and the connection stays open.
UnregisterKeepsOpen(k) ==
    /\ clients' = clients \ {k}
    /\ UNCHANGED link

\* hub.remove: the entry is deleted and the connection closed.
Unregister(k) ==
    /\ clients' = clients \ {k}
    /\ link' = IF k \in clients THEN [link EXCEPT ![k] = "closed"] ELSE link

\* What a broadcast does after it has written to a client.
Continue(s, rest) ==
    /\ todo' = [todo EXCEPT ![s] = rest]
    /\ pc' = [pc EXCEPT ![s] =
                IF rest # <<>> THEN "send" ELSE IF s = Ticker THEN "idle" ELSE "reply"]
    /\ IF s = Ticker /\ rest = <<>>
         THEN /\ floor' = IF clean THEN payload[s] ELSE floor
              /\ clean' = FALSE
              /\ payload' = [payload EXCEPT ![s] = 0]
         ELSE UNCHANGED <<floor, clean, payload>>
    /\ UNCHANGED proc

\* broadcast copies the clients, in any order, before it writes.
Copy(s) ==
    /\ pc[s] = "copy"
    /\ \E order \in SetToSeqs(clients) : Continue(s, order)
    /\ UNCHANGED <<version, events, clients, network, pages>>

\* Mutant: a client that did not take its frame in time stays registered.
SendDropsFrame(s) ==
    /\ pc[s] = "send"
    /\ LET k == Head(todo[s]) IN
         \/ Accepts(k, payload[s]) /\ UNCHANGED clients
         \/ Fails(k) /\ UNCHANGED <<clients, link>>
    /\ Continue(s, Tail(todo[s]))
    /\ UNCHANGED <<version, pages>>

\* One writeFrame of a broadcast; the clients after it wait for it.
Send(s) ==
    /\ pc[s] = "send"
    /\ LET k == Head(todo[s]) IN
         \/ Accepts(k, payload[s]) /\ UNCHANGED clients
         \/ Fails(k) /\ Unregister(k)
    /\ Continue(s, Tail(todo[s]))
    /\ UNCHANGED <<version, pages>>

-----------------------------------------------------------------------------
(* The senders                                                             *)

\* No older state than the current one is on its way to a page, except in
\* the buffer of a connection, from which it comes before what follows it.
NothingOlder ==
    /\ \A b \in Browsers : pc[b] = "idle" /\ answer[b] = None
    /\ \A k \in Conns : pc[k] # "first"

\* controller.Snapshot() of the ticker, of /api/state and of a new client.
TakeSnapshot(s) ==
    /\ pc[s] = "snapshot"
    /\ payload' = [payload EXCEPT ![s] = version]
    /\ pc' = [pc EXCEPT ![s] =
                CASE s = Ticker -> "copy" [] s \in Browsers -> "reply" [] OTHER -> "first"]
    /\ clean' = IF s = Ticker THEN NothingOlder ELSE clean
    /\ UNCHANGED <<version, events, proc, todo, clients, network, pages, floor>>

\* The ticker fires; it polls the hardware only for somebody.
Tick ==
    /\ proc = "up"
    /\ pc[Ticker] = "idle"
    /\ clients # {}
    /\ pc' = [pc EXCEPT ![Ticker] = "snapshot"]
    /\ UNCHANGED <<version, events, proc, payload, todo, clients, network, pages, history>>

\* A page sends a write, or asks for the state to reconcile itself.
Ask(b) ==
    /\ proc = "up"
    /\ pc[b] = "idle"
    /\ answer[b] = None
    /\ Input
    /\ \E first \in {"apply", "snapshot"} : pc' = [pc EXCEPT ![b] = first]
    /\ UNCHANGED <<version, proc, payload, todo, clients, network, pages, history>>

\* A setter of the controller, with its read-back.
Apply(b) ==
    /\ pc[b] = "apply"
    /\ version' = version + 1
    /\ payload' = [payload EXCEPT ![b] = version + 1]
    /\ pc' = [pc EXCEPT ![b] = "copy"]
    /\ UNCHANGED <<events, proc, todo, clients, network, pages, history>>

\* The handler returns and the answer it wrote is flushed to the browser: it
\* is smaller than the buffers of net/http, so not before the broadcast.
Reply(b) ==
    /\ pc[b] = "reply"
    /\ answer' = [answer EXCEPT ![b] = payload[b]]
    /\ pc' = [pc EXCEPT ![b] = "idle"]
    /\ payload' = [payload EXCEPT ![b] = 0]
    /\ UNCHANGED <<version, events, proc, todo, clients, network, sock, shown, history>>

-----------------------------------------------------------------------------
(* The life of a connection                                                *)

\* upgrade answers and registers the client, or fails to answer.
Upgrade(k) ==
    /\ pc[k] = "upgrade"
    /\ \/ /\ clients' = clients \cup {k}
          /\ pc' = [pc EXCEPT ![k] = "snapshot"]
          /\ UNCHANGED link
       \/ /\ link[k] # "up"
          /\ link' = [link EXCEPT ![k] = "closed"]
          /\ pc' = [pc EXCEPT ![k] = "idle"]
          /\ UNCHANGED clients
    /\ UNCHANGED <<version, events, proc, payload, todo, queue, pages, history>>

\* The first frame.  Its error is ignored: the client stays registered, and
\* a frame cut off by the deadline makes the browser give up the stream when
\* the next one follows.
FirstWrite(k) ==
    /\ pc[k] = "first"
    /\ \/ Accepts(k, payload[k])
       \/ /\ Fails(k)
          /\ link' = [link EXCEPT ![k] = IF @ = "up" THEN "ended" ELSE @]
       \/ Fails(k) /\ UNCHANGED link
    /\ pc' = [pc EXCEPT ![k] = "reading"]
    /\ payload' = [payload EXCEPT ![k] = 0]
    /\ UNCHANGED <<version, proc, todo, clients, pages, history>>

\* Mutant: the goroutine of the read loop has no deferred remove.
ReadLoopEndsOnly(k) ==
    /\ pc[k] = "reading"
    /\ link[k] # "up"
    /\ pc' = [pc EXCEPT ![k] = "idle"]
    /\ UNCHANGED <<version, events, proc, payload, todo, clients, network, pages, history>>

\* The read loop returns: close frame, reset, our own close, or its deadline
\* on a connection nothing passes through; the deferred remove follows.
ReadLoopEnds(k) ==
    /\ pc[k] = "reading"
    /\ link[k] # "up"
    /\ Unregister(k)
    /\ pc' = [pc EXCEPT ![k] = "idle"]
    /\ UNCHANGED <<version, events, proc, payload, todo, queue, pages, history>>

\* The keepalive of a page whose timers stand still misses the deadline.
KeepaliveMissed(k) ==
    /\ pc[k] = "reading"
    /\ link[k] = "up"
    /\ Fault
    /\ Unregister(k)
    /\ pc' = [pc EXCEPT ![k] = "idle"]
    /\ UNCHANGED <<version, proc, payload, todo, queue, pages, history>>

Free(k) ==
    /\ k \notin clients
    /\ pc[k] = "idle"
    /\ \A b \in Browsers : sock[b] # k
    /\ \A s \in Senders : \A i \in DOMAIN todo[s] : todo[s][i] # k

\* connectSocket, at first and when the retry timer of a close fires.  Free
\* connections are alike, so one of them stands for all.
Connect(b) ==
    /\ proc = "up"
    /\ sock[b] = None
    /\ \E k \in Conns : Free(k)
    /\ LET k == CHOOSE free \in Conns : Free(free) IN
         /\ sock' = [sock EXCEPT ![b] = k]
         /\ link' = [link EXCEPT ![k] = "up"]
         /\ queue' = [queue EXCEPT ![k] = <<>>]
         /\ pc' = [pc EXCEPT ![k] = "upgrade"]
    /\ UNCHANGED <<version, events, proc, payload, todo, clients, answer, shown, history>>

\* The close event of a socket that is gone, at the latest when its
\* keepalive is not acknowledged; what was not read is lost.
Notice(b) ==
    /\ sock[b] # None
    /\ link[sock[b]] # "up"
    /\ queue' = [queue EXCEPT ![sock[b]] = <<>>]
    /\ sock' = [sock EXCEPT ![b] = None]
    /\ UNCHANGED <<version, events, server, link, answer, shown, history>>

\* The message event: acceptState.
ReadFrame(b) ==
    /\ sock[b] # None
    /\ link[sock[b]] # "lost"
    /\ queue[sock[b]] # <<>>
    /\ shown' = [shown EXCEPT ![b] = Head(queue[sock[b]])]
    /\ queue' = [queue EXCEPT ![sock[b]] = Tail(@)]
    /\ UNCHANGED <<version, events, server, link, sock, answer, history>>

\* The await of api() continues: acceptState.
TakeAnswer(b) ==
    /\ answer[b] # None
    /\ shown' = [shown EXCEPT ![b] = answer[b]]
    /\ answer' = [answer EXCEPT ![b] = None]
    /\ UNCHANGED <<version, events, server, network, sock, history>>

-----------------------------------------------------------------------------
(* The world and the process                                               *)

Change ==
    /\ Input
    /\ version' = version + 1
    /\ UNCHANGED <<server, network, pages, history>>

\* The path of a connection breaks, silently or with a reset; a page that is
\* closed or reloaded ends its connection too.
Break(k) ==
    /\ link[k] = "up"
    /\ Fault
    /\ \E how \in {"lost", "ended"} : link' = [link EXCEPT ![k] = how]
    /\ UNCHANGED <<version, server, queue, pages, history>>

\* SIGTERM cancels the context of the ticker and begins Shutdown, which
\* closes the listener.
Terminate ==
    /\ proc = "up"
    /\ Fault
    /\ proc' = "stopping"
    /\ UNCHANGED <<version, pc, payload, todo, clients, network, pages, history>>

\* main returns as soon as ListenAndServe does, with handlers still running;
\* or the process dies.
Exit ==
    /\ proc \in {"up", "stopping"}
    /\ IF proc = "up" THEN Fault ELSE UNCHANGED events
    /\ proc' = "down"
    /\ pc' = [s \in Senders |-> "idle"]
    /\ payload' = [s \in Senders |-> 0]
    /\ todo' = [s \in Senders |-> <<>>]
    /\ clients' = {}
    /\ link' = [k \in Conns |-> "closed"]
    /\ clean' = FALSE
    /\ UNCHANGED <<version, queue, pages, floor>>

\* serve: systemd starts the service again, after a failure or as the second
\* half of a restart.
Restart ==
    /\ proc = "down"
    /\ proc' = "up"
    /\ UNCHANGED <<version, events, pc, payload, todo, clients, network, pages, history>>

-----------------------------------------------------------------------------

SenderStep(s) ==
    \/ TakeSnapshot(s)
    \/ Copy(s)
    \/ Send(s)
    \/ s = Ticker /\ Tick
    \/ s \in Browsers /\ (Apply(s) \/ Reply(s))
    \/ s \in Conns /\ (Upgrade(s) \/ FirstWrite(s) \/ ReadLoopEnds(s))

PageStep(b) == Notice(b) \/ ReadFrame(b) \/ TakeAnswer(b)

Next ==
    \/ \E s \in Senders : SenderStep(s)
    \/ \E b \in Browsers : PageStep(b) \/ Connect(b) \/ Ask(b)
    \/ \E k \in Conns : Break(k) \/ KeepaliveMissed(k)
    \/ Change
    \/ Terminate
    \/ Exit
    \/ Restart

\* Goroutines run and the ticker fires while the process lives, systemd
\* starts it again, and a browser runs its handlers and timers.  Nothing is
\* assumed of changes, requests and faults, except that a process told to
\* stop ends.
Fairness ==
    /\ \A s \in Senders : WF_vars(SenderStep(s))
    /\ \A b \in Browsers :
         /\ WF_vars(ReadFrame(b))
         /\ WF_vars(TakeAnswer(b))
         /\ WF_vars(Notice(b) \/ Connect(b))
    /\ WF_vars(Restart \/ (proc = "stopping" /\ Exit))

Spec == Init /\ [][Next]_vars /\ Fairness

-----------------------------------------------------------------------------
(* Properties                                                              *)

Attached(b) ==
    /\ sock[b] \in clients
    /\ link[sock[b]] = "up"
    /\ pc[sock[b]] = "reading"

\* Senders overtake each other, so a page may go back to an older state.  A
\* tick that read when nothing older was under way repairs that: a page that
\* is attached and has read what was sent to it then shows that tick's state
\* or a newer one, whatever failed, left or joined since.
CleanTickCatchesUp ==
    \A b \in Browsers :
        Attached(b) /\ queue[sock[b]] = <<>> => shown[b] >= floor

\* The error of the first write is ignored, and a broadcast removes clients it
\* fails to write to: still every registered client has the goroutine that
\* will remove it, and a connection nobody has registered is not kept open.
EveryClientIsAttended ==
    \A k \in Conns :
        /\ k \in clients => pc[k] \in {"snapshot", "first", "reading"}
        /\ link[k] = "up" => k \in clients \/ pc[k] = "upgrade"

\* The panel does what Display says: pages show states the hardware had and
\* come to the current one, however the connections, the process and the
\* senders behave.
Shows == INSTANCE Display
ShowsTheHardware == Shows!Spec
=============================================================================
