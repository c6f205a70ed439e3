---------------------------- MODULE PageSession ----------------------------
(***************************************************************************)
(* The session of the page: which of its two screens it shows, whether it  *)
(* takes itself for authenticated, and its WebSocket with the retry timer. *)
(* Source: internal/ui/dist/app.js.                                        *)
(*                                                                         *)
(* A step is what the page runs between two awaits or events.  An answer   *)
(* is "ok", "denied" (401, or 403 before the first setup, on which api()   *)
(* shows the login screen) or "error", which may come for any request: a   *)
(* session can end at any moment, and was checked when the request came.   *)
(***************************************************************************)
CONSTANTS
    Calls,    \* handlers that may await an answer at the same time
    Sockets,  \* sockets whose close event has not come, at most
    None

VARIABLES
    screen,         \* "login" or "app", whichever is not hidden
    authenticated,
    socket,         \* the variable, which may hold a socket long closed
    state,          \* of every socket: "closing" after close() and "gone"
                    \* after a failure, until the close event
    retry,          \* the timer of socketRetry is set
    call,           \* what each handler has asked for
    stray           \* history: the app was brought back by an answer that
                    \* came after the login screen, and has no socket yet

connection == <<socket, state, retry>>
vars == <<screen, authenticated, connection, call, stray>>

TypeOK ==
    /\ screen \in {"login", "app"}
    /\ authenticated \in BOOLEAN
    /\ socket \in Sockets \cup {None}
    /\ state \in [Sockets -> {"free", "connecting", "open", "closing", "gone"}]
    /\ retry \in BOOLEAN
    /\ call \in [Calls -> {"nothing", "boot", "sign in", "load", "action",
                           "reconcile", "sign out"}]
    /\ stray \in BOOLEAN

\* boot has asked for the state.
Init ==
    /\ screen = "login"
    /\ authenticated = TRUE
    /\ socket = None
    /\ state = [s \in Sockets |-> "free"]
    /\ retry = FALSE
    /\ \E boot \in Calls : call = [c \in Calls |-> IF c = boot THEN "boot" ELSE "nothing"]
    /\ stray = FALSE

Live(s) == state[s] \in {"connecting", "open"}

\* closeSocket, of which the handler of the close event is not taken away:
\* setting onclose does nothing to a listener that was added.
Closed == [s \in Sockets |-> IF s = socket /\ Live(s) THEN "closing" ELSE state[s]]

CloseSocket ==
    /\ state' = Closed
    /\ socket' = None
    /\ retry' = FALSE

ConnectOver(before) ==
    \E s \in Sockets :
        /\ before[s] = "free"
        /\ state' = [before EXCEPT ![s] = "connecting"]
        /\ socket' = s
        /\ retry' = FALSE
        /\ stray' = FALSE

\* connectSocket of a page that is authenticated.
ConnectSocket == ConnectOver(Closed)

ShowLogin ==
    /\ screen' = "login"
    /\ authenticated' = FALSE
    /\ stray' = FALSE
    /\ CloseSocket

\* showApp, with which acceptState begins.
ShowApp ==
    /\ screen' = "app"
    /\ authenticated' = TRUE

-----------------------------------------------------------------------------
(* The user and the answers                                                *)

Goes(c, on) == call' = [call EXCEPT ![c] = on]

\* A button or a slider of the app, or one of the two forms of the login
\* screen.  A form disables its button, but the forms may change places.
Submit(c) ==
    /\ call[c] = "nothing"
    /\ \/ screen = "app" /\ (Goes(c, "action") \/ Goes(c, "sign out"))
       \/ screen = "login" /\ Goes(c, "sign in")
    /\ UNCHANGED <<screen, authenticated, connection, stray>>

\* The session is granted, and its handler goes on to load the state.
Granted(c) ==
    /\ call[c] = "sign in"
    /\ authenticated' = TRUE
    /\ Goes(c, "load")
    /\ UNCHANGED <<screen, connection, stray>>

\* boot or a form has its state.
Loaded(c) ==
    /\ call[c] \in {"boot", "load"}
    /\ ShowApp
    /\ ConnectSocket
    /\ Goes(c, "nothing")

\* acceptState, whatever the page shows by now.
Updated(c) ==
    /\ call[c] \in {"action", "reconcile"}
    /\ ShowApp
    /\ stray' = (stray \/ screen = "login")
    /\ Goes(c, "nothing")
    /\ UNCHANGED connection

\* After an error an action is reconciled, also if it was denied.
Denied(c) ==
    /\ call[c] # "nothing"
    /\ ShowLogin
    /\ Goes(c, IF call[c] = "action" THEN "reconcile" ELSE "nothing")

\* The logout shows the login screen, whatever was answered.
SignedOut(c) ==
    /\ call[c] = "sign out"
    /\ ShowLogin
    /\ Goes(c, "nothing")

\* An error leaves a form's page as authenticated as the handler made it.
Erred(c) ==
    /\ call[c] \notin {"nothing", "sign out"}
    /\ Goes(c, IF call[c] = "action" THEN "reconcile" ELSE "nothing")
    /\ IF call[c] = "boot"
         THEN ShowLogin
         ELSE UNCHANGED <<screen, authenticated, connection, stray>>

Answer(c) ==
    Granted(c) \/ Loaded(c) \/ Updated(c) \/ Denied(c) \/ SignedOut(c) \/ Erred(c)

-----------------------------------------------------------------------------
(* The socket                                                              *)

Open(s) ==
    /\ state[s] = "connecting"
    /\ state' = [state EXCEPT ![s] = "open"]
    /\ retry' = FALSE
    /\ UNCHANGED <<screen, authenticated, socket, call, stray>>

\* Refused, reset, closed by the service, or lost.
Fail(s) ==
    /\ Live(s)
    /\ state' = [state EXCEPT ![s] = "gone"]
    /\ UNCHANGED <<screen, authenticated, socket, retry, call, stray>>

Message(s) ==
    /\ state[s] = "open"
    /\ ShowApp
    /\ UNCHANGED <<connection, call, stray>>

\* Mutant: the timer is cleared first, and set only for the latest socket.
CloseEventOfLatest(s) ==
    /\ state[s] \in {"closing", "gone"}
    /\ state' = [state EXCEPT ![s] = "free"]
    /\ retry' = (authenticated /\ s = socket)
    /\ UNCHANGED <<screen, authenticated, socket, call, stray>>

\* The close event, of whichever socket it is.  The service never closes
\* with code 1008, for which the page would show the login screen.
CloseEvent(s) ==
    /\ state[s] \in {"closing", "gone"}
    /\ state' = [state EXCEPT ![s] = "free"]
    /\ retry' = (authenticated \/ retry)
    /\ UNCHANGED <<screen, authenticated, socket, call, stray>>

\* Mutant: the socket is replaced without being closed.
RetryKeepsSocket ==
    /\ retry
    /\ authenticated
    /\ ConnectOver(state)
    /\ UNCHANGED <<screen, authenticated, call>>

\* The timer calls connectSocket, whose guard holds whenever the timer is set.
Retry ==
    /\ retry
    /\ authenticated
    /\ ConnectSocket
    /\ UNCHANGED <<screen, authenticated, call>>

-----------------------------------------------------------------------------

Next ==
    \/ \E c \in Calls : Submit(c) \/ Answer(c)
    \/ \E s \in Sockets : Open(s) \/ Fail(s) \/ Message(s) \/ CloseEvent(s)
    \/ Retry

Spec == Init /\ [][Next]_vars

-----------------------------------------------------------------------------
(* Properties                                                              *)

\* The page never holds two sockets open, although the close event of one it
\* has replaced comes late and makes it connect anew (connectSocket).
OneLiveSocket == \A s, t \in Sockets : Live(s) /\ Live(t) => s = t

\* A page that shows the app has a socket, or an event or a timer to come that
\* opens one, whichever sockets and requests end meanwhile (the close event);
\* but for an app that a late answer brought back after the login screen.
NeverDeaf == screen = "app" /\ ~stray => retry \/ \E s \in Sockets : state[s] # "free"
=============================================================================
