------------------------------- MODULE MCPage -------------------------------
(* The controls and the session of the page.  They share nothing but what  *)
(* FanControls leaves to its environment, so a behaviour is one of one of  *)
(* them, which "which" names.                                              *)
(* Two workers, of which the code runs one at a time, and one click: the   *)
(* two questions that can meet in the dialog are the slider's and that of  *)
(* a button.  Three sockets: one open, one replaced before, and one new.   *)
EXTENDS FanControls

CONSTANTS Calls, Sockets, None

VARIABLES which, screen, authenticated, socket, state, retry, call, stray

Session == INSTANCE PageSession
session == <<screen, authenticated, socket, state, retry, call, stray>>

\* The one that rests starts in one of its initial states, it matters not which.
AnyInit ==
    /\ which \in {"controls", "session"}
    /\ Init
    /\ Session!Init
    /\ which = "session" => page = CHOOSE p \in Pages : TRUE
    /\ which = "controls" =>
         call = [c \in Calls |-> IF c = CHOOSE r \in Calls : TRUE THEN "boot" ELSE "nothing"]

AnyNext ==
    /\ \/ which = "controls" /\ Next /\ UNCHANGED session
       \/ which = "session" /\ Session!Next /\ UNCHANGED vars
    /\ UNCHANGED which

\* Nothing of the controls that is treated fairly is enabled where they are
\* at rest.
AnySpec == AnyInit /\ [][AnyNext]_<<which, vars, session>> /\ Fairness

\* The types of both.
TypesOK == TypeOK /\ Session!TypeOK

\* The page never holds two sockets open: connectSocket.
OneLiveSocket == Session!OneLiveSocket

\* A page that shows the app will have a socket again: the close event.
NeverDeaf == Session!NeverDeaf
=============================================================================
