---------------------------- MODULE MCThrottles ----------------------------
(* The write limiter, the login limiter and the TLS noise filter, each     *)
(* with a clock of its own.  They share nothing, so a behaviour is one of  *)
(* one of them, which "which" names: their states add up and do not        *)
(* multiply.  A window is two units of the clock, so that a failure can be *)
(* younger than a window and not of the same instant; a second is longer   *)
(* than the interval between writes, as it is in the service.              *)
EXTENDS WriteLimiter, FiniteSets

CONSTANTS
    Addresses, LoginWindow, Limit, LoginTime,  \* of the login limiter
    NoiseWindow, MaxErrors                     \* of the noise filter

ASSUME ThrottlesAssumption ==
    /\ IsFiniteSet(Handlers)
    /\ None \notin Addresses
    /\ LoginWindow \in Nat \ {0}
    /\ Limit \in Nat \ {0}
    /\ LoginTime \in Nat
    /\ NoiseWindow \in Nat
    /\ MaxErrors \in Nat

VARIABLES
    which,
    lnow, lpc, from, lat, records, log,
    tnow, tpc, lastSeen, dropped, errors, told, lost, tried

Login == INSTANCE LoginLimiter WITH
    Window <- LoginWindow, MaxTime <- LoginTime, now <- lnow, pc <- lpc, at <- lat
Noise == INSTANCE TlsNoise WITH
    Window <- NoiseWindow, now <- tnow, pc <- tpc

login == <<lnow, lpc, from, lat, records, log>>
noise == <<tnow, tpc, lastSeen, dropped, errors, told, lost, tried>>

AnyInit ==
    /\ which \in {"login", "write", "noise"}
    /\ Init
    /\ Login!Init
    /\ Noise!Init

AnyNext ==
    /\ \/ which = "write" /\ Next /\ UNCHANGED <<login, noise>>
       \/ which = "login" /\ Login!Next /\ UNCHANGED <<vars, noise>>
       \/ which = "noise" /\ Noise!Next /\ UNCHANGED <<vars, login>>
    /\ UNCHANGED which

AnySpec == AnyInit /\ [][AnyNext]_<<which, vars, login, noise>>

\* The types of all three.
TypesOK == TypeOK /\ Login!TypeOK /\ Noise!TypeOK

\* In no window an address has more failures than the limit, but for requests
\* that passed together: loginLimiter.
WindowBound == Login!WindowBound

\* An address is refused only for failures of its own: loginLimiter.
RefusedForCause == Login!RefusedForCause

\* The limiter is the counter on which Setup is built: loginLimiter.
ImplementsAttempts == Login!ImplementsAttempts

\* Every handshake error is counted in a line or waits for one: tlsNoiseFilter.
Accounted == Noise!Accounted

\* A fault that persists is reported once a window: tlsNoiseFilter.
StaysVisible == Noise!StaysVisible
=============================================================================
