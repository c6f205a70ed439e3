---------------------------- MODULE SetupProofs ----------------------------
(***************************************************************************)
(* Theorems about Setup, for any number of concurrent requests, any names  *)
(* and passwords, any limit and any number of restarts.  IndInv is the one *)
(* inductive invariant; the proof that it is preserved has one step for    *)
(* each action of the specification.                                       *)
(***************************************************************************)
EXTENDS Setup, FiniteSetTheorems, TLAPS

\* The first state: a stopped process, an empty disk and no session.
LEMMA InitIndInv == Init => IndInv
  BY SetupAssumption
  DEF Init, IndInv, TypeOK, StoppedIsBlank, Running, TokenIffUnclaimed, TokenIsCurrent,
      StoringIsSound, FileIsWhole, AcknowledgedIsDurable, TokenFileCurrent, CookieIsOurs,
      Blank, PCs

\* Starting, announcing, crashing and the operator's edits: no request is under
\* way in any of them except the crash, which ends them all.
LEMMA ProcessKeepsIndInv ==
  ASSUME IndInv,
         Start \/ AnnounceSetupToken \/ Crash \/ SetEnvironment \/ RemoveCredentials
  PROVE  IndInv'
<1> USE SetupAssumption, MarkerAssumption
    DEF IndInv, TypeOK, StoppedIsBlank, Running, TokenIffUnclaimed, TokenIsCurrent,
        StoringIsSound, FileIsWhole, AcknowledgedIsDurable, TokenFileCurrent,
        CookieIsOurs, Blank, PCs, process, handlers, disk
<1>1. CASE Start
  BY <1>1 DEF Start, Config, ConfigError, Credentials
<1>2. CASE AnnounceSetupToken
  BY <1>2 DEF AnnounceSetupToken
<1>3. CASE Crash
  BY <1>3 DEF Crash
<1>4. CASE SetEnvironment
  BY <1>4 DEF SetEnvironment
<1>5. CASE RemoveCredentials
  BY <1>5 DEF RemoveCredentials
<1> QED BY <1>1, <1>2, <1>3, <1>4, <1>5

\* Every step of one handler leaves what the other handlers rely on: their own
\* slots, the token of this start, a complete file.
LEMMA HandlerKeepsIndInv ==
  ASSUME IndInv, NEW h \in Handlers, Submit(h) \/ Handle(h)
  PROVE  IndInv'
<1> USE SetupAssumption, MarkerAssumption
    DEF IndInv, TypeOK, StoppedIsBlank, Running, TokenIffUnclaimed, TokenIsCurrent,
        StoringIsSound, FileIsWhole, AcknowledgedIsDurable, TokenFileCurrent,
        CookieIsOurs, PCs, process, disk, Goto, Answer, Wanted
<1>1. CASE Submit(h)
  BY <1>1 DEF Submit
<1>2. CASE Allow(h)
  BY <1>2 DEF Allow
<1>3. CASE CheckSetup(h)
  BY <1>3 DEF CheckSetup
<1>4. CASE CheckLogin(h)
  BY <1>4 DEF CheckLogin
<1>5. CASE Fail(h)
  BY <1>5 DEF Fail
<1>6. CASE CreateTemp(h)
  BY <1>6 DEF CreateTemp
<1>7. CASE WriteTemp(h)
  BY <1>7 DEF WriteTemp, Requests, NoRequest, Credentials
<1>8. CASE Rename(h)
  BY <1>8 DEF Rename, Requests, NoRequest, Credentials
<1>9. CASE SaveFails(h)
  BY <1>9 DEF SaveFails
<1>10. CASE Commit(h)
  BY <1>10 DEF Commit, Requests, NoRequest
<1>11. CASE Succeed(h)
  BY <1>11 DEF Succeed, Acknowledge, Requests, NoRequest, Credentials
<1> QED BY <1>1, <1>2, <1>3, <1>4, <1>5, <1>6, <1>7, <1>8, <1>9, <1>10, <1>11 DEF Handle

\* What is left of Next touches the limiter's count or the browser's cookie.
LEMMA NextKeepsIndInv ==
  ASSUME IndInv, [Next]_vars
  PROVE  IndInv'
<1> USE DEF IndInv, TypeOK, StoppedIsBlank, Running, TokenIffUnclaimed, TokenIsCurrent,
            StoringIsSound, FileIsWhole, AcknowledgedIsDurable, TokenFileCurrent,
            CookieIsOurs, process, handlers, disk, Wanted
<1>1. CASE ForgetFailure
  BY <1>1 DEF ForgetFailure
<1>2. CASE DropCookie
  BY <1>2 DEF DropCookie
<1>3. CASE UNCHANGED vars
  BY <1>3 DEF vars
<1>4. CASE \E h \in Handlers : Submit(h) \/ Handle(h)
  BY <1>4, HandlerKeepsIndInv
<1> QED BY <1>1, <1>2, <1>3, <1>4, ProcessKeepsIndInv DEF Next

\* The inductive invariant holds in every reachable state.
THEOREM Invariance == Spec => []IndInv
<1>1. Init => IndInv
  BY InitIndInv
<1>2. IndInv /\ [Next]_vars => IndInv'
  BY NextKeepsIndInv
<1> QED BY <1>1, <1>2, PTL DEF Spec

\* Every variable keeps its type: what the handlers, the disk and the browser
\* hold is what the code can put there.
THEOREM TypeCorrect == Spec => []TypeOK
<1>1. IndInv => TypeOK
  BY DEF IndInv
<1> QED BY <1>1, Invariance, PTL

\* performSetup and New: an unclaimed panel always has a token to ask for, and a
\* claimed one none, so a request with no token cannot claim a panel.
THEOREM TokenGuardsSetup == Spec => []TokenIffUnclaimed
<1>1. IndInv => TokenIffUnclaimed
  BY DEF IndInv
<1> QED BY <1>1, Invariance, PTL

\* performSetup stores before it commits: a setup that was answered 200 survives
\* every crash.
THEOREM SetupIsDurable == Spec => []AcknowledgedIsDurable
<1>1. IndInv => AcknowledgedIsDurable
  BY DEF IndInv
<1> QED BY <1>1, Invariance, PTL

\* announceSetupToken: the operator reads the token that setup expects.
THEOREM OperatorSeesToken == Spec => []TokenFileCurrent
<1>1. IndInv => TokenFileCurrent
  BY DEF IndInv
<1> QED BY <1>1, Invariance, PTL

\* issueSession and requireAuth: a cookie of this process start is accepted.
THEOREM CookieOpens == Spec => []IssuedCookieOpens
<1>1. IndInv => IssuedCookieOpens
  BY DEF IndInv, CookieIsOurs, IssuedCookieOpens, Authorized, Running
<1> QED BY <1>1, Invariance, PTL

\* performSetup: only a bearer of this start's token decides the password that
\* is stored, whatever the requests and restarts around it.
THEOREM StoredOnlyUnderToken == Spec => StoredUnderToken
<1>1. IndInv /\ [Next]_vars =>
        [file' # file /\ file' # None =>
           \E h \in Handlers :
              /\ req[h].op = "setup" /\ req[h].token = boots
              /\ file' = [user |-> Wanted(h), hash |-> req[h].pass]]_vars
  <2> SUFFICES ASSUME IndInv, Next, file' # file, file' # None
               PROVE  \E h \in Handlers :
                         /\ req[h].op = "setup" /\ req[h].token = boots
                         /\ file' = [user |-> Wanted(h), hash |-> req[h].pass]
    OBVIOUS
  <2>1. PICK h \in Handlers : Rename(h)
    BY DEF Next, Start, AnnounceSetupToken, Crash, SetEnvironment, RemoveCredentials,
           Submit, Handle, Allow, CheckSetup, CheckLogin, Fail, CreateTemp, WriteTemp,
           SaveFails, Commit, Succeed, ForgetFailure, DropCookie, disk
  <2> QED BY <2>1 DEF Rename, IndInv, StoringIsSound
<1> QED BY <1>1, Invariance, PTL DEF Spec, StoredUnderToken

\* performSetup's re-check: while a process serves, its password is chosen once.
THEOREM ClaimedAtMostOnce == Spec => ClaimedOnce
<1>1. IndInv /\ [Next]_vars =>
        [memory.hash # None /\ proc' = "serving" => memory' = memory]_vars
  <2> SUFFICES ASSUME IndInv, Next, memory.hash # None, proc' = "serving"
               PROVE  memory' = memory
    OBVIOUS
  <2>1. ~Start
    BY DEF IndInv, StoppedIsBlank, Running, Blank, Start
  <2>2. \A h \in Handlers : Commit(h) => memory' = memory
    BY DEF Commit
  <2> QED
    BY <2>1, <2>2
    DEF Next, AnnounceSetupToken, Crash, SetEnvironment, RemoveCredentials,
        Submit, Handle, Allow, CheckSetup, CheckLogin, Fail, CreateTemp, WriteTemp,
        Rename, SaveFails, Succeed, ForgetFailure, DropCookie, process
<1> QED BY <1>1, Invariance, PTL DEF Spec, ClaimedOnce

\* SaveCredentials and loadConfig: when no user name holds the separator of the
\* session payload, no history of setups and crashes keeps the panel from starting.
THEOREM StartsAgain == ASSUME BarNames = {} PROVE Spec => []AlwaysStarts
<1>1. Init => AlwaysStarts
  BY DEF Init, AlwaysStarts
<1>2. IndInv /\ AlwaysStarts /\ [Next]_vars => AlwaysStarts'
  <2> SUFFICES ASSUME IndInv, AlwaysStarts, [Next]_vars, BarNames = {}
               PROVE  AlwaysStarts'
    OBVIOUS
  <2>1. ~ConfigError
    BY MarkerAssumption DEF IndInv, FileIsWhole, ConfigError, Config
  <2> QED
    BY <2>1
    DEF AlwaysStarts, Next, Start, AnnounceSetupToken, Crash, SetEnvironment,
        RemoveCredentials, Submit, Handle, Allow, CheckSetup, CheckLogin, Fail,
        CreateTemp, WriteTemp, Rename, SaveFails, Commit, Succeed, ForgetFailure,
        DropCookie, process, vars
<1> QED BY <1>1, <1>2, Invariance, PTL DEF Spec

-----------------------------------------------------------------------------
(* The limiter under concurrency.                                          *)

\* Fewer attempts and no more failures keep within the bound.
LEMMA BoundShrinks ==
  ASSUME TypeOK, BoundedOvershoot, failures' \in Nat,
         Attempting' \subseteq Attempting, failures' <= failures
  PROVE  BoundedOvershoot'
<1>1. IsFiniteSet(Attempting)
  BY SetupAssumption, FS_Subset DEF Attempting
<1>2. /\ Cardinality(Attempting) \in Nat
      /\ Cardinality(Attempting') \in Nat
      /\ Cardinality(Attempting') <= Cardinality(Attempting)
  BY <1>1, FS_Subset, FS_CardinalityType
<1>3. Cardinality(Handlers) \in Nat
  BY SetupAssumption, FS_CardinalityType
<1> QED BY <1>2, <1>3, SetupAssumption DEF TypeOK, BoundedOvershoot

\* A request that passes allow finds fewer than Limit failures, and no more
\* requests attempt than there are.
LEMMA AllowWithinBound ==
  ASSUME TypeOK, BoundedOvershoot, NEW h \in Handlers, Allow(h)
  PROVE  BoundedOvershoot'
<1>1. CASE failures < Limit
  <2>1. Attempting' \subseteq Handlers
    BY DEF Attempting
  <2>2. /\ Cardinality(Attempting') \in Nat /\ Cardinality(Handlers) \in Nat
        /\ Cardinality(Attempting') <= Cardinality(Handlers)
    BY <2>1, SetupAssumption, FS_Subset, FS_CardinalityType
  <2> QED BY <1>1, <2>2, SetupAssumption DEF Allow, TypeOK, BoundedOvershoot
<1>2. CASE ~(failures < Limit)
  <2>1. Attempting' \subseteq Attempting /\ failures' = failures
    BY <1>2 DEF Allow, Answer, Goto, Attempting, TypeOK
  <2> QED BY <2>1, BoundShrinks DEF TypeOK
<1> QED BY <1>1, <1>2

\* A failed attempt is one failure more and one attempt less.
LEMMA FailWithinBound ==
  ASSUME TypeOK, BoundedOvershoot, NEW h \in Handlers, Fail(h)
  PROVE  BoundedOvershoot'
<1>1. h \in Attempting /\ Attempting' = Attempting \ {h} /\ failures' = failures + 1
  BY DEF Fail, Answer, Goto, Attempting, TypeOK
<1>2. IsFiniteSet(Attempting)
  BY SetupAssumption, FS_Subset DEF Attempting
<1>3. Cardinality(Attempting') = Cardinality(Attempting) - 1
  BY <1>1, <1>2, FS_RemoveElement
<1>4. Cardinality(Attempting) \in Nat /\ Cardinality(Handlers) \in Nat
  BY <1>2, SetupAssumption, FS_CardinalityType
<1> QED BY <1>1, <1>3, <1>4, SetupAssumption DEF TypeOK, BoundedOvershoot

\* loginLimiter: allow and failed are two critical sections, so requests that
\* were let in together can exceed the limit, but by less than their number.
THEOREM OvershootIsBounded == Spec => []BoundedOvershoot
<1>1. Init => BoundedOvershoot
  <2> SUFFICES ASSUME Init PROVE BoundedOvershoot
    OBVIOUS
  <2>1. Attempting = {}
    BY DEF Init, Attempting
  <2> QED
    BY <2>1, FS_EmptySet, FS_CardinalityType, SetupAssumption DEF Init, BoundedOvershoot
<1>2. TypeOK /\ TypeOK' /\ BoundedOvershoot /\ [Next]_vars => BoundedOvershoot'
  <2> SUFFICES ASSUME TypeOK, TypeOK', BoundedOvershoot, [Next]_vars
               PROVE  BoundedOvershoot'
    OBVIOUS
  <2>1. CASE \E h \in Handlers : Allow(h)
    BY <2>1, AllowWithinBound
  <2>2. CASE \E h \in Handlers : Fail(h)
    BY <2>2, FailWithinBound
  <2>3. ASSUME NEW h \in Handlers,
               Submit(h) \/ CheckSetup(h) \/ CheckLogin(h) \/ CreateTemp(h) \/ WriteTemp(h)
                 \/ Rename(h) \/ SaveFails(h) \/ Commit(h) \/ Succeed(h)
        PROVE  BoundedOvershoot'
    <3>1. Attempting' \subseteq Attempting /\ failures' <= failures
      BY <2>3, SetupAssumption
      DEF TypeOK, Attempting, Answer, Goto, Submit, CheckSetup, CheckLogin, CreateTemp,
          WriteTemp, Rename, SaveFails, Commit, Succeed
    <3> QED BY <3>1, BoundShrinks DEF TypeOK
  <2>4. ASSUME Start \/ AnnounceSetupToken \/ Crash \/ SetEnvironment
                 \/ RemoveCredentials \/ ForgetFailure \/ DropCookie \/ UNCHANGED vars
        PROVE  BoundedOvershoot'
    <3>1. Attempting' \subseteq Attempting /\ failures' <= failures
      BY <2>4
      DEF TypeOK, Attempting, Start, AnnounceSetupToken, Crash, SetEnvironment,
          RemoveCredentials, ForgetFailure, DropCookie, vars, process, handlers
    <3> QED BY <3>1, BoundShrinks DEF TypeOK
  <2> QED BY <2>1, <2>2, <2>3, <2>4 DEF Next, Handle
<1> QED BY <1>1, <1>2, TypeCorrect, PTL DEF Spec

=============================================================================
