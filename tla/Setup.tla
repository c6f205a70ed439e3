------------------------------- MODULE Setup -------------------------------
(***************************************************************************)
(* Credentials of the panel: first-run setup, login, the failure limiter   *)
(* both share, the credentials file, the setup-token file and the restarts *)
(* of the process between any two steps.  Sources: internal/server/        *)
(* server.go, internal/auth/credentials.go, cmd/phnctl/main.go.            *)
(*                                                                         *)
(* Each HTTP request runs in a handler of its own.  A step of a handler is *)
(* what it does between two points where another handler, or a crash, can  *)
(* intervene: one critical section, one file operation, one limiter call.  *)
(* A password stands for its own hash (VerifyPassword accepts exactly the  *)
(* password that was hashed), and the token of a first run is the number   *)
(* of the process start that drew it; 0 is the empty token.                *)
(***************************************************************************)
EXTENDS Naturals, FiniteSets

CONSTANTS
    Handlers,       \* requests in flight at the same time
    Names,          \* user names, with surrounding blanks trimmed
    BarNames,       \* the names that contain the character "|"
    DefaultName,    \* PHNCTL_USERNAME, or "admin"
    Passwords,      \* passwords a request may carry
    WeakPasswords,  \* those shorter than MinPasswordLength, too long or blank
    EnvHashes,      \* values the operator may give PHNCTL_PASSWORD_HASH
    None,           \* no password, no file, an empty user name
    Truncated,      \* a file whose bytes are not (all) written
    Limit,          \* failures after which the limiter refuses (5)
    MaxBoots        \* bound: process starts

ASSUME SetupAssumption ==
    /\ IsFiniteSet(Handlers)
    /\ BarNames \subseteq Names
    /\ DefaultName \in Names \ BarNames
    /\ WeakPasswords \subseteq Passwords
    /\ EnvHashes \subseteq Passwords
    /\ None \notin Passwords \cup Names
    /\ Limit \in Nat \ {0}
    /\ MaxBoots \in Nat

Credentials == [user : Names, hash : Passwords]

\* No credentials record is one of the two markers.
ASSUME MarkerAssumption ==
    /\ None \notin Credentials
    /\ Truncated \notin Credentials
    /\ Truncated # None

VARIABLES
    proc,         \* "down", "refused" (serve returned an error), "announcing", "serving"
    boots,        \* process starts so far
    memory,       \* Server.username, passwordHash and setupToken
    sessionName,  \* the user name Sessions signs and accepts
    failures,     \* the limiter's recent failures of the clients' address
    pc, req, temp,\* per handler: its next step, its request, its temporary file
    file,         \* the credentials file
    tokenFile,    \* setup-token.txt: the token it holds, 0 when absent
    envHash,      \* PHNCTL_PASSWORD_HASH
    cookie,       \* the session cookie of the operator's browser
    acked         \* history: the credentials a setup request was answered 200 for

process == <<proc, boots, memory, sessionName>>
handlers == <<pc, req, temp>>
disk == <<file, tokenFile, envHash>>
vars == <<process, handlers, disk, failures, cookie, acked>>

Requests ==
    [op : {"setup"}, token : 0..MaxBoots, user : Names \cup {None}, pass : Passwords]
        \cup [op : {"login"}, token : {0}, user : Names, pass : Passwords]

\* The blank values of a slot that serves no request and of a stopped process.
NoRequest == [op |-> "login", token |-> 0, user |-> DefaultName, pass |-> None]
Blank == [user |-> DefaultName, hash |-> None, token |-> 0]

PCs == {"idle", "allow", "check", "failed", "save", "write", "rename", "commit", "succeed"}

TypeOK ==
    /\ proc \in {"down", "refused", "announcing", "serving"}
    /\ boots \in 0..MaxBoots
    /\ memory \in [user : Names, hash : Passwords \cup {None}, token : 0..MaxBoots]
    /\ sessionName \in Names
    /\ failures \in Nat
    /\ pc \in [Handlers -> PCs]
    /\ req \in [Handlers -> Requests \cup {NoRequest}]
    /\ temp \in [Handlers -> Credentials \cup {None, Truncated}]
    /\ file \in Credentials \cup {None, Truncated}
    /\ tokenFile \in 0..MaxBoots
    /\ envHash \in EnvHashes \cup {None}
    /\ cookie \in [name : Names, boot : 0..MaxBoots] \cup {None}
    /\ acked \in Credentials \cup {None}

Init ==
    /\ proc = "down" /\ boots = 0 /\ memory = Blank /\ sessionName = DefaultName
    /\ failures = 0
    /\ pc = [h \in Handlers |-> "idle"]
    /\ req = [h \in Handlers |-> NoRequest]
    /\ temp = [h \in Handlers |-> None]
    /\ file = None /\ tokenFile = 0
    /\ envHash \in EnvHashes \cup {None}
    /\ cookie = None /\ acked = None

-----------------------------------------------------------------------------
(* Starting and stopping the process.                                      *)

\* loadConfig: a hash in the environment wins over the file; without either
\* the panel has a user name and no password.
Config ==
    IF envHash # None THEN [user |-> DefaultName, hash |-> envHash]
    ELSE IF file # None THEN file
    ELSE [user |-> DefaultName, hash |-> None]

\* LoadCredentials fails on a file that is not complete JSON, and NewSessions
\* on a user name with the separator of its payload in it.
ConfigError ==
    \/ envHash = None /\ file = Truncated
    \/ Config.user \in BarNames

\* serve(), up to the first request or to its error return.
Start ==
    /\ proc \in {"down", "refused"}
    /\ boots < MaxBoots
    /\ boots' = boots + 1
    /\ IF ConfigError
       THEN proc' = "refused" /\ UNCHANGED <<memory, sessionName>>
       ELSE /\ proc' = IF Config.hash = None THEN "announcing" ELSE "serving"
            /\ sessionName' = Config.user
            /\ memory' = [user |-> Config.user, hash |-> Config.hash,
                          token |-> IF Config.hash = None THEN boots + 1 ELSE 0]
    /\ UNCHANGED <<handlers, disk, failures, cookie, acked>>

\* Mutant: a token file left by an earlier start is kept.
AnnounceKeepsOld ==
    /\ proc = "announcing"
    /\ proc' = "serving"
    /\ tokenFile' = IF tokenFile = 0 THEN memory.token ELSE tokenFile
    /\ UNCHANGED <<boots, memory, sessionName, handlers, file, envHash,
                   failures, cookie, acked>>

\* announceSetupToken; when it cannot write the file, serve returns: Crash.
AnnounceSetupToken ==
    /\ proc = "announcing"
    /\ proc' = "serving"
    /\ tokenFile' = memory.token
    /\ UNCHANGED <<boots, memory, sessionName, handlers, file, envHash,
                   failures, cookie, acked>>

\* The process crashes or is stopped: everything in memory is lost, the disk
\* keeps what system calls did to it, and a temporary file may stay behind that
\* nothing reads.
Crash ==
    /\ proc \in {"announcing", "serving"}
    /\ proc' = "down"
    /\ memory' = Blank /\ sessionName' = DefaultName /\ failures' = 0
    /\ pc' = [h \in Handlers |-> "idle"]
    /\ req' = [h \in Handlers |-> NoRequest]
    /\ temp' = [h \in Handlers |-> None]
    /\ UNCHANGED <<boots, disk, cookie, acked>>

\* While the process is stopped the operator edits its environment, or
\* removes the credentials file to choose a password anew.
SetEnvironment ==
    /\ proc \in {"down", "refused"}
    /\ envHash' \in (EnvHashes \cup {None}) \ {envHash}
    /\ UNCHANGED <<process, handlers, file, tokenFile, failures, cookie, acked>>

RemoveCredentials ==
    /\ proc \in {"down", "refused"}
    /\ file # None
    /\ file' = None /\ acked' = None
    /\ UNCHANGED <<process, handlers, tokenFile, envHash, failures, cookie>>

-----------------------------------------------------------------------------
(* The handlers of /api/setup (POST) and /api/login.                       *)

Goto(h, label) == pc' = [pc EXCEPT ![h] = label]

\* The response is written and the handler returns.
Answer(h) ==
    /\ Goto(h, "idle")
    /\ req' = [req EXCEPT ![h] = NoRequest]
    /\ temp' = [temp EXCEPT ![h] = None]

Submit(h) ==
    /\ proc = "serving" /\ pc[h] = "idle"
    /\ \E r \in Requests : req' = [req EXCEPT ![h] = r]
    /\ Goto(h, "allow")
    /\ UNCHANGED <<process, temp, disk, failures, cookie, acked>>

\* Mutant: an off-by-one in the limit.
AllowOneMore(h) ==
    /\ pc[h] = "allow"
    /\ \/ /\ failures <= Limit
          /\ Goto(h, "check")
          /\ UNCHANGED <<req, temp>>
       \/ Answer(h)
    /\ UNCHANGED <<process, disk, failures, cookie, acked>>

\* loginLimiter.allow: 429 once Limit failures are recent.  Below the limit a
\* body that does not decode is answered 400, with no effect on other state.
Allow(h) ==
    /\ pc[h] = "allow"
    /\ \/ /\ failures < Limit
          /\ Goto(h, "check")
          /\ UNCHANGED <<req, temp>>
       \/ Answer(h)
    /\ UNCHANGED <<process, disk, failures, cookie, acked>>

\* The name a setup request asks for: a blank one means config.Username.
Wanted(h) == IF req[h].user = None THEN sessionName ELSE req[h].user

\* auth.ValidatePassword
ValidPassword(user, pass) == pass \notin WeakPasswords /\ pass # user

\* Mutant: the token is not compared.
CheckNoToken(h) ==
    /\ pc[h] = "check" /\ req[h].op = "setup"
    /\ \/ memory.hash # None /\ Answer(h)
       \/ /\ memory.hash = None
          /\ Goto(h, "save")
          /\ UNCHANGED <<req, temp>>
    /\ UNCHANGED <<process, disk, failures, cookie, acked>>

\* performSetup's first critical section and what it computes from the token
\* read there alone: 409, a failed attempt, 400, or on to storing.
CheckSetup(h) ==
    /\ pc[h] = "check" /\ req[h].op = "setup"
    /\ \/ memory.hash # None /\ Answer(h)
       \/ /\ memory.hash = None
          /\ req[h].token # memory.token
          /\ Goto(h, "failed")
          /\ UNCHANGED <<req, temp>>
       \/ /\ memory.hash = None
          /\ req[h].token = memory.token
          /\ ~ValidPassword(Wanted(h), req[h].pass)
          /\ Answer(h)
       \/ /\ memory.hash = None
          /\ req[h].token = memory.token
          /\ ValidPassword(Wanted(h), req[h].pass)
          /\ Goto(h, "save")
          /\ UNCHANGED <<req, temp>>
    /\ UNCHANGED <<process, disk, failures, cookie, acked>>

\* handleLogin reads both credentials at once and compares with that copy.
CheckLogin(h) ==
    /\ pc[h] = "check" /\ req[h].op = "login"
    /\ \/ memory.hash = None /\ Answer(h)
       \/ /\ memory.hash # None
          /\ Goto(h, IF req[h].user = memory.user /\ req[h].pass = memory.hash
                     THEN "succeed" ELSE "failed")
          /\ UNCHANGED <<req, temp>>
    /\ UNCHANGED <<process, disk, failures, cookie, acked>>

\* loginLimiter.failed, then 401.
Fail(h) ==
    /\ pc[h] = "failed"
    /\ failures' = failures + 1
    /\ Answer(h)
    /\ UNCHANGED <<process, disk, cookie, acked>>

\* Mutant: an empty list of failures is trimmed too.
ForgetUnguarded ==
    /\ failures' = failures - 1
    /\ UNCHANGED <<process, handlers, disk, cookie, acked>>

\* The oldest failure leaves the 15 minute window (LoginLimiter has the clock).
ForgetFailure ==
    /\ failures > 0
    /\ failures' = failures - 1
    /\ UNCHANGED <<process, handlers, disk, cookie, acked>>

\* Mutant: the target itself is opened for writing.
CreateInPlace(h) ==
    /\ pc[h] = "save"
    /\ temp' = [temp EXCEPT ![h] = Truncated]
    /\ file' = Truncated
    /\ Goto(h, "write")
    /\ UNCHANGED <<process, req, tokenFile, envHash, failures, cookie, acked>>

\* SaveCredentials: a temporary file beside the target is created, filled and
\* synced, and renamed over it.
CreateTemp(h) ==
    /\ pc[h] = "save"
    /\ temp' = [temp EXCEPT ![h] = Truncated]
    /\ Goto(h, "write")
    /\ UNCHANGED <<process, req, disk, failures, cookie, acked>>

WriteTemp(h) ==
    /\ pc[h] = "write"
    /\ temp' = [temp EXCEPT ![h] = [user |-> Wanted(h), hash |-> req[h].pass]]
    /\ Goto(h, "rename")
    /\ UNCHANGED <<process, req, disk, failures, cookie, acked>>

Rename(h) ==
    /\ pc[h] = "rename"
    /\ file' = temp[h]
    /\ temp' = [temp EXCEPT ![h] = None]
    /\ Goto(h, "commit")
    /\ UNCHANGED <<process, req, tokenFile, envHash, failures, cookie, acked>>

\* Mutant: the error of SaveCredentials is only logged.
SaveFailureIgnored(h) ==
    /\ pc[h] \in {"save", "write", "rename"}
    /\ temp' = [temp EXCEPT ![h] = None]
    /\ Goto(h, "commit")
    /\ UNCHANGED <<process, req, disk, failures, cookie, acked>>

\* HashPassword or a step of SaveCredentials fails: the temporary file is
\* removed and the answer is 500.
SaveFails(h) ==
    /\ pc[h] \in {"save", "write", "rename"}
    /\ Answer(h)
    /\ UNCHANGED <<process, disk, failures, cookie, acked>>

\* Mutant: no re-check under the write lock.
CommitUnchecked(h) ==
    /\ pc[h] = "commit"
    /\ memory' = [user |-> Wanted(h), hash |-> req[h].pass, token |-> 0]
    /\ Goto(h, "succeed")
    /\ UNCHANGED <<proc, boots, sessionName, req, temp, disk, failures, cookie, acked>>

\* Mutant: the token stays valid after setup.
CommitKeepsToken(h) ==
    /\ pc[h] = "commit"
    /\ \/ /\ memory.hash # None
          /\ Answer(h)
          /\ UNCHANGED memory
       \/ /\ memory.hash = None
          /\ memory' = [memory EXCEPT !.user = Wanted(h), !.hash = req[h].pass]
          /\ Goto(h, "succeed")
          /\ UNCHANGED <<req, temp>>
    /\ UNCHANGED <<proc, boots, sessionName, disk, failures, cookie, acked>>

\* performSetup's second critical section: re-check, then the new credentials
\* replace the old and the token is void.
Commit(h) ==
    /\ pc[h] = "commit"
    /\ \/ /\ memory.hash # None
          /\ Answer(h)
          /\ UNCHANGED memory
       \/ /\ memory.hash = None
          /\ memory' = [user |-> Wanted(h), hash |-> req[h].pass, token |-> 0]
          /\ Goto(h, "succeed")
          /\ UNCHANGED <<req, temp>>
    /\ UNCHANGED <<proc, boots, sessionName, disk, failures, cookie, acked>>

\* A setup request that is answered 200 is remembered.
Acknowledge(h) ==
    acked' = IF req[h].op = "setup"
             THEN [user |-> Wanted(h), hash |-> req[h].pass] ELSE acked

\* Mutant: the cookie is signed for the name that was just set up.
SucceedWithNewName(h) ==
    /\ pc[h] = "succeed"
    /\ failures' = 0
    /\ \/ /\ cookie' = [name |-> Wanted(h), boot |-> boots]
          /\ Acknowledge(h)
       \/ UNCHANGED <<cookie, acked>>
    /\ Answer(h)
    /\ UNCHANGED <<process, disk>>

\* loginLimiter.succeeded, then issueSession: the cookie is signed for the name
\* Sessions was built with, whoever the request names, or Sessions.New fails
\* and the answer is 500 although the credentials are in force.
Succeed(h) ==
    /\ pc[h] = "succeed"
    /\ failures' = 0
    /\ \/ /\ cookie' = [name |-> sessionName, boot |-> boots]
          /\ Acknowledge(h)
       \/ UNCHANGED <<cookie, acked>>
    /\ Answer(h)
    /\ UNCHANGED <<process, disk>>

\* The cookie expires, or handleLogout clears it.
DropCookie ==
    /\ cookie # None
    /\ cookie' = None
    /\ UNCHANGED <<process, handlers, disk, failures, acked>>

Handle(h) ==
    \/ Allow(h) \/ CheckSetup(h) \/ CheckLogin(h) \/ Fail(h)
    \/ CreateTemp(h) \/ WriteTemp(h) \/ Rename(h) \/ SaveFails(h)
    \/ Commit(h) \/ Succeed(h)

Next ==
    \/ Start \/ AnnounceSetupToken \/ Crash
    \/ SetEnvironment \/ RemoveCredentials
    \/ \E h \in Handlers : Submit(h) \/ Handle(h)
    \/ ForgetFailure \/ DropCookie

Spec == Init /\ [][Next]_vars

\* requireAuth: nothing passes before a password exists; then a cookie passes
\* when Sessions.Validate finds the name it was built with.
Authorized(c) ==
    /\ proc = "serving"
    /\ memory.hash # None
    /\ c.name = sessionName

-----------------------------------------------------------------------------
(* Properties.                                                             *)

\* While the process serves, the setup token is void exactly when there is a
\* password: an unset token never meets an unset password (New, performSetup),
\* so a request with an empty token cannot match it.
TokenIffUnclaimed ==
    proc \in {"announcing", "serving"} =>
        (memory.hash = None <=> memory.token # 0)

\* The credentials file only ever takes the password of a request that carried
\* the token of this very process start (performSetup), however requests
\* interleave with each other and with restarts; an operator may remove it.
StoredUnderToken ==
    [][file' # file /\ file' # None =>
         \E h \in Handlers :
            /\ req[h].op = "setup" /\ req[h].token = boots
            /\ file' = [user |-> Wanted(h), hash |-> req[h].pass]]_vars

\* Two setup requests never both take effect: the password in memory is chosen
\* at most once per process start (performSetup's re-check).
ClaimedOnce ==
    [][memory.hash # None /\ proc' = "serving" => memory' = memory]_vars

\* A setup answered 200 is durable: whatever crashes after it, a credentials
\* file is there, and the panel is not open to setup again unless the operator
\* removes that file (performSetup stores before it commits).
AcknowledgedIsDurable == acked # None => file \in Credentials

\* No sequence of setups and crashes leaves a credentials file that the next
\* start refuses (SaveCredentials' rename, loadConfig, NewSessions).
AlwaysStarts == proc # "refused"

\* The token file tells the operator the token that the running process
\* expects, also after starts that were cut short (announceSetupToken).
TokenFileCurrent ==
    proc = "serving" /\ memory.hash = None => tokenFile = memory.token

\* A cookie issued by the running process opens its API, also when setup chose
\* another user name than the one Sessions was built with (issueSession).
IssuedCookieOpens ==
    proc = "serving" /\ cookie # None /\ cookie.boot = boots => Authorized(cookie)

\* Requests of one address that pass allow together can overshoot the limit,
\* by less than the number of requests in flight (allow and failed lock apart).
Attempting == {h \in Handlers : pc[h] \in {"check", "failed"}}
BoundedOvershoot ==
    failures + Cardinality(Attempting) <= Limit - 1 + Cardinality(Handlers)

\* "two concurrent setup requests with the right token must not both succeed
\* and race over the stored password" (server.go:220): the password in the file
\* is the one in memory.
StoredMatchesMemory ==
    proc = "serving" /\ memory.hash # None /\ envHash = None =>
        file = [user |-> memory.user, hash |-> memory.hash]

-----------------------------------------------------------------------------
(* The inductive invariant behind these properties.                        *)

Running == proc \in {"announcing", "serving"}

\* A stopped process has no requests and no memory.
StoppedIsBlank ==
    /\ proc # "serving" => \A h \in Handlers : pc[h] = "idle"
    /\ ~Running => memory = Blank

\* The token of an unclaimed panel is the one this start drew.
TokenIsCurrent == Running /\ memory.hash = None => memory.token = boots

\* A setup request past its check carries this start's token and an acceptable
\* password, and what it has stored so far is complete.
StoringIsSound ==
    \A h \in Handlers :
        /\ pc[h] \in {"save", "write", "rename", "commit"} =>
              req[h].op = "setup" /\ req[h].token = boots
        /\ pc[h] = "rename" => temp[h] = [user |-> Wanted(h), hash |-> req[h].pass]
        /\ pc[h] \in {"commit", "succeed"} /\ req[h].op = "setup" => file \in Credentials
        /\ pc[h] = "succeed" => memory.hash # None

FileIsWhole == file \in Credentials \cup {None}

CookieIsOurs ==
    cookie # None =>
        /\ cookie.boot <= boots
        /\ cookie.boot = boots /\ Running => memory.hash # None /\ cookie.name = sessionName

IndInv ==
    /\ TypeOK /\ StoppedIsBlank /\ TokenIffUnclaimed /\ TokenIsCurrent
    /\ StoringIsSound /\ FileIsWhole /\ AcknowledgedIsDurable /\ TokenFileCurrent
    /\ CookieIsOurs

=============================================================================
