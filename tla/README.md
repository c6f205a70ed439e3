# A formal model of phnctl

`phnctl` is a Go service that shows and controls the thermal, fan, battery and
keyboard features of an Acer Predator laptop in a browser.  It reads and writes
the sysfs attributes of the `linuwu_sense` driver, pushes telemetry over a
WebSocket and guards everything behind one administrator account.  This directory
holds TLA+ modules of its stateful parts, the configurations TLC checks them
with, and theorems about them that TLAPS proves.

All paths below are relative to the repository's root.

## 1. Inventory

| Part | Source | State | Operations | What makes it hard |
|---|---|---|---|---|
| First-run setup, login | `internal/server/server.go`, `internal/auth/credentials.go`, `cmd/phnctl/main.go` | user name, password hash and setup token in memory; credentials file; token file; environment | GET/POST `/api/setup`, `/api/login`, `/api/logout`, `loadConfig`, `announceSetupToken`, `SaveCredentials` | concurrent requests between two critical sections with file I/O in between; crashes between storing and committing; restarts |
| Login limiter | `server.go:643-684` | failures per address | `allow`, `failed`, `succeeded` | check and count are two critical sections; a sliding window; a map that only grows |
| Write limiter | `server.go:628-641` | time of the last write | `allow` | clock read before the lock |
| Sysfs controller | `internal/sysfs/controller.go` | capabilities, slow cache, (sensor paths) | `Snapshot`, six setters | the hardware moves on its own; cached and live values in one snapshot; interlocks read state that may not read |
| Sensor paths | `controller.go:105-114, 513-667` | four hwmon paths | `resolveSensors`, `readFanRPM`, `readTemperatures` | renumbering, partial enumeration, labels against channel order |
| Hub and telemetry | `internal/server/websocket.go`, `server.go:438-510` | connected clients | upgrade, broadcast, remove, read loop, ticker | snapshots taken under one lock and sent under others; slow and vanishing clients |
| Browser client | `internal/ui/dist/app.js` | session flag, current state, socket, timers, dialog | coalesced writes, confirmations, reconnects | callbacks in any order, state used after an await |
| Sessions | `internal/auth/auth.go:87-153` | none beyond the secret | sign, validate | expiry, no revocation, bound to a name |
| Start-up configuration | `main.go:239-307` | environment | `loadConfig` | precedence; which binds are refused |
| Form and path helpers | `internal/sysfs/fs.go:22-31`, `internal/auth/auth.go:28-85` | none | `resolve`, `HashPassword`, `ValidatePassword` | a path that must stay below a root; limits in bytes and in characters |
| TLS noise filter | `main.go:105-139` | last line, count dropped | `Write` | window boundaries |
| Shutdown | `main.go:193-222` | server, handlers | signal, `Shutdown` | the process ends before its handlers |
| Codecs | `internal/sysfs/codecs.go` | none | parse, validate, format | parse accepts what validate refuses |

How they interact: a request handler calls the controller, which holds one mutex
for the whole call; the state it returns is sent to the caller and then, outside
that mutex, broadcast to the hub's clients.  A ticker does the same every two
seconds when clients are connected.  `requireAuth` reads the credentials that
setup and login share under `credentialsMu`.  Handlers run concurrently; the
limiters, the hub and each client have locks of their own.

What correctness means, part by part:

- *Setup*: claimed at most once, only under the token of the running start; what
  was acknowledged survives crashes; every start succeeds; the operator can find
  the token; a cookie just issued works; what is in the file is what is in memory.
- *Limiters*: the number of failures inside a window is bounded, also by requests
  in flight together; one write per interval.
- *Controller*: what a write returns is true; what a snapshot shows is true or at
  most a TTL old; what is offered is accepted; the interlocks hold over sequences
  of calls and failing attributes; one failing attribute leaves the rest right.
- *Sensors*: each role is read from the right device and channel, and comes back
  after it was gone.
- *Hub and client*: every client eventually shows the current state; the last
  value the user chose is sent, and no earlier one is written after it unless the
  page was told that its request had failed; a confirmation is given for the action
  it names; the page keeps one socket and never none for good.
- *Codecs, tokens, paths, settings*: what is written reads back; what is read can
  be sent back; a session lasts as long as it says; no path leaves the root; the
  service listens where it was told to and nowhere else.

## 2. What is modelled

| Module | Models | Checked by | Proved in |
|---|---|---|---|
| `Setup` | setup, login, failure limiter, credentials and token files, starts and crashes | `setup.cfg`, `setup_race.cfg`, `setup_pipe.cfg` (with `MCSetup`) | `SetupProofs` |
| `Controller` | capabilities, slow cache, snapshot, setters, hardware that moves | `controller.cfg`, `interlock.cfg` (with `MCController`) | `ControllerProofs` |
| `Sensors` | hwmon paths, their enumeration and renewal | `sensors.cfg`, `sensors_renumbered.cfg` (with `MCSensors`) | `SensorsProofs` |
| `Panel` | hub, ticker, handlers that broadcast, connections, browsers' sockets, process ends and restarts | `panel.cfg` (with `MCPanel`) | `PanelProofs` |
| `Display` | abstract: what the panel promises to a page | as a property of `Panel` | `PanelProofs` (its safety half) |
| `LoginLimiter` | the window of failures per address, with its clock | `throttles.cfg` (with `MCThrottles`) | `ThrottlesProofs` |
| `Attempts` | abstract: the counter on which `Setup` is built | as a property of `LoginLimiter` | `ThrottlesProofs` |
| `WriteLimiter` | the interval between writes and `Retry-After` | `throttles.cfg` | `ThrottlesProofs` |
| `TlsNoise` | the filter in front of the log | `throttles.cfg` | `ThrottlesProofs` |
| `FanControls` | slider, `coalesce`, buttons, the confirmation dialog | `fan_controls.cfg` (with `MCPage`), `confirm.cfg` (with `MCFanControls`) | `PageProofs` |
| `Latest` | abstract: what `coalesce` promises | as a property of `FanControls` | `PageProofs` (its safety half) |
| `PageSession` | the page's two screens, late answers, the socket and its retry | `fan_controls.cfg` (with `MCPage`) | `PageProofs` |
| `Codecs` | parse, validate, format; the page's keyboard forms | `inputs.cfg` (with `MCInputs`) | `CodecsProofs`, `InputsProofs` |
| `Auth`, `SysfsPath`, `BindConfig` | tokens and password limits; `resolve`; `loadConfig` | `inputs.cfg` (with `MCInputs`) | `InputsProofs` |

The definitions marked *Mutant* in the modules are variants of the definition
that follows them, each with a plausible bug.  No specification uses them; with
one in the place of the original, the property it is paired with in
`PROJECT.json` fails.

### Setup

A handler is a sequence of labels (`pc[h]`), and a step is what runs between two
points where another handler or a crash can intervene.

| State | Code |
|---|---|
| `memory` | `Server.username`, `passwordHash`, `setupToken` (server.go:53-58) |
| `sessionName` | `Sessions.username`, fixed at start (auth.go:93) |
| `failures` | recent failures of one client address in `loginLimiter` |
| `file`, `temp[h]` | the credentials file and the temporary file of a save under way |
| `tokenFile`, `envHash` | `setup-token.txt` and `PHNCTL_PASSWORD_HASH` |
| `cookie`, `acked` | the browser's cookie; a history variable: what was answered 200 |

| Step | Code |
|---|---|
| `Start`, `AnnounceSetupToken` | `serve`, `loadConfig`, `server.New`, `announceSetupToken` |
| `Submit`, `Allow` | routing and `loginLimiter.allow` |
| `CheckSetup` | the first critical section of `performSetup` and the checks on its copy of the token |
| `CheckLogin` | `credentials()` and the two comparisons of `handleLogin` |
| `Fail`, `ForgetFailure` | `loginLimiter.failed`; a failure leaving the window |
| `CreateTemp`, `WriteTemp`, `Rename`, `SaveFails` | `HashPassword` and `SaveCredentials`, with every error return |
| `Commit` | the second critical section, with the re-check |
| `Succeed` | `loginLimiter.succeeded`, `issueSession` and its error path: 500, without a cookie and with the credentials in force |
| `DropCookie` | expiry or `handleLogout` |
| `Crash`, `SetEnvironment`, `RemoveCredentials` | the process ends; the operator edits the environment or removes the file while it is stopped |

Abstractions.  A password stands for its hash, since `VerifyPassword` accepts
exactly the password that was hashed.  The token of a start is the number of that
start, so tokens of different starts differ and cannot be guessed by chance.  One
client address is modelled, and a failure may leave the window at any time, which
allows more than the clock does.  A crash keeps what completed system calls did
to the disk; losing a rename that was not yet synced in a power cut is not
modelled (`SaveCredentials` syncs the file and not its directory).  `Start` covers
the outcomes of `loadConfig` that depend on credentials, not the bind rules.

### Controller

The controller's mutex serialises calls, so a call is one step, except that a
setter is two: the checks and the write (`Set`), then the read-back
(`ReadBack`).  The hardware can move before, after and between.

| State | Code |
|---|---|
| `value`, `broken`, `power` | the driver's attributes, those that do not read or parse, and the power source |
| `caps` | `Controller.caps`, what `probe` found |
| `slow` | `Controller.slow`: age of the stamp, values, degraded sections |
| `wrote` | a setter is between its write and its read-back |
| `reply` | what the last step returned |
| `since` | history: how long ago a cached attribute last moved |

`Snapshot` and `ReadBack` are `snapshot()` with `refreshSlow`; `SetProfile`,
`SetFans`, `SetBoolean` and `SetCode` are the setters, each with its checks in the
code's order, and `Refuse` is any error return.  `Write` may be accepted, be
accepted and ignored, or fail.  `Change`, `Break`, `Mend`, `ChangePower` and `Tick`
are the world.

Abstractions.  The switches are the attributes `SetBoolean` writes, the codes
those with a `Validate` (or a list of values) of their own; `Legal` is what parses
and `Valid` what a caller may write, which differ (direction 0).  A snapshot's
reads are one instant: with hardware moving *during* a snapshot, two values in it
can be of different moments, and the properties here speak of the moment of the
step.  Time is the age of the cache in ticks up to one past `SlowTTL`; ages beyond
that behave alike.  `RefreshCapabilities` has no caller and no action.

### Sensors

`Take(pair)` is `readFanRPM` or `readTemperatures`: read both cached paths, and
when one that was found no longer reads, run `resolveSensors` and read again.
`Resolved` is that enumeration, with the overwriting of earlier directories by
later ones, labels before channel order, dedicated sensors before the acer
device, and files that exist and do not read.  A label counts only on a channel whose
files begin with `temp` or with `fan`, as the role asks (`Prefix`, `RolePrefix`).  `Renumber` puts the devices under
other directories at any moment, also between the two pairs of a snapshot; one
enumeration is an instant.

### Panel

A *sender* is a goroutine that carries a state of the hardware to pages: the
ticker, the handler of a request, the handler of a new WebSocket.  The hardware is
the counter `version`; a snapshot, or a write with its read-back, is one step
because the controller's mutex makes it one (`Controller` has its inside).  Between
the snapshot and each `writeFrame` other senders run, so states overtake each
other.

| State | Code |
|---|---|
| `pc`, `payload`, `todo` | where each sender is, the state it carries, the rest of its copy of `hub.clients` |
| `clients`, `link`, `queue` | `hub.clients`; the state of each connection; frames in its buffers |
| `sock`, `answer`, `shown` | the browser's socket, an HTTP answer on its way, `currentState` |
| `proc` | up, after SIGTERM, gone |
| `clean`, `floor` | history: the last tick that read while nothing older was under way |

| Step | Code |
|---|---|
| `Tick`, `TakeSnapshot`, `Copy`, `Send` | `RunTelemetry`, `broadcast` and `writeFrame` with its deadline |
| `Ask`, `Apply`, `Reply` | a handler that reads or writes, broadcasts and returns |
| `Upgrade`, `FirstWrite`, `ReadLoopEnds`, `KeepaliveMissed`, `Unregister` | `handleWebSocket`, the read loop and `remove` |
| `Connect`, `Notice`, `ReadFrame`, `TakeAnswer` | the browser: `connectSocket`, its close and message events, `acceptState` |
| `Terminate`, `Exit`, `Restart` | the signal, `Shutdown` and `main` returning with handlers running, systemd |
| `Change`, `Break` | the hardware, the network |

Abstractions.  A frame is whole or not there; one that the deadline cut off makes
the browser end the stream when the next follows (`FirstWrite`).  An answer reaches
the browser when its handler returns, which is after the broadcast, since it is
smaller than the buffers of `net/http`.  `Snapshot` returns no error for attributes
that fail (`Controller` has what it does with them).  A service that is stopped for
good is a process that ends for the last time within the bound of faults; it is
started again here, and pages are promised nothing without that.

### LoginLimiter, WriteLimiter, TlsNoise

Each reads its clock before it takes its lock (or, in the filter, twice), and each
of these moments is a step.  `LoginLimiter!Allow`, `Fail` and `Succeed` are the
methods of the same names, `Arrive` and `Mismatch` read the clock; a record is the
number of failures at each time, since their order does not matter to the code;
`Failures` tells those of one time apart by a number, and `Total` counts them.
`Attempts` is the same without clocks; `ImplementsAttempts` says that every step of
the limiter is one of `Attempts`, which is what `Setup` assumes of one address with
its `Allow`, `Fail` and `ForgetFailure`.  `WriteLimiter!Pass` and `Refuse` are the
two returns of `allow` with the handler's 429; `TlsNoise!Drop`, `Decide` and `Report`
are the branches of `Write`, including a line the log does not take.

### FanControls and PageSession

A step is what the page runs between two awaits or events.  In `FanControls` a flow
is a call of the slider's worker or of a click handler with its place (`at`):
request, answer, dialog, reconcile.  `Input`, `Fire` and `Finish` are `coalesce`;
`Serve` is the service, and `ApplyLate` its handler of a request whose connection
failed, which may write the position at any later time or never (`late`), since
nothing orders the handlers of two connections;
`Receive` and `Reconcile` are the continuations of the
awaits; `Close` is the user's answer, after which every listener of the one dialog
runs.  The positions of the two sliders are counted as one choice; the zone and
effect senders use the same `coalesce` without a dialog.  `Unsent` is the check
`requestFans` makes before it sends.  `text` and `approved` say whose question was
on the screen and are read by `ConfirmedByClick` only.

In `PageSession` an answer may be good, denied or an error for any request, because
a session can end between the check and the answer.  `ShowLogin`, `ShowApp`,
`CloseSocket` and `ConnectSocket` are the functions of these names.  `CloseSocket`
does not take the close handler away: the code sets `onclose`, and the handler was
added with `addEventListener`, so `CloseEvent` happens for every socket, also for a
replaced one.  The first-run form behaves as the login form here.  `stray` marks an
app that `acceptState` brought back after the login screen was shown.

### Codecs, Auth, SysfsPath, BindConfig

These are functions without state.  A driver's text is the sequence of its fields,
each a number, a colour or neither; that numbers may have blanks and colours
capital letters is kept (`loose`).  The limits of parsing and of validating are
separate tables, as in the code.  `Form` is what the page does between the two.  A
token's signature is its key and text; `Validate` finds the three fields of the
payload by its two bars.  A path is the sequence of its segments, with `Gap` for what
is between two slashes that follow each other.  A backslash is part of a name, except
that `resolve` takes off those a path begins with: `Bare` is a segment without them,
and `Relative` uses it of the first segment that has anything else, so that `\..` at
the start of a path leads up and further on is a name.  `InsideRoot` compares `Resolve` with a
reference that adds up how far each segment leads down, and keeps for each depth the
segment that led there last.  Of a bind host only its kind matters.

## 3. The runs

| Run | Shows | Bounds, and why they are enough |
|---|---|---|
| `setup` | `TokenIffUnclaimed`, `StoredUnderToken`, `ClaimedOnce`, `AcknowledgedIsDurable`, `AlwaysStarts`, `TokenFileCurrent`, `IssuedCookieOpens`, `BoundedOvershoot` hold | two requests in flight (races are between a pair), two starts (a token and a stale one), one name besides the default, a good password, one refused for one name only and one refused always; `Limit` 1, so that one failure more or less decides. Proved for all values, see 5. |
| `setup_race` | the request that loses with 409 has replaced the credentials file | as above |
| `setup_pipe` | a user name with `\|` is stored and stops the next start | as above, with such a name |
| `controller` | `TruthfulReadBack`, `BoundedStaleness`, `OfferIsHonoured` hold | one switch and one code stand for all, since attributes of a kind are treated alike and independently; one attribute broken at a time; `SlowTTL` 1; a full laptop and one without fans and choices. Proved for all values, see 5. |
| `interlock` | fans leave automatic control in quiet while `platform_profile` does not read | as above, with quiet, balanced and performance |
| `sensors` | `RightUntilMoved`, `DeadPathNoticed` hold | three directories for four devices in all 73 arrangements, one file that does not read at a time, labels against the channel order and a temperature with the label of a fan. Proved for any machine with one device of a kind, see 5. |
| `sensors_renumbered` | a path cached before a renumbering is read on another device | three devices that keep existing, all files read |
| `panel` | `CleanTickCatchesUp`, `EveryClientIsAttended` and, as the refinement of `Display`, `ShowsTheHardware` hold | one browser over two connections: the one it gave up, which the service may still keep, is the second client a broadcast has to get past; `Capacity` 1, so that one unread frame makes the next one wait; `MaxInputs` 2 (a write and a change, or two states that overtake each other); `MaxFaults` 1 (a break, a stall, a missed keepalive or an end of the process). All three are spent in any order and at any moment. |
| `throttles` | `WindowBound`, `RefusedForCause`, `ImplementsAttempts`; `RateBound`, `HintSuffices`; `Accounted`, `StaysVisible` hold | two requests and two addresses; a window of two units and `Limit` 2, so that a failure can be younger than the window and not of the same instant; a second of two intervals, so that rounding a hint down would show; five errors for a window that begins twice. The three limiters share nothing, so a behaviour is one of one of them. The clocks end at `LoginTime` and `MaxTime`, and errors at `MaxErrors`, so there is no deadlock check. Proved for all values, see 5. |
| `fan_controls` | `NobodyWaitsInVain`, `AppliedInOrder` and, as the refinement of `Latest`, `ImplementsLatest`; `OneLiveSocket`, `NeverDeaf` hold | two workers, of which the code must run one at a time; one click, whose question can meet the slider's in the dialog; three choices: one under way, one replaced, one last. Two handlers with answers under way; three sockets: one open, one replaced, one new. The two machines share nothing, so a behaviour is one of one of them. All but liveness is proved for all values, see 5. |
| `confirm` | an action goes on as confirmed after its question was left with Escape | one click handler, used twice |
| `inputs` | `WrittenIsReadBack`, `UntouchedFormIsAccepted`, `InsideRoot`, `SessionLasts`, `PolicyCoversHash`, `ExposedOnlyAsAsked` hold | every input is a state of its own: each field at its limits and just beyond, two fields at a time; paths of up to five segments, with and without backslashes before them; names of up to three symbols with the separator among them; uses of a token around the end of its lifetime, at either half of a second; passwords of one to four bytes to the character around both limits; every combination of settings. Proved for every input, see 5. |

The runs of `Setup` do not check for deadlock, because process starts are bounded
by `MaxBoots` and the last process may stop for good.  `MCSetup` declares requests
symmetric: no definition tells them apart.

### What the violations mean

- `setup_race`.  Two setup requests with the right token pass the first check;
  both save; the first to commit wins and the other gets 409, but the file holds
  the password of whoever renamed last.  The service goes on with one password
  and, after a restart, accepts only the other.  The re-check protects memory
  (`ClaimedOnce` holds) and not the file.
- `setup_pipe`.  The separator of the session payload is checked in `NewSessions`
  at the next start and not in `performSetup`.
- `interlock`.  `SetFans` ignores the error of reading the profile.  That such a
  read fails on this hardware is the case `TestSnapshotDegradesInsteadOfFailing`
  was written for.
- `sensors_renumbered`.  A stale path that still reads never looks stale.  TLC's
  trace shows the temperature of an NVMe disk as that of the GPU.  The same
  promise also fails in another way: an enumeration while a driver is being
  reloaded stores empty paths, which never look stale either, so the sensor stays
  lost until another path of its pair fails or the service restarts.
- `confirm`.  A dialog keeps its `returnValue` until something sets it, and Escape
  sets nothing.  Once a calibration was confirmed, the question of the next one is
  answered "confirm" by Escape, and the battery calibration starts.  The property
  fails in a second way in larger instances: a question asked while another is open
  replaces its text, and both listeners take the one answer.  That nobody is left
  waiting then is `NobodyWaitsInVain`, which holds.

More disagreements were met and are not runs:

- the comment at `cmd/phnctl/main.go:320-323` says the token file is removed, and
  no code removes it;
- a setup that chooses a name other than the configured one gets a cookie for the
  configured name, which the next start, built with the chosen name, rejects (a
  login is needed; `IssuedCookieOpens` holds within one start);
- the close event of a socket that the page itself replaced makes the page connect
  anew, which replaces the new socket, whose close event does it again: the page
  keeps one socket (`OneLiveSocket`) and renews it for nothing, until the answer to
  a close takes longer than the opening of the next (`Open` clears the timer);
- an answer that arrives after a logout shows the app again, without a socket,
  although `internal/ui/dist/app.js:169` says "Local UI still ends the session even
  if the connection disappeared.";
- with an expired session the upgrade is answered 401, which a browser reports as a
  failed connection: the page shows the app and tries again until a request of
  another kind is denied.  The code for this case, close code 1008, is one the
  service never sends.

## 4. Fairness and liveness

Two runs check liveness, both as the fairness of an abstract specification that
the detailed one has to implement.

`Panel` assumes weak fairness of each sender's steps (the Go scheduler runs a ready
goroutine, a write ends within its deadline, and the ticker fires while the process
lives), of each browser's reading, answering, noticing and connecting (a browser
runs its handlers and its retry timer), and of `Restart` and the end of a process
that was told to stop (`Restart=on-failure` of `deploy/phnctl.service`, or the second
half of a restart; `main` returns once `Shutdown` has closed the listener).  Nothing is assumed of changes of the hardware, of requests and of
faults, and faults are bounded in number: with infinitely many, no page can be
promised anything.  From this follows `ShowsTheHardware`: a page whose state is old
comes to the current one, unless it changes again.

`FanControls` assumes that a timer that is set fires, that requests end one way or
the other and their continuations run, and that the user answers the dialog.  From
this follows `ImplementsLatest`: the last choice is given to a worker.  Without the
user's answer it does not, since the worker waits for it; the page is modal then.

No other specification assumes fairness.

## 5. What is proved

| Module | Theorem | Statement |
|---|---|---|
| `SetupProofs` | `Invariance` | `Spec => []IndInv` |
| | `TypeCorrect`, `TokenGuardsSetup`, `SetupIsDurable`, `OperatorSeesToken`, `CookieOpens` | the invariants of the run `setup` |
| | `StoredOnlyUnderToken`, `ClaimedAtMostOnce` | its action properties |
| | `StartsAgain` | `AlwaysStarts`, if no name contains the separator: the hypothesis is what the run `setup_pipe` shows to be necessary |
| | `OvershootIsBounded` | `BoundedOvershoot`, by counting the handlers between `allow` and `failed` |
| `ControllerProofs` | `Invariance` | `Spec => []IndInv` |
| | `TypeCorrect`, `ReadBackIsTruthful`, `StalenessIsBounded`, `OffersAreHonoured` | the invariants of the run `controller` |
| `ThrottlesProofs` | `FailuresAreBounded`, `RefusalsHaveCause` | `WindowBound`, `RefusedForCause` |
| | `LimiterIsACounter` | `Login!Spec => ImplementsAttempts`: the limiter with its clocks implements the counter |
| | `RateIsBounded`, `HintIsEnough` | `RateBound`, `HintSuffices` |
| | `ErrorsAreAccountedFor`, `FaultsStayVisible` | `Accounted`, `StaysVisible` |
| | `TypesAreRight`, `AllTogether` | `TypesOK`, and all of these of the specification the run checks |
| `SensorsProofs` | `TypeCorrect`, `DeadPathsAreNoticed` | `TypeOK`, `DeadPathNoticed` |
| | `RightSensors` | `RightUntilMoved` on an `OrdinaryMachine` |
| `PageProofs` | `NobodyIsLeftWaiting`, `SliderIsAppliedInOrder` | `NobodyWaitsInVain`, `AppliedInOrder` |
| | `SliderRefinesLatest` | `Spec => Coalesced!Safety`: the safety half of `ImplementsLatest` |
| | `SocketsDoNotPileUp`, `PageComesBack` | `OneLiveSocket`, `NeverDeaf` |
| | `TypesAreRight`, `AllTogether` | `TypesOK`, and all of these of the specification the run checks |
| `PanelProofs` | `TypeCorrect`, `ClientsAttended`, `TicksCatchUp` | `TypeOK`, `EveryClientIsAttended`, `CleanTickCatchesUp` |
| | `PagesShowRealStates` | `Spec => Shows!Safety`: the safety half of `ShowsTheHardware` |
| `CodecsProofs` | `SettingsReadBack`, `ReportsCanBeSentBack` | `WrittenIsReadBack`, `UntouchedFormIsAccepted` for every text, of any length |
| `InputsProofs` | `PathsStayInside` | `InsideRoot` for every path, of any length |
| | `SessionsLast` | `SessionLasts` for every name, key, lifetime and time |
| | `PolicyIsEnough`, `ExposureIsAsked` | `PolicyCoversHash`, `ExposedOnlyAsAsked` for every password and every combination of settings |
| | `SettingsReadBack`, `FormsAreAccepted`, `PathsOfTheRun`, `SessionsOfTheRun`, `PasswordsOfTheRun`, `SettingsOfTheRun` | the invariants of the run `inputs`, as instances of the above |

Assumptions: `SetupAssumption`, `MarkerAssumption`, `ControllerAssumption`,
`SensorsAssumption`, `WriteLimiterAssumption`, `ThrottlesAssumption`,
`FanControlsAssumption`, `PanelAssumption` and `InputsAssumption`, which say what the
constants are; TLC evaluates them in the runs.  `PageSession` and `Codecs` need none.
The proofs hold for any number of requests, addresses, names, passwords, starts,
attributes, values, machines, directories, devices, workers, clicks, choices, sockets,
browsers, connections, faults and log errors, and any `SlowTTL`, interval, window,
limit and capacity of the buffers.

Where one run checks machines that share nothing (`MCThrottles`, `MCPage`), a
behaviour is one of one of them while the others stand still.  `EachByItself` shows
that it is then a behaviour of each, and what is proved of each carries over.

*Setup.*  No property is inductive alone.  That the file is only replaced under the
current token needs that every handler past its check carries it
(`StoringIsSound`), which survives a restart because a stopped process has no
handlers (`StoppedIsBlank`) and holds at the check because the unclaimed panel's
token is this start's (`TokenIsCurrent`).  Durability needs that a handler about
to commit has a whole file behind it, and that nothing makes a file less than
whole (`FileIsWhole`).  The lemmas go by the two halves of `Next`, the process and
the handlers, one step per action.

*Controller.*  The heart is `CacheIsRecent`: a cache that may still be used is right
about an attribute unless the attribute moved after the cache was filled, in which
case `since` is at most the age.  With `WrittenMeansExpired` (nothing uses the cache
between a write and its read-back) it gives both truthful read-backs and the bound
on staleness; `NotedIsZero` and `ProbedTogether` carry `OfferIsHonoured` through a
list of choices that fails to read.  `MoveKeepsIndInv` states once what any step
that returns no state must satisfy, and every write and every move of the hardware
is an instance of it.

*LoginLimiter.*  A failure is counted in the second of two critical sections, so the
number of failures in the window says nothing without those under way: `AllBounded`
bounds their sum for each address.  `allow` keeps it because it counts what the
record holds, which is all that is in the window: `RecordsAreTrue` says that a record
never has a failure that did not happen and still has every one that is young enough
to count, although the clock that `allow` and `failed` use was read before the lock
and may be late (`Busy`: late, and never ahead).  The refinement maps `allow` to
forgetting what has left the window and then trying: that the counter may forget any
number of failures and the limiter forgets those that are old is `LimiterCounts`.

*Sensors.*  Nothing is assumed for `DeadPathsAreNoticed`: whatever is cached was live
when it was found, and a path that is gone makes `Take` look again.  `RightSensors`
needs a hypothesis, `OrdinaryMachine`: at most one CPU sensor device, one dedicated GPU
and one acer device in a tree, the first two with a `temp1`, which is where a
CPU's package label is, and no label of a role on two channels of its prefix.  With two
devices of a kind the code takes the one enumerated last, and nothing says which is
right.  The machine of the run satisfies it.  `SensorsInv` says
that from an enumeration that could read the names until the nodes move, the cache
holds for each role the one path that is right or, where there is no sensor, none; what
fails and recovers meanwhile leaves it so, because a new enumeration finds the same
(`ResolvedIsGood`).  The enumeration takes the last of several directories; that a
finite set has a last element is proved by a least counterexample (`HasLast`).

*WriteLimiter.*  `SpreadToLast` is the bound up to the stored time instead of the
clock: each write that passes moves the stored time by an interval at least,
because a time that came late is refused.  `HintReaches` says that a client refused
with no write since has its hint's end an interval past the stored time, which
rounding to seconds keeps because the interval is no longer than a second and the
hint no shorter than one.

*TlsNoise.*  The count balances in every step; the stamp is never later than the
clock and is the time of the last attempt at a line.

*FanControls.*  At most one worker is under way, and exactly while `running`; what
it carries is `taken`, and what is pending is later.  So what a request under way
asks for is never older than what the service has applied, and only a request that
has failed for the page can be late (`ServiceIsBehind`).  That nobody waits in vain needs
only that a flow gets into the dialog by opening it and that its closing wakes all.

*PageSession.*  Only the socket in the variable is live, since every replacement
closes first; an app that is shown is authenticated, so a close event sets the
timer; and closing a socket makes it neither live nor forgotten.

*Panel.*  `Since(bound, done)` says that nothing older than a bound is on its way to a
page, and that each connection of a set has nothing older as the last thing written
to it.  Every step keeps it (`NextKeepsSince`, one lemma per action), for the
state the last clean tick carried and all connections, and, while a clean tick is
under way, for that tick's state and the connections it has been past (`Served`).
`CleanTickBegins` starts the second with no connection, `TickCopies` and `TickSends`
add the clients one by one, and with the last of them it becomes the first.  That
needs `NewIsEmpty` (nobody writes to a connection before it is registered) and
`OneBrowserEach`; that the states a page shows are real needs `Past`.

*Codecs.*  Every writable field is readable, and `String` keeps values; the page
turns the one value that is readable and not writable into one that is.

*Paths.*  `filepath.Clean` and the reference are both recursive in the segments.  The
induction theorems of the library cannot be used, so each induction is a least
counterexample (`HasLeast`): that the two functions follow their equations
(`WalkedStepwise`, `DepthStepwise`), and that after every segment the walk is in order
(`WalkInv`).  A path that has stayed has one entry for each depth, which led there last;
one that has climbed begins with ".." and keeps it.  There is one lemma for each kind
of segment (`WalkStands`, `WalkDescends`, `WalkClimbs`).

*Sessions.*  The payload of an accepted name has exactly the two bars that `New` put
there (`PayloadSplits`), so what `Validate` compares is what was signed; rounding both
times down keeps their order and loses less than a second (`UnixKeepsOrder`).

Only model-checked: all liveness (`ShowsTheHardware` and `ImplementsLatest` beyond their
safety halves), which the prover does not reach; and all counterexamples.

## 6. Not modelled, and what could follow

Not modelled, because they are cryptography, pure formatting, plain I/O or
operations without lasting state: PBKDF2 and HMAC (taken to do what they promise),
the masking and length of WebSocket frames and their ping frames, the log line of
degraded sections, routing and JSON, static files, CSS and charts, the rendering of
a state and its notices, the swap of the login form for the setup form,
`hash-password` and `cert`, the install and verify scripts, the container and unit
files.  Where a host name of `PHNCTL_BIND` leads to is not known to the code and not
to the model.  The two fans of the page's manual draft are one choice here.

Worth adding: the interlocks over sequences of calls (manual fans carried into quiet,
low fans into a hot profile), if the project decides what they should be; the two fans
of the draft apart.
