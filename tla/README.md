# opkit: a TLA+ model of its sessions

opkit is an MCP server through which an agent reaches network devices and
servers over four protocols: interactive SSH terminals, SSH commands, Redfish
on BMCs, and vendor WebUIs over HTTP.  The program is one Python process on one
`asyncio` event loop.  What is hard in it is not a computation but what many
overlapping tool calls, background tasks, lost connections and cancellations do
to a few pieces of shared state: the registry of sessions of each manager, and
the login, connection or transcript inside each session.  These modules model
that state and those interleavings; paths are relative to the repository
(`src/` in `PROJECT.json`).

## Inventory

| Component (source) | State | Operations | What makes it correct | Modelled in |
|---|---|---|---|---|
| ssh-terminal session (`src/opkit/protocols/ssh_terminal.py`, `SSHTerminalSession`) | connection, reader task, transcript with its end and eof, `unsettled`, `outbound_seq`, `_requests`, `_write_lock`, a condition | `connect`, `exchange`, `read`, `close`; the reader task; loss of the connection | a request id writes once; one winner per `expected_outbound_seq`; ordinary writes wait for settled output; nothing after eof; nobody waits on a dead connection | `SSHTerminalSession`, `TerminalPromise` |
| ssh-terminal manager (same file, `SSHTerminalManager`) | `_sessions`, `_reaper_task` | `open`, `close`, `close_all`, the reaper, `get`/`list`/`occupied` | what is registered can be used; `MAX_SESSIONS`; calls do not destroy each other's sessions; dead and old sessions go | `SSHTerminalManager` |
| ssh-exec session and manager (`ssh_exec.py`) | `connection`, `_closed`, `_lost`, the background close; `_sessions`, `_reaper_task` | `execute`, `open`, `close`, `close_all`, the reaper | no command on a connection already closed; no dead session with a connection left; calls spare each other's sessions | `SSHExec`, `SessionRegistry` |
| redfish session and manager (`redfish.py`) | `token`, `session_url`, `authenticated`, `_auth_lock`, `_closed`; `_sessions`, `_reaper_task` | `open`, `request` with one re-login, `close` with its DELETE, gathered `close_all`, the reaper | requests carry a token; one login at a time and only when needed; the lock is never left behind | `Redfish`, `SessionRegistry` |
| http session and auth profiles (`http.py`) | `authenticated`, cookies, `tokens`, `_auth_lock`, `_closed` | `ensure_authenticated`, forced re-login, the four profiles' login and logout, `request`, `close` | an authenticated session has its token, and what is sent has it too; logout precedes a new login; every request ends | `HTTPSession` |
| http manager (`http.py`, `HTTPManager`) | `_sessions`, `_reaper_task` | `request`, `session_for`, `open`, `close`, gathered `close_all`, the reaper | one living session per device; calls spare it; old and dead ones go; the shutdown closes what it found | `HTTPManager`, `SessionRegistry` |
| HTTP request helpers (`http.py`, `redfish.py`) | none | `validate_relative_path`, `validate_request_headers`, the checks of the bodies, what the profiles and `_send` add; `split_endpoint`, `response_limit`, `build_rest_result` | no managed header is the caller's, and the token is the session's wherever the profile puts one | `RequestRules`, in part |
| MCP server (`mcp_server.py`) | one manager per protocol, the calls in progress | `open_on`, `close_on`, the tools, the lifespans; `statuses_of` and the lists read | ambiguity is refused; a call touches its own session only; shutdown reaches every manager | `Server` |
| configuration (`config.py` and the four `parse_config`) | `AppConfig` | `load_config`, `resolve_protocol` | what is accepted has what its logins will ask for; which protocol a call means | `Configuration` |
| command line (`cli.py`) | how far `main()` is | `serve`, `probe`, `validate-config`, `list-devices` | the configuration is loaded before anything else; a probe closes what it opened | `Server` |
| `tls_compat.py`, `errors.py`, packaging, notes | none | | | no state, not modelled |

How they interact.  A tool of `mcp_server.py` resolves a device and a protocol
and awaits one method of that protocol's manager.  The manager looks its
registry up, creates or reuses a session and awaits the session's method; the
reaper is a task of the manager which closes sessions between sleeps; the
lifespan awaits `close_all` of each manager at the end.  Tasks share the
registry and the sessions by reference, so everything one call read before an
`await` may have changed after it.  Every awaited operation can end in four
ways: it succeeds, it raises, the connection goes away under it, or its caller
is cancelled.  `CancelledError` passes every `except Exception`, so a cancelled
call skips the clean-up a failed one does; the models have that as a step of
its own.

The list of what is hard to test, each at its line with the properties that
would catch it, is `hazards` in `PROJECT.json`.

## How the code became actions

A step of a model is the code between two suspension points: the code from one
`await` that really suspends to the next.  Three facts about `asyncio` decide
what is one step.

* A block `async with self._lock:` of a manager awaits nothing inside, so the
  lock is always free when it is taken and the block runs in the step of the
  code around it.  These locks do not appear in the models.
* `_write_lock` and `_auth_lock` are held across awaits.  They appear as
  `writer` and `holder`.  Which waiter gets a released lock next is left open
  (`asyncio` gives it to the first), so the models allow more orders than the
  program has.
* Awaiting a coroutine which returns without suspending does not let others
  run.  `session.close()` is such a coroutine when it was called before or has
  no connection to wait for; the operators named `Immediate` say when, and the
  actions that call `close()` then do all of it in their own step.

Clocks are not kept.  Where the code compares times, both results are
possible: a read whose loop has output may find it quiet, find its deadline
passed, or wait; a session may be found idle or too old at any time.  Bytes,
passwords, headers and JSON bodies are abstracted to what the control depends
on: the transcript to its length, a token or cookie to the number of the login
it belongs to.

### SSHTerminalSession

One session with the exchanges named by their request ids (`Requests`) and
some plain reads (`Reads`).  `pc` says where each is: `queued` for
`_write_lock`, `draining` in `stdin.drain()`, `waiting` for the condition,
`done` or `failed`.  `Read`, `Exchange`, `Write`, `DrainEnd` run the same
operator `Turn`, one turn of the loop of `read()` (298-325), which returns for
one of the reasons the code gives, in its order, or waits; `Return` is the rest
of `read()` (327-341), with `pread` raising on a closed transcript.  The
connection (`ConnectionUp`, `ChannelUp`, `ConnectFails`, `ConnectCancelled`,
`LinkLost`), the reader task (`ReaderOutput`, `ReaderEnd`) and `Close`,
`CloseFinish` run beside them.  The device may end the channel with the
connection still up: `ReaderEnd` needs no loss, and a write or a drain may then
raise as well.  `log`, `settledAt` and `owed` are history
variables for the properties.  A reused request id has no action: the code only
awaits the task it already has.

`TerminalPromise` states what callers rely on, in terms of a log of writes, a
transcript length and two ends; `ImplementsPromise` is the refinement, with the
session's `log` joined to the expected numbers of its requests, `shut` when the
session is closed or has seen eof, and `ended` when it has seen eof.

### SSHTerminalManager

Callers of `open()` and `close()`, the reaper and `close_all()` over abstract
sessions: of each, its connection, whether its process exists, how far it is
closed, and its age.  `Connected` and `Expired` are the two tests the code
makes.  `Pop` pops by device name, as the code does at 551, 583 and 615, not by
session.  The reaper and `close_all` close a list of sessions one by one and
suspend at those whose `close()` suspends; `Reap` and `CloseList` are one step
from one suspension to the next.  The order of such a list is the order of a
dict in the code and left open here.

The `try` of `open()` (540-552) covers `connect()` and the initial `read()`,
and so does `OpenFails`: a call that waits for the connection, for the process
or for its first output may raise, `Fails` closes its session and pops the
device.  `ChannelUp` may go the same way at once, because a read with a limit
it cannot read up to, or of an encoding that does not exist, raises when there
is output to return, without waiting or after it.  So an `open()` can close the
connected session it made, also one that another `open()` reuses by then.
`OpenSparesConnected` says that this is the only connected session an `open()`
ever closes.

### SSHExec

Sessions and manager together, because the hazards lie between them: a command
that is lost starts `close()` in a task of its own (`CleanupStarts`,
`CleanupEnds`), while callers reconnect or replace the session.  Connections
have identities, so that a connection which two `connect()`s made and one
attribute remembers is visible.

### Redfish

Sessions, manager and the service sessions of the BMC.  `WantsLogin`, `LogsIn`
and `Authenticated` are the stretches of `ensure_authenticated()` and
`request()` between two suspensions; every action that reaches them uses the
same ones.  `Rejected` is the first 401 with its `relogin()`.  `close_all`
gathers one task per session (`GatheredCloses`, `GatheredClosed`).  A login or
request that is still connecting when `close()` closes the client may be
answered all the same, here and in the two modules for HTTP; only what begins
later raises.

### HTTPSession

One session of each of the four profiles, with callers that make a request
each.  `Locked` is `ensure_authenticated()` once it has the lock; the profiles
differ in the actions between `login` and `LoggedIn` (`TplinkPosted`,
`TplinkPage`, `ZteToken`, `ZteEntry`, `MellanoxPosted`).  A page the device
serves is reduced to the token it shows, the cookie jar to the cookie of the
login.  `close()` takes no lock, which is why it may log out in the middle of
somebody's login.

httpx stores the Set-Cookie of every answer, when its headers arrive and so
before the code that awaits the answer runs.  `LetIn` is the answer to the
first request of a login, with a new session's cookie (`posted` is the caller
who has yet to look at it), and `SetCookie` what any other exchange in flight
may do to the jar, be it a request that is served or denied, a logout, or that
of `close()`: empty it, put the cookie back that its request carried, or put in
that of a new session nobody logged in to.  An `authenticated` session may
therefore have an empty jar, or a foreign cookie, until a request is denied and
logs in again, and `RequestsAreComplete` does not say otherwise.  It says what
the code does ensure: the token is there while the flag is up and goes out with
every request; and a retry, which follows the cookie check of its own login
with no step between, goes out with a cookie (the ZTE profile checks none).

### HTTPManager

The registry of the WebUIs over what it sees of a session: whether it is
authenticated, how far it is closed, whether it is over age.  The login itself
is reduced to its outcome here (`LoggedIn`, `LoginFails`); `HTTPSession` has it
in full.  `CallReuses`, `CallCreates` and `CallRefused` are `session_for()` with
what the call does until it first suspends; `Answered` and `Denied` are the
answers of the device, and only a request that was answered, or an `open()`
that logged in, leaves a reaper (817, 858).  `close()` sets `_closed`, sends the
logout if there is one to send, and closes the client: `closer` remembers whose
`close()` waits for that logout, so that the reaper's and the gathered closes of
`close_all` (`GatheredCloses`, `GatheredClosed`) can meet on one session, and
`CloseAllEnds` can cancel a reaper which is inside one.

### SessionRegistry

What the managers promise to the tools: one session per device, put there only
where none is alive, never revived; releases are free.  `SSHExec`, `Redfish`
and `HTTPManager` implement it (`ImplementsRegistry`), with `made` the sessions
constructed and `ended` those that the manager's own test, `alive`, rejects.
`SSHTerminalManager` does not: its `open()` reuses only a session that is
`connected`, so that one which is still connecting is replaced as if it were
dead and comes up all the same (a hazard at `ssh_terminal.py` 509).  What it
does keep is stated by `RegisteredUsable` and `OpenSparesConnected`.

### Configuration, RequestRules

Two modules without variables.  `Configuration` has `load_config()` as a
predicate on a document (`Accepted`) and the configuration it returns
(`Loaded`), with the four `parse_config()`.  A scalar is a text or one of the
values YAML can put in its place: absent, null, the empty string, false, a
number, a list; the functions differ in which of them they let through, which
is what the properties are about.  `Resolve` is `resolve_protocol()`.
`RequestRules` has what `request()` refuses of a tool's arguments and what the
client, `_send` and the profiles add; headers, query, form and url-encoded body
are functions from names to who chose the value.  `CarriesOwnLogin` is about the
places a profile fills: the managed headers, the query and the form of a TP-Link
`.cgi` page, the form and the url-encoded body POSTed to a ZTE.  The TP-Link
profile leaves a raw body alone (the default `inject_content`, `http.py`
221-229), so that a `token` field the caller wrote there goes out beside the
session's in the query; which of the two the device looks at is not modelled.

### Server

`main()` from the document to the end: `Load`, then nothing, a probe, or
serving; the tools with the calls in progress; the end of the transport and the
managers closed in turn.  Of a manager it keeps what the tools see of a device:
no session, an open one, or one that is not `occupied`; sessions are lost and
reaped at any time.  The lifespan in which the MCP library runs a server is
external: once for stdio, per connection for sse, and around every request for
the stateless HTTP transport.  `LifespanPerRequest` says the last, and
`AfterRequest` what it would do to the sessions if the server's lifespan owned
them there.  `ConnectionEnds` is the second: the end of one sse connection
closes the managers, one by one, under the calls of the others.  The docstring
of `_create_mcp` (`mcp_server.py` 103) says that this lifespan runs exactly
once; `RequestsSpareSessions` exempts `ConnectionEnds` by name, and so holds of
the calls of every transport, not of the ends of sse connections.

## Runs

`PROJECT.json` lists each run with its properties, and for every property of a
passing run a mutant: the definition of the code as a plausible bug would have
it, under which TLC finds that property violated.  The mutated forms stand
beside the definitions they replace.

| Run | Instance | What it shows |
|---|---|---|
| `terminal_session` | 2 exchanges, 1 read, chunks of 1 or 2 bytes, 2 bytes in all; ordinary, forced, interrupt and unknown inputs, cursors behind, at, and ahead of the end and negative, limits of 5, 1, 0, -1 | every ordering of two writers with a reader, output, loss and close; the safety properties, the refinement of `TerminalPromise`, and that after a loss nobody needs a timer to end |
| `terminal_session_unsettled` | 2 exchanges, 1 read | finding 1 |
| `terminal_manager` | 2 callers, 2 devices, `MAX_SESSIONS` 1, 2 sessions, failing reads, cancellation and shutdown | registry, capacity and closing properties; the reaper reaches every session that should go |
| `terminal_manager_pop` | 1 caller, 1 device, 2 sessions | finding 2 |
| `exec` | 2 callers, 1 device, 2 sessions, 3 connections, cancellation, reaper and shutdown | what calls, losses and background closes do to each other, and the refinement of `SessionRegistry` |
| `exec_two_connects` | 2 callers, 1 session | finding 3 |
| `redfish` | 2 callers, 1 device, 2 sessions, 3 service sessions | the login lock, the token, and the registry under overlapping calls, and the refinement of `SessionRegistry` |
| `redfish_late_rejection` | 2 callers, 1 session, 2 service sessions | finding 4 |
| `http_session` | 2 callers, 4 profiles, 3 login sessions | overlapping logins, forced re-logins, logout and close, with a jar any answer may change; every request ends |
| `http_manager` | 2 callers, 1 device, 2 sessions, cancellation and shutdown, with and without a login | the refinement of `SessionRegistry`; calls spare living sessions; the reaper and the shutdown reach what they should |
| `http_manager_unwatched` | 1 caller, 1 session | finding 5 |
| `server` | some 7,700 documents through `load_config`; four more served over 3 transports and probed, 2 devices, 2 callers, 18 requests | what is accepted can log in; no managed header is the caller's and no field of its own where the profile puts the token; a call takes only its own session; every way to the end closes every manager |

Why the bounds are enough.  Two writers race for a lock, one expected number
or one gate, and a third operation reads beside them; a second chunk of output
lets a read stop before the end, at it, and beyond the first.  With room for
one terminal and two devices, an `open` can be refused, replace a stale session,
and overlap a `close`, while a reaper or a caller still holds the session that
was replaced; the safety properties of this manager are proved for any number
of sessions.  For ssh-exec, redfish and the WebUIs two sessions let one be
replaced while calls on it are in progress, and three connections or service
sessions let a reconnect or re-login overtake an earlier one within a session.
Two callers of an HTTP session let one wait for the lock, send or be answered
late while the other logs in, logs out or retries, and `close()` and
`SetCookie` overlap both; a third session of the device is one that neither
caller's last login made.  The safety properties of this module are proved for
any number of callers and sessions.  The documents of `server` vary one account and one
protocol entry over every class of value, which is all that one `parse_config`
sees; the documents served offer a device with two protocols, each profile, and
a device without a login.  Sessions, connections, service sessions and login
sessions are numbered in order of creation and bounded by `SessionBound`,
`ConnectionBound`, `TokenBound` and `WebBound`, the output by `MaxOutput`: at
the bound the creating action is disabled and nothing else.  Callers are
symmetric where the run has no liveness property and no order on them.
Deadlock is not checked: when the calls have returned, the sessions are closed
and a bound is reached, the system is at rest.

## Fairness

* `SSHTerminalSession`: the event loop runs callbacks that are ready, hence weak
  fairness of the reader's end, of woken reads, of queued writers while the lock
  is free, and of a `drain()` whose connection is lost.  Nothing is assumed of
  timers, of the remote side, or of a `drain()` while the connection is up: a
  device that stops reading may hold the lock for ever.
* `SSHTerminalManager`: only of the reaper: its sleep ends, and so does the
  `wait_closed` it awaits.  Nothing is assumed of callers, of cancellation, or
  of connections being lost; a call may hang in `create_process`, which has no
  timeout, for ever.
* `HTTPSession`: every exchange with the device has the client's timeout, so
  each login, logout and send ends, possibly by failing; the lock is handed to
  a waiter.  No answer of the device is assumed.  The timeouts of httpx are per
  read: a device that sends a byte now and then could hold an exchange longer,
  and `EveryRequestEnds` is not about such a device; nor are the liveness
  properties of `HTTPManager`.
* `HTTPManager`: every exchange with a device has the client's timeout, so
  logins, logouts and sends end, possibly by failing; a reaper that has
  something to take does so after its sleep; the tasks `gather` started run.
  Nothing is assumed of callers.
* `Server`: once the transport ended, the calls in progress end or are
  cancelled, and each `close_all()` returns or raises, since the logouts have
  timeouts; a probe goes on.  Of a call at a terminal (`AtTerminal`) nothing is
  assumed: its writer may hang in `drain()`, which has no timeout, and no code
  here makes uvicorn or the MCP library give it up.  `ShutdownReachesAll` is
  promised from the moment no such call is left.
* `SSHExec` and `Redfish` are checked for safety only.

## Proofs

TLAPS checks the following for every number of requests, reads, callers,
devices, sessions, tokens and documents, and every bound.  Every safety and
action property of every passing run is proved.  A second layer on the same
invariants, below, says where calls go, what they carry, what a shutdown takes
and how far the findings reach; no run checks those statements on its own.
What TLC shows beyond the proofs is liveness.

`SSHTerminalSessionProofs` proves `TypeOK`, `WrittenAtMostOnce`,
`ExpectedSeqWinsOnce`, `WriteCursorsOrdered`, `EofIsFinal`,
`OrdinaryAfterSettled` and `ImplementsPromise`.  The inductive invariant `IInv`
adds to the properties themselves

* `LockInv`: the lock is held by exactly the task that drains.  Without it two
  drains could end in an order the log does not know;
* `LogInv`: the log and the numbers the requests took are inverse to each
  other, and a queued request took none.  `WrittenAtMostOnce` alone does not
  say why the next write is a new one;
* `EofInv`: eof has a cause, the reader's end or a closed transcript, after
  which the reader appends nothing.  Without it output could follow eof;
* `StartInv`: a read in progress starts inside the transcript, which the slice
  it returns depends on.

A step of any read is summarised once (`ReadEffect`, `ReadStep`), a step of the
connection once (`ConnectionStep`) and a failing step once (`FailStep`); the
theorem that `IInv` is preserved has one case per action that cites them.
`OrdinaryAfterSettled` rests on a second invariant, that an open gate means the
last write was settled.  `SessionKeepsPromise` shows that every step is one of
`TerminalPromise` or a stutter.

`SSHTerminalManagerProofs` proves `TypeOK`, `RegisteredUsable`,
`WithinCapacity`, `RefusalIsHarmless` and `OpenSparesConnected`.  `IInv` adds
`RegistryInv` (what is registered under a device was constructed for that
device) and `HandsInv` (what callers, the reaper and `close_all` hold was
constructed, and a stale session and those of `close_all`'s list are not
registered any more).  Popping by device name would break `RegisteredUsable`
without them: they say that the closed session's device is the one that is
popped.  `OpenSparesConnected` rests on a second invariant, `OpenInv`: a session
being connected has one opener and no process yet, so a failing `connect()`
closes nothing connected, and what a failing first read closes is what the same
call opened.

`SSHExecProofs`, `RedfishProofs` and `HTTPManagerProofs` prove `TypeOK`,
`CallsSpareAlive` and the refinement `ImplementsRegistry`. All three rest on
the same `RegistryInv`: a registered session was made for its device, what was
not made yet is untouched, and whatever a call, the reaper or `close_all` holds
was made; in ssh-exec also, that a registered session was never lost, because
the command that finds it lost pops it in the same step. Only that makes a pop
by device name a release of the registry rather than the loss of another
device's session. Beyond it

* `SSHExecProofs` proves `DeadHoldsNothing` and `CommandStartsOnOpenConnection`
  with `CallInv` (a call that waits for the end of a failed connect has closed
  its session) and `LinkInv`: a connection belongs to one session, and that of a session nobody
  closed is not shut;
* `RedfishProofs` proves `LockHeldByLogin`, `SendsWithToken` and
  `LoginOnlyWhenNeeded`; `OneLogin` says that one caller at most posts a
  login for a session, which is not authenticated meanwhile.

`HTTPSessionProofs` proves `TypeOK`, `RequestsAreComplete`, `LockHeldByLogin`
and `LogoutBeforeLogin`.  `LoginInv` says that at most one caller is between the
logout and the last token; that `authenticated` is down from the drop of the old
login until the new one is complete, so that nobody sends without a token
meanwhile; and what the login has at each step: a posted login that was answered
with a cookie goes on with it, and the token of a ZTE device is there before its
entry page is asked for.  `FirstTry` says that a call begins with its first try.
Nothing in the invariant relates the jar to the flag.  Three predicates describe
a caller's step: what it does to the device, the client and the other callers
(`Around`), where its own call goes and with what (`Turns`), and what it does to
the lock and the login (`Locks`).  `CallerStep` shows once that a step within all
three keeps the invariant, and each action is shown to be within them.

`ServerProofs` proves, for any document, `LoadedIsSound`: every entry
`load_config` returns is of a known protocol and has the user name, and where
there is a login the password, its session will ask for; and for any request,
`AcceptedKeepsLogin`.  With `Unloaded` (nothing is called or held before there
is a configuration) they give `LoadedIsUsable`, `WireKeepsOwnLogin`, and
`TypeOK`, whose last conjunct says that whatever is called or held is
configured.  `ClosedStayEmpty` says that a manager which was closed stays empty,
whatever calls end and whatever is lost meanwhile; hence `EmptyWhenStopped`, and
`RequestsSpareSessions` from the same steps.

### Where calls go, and what they carry

These theorems are stated in the proof modules, since they are about the steps
of one call from its start to its end.  Each was first checked by TLC on the
instance of its module's run.

* `CommandsReachTheirDevice` (`SSHExecProofs`): a command runs on a connection
  made to the device it was sent to, and a call keeps its session's device.
  `HostInv` says whom a connection was made for; sessions are replaced and
  connections made twice while the call waits.
* `CallsReachTheirDevice` and `RequestsAreResentOnce` (`RedfishProofs`,
  `HTTPManagerProofs`): a call works on one session of the device it named, and
  gives up a denied request for one retry.  `CallInv` relates what a call waits
  for to what was called; without it a closing call could be taken for one that
  sends.
* `RequestsSendCurrentToken` and `TokensStayApart` (`RedfishProofs`): a request
  goes out with its session's token of that moment; no token is shared by two
  sessions or carried by a request on another, and a session deletes only its
  own service session.  `TokenInv` adds that every token in use was issued
  earlier, so that the next one is new.
* `RequestsCarryALogin` and `RequestsAreResentOnce` (`HTTPSessionProofs`): a
  request in flight carries the token its profile wants, however many logins,
  logouts and closes overlap, and its retry a cookie too; it goes out with what
  the session has at that moment, while the client is open and the flag is up,
  and once more at most.
* `ReadersAreWoken` and `RetriesGetTheResult` (`SSHTerminalSessionProofs`): no
  read sleeps on output it could return or past the end, which is the safety
  half of `LossReleasesEveryone`; and an ended call keeps its result, so a
  retry gets that of the request.
* `LoadedIsComplete` (`ServerProofs`): what `load_config` accepts it keeps
  whole, each device with its own entries and the accounts they name.

### Shutdown

`ShutdownTakesAll` is proved for all four managers: a session that is registered
when `close_all` begins is from then on its own, and closed (for a terminal: its
`close()` has begun) when `close_all` is done.  Callers and the reaper close the
same sessions meanwhile, and `close_all` cancels a reaper that may be inside a
`close()`.  The invariant needed is `EndInv`: for redfish and http, that whoever
waits for a logout is the only one, and of the sessions still registered or
gathered, the reaper; for ssh-exec and the terminals, that whoever waits waits
for a closed session, and that there is a list only while `close_all` goes on.
This is the safety half of `ShutdownCloses`; that `close_all` does end is
liveness.  `LostSessionsAreClosed` (`SSHExecProofs`) says the same of a command
that was interrupted: its session is marked lost only together with the task
that closes it.

### The reach of the findings

A counterexample shows that something goes wrong, not that nothing else does.
Five theorems say how far the findings of the next section go.

* `GoingOnIsBlocked`: in every behaviour in which each read that returns starts
  where the last one cut short had stopped, or later (`ReadsGoOn`), finding 1
  does not occur: the sentence of `mcp_server.py` holds.  `ReadsGoOn` is what a
  client that follows its cursor does.
* `ConnectedLeavesToAnOlder`: a connected session which is not closed leaves
  the registry only by `close_all` or after the close of an older session of its
  device.  It rests on `NewestInv`, that the registered session of a
  device is the newest.  `TrackedWherePopsMatch`: in every behaviour in which
  what leaves the registry is closed (`PopsItsOwn`), finding 2 does not occur;
  a pop that checks which session it takes would repair it.
* `ConnectionsForgottenLate`: a connection that is up is given up only by two
  concurrent connects, which is finding 3, or by a session closed during the
  connect.
* `AloneDiscardsOver`: with one caller finding 4 does not occur.

The hypotheses hold of behaviours of the program: TLC found states in which
the gate is closed under `ReadsGoOn`, and searched the manager under
`PopsItsOwn` with sessions closed, replaced and reaped.

### The abstract registry

`SessionRegistryProofs` proves what follows from `SessionRegistry` alone, and so
of ssh-exec, redfish and http through `ImplementsRegistry`: a session serves one
device (`OneSessionOneDevice`), one that left never comes back, a living one is
replaced by none, and what ended stays ended (`LeavesForGood`).

### Assumptions, and what is only model-checked

The assumptions are those of the modules: the ids of exchanges and reads are
disjoint, the arguments are integers, devices are finitely many and named by
texts, `MAX_SESSIONS` is positive, texts are none of the other values of a
document, a launch is one the parser of the command line lets through, and
`None` is no session or id.

Only model-checked: liveness (`LossReleasesEveryone`, `ReaperRemoves` of the
terminals and of http, `EveryRequestEnds`, `ShutdownCloses`,
`ShutdownReachesAll`), since a step from `WF` needs `ENABLED`, for which this
prover has no rule.  The findings are counterexamples of TLC and need no proof.
No module has a `RECURSIVE` operator.

## Findings

Each is a run that TLC ends with a counterexample against a sentence of the
repository.

1. `BlockedUntilMoreOutput` (`mcp_server.py` 469-471: a deadline or limit
   "blocks ordinary writes until more output is read").  Any read that ends
   quiet clears `unsettled`, also one that starts at an older cursor and reads
   nothing new; then an ordinary write passes.
2. `ConnectedIsTracked` (`mcp_server.py` 281, "Snapshot every live session").
   The reaper pops by device name after awaiting `close()`, and may pop the
   session which an `open()` registered meanwhile; it stays connected and
   nothing lists it.
3. `OneConnectionPerDevice` (`ssh_exec.py` 258, "at most one persistent exec
   connection per device").  `ensure_connected()` has no lock; two commands on
   a session not yet connected both connect, and one connection is forgotten.
4. `DiscardedTokenIsOver` (`redfish.py` 275, "Token expired server-side;
   re-login once and retry").  A late 401 for an old token discards the token
   another caller has just obtained, whose service session stays on the BMC.
5. `ReapsItself` (`mcp_server.py` 44, "Sessions also reap themselves after
   idling").  A request that fails, is refused or is cancelled leaves the
   session it registered and starts no reaper (`http.py` 817; the managers of
   ssh-exec and redfish have the same order).

Two properties say what holds although finding 2 and its likes exist:
`OpenSparesConnected` and `CallsSpareAlive` name the only actions that may close
a connected session or drop a live one, so that any further way would show.  One
that `OpenSparesConnected` names is a divergence of the code's own making: a
first read that raises (540-552) closes the terminal it came from, connected as
it is, even if another caller's `open()` has returned it.

## Not modelled

Inside what is modelled:

* `wait_closed()` raising in `close()`; the reaper would end and not be
  restarted (a hazard without a property).
* A private key that cannot be imported: no connection comes of it.
* A Redfish login whose answer is lost: the BMC may keep a service session that
  nobody knows of; the model does not count it.
* `aclose()` of an HTTP client is taken not to suspend: it closes idle
  connections of the pool.
* Cookies of an HTTP client other than that of the login.
* `Configuration` does not tell a document refused with a `ConfigError` from
  one that ends in a `TypeError` or `AttributeError`, of which `main()` makes no
  error line.
* Which sse connection a call came over: any connection may end at any time,
  its own calls by ending as well.  That the last one's lifespan is over before
  `main()` returns is taken for granted, and so is that a `SIGTERM` reaches the
  HTTP server: on stdio nothing handles it, and no lifespan runs.  The address
  `create_server` binds is not modelled.
* Output decoding, key and line encoding, the values of headers and bodies.
* `get`, `list`, `occupied`, `list_devices`, `list_sessions` and the status
  records only read; `response_limit` and `build_rest_result` only shape a
  result; `split_endpoint` is the set of endpoints it accepts.

Components without state, left out: `tls_compat.py` (builds an SSL context),
`errors.py`, the packaging and the notes on devices.

## Plan

Done: the four kinds of session and manager; the abstract registry and the
terminal's promise with their refinements; configuration, requests, tools and
the two ends of the program; proofs of every safety and action property, of
the paths of calls and credentials, of the shutdowns, and of the reach of the
findings 1 to 4.

1. The service sessions of a BMC and the login sessions of a WebUI that a
   `close()` during a login leaves behind, as a property of what stays on the
   device (`redfish.py` 337, `http.py` 785).
2. `HTTPManager` over `HTTPSession` in one state space, with the late answer's
   token (`http.py` 767) seen by a second session of the device.
3. The read loop with its two clocks: quiet, deadline, and the wake-up between
   them.
4. Proofs: a bound on the sessions `ReapsItself` leaves behind (finding 5),
   between one reaper and the next request that is answered; that at most one
   service session of the BMC per session is live, apart from the cases of
   item 1.
5. Liveness of `SSHExec` and `Redfish` under the timeouts of their exchanges.
