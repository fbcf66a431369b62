------------------------------- MODULE Redfish -------------------------------
(***************************************************************************)
(* The redfish protocol of src/opkit/protocols/redfish.py: its sessions    *)
(* (RedfishSession), the service sessions they hold on a BMC, and their    *)
(* registry (RedfishManager).                                              *)
(*                                                                         *)
(* A step is the code between two suspension points.  Sessions, and the    *)
(* service sessions of the BMCs with their tokens, are numbered in the     *)
(* order they are made; a token is the number of its service session.      *)
(* Clocks are not kept: any session may be found expired.                  *)
(***************************************************************************)
EXTENDS Naturals

CONSTANTS
    Clients,       \* callers of request(), open() and close()
    Devices,
    SessionBound,  \* bound: sessions created in a behaviour
    TokenBound,    \* bound: service sessions the BMCs create
    Cancels,       \* callers may be cancelled
    Reaping        \* sessions may expire, and close_all() may be called

Sessions == 1 .. SessionBound
Tokens == 1 .. TokenBound
None == 0

\* Who calls close() of a session.
Closers == Clients \cup {"reaper", "shutdown"}

ASSUME BoundsAssumption == SessionBound \in Nat /\ TokenBound \in Nat

VARIABLES
    reg,       \* _sessions
    created,   \* how many sessions were constructed
    dev,       \* device_name
    shut,      \* "no"; "closing": _closed; "closed": and the client too
    auth,      \* authenticated
    token,     \* None, or the token
    url,       \* session_url: None, or the service session it names
    holder,    \* the caller that holds _auth_lock, as a set
    closer,    \* who waits for the DELETE its close() sent, as a set
    issued,    \* how many service sessions the BMCs created
    service,   \* "none"; "live"; "over": deleted or expired
    pc,        \* what each caller is suspended in
    op,        \* request, open or close
    mine,      \* the session its call works on
    retry,     \* the request was answered 401 once
    sent,      \* the token its request carries
    reaper,    \* _reaper_task exists
    doomed,    \* the rest of the reaper's list
    gathered,  \* the sessions close_all has yet to close
    over       \* close_all: "no", "closing", "done"

sessionVars == <<dev, shut, closer>>
loginVars == <<auth, token, url, holder>>
bmcVars == <<issued, service>>
clientVars == <<pc, op, mine, retry, sent>>
endVars == <<doomed, gathered, over>>
vars == <<reg, created, sessionVars, loginVars, bmcVars, clientVars, reaper, endVars>>

TypeOK ==
    /\ reg \in [Devices -> Sessions \cup {None}]
    /\ created \in 0 .. SessionBound
    /\ dev \in [Sessions -> Devices \cup {None}]
    /\ shut \in [Sessions -> {"no", "closing", "closed"}]
    /\ auth \in [Sessions -> BOOLEAN]
    /\ token \in [Sessions -> Tokens \cup {None}]
    /\ url \in [Sessions -> Tokens \cup {None}]
    /\ holder \in [Sessions -> SUBSET Clients]
    /\ closer \in [Sessions -> SUBSET Closers]
    /\ issued \in 0 .. TokenBound
    /\ service \in [Tokens -> {"none", "live", "over"}]
    /\ pc \in [Clients -> {"idle", "locked", "login", "sending", "closing"}]
    /\ op \in [Clients -> {"none", "request", "open", "close"}]
    /\ mine \in [Clients -> Sessions \cup {None}]
    /\ retry \in [Clients -> BOOLEAN]
    /\ sent \in [Clients -> Tokens \cup {None}]
    /\ reaper \in BOOLEAN
    /\ doomed \subseteq Sessions /\ gathered \subseteq Sessions
    /\ over \in {"no", "closing", "done"}

Init ==
    /\ reg = [d \in Devices |-> None] /\ created = 0
    /\ dev = [s \in Sessions |-> None] /\ shut = [s \in Sessions |-> "no"]
    /\ closer = [s \in Sessions |-> {}]
    /\ auth = [s \in Sessions |-> FALSE]
    /\ token = [s \in Sessions |-> None] /\ url = [s \in Sessions |-> None]
    /\ holder = [s \in Sessions |-> {}]
    /\ issued = 0 /\ service = [k \in Tokens |-> "none"]
    /\ pc = [c \in Clients |-> "idle"] /\ op = [c \in Clients |-> "none"]
    /\ mine = [c \in Clients |-> None] /\ retry = [c \in Clients |-> FALSE]
    /\ sent = [c \in Clients |-> None]
    /\ reaper = FALSE /\ doomed = {} /\ gathered = {} /\ over = "no"

-----------------------------------------------------------------------------
(* How a call goes on *)

\* `alive'.
Alive(s) == shut[s] = "no"

MustCreateLoggedOut(s) == s # None => ~Alive(s) \/ ~auth[s]

\* _session_for() makes a session for the device.
MustCreate(s) == s # None => ~Alive(s)

PopKey(d, s) == [e \in Devices \ {d} |-> reg[e]]

PopAny(d, s) == [reg EXCEPT ![d] = None]

\* open() pops a session it could not log in only if it is still there.
PopSame(d, s) == IF reg[d] = s THEN [reg EXCEPT ![d] = None] ELSE reg

\* Where a call is left: its step, with the token it sent.
Stands(c, step, kind, s, again, k) ==
    /\ pc' = [pc EXCEPT ![c] = step] /\ op' = [op EXCEPT ![c] = kind]
    /\ mine' = [mine EXCEPT ![c] = s] /\ retry' = [retry EXCEPT ![c] = again]
    /\ sent' = [sent EXCEPT ![c] = k]

Returns(c) == Stands(c, "idle", "none", None, FALSE, None)

\* The call raises; only open() then looks at the registry.
Raises(c, kind, s) ==
    /\ Returns(c)
    /\ reg' = IF kind = "open" THEN PopSame(dev[s], s) ELSE reg
    /\ UNCHANGED reaper

\* ensure_authenticated() returned with this token: open() is done, request()
\* sends, unless the client was closed.
Authenticated(c, kind, s, again, k) ==
    IF kind = "open"
    THEN Returns(c) /\ reaper' = TRUE /\ UNCHANGED reg
    ELSE IF shut[s] = "closed"
    THEN Raises(c, kind, s)
    ELSE Stands(c, "sending", kind, s, again, k) /\ UNCHANGED <<reg, reaper>>

\* The lock is taken and the session not authenticated: post the login.
LogsIn(c, kind, s, again) ==
    IF shut[s] = "closed"
    THEN Raises(c, kind, s) /\ UNCHANGED holder
    ELSE /\ Stands(c, "login", kind, s, again, None)
         /\ holder' = [holder EXCEPT ![s] = {c}] /\ UNCHANGED <<reg, reaper>>

\* ensure_authenticated() on a session that is not authenticated.
WantsLogin(c, kind, s, again) ==
    IF holder[s] = {} /\ \A b \in Clients \ {c} : ~(pc[b] = "locked" /\ mine[b] = s)
    THEN LogsIn(c, kind, s, again)
    ELSE /\ Stands(c, "locked", kind, s, again, None)
         /\ UNCHANGED <<reg, holder, reaper>>

ReleasesNothing(c, s) == UNCHANGED holder

Releases(c, s) == holder' = [holder EXCEPT ![s] = @ \ {c}]

-----------------------------------------------------------------------------
(* request and open *)

\* The registered session is alive: use it.
CallReuses(c, d, kind) ==
    /\ pc[c] = "idle" /\ ~MustCreate(reg[d])
    /\ IF auth[reg[d]]
       THEN Authenticated(c, kind, reg[d], FALSE, token[reg[d]]) /\ UNCHANGED holder
       ELSE WantsLogin(c, kind, reg[d], FALSE)
    /\ UNCHANGED <<created, sessionVars, auth, token, url, bmcVars, endVars>>

\* The new session for the device.
Registers(d) ==
    /\ MustCreate(reg[d]) /\ created < SessionBound
    /\ created' = created + 1
    /\ dev' = [dev EXCEPT ![created + 1] = d]
    /\ reg' = [reg EXCEPT ![d] = created + 1]

\* Register a new session.  The one it replaces is closed, or being closed: its
\* close() returns at once.
CallCreates(c, d, kind) ==
    /\ pc[c] = "idle" /\ Registers(d)
    /\ Stands(c, "login", kind, created + 1, FALSE, None)
    /\ holder' = [holder EXCEPT ![created + 1] = {c}]
    /\ UNCHANGED <<shut, closer, auth, token, url, bmcVars, reaper, endVars>>

\* A request whose arguments are refused: the session was registered before
\* they were looked at, and nobody logs it in.
CallRefused(c, d) ==
    /\ pc[c] = "idle" /\ Registers(d)
    /\ UNCHANGED <<shut, closer, loginVars, bmcVars, clientVars, reaper, endVars>>

LockTakenUnchecked(c) ==
    /\ pc[c] = "locked" /\ holder[mine[c]] = {}
    /\ LogsIn(c, op[c], mine[c], retry[c])
    /\ UNCHANGED <<created, sessionVars, auth, token, url, bmcVars, endVars>>

\* The lock is free: whoever held it may have logged in.
LockTaken(c) ==
    /\ pc[c] = "locked" /\ holder[mine[c]] = {}
    /\ IF auth[mine[c]]
       THEN Authenticated(c, op[c], mine[c], retry[c], token[mine[c]]) /\ UNCHANGED holder
       ELSE LogsIn(c, op[c], mine[c], retry[c])
    /\ UNCHANGED <<created, sessionVars, auth, token, url, bmcVars, endVars>>

\* 201 with a token, and with or without a Location; also to a login that was
\* still connecting when the client was closed.
LoginUp(c) ==
    /\ pc[c] = "login" /\ issued < TokenBound
    /\ issued' = issued + 1
    /\ service' = [service EXCEPT ![issued + 1] = "live"]
    /\ auth' = [auth EXCEPT ![mine[c]] = TRUE]
    /\ token' = [token EXCEPT ![mine[c]] = issued + 1]
    /\ \E location \in {issued + 1, None} : url' = [url EXCEPT ![mine[c]] = location]
    /\ Releases(c, mine[c])
    /\ Authenticated(c, op[c], mine[c], retry[c], issued + 1)
    /\ UNCHANGED <<created, sessionVars, endVars>>

\* Any other answer, or none: a service session nobody heard of is not kept.
LoginFails(c) ==
    /\ pc[c] = "login"
    /\ Releases(c, mine[c])
    /\ Raises(c, op[c], mine[c])
    /\ UNCHANGED <<created, sessionVars, auth, token, url, bmcVars, endVars>>

Answered(c) ==
    /\ pc[c] = "sending"
    /\ Returns(c) /\ reaper' = TRUE
    /\ UNCHANGED <<reg, created, sessionVars, loginVars, bmcVars, endVars>>

RejectedKeepsFlag(c) ==
    /\ pc[c] = "sending"
    /\ ~retry[c] /\ service[sent[c]] = "over"
    /\ token' = [token EXCEPT ![mine[c]] = None]
    /\ url' = [url EXCEPT ![mine[c]] = None]
    /\ UNCHANGED auth
    /\ IF auth[mine[c]]
       THEN Authenticated(c, "request", mine[c], TRUE, None) /\ UNCHANGED holder
       ELSE WantsLogin(c, "request", mine[c], TRUE)
    /\ UNCHANGED <<created, sessionVars, bmcVars, endVars>>

\* The first 401: relogin(), whatever token the session has by now.
Rejected(c) ==
    /\ pc[c] = "sending"
    /\ ~retry[c] /\ service[sent[c]] = "over"
    /\ auth' = [auth EXCEPT ![mine[c]] = FALSE]
    /\ token' = [token EXCEPT ![mine[c]] = None]
    /\ url' = [url EXCEPT ![mine[c]] = None]
    /\ WantsLogin(c, "request", mine[c], TRUE)
    /\ UNCHANGED <<created, sessionVars, bmcVars, endVars>>

\* No answer, also because the client was closed: no pop, and no reaper.
SendFails(c) ==
    /\ pc[c] = "sending"
    /\ Raises(c, "request", mine[c])
    /\ UNCHANGED <<created, sessionVars, loginVars, bmcVars, endVars>>

\* CancelledError passes the except clauses; the lock is released, and the
\* client of a session being closed is closed.
Cancel(c) ==
    /\ Cancels /\ pc[c] # "idle"
    /\ Returns(c)
    /\ Releases(c, mine[c])
    /\ IF pc[c] = "closing"
       THEN /\ shut' = [shut EXCEPT ![mine[c]] = "closed"]
            /\ closer' = [closer EXCEPT ![mine[c]] = {}]
       ELSE UNCHANGED <<shut, closer>>
    /\ UNCHANGED <<reg, created, dev, auth, token, url, bmcVars, reaper, endVars>>

\* The BMC ends a service session: it expired, or a DELETE names it.
ServiceOver(k) ==
    /\ service[k] = "live"
    /\ service' = [service EXCEPT ![k] = "over"]
    /\ UNCHANGED <<reg, created, sessionVars, loginVars, issued, clientVars, reaper, endVars>>

-----------------------------------------------------------------------------
(* close, the reaper, close_all *)

\* close() returns without suspending: it was called before, or there is no
\* service session it could delete.
Immediate(s) == shut[s] # "no" \/ ~auth[s] \/ url[s] = None

\* The DELETEs of F ended; w calls close() on P, which ends, and X.
Closing(w, F, P, X) ==
    /\ shut' = [s \in Sessions |->
                   IF s \in F \/ (s \in P /\ shut[s] = "no") THEN "closed"
                   ELSE IF s \in X THEN "closing" ELSE shut[s]]
    /\ closer' = [s \in Sessions |->
                     IF s \in F THEN {} ELSE IF s \in X THEN {w} ELSE closer[s]]

CloseCall(c, d) ==
    /\ pc[c] = "idle" /\ reg[d] # None
    /\ reg' = [reg EXCEPT ![d] = None]
    /\ IF Immediate(reg[d])
       THEN Closing(c, {}, {reg[d]}, {}) /\ UNCHANGED clientVars
       ELSE Closing(c, {}, {}, {reg[d]}) /\ Stands(c, "closing", "close", reg[d], FALSE, None)
    /\ UNCHANGED <<created, dev, loginVars, bmcVars, reaper, endVars>>

CloseDone(c) ==
    /\ pc[c] = "closing"
    /\ Closing(c, {mine[c]}, {}, {})
    /\ Returns(c)
    /\ UNCHANGED <<reg, created, dev, loginVars, bmcVars, reaper, endVars>>

Registered == {reg[d] : d \in Devices} \ {None}

ClosedBy(w) == {s \in Sessions : w \in closer[s]}

\* The reaper closes the sessions of D in turn, in any order: those of P
\* without suspending, then one of them suspends it or the list ends.  It pops
\* the device of each session it closed, whatever is registered there.
Reap(D, F) ==
    \E P \in SUBSET {s \in D : Immediate(s)} : \E X \in {{}} \cup {{s} : s \in D} :
        /\ IF X = {} THEN P = D ELSE \A s \in X : ~Immediate(s)
        /\ Closing("reaper", F, P, X)
        /\ reg' = [d \in Devices |-> IF \E s \in F \cup P : dev[s] = d THEN None ELSE reg[d]]
        /\ doomed' = D \ (P \cup X)
        /\ UNCHANGED <<created, dev, loginVars, bmcVars, clientVars, reaper, gathered, over>>

ReaperTick ==
    /\ reaper /\ ClosedBy("reaper") = {}
    /\ \E E \in SUBSET Registered :
         /\ Reaping \/ E = {}
         /\ Reap(E \cup {s \in Registered : ~Alive(s)}, {})

ReaperResumes ==
    /\ reaper /\ ClosedBy("reaper") # {}
    /\ Reap(doomed, ClosedBy("reaper"))

\* close_all clears the registry; gather() then runs a task for each session.
CloseAll ==
    /\ Reaping /\ over = "no"
    /\ over' = "closing" /\ gathered' = Registered
    /\ reg' = [d \in Devices |-> None]
    /\ UNCHANGED <<created, sessionVars, loginVars, bmcVars, clientVars, reaper, doomed>>

GatheredCloses(s) ==
    /\ s \in gathered
    /\ gathered' = gathered \ {s}
    /\ IF Immediate(s) THEN Closing("shutdown", {}, {s}, {}) ELSE Closing("shutdown", {}, {}, {s})
    /\ UNCHANGED <<reg, created, dev, loginVars, bmcVars, clientVars, reaper, doomed, over>>

GatheredClosed(s) ==
    /\ "shutdown" \in closer[s]
    /\ Closing("shutdown", {s}, {}, {})
    /\ UNCHANGED <<reg, created, dev, loginVars, bmcVars, clientVars, reaper, endVars>>

\* Its end cancels the reaper, which closes the client of the session whose
\* DELETE it waits for.
CloseAllEnds ==
    /\ over = "closing" /\ gathered = {} /\ ClosedBy("shutdown") = {}
    /\ over' = "done" /\ reaper' = FALSE /\ doomed' = {}
    /\ Closing("shutdown", ClosedBy("reaper"), {}, {})
    /\ UNCHANGED <<reg, created, dev, loginVars, bmcVars, clientVars, gathered>>

Next ==
    \/ \E c \in Clients, d \in Devices :
         \/ CallRefused(c, d) \/ CloseCall(c, d)
         \/ \E kind \in {"request", "open"} : CallReuses(c, d, kind) \/ CallCreates(c, d, kind)
    \/ \E c \in Clients :
         \/ LockTaken(c) \/ LoginUp(c) \/ LoginFails(c) \/ Answered(c) \/ Rejected(c)
         \/ SendFails(c) \/ Cancel(c) \/ CloseDone(c)
    \/ \E k \in Tokens : ServiceOver(k)
    \/ \E s \in Sessions : GatheredCloses(s) \/ GatheredClosed(s)
    \/ ReaperTick \/ ReaperResumes \/ CloseAll \/ CloseAllEnds

Spec == Init /\ [][Next]_vars

-----------------------------------------------------------------------------
(* Properties *)

\* The assertions of _send and close: a request in flight carries a token, and
\* a session that counts as authenticated has one, however the re-logins,
\* failed logins and cancellations of its callers overlap.
SendsWithToken ==
    /\ \A c \in Clients : pc[c] = "sending" => sent[c] # None
    /\ \A s \in Sessions : auth[s] => token[s] # None

\* Nobody logs in a session that is authenticated: the login's answer would
\* overwrite a token and a session_url that are never logged out.
LoginOnlyWhenNeeded ==
    [][\A c \in Clients : pc'[c] = "login" /\ pc[c] # "login" => ~auth'[mine'[c]]]_vars

\* A lock outlives neither its holder's call nor its cancellation, and the
\* session's callers wait for it only while somebody posts a login, or
\* leaves it to the first of them.
LockHeldByLogin ==
    \A s \in Sessions : holder[s] = {c \in Clients : pc[c] = "login" /\ mine[c] = s}

\* A session that leaves the registry alive was taken by a failed open() of
\* that session, by close_all, to be closed, or by the reaper, which pops by device name
\* what replaced the session it closed.
CallsSpareAlive ==
    [][\A d \in Devices :
         reg[d] # None /\ reg'[d] # reg[d] /\ shut'[reg[d]] = "no" =>
            \/ \E c \in Clients : op[c] = "open" /\ mine[c] = reg[d] /\ pc'[c] = "idle"
            \/ ReaperResumes \/ CloseAll]_vars

\* One session per device, and a living one is replaced by none: RedfishManager
\* implements SessionRegistry.
Registry == INSTANCE SessionRegistry WITH
    made <- 1 .. created, ended <- {s \in 1 .. created : ~Alive(s)}

ImplementsRegistry == Registry!Spec

\* redfish.py 275: "Token expired server-side; re-login once and retry."  The
\* token a re-login throws away is one the BMC rejects.
DiscardedTokenIsOver ==
    [][\A s \in Sessions : auth[s] /\ ~auth'[s] => service[token[s]] = "over"]_vars
=============================================================================
