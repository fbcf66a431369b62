----------------------------- MODULE HTTPManager -----------------------------
(***************************************************************************)
(* The registry of WebUI sessions: class HTTPManager of                    *)
(* src/opkit/protocols/http.py, its reaper and its shutdown, over what it  *)
(* sees of an HTTPSession.  Module HTTPSession has the login itself: here  *)
(* a call that authenticates ends in success or failure at any time.       *)
(*                                                                         *)
(* A step is the code between two suspension points.  Sessions are         *)
(* numbered in the order they are made.  Clocks are not kept: a session    *)
(* may be found idle at any time, and becomes "old" for good.              *)
(***************************************************************************)
EXTENDS Naturals

CONSTANTS
    Clients,       \* callers of request(), open() and close()
    Devices,
    SessionBound,  \* bound: sessions created in a behaviour
    Cancels,       \* callers may be cancelled
    Shutdown       \* close_all() may be called

Sessions == 1 .. SessionBound
None == 0

\* Who calls close() of a session.
Closers == Clients \cup {"reaper", "shutdown"}

ASSUME BoundAssumption == SessionBound \in Nat

VARIABLES
    plain,     \* the devices whose auth profile is "none"
    reg,       \* _sessions
    created,   \* how many sessions were constructed
    dev,       \* device_name
    auth,      \* authenticated
    shut,      \* "no"; "closing": _closed; "closed": and the client too
    closer,    \* who waits for the logout its close() sent, as a set
    old,       \* opened longer ago than its lifetime
    pc,        \* what each caller is suspended in
    op,        \* request, open or close
    mine,      \* the session its call works on
    retry,     \* the request was denied once
    reaper,    \* _reaper_task exists
    doomed,    \* the rest of the reaper's list
    gathered,  \* the sessions close_all has yet to close
    over       \* close_all: "no", "closing", "done"

sessionVars == <<plain, dev, auth, old>>
closeVars == <<shut, closer>>
clientVars == <<pc, op, mine, retry>>
endVars == <<doomed, gathered, over>>
vars == <<reg, created, sessionVars, closeVars, clientVars, reaper, endVars>>

TypeOK ==
    /\ reg \in [Devices -> Sessions \cup {None}]
    /\ created \in 0 .. SessionBound
    /\ plain \subseteq Devices
    /\ dev \in [Sessions -> Devices \cup {None}]
    /\ auth \in [Sessions -> BOOLEAN] /\ old \in [Sessions -> BOOLEAN]
    /\ shut \in [Sessions -> {"no", "closing", "closed"}]
    /\ closer \in [Sessions -> SUBSET Closers]
    /\ pc \in [Clients -> {"idle", "relogin", "login", "sending", "closing"}]
    /\ op \in [Clients -> {"none", "request", "open", "close"}]
    /\ mine \in [Clients -> Sessions \cup {None}]
    /\ retry \in [Clients -> BOOLEAN]
    /\ reaper \in BOOLEAN
    /\ doomed \subseteq Sessions /\ gathered \subseteq Sessions
    /\ over \in {"no", "closing", "done"}

Init ==
    /\ reg = [d \in Devices |-> None] /\ created = 0
    /\ plain \in SUBSET Devices
    /\ dev = [s \in Sessions |-> None]
    /\ auth = [s \in Sessions |-> FALSE] /\ old = [s \in Sessions |-> FALSE]
    /\ shut = [s \in Sessions |-> "no"] /\ closer = [s \in Sessions |-> {}]
    /\ pc = [c \in Clients |-> "idle"] /\ op = [c \in Clients |-> "none"]
    /\ mine = [c \in Clients |-> None] /\ retry = [c \in Clients |-> FALSE]
    /\ reaper = FALSE /\ doomed = {} /\ gathered = {} /\ over = "no"

-----------------------------------------------------------------------------
(* How a call goes on *)

\* `alive'.
Alive(s) == shut[s] = "no"

Registered == {reg[d] : d \in Devices} \ {None}

MustCreateLoggedOut(s) == s # None => ~Alive(s) \/ ~auth[s]

\* session_for() makes a session for the device.
MustCreate(s) == s # None => ~Alive(s)

PopKey(d, s) == [e \in Devices \ {d} |-> reg[e]]

PopAny(d, s) == [reg EXCEPT ![d] = None]

\* open() pops a session it could not log in only if it is still there.
PopSame(d, s) == IF reg[d] = s THEN [reg EXCEPT ![d] = None] ELSE reg

Stands(c, step, kind, s, again) ==
    /\ pc' = [pc EXCEPT ![c] = step] /\ op' = [op EXCEPT ![c] = kind]
    /\ mine' = [mine EXCEPT ![c] = s] /\ retry' = [retry EXCEPT ![c] = again]

Returns(c) == Stands(c, "idle", "none", None, FALSE)

\* The call raises; only open() then looks at the registry.
Raises(c, kind, s) ==
    /\ Returns(c)
    /\ reg' = IF kind = "open" THEN PopSame(dev[s], s) ELSE reg
    /\ UNCHANGED reaper

\* ensure_authenticated() returned: open() is done, request() sends, unless
\* the client was closed.
Authenticated(c, kind, s, again) ==
    IF kind = "open"
    THEN Returns(c) /\ reaper' = TRUE /\ UNCHANGED reg
    ELSE IF shut[s] = "closed"
    THEN Raises(c, kind, s)
    ELSE Stands(c, "sending", kind, s, again) /\ UNCHANGED <<reg, reaper>>

-----------------------------------------------------------------------------
(* request and open *)

\* The registered session is alive: use it.  Without a login to do, it counts
\* as authenticated at once.
CallReuses(c, d, kind) ==
    /\ pc[c] = "idle" /\ ~MustCreate(reg[d])
    /\ IF auth[reg[d]] \/ d \in plain
       THEN /\ Authenticated(c, kind, reg[d], FALSE)
            /\ auth' = [auth EXCEPT ![reg[d]] = TRUE]
       ELSE Stands(c, "login", kind, reg[d], FALSE) /\ UNCHANGED <<auth, reg, reaper>>
    /\ UNCHANGED <<created, plain, dev, old, closeVars, endVars>>

\* The new session for the device.
Registers(d) ==
    /\ MustCreate(reg[d]) /\ created < SessionBound
    /\ created' = created + 1
    /\ dev' = [dev EXCEPT ![created + 1] = d]
    /\ reg' = [reg EXCEPT ![d] = created + 1]

\* Register a new session.  The one it replaces is closed, or being closed: its
\* close() returns at once.
CallCreates(c, d, kind) ==
    /\ pc[c] = "idle"
    /\ Registers(d)
    /\ IF d \in plain
       THEN /\ auth' = [auth EXCEPT ![created + 1] = TRUE]
            /\ IF kind = "open"
               THEN reaper' = TRUE /\ UNCHANGED clientVars
               ELSE Stands(c, "sending", kind, created + 1, FALSE) /\ UNCHANGED reaper
       ELSE Stands(c, "login", kind, created + 1, FALSE) /\ UNCHANGED <<auth, reaper>>
    /\ UNCHANGED <<plain, old, closeVars, endVars>>

\* A request whose arguments are refused: the session was registered before
\* they were looked at, and nobody logs it in.
CallRefused(c, d) ==
    /\ pc[c] = "idle" /\ Registers(d)
    /\ UNCHANGED <<plain, auth, old, closeVars, clientVars, reaper, endVars>>

\* The login succeeded, or another caller's did while this one waited; also one
\* that was still connecting when the client was closed.
LoggedIn(c) ==
    /\ pc[c] = "login"
    /\ auth' = [auth EXCEPT ![mine[c]] = TRUE]
    /\ Authenticated(c, op[c], mine[c], retry[c])
    /\ UNCHANGED <<created, plain, dev, old, closeVars, endVars>>

LoginFails(c) ==
    /\ pc[c] = "login" /\ ~auth[mine[c]]
    /\ Raises(c, op[c], mine[c])
    /\ UNCHANGED <<created, sessionVars, closeVars, endVars>>

Answered(c) ==
    /\ pc[c] = "sending"
    /\ Returns(c) /\ reaper' = TRUE
    /\ UNCHANGED <<reg, created, sessionVars, closeVars, endVars>>

\* is_auth_failure: log in again, once.
Denied(c) ==
    /\ pc[c] = "sending" /\ ~retry[c]
    /\ IF dev[mine[c]] \in plain
       THEN Authenticated(c, "request", mine[c], TRUE)
       ELSE Stands(c, "relogin", "request", mine[c], TRUE) /\ UNCHANGED <<reg, reaper>>
    /\ UNCHANGED <<created, sessionVars, closeVars, endVars>>

\* The forced re-login has the lock and logged out; on a closed client it
\* raises.
LoggedOut(c) ==
    /\ pc[c] = "relogin"
    /\ IF shut[mine[c]] = "closed"
       THEN Raises(c, "request", mine[c]) /\ UNCHANGED auth
       ELSE /\ Stands(c, "login", "request", mine[c], TRUE)
            /\ auth' = [auth EXCEPT ![mine[c]] = FALSE]
            /\ UNCHANGED <<reg, reaper>>
    /\ UNCHANGED <<created, plain, dev, old, closeVars, endVars>>

\* No answer, also because the client was closed: no pop, and no reaper.
SendFails(c) ==
    /\ pc[c] = "sending"
    /\ Raises(c, "request", mine[c])
    /\ UNCHANGED <<created, sessionVars, closeVars, endVars>>

\* CancelledError passes the except clauses; the client of a session being
\* closed is closed.
Cancel(c) ==
    /\ Cancels /\ pc[c] # "idle"
    /\ Returns(c)
    /\ IF pc[c] = "closing"
       THEN /\ shut' = [shut EXCEPT ![mine[c]] = "closed"]
            /\ closer' = [closer EXCEPT ![mine[c]] = {}]
       ELSE UNCHANGED closeVars
    /\ UNCHANGED <<reg, created, sessionVars, reaper, endVars>>

\* MAX_SESSION_LIFETIME_SECONDS passed; only the reaper asks, and only of
\* registered sessions.
Aging(s) ==
    /\ s \in Registered /\ ~old[s]
    /\ old' = [old EXCEPT ![s] = TRUE]
    /\ UNCHANGED <<reg, created, plain, dev, auth, closeVars, clientVars, reaper, endVars>>

-----------------------------------------------------------------------------
(* close, the reaper, close_all *)

\* close() returns without suspending: it was called before, or there is
\* nobody to log out.
Immediate(s) == shut[s] # "no" \/ ~auth[s] \/ dev[s] \in plain

\* The logouts of F ended; w calls close() on P, which ends, and X.
Closing(w, F, P, X) ==
    /\ shut' = [s \in Sessions |->
                   IF s \in F \/ (s \in P /\ shut[s] = "no") THEN "closed"
                   ELSE IF s \in X THEN "closing" ELSE shut[s]]
    /\ closer' = [s \in Sessions |->
                     IF s \in F THEN {} ELSE IF s \in X THEN {w} ELSE closer[s]]
    /\ auth' = [s \in Sessions |->
                   auth[s] /\ s \notin F /\ ~(s \in P /\ shut[s] = "no")]

CloseCall(c, d) ==
    /\ pc[c] = "idle" /\ reg[d] # None
    /\ reg' = [reg EXCEPT ![d] = None]
    /\ IF Immediate(reg[d])
       THEN Closing(c, {}, {reg[d]}, {}) /\ UNCHANGED clientVars
       ELSE Closing(c, {}, {}, {reg[d]}) /\ Stands(c, "closing", "close", reg[d], FALSE)
    /\ UNCHANGED <<created, plain, dev, old, reaper, endVars>>

CloseDone(c) ==
    /\ pc[c] = "closing"
    /\ Closing(c, {mine[c]}, {}, {})
    /\ Returns(c)
    /\ UNCHANGED <<reg, created, plain, dev, old, reaper, endVars>>

ClosedBy(w) == {s \in Sessions : w \in closer[s]}

\* The reaper closes the sessions of D in turn, in any order: those of P
\* without suspending, then one of them suspends it or the list ends.  It pops
\* the device of each session it closed, whatever is registered there.
Reap(D, F) ==
    \E P \in SUBSET {s \in D : Immediate(s)} : \E X \in {{}} \cup {{s} : s \in D} :
        /\ IF X = {} THEN P = D ELSE \A s \in X : ~Immediate(s)
        /\ Closing("reaper", F, P, X)
        /\ reg' = [d \in Devices |-> IF \E s \in F \cup P : dev[s] = d THEN None ELSE reg[d]]
        /\ doomed' = D \ (P \cup X)
        /\ UNCHANGED <<created, plain, dev, old, clientVars, reaper, gathered, over>>

DeadOnly == {s \in Registered : ~Alive(s)}

\* What the reaper has to take: the dead and the old.
Due == {s \in Registered : ~Alive(s) \/ old[s]}

\* The reaper woke up: it takes those and what it finds idle.
ReaperTick ==
    /\ reaper /\ ClosedBy("reaper") = {}
    /\ \E idle \in SUBSET Registered : Reap(idle \cup Due, {})

ReaperResumes ==
    /\ reaper /\ ClosedBy("reaper") # {}
    /\ Reap(doomed, ClosedBy("reaper"))

\* close_all clears the registry; gather() then runs a task for each session.
CloseAll ==
    /\ Shutdown /\ over = "no"
    /\ over' = "closing" /\ gathered' = Registered
    /\ reg' = [d \in Devices |-> None]
    /\ UNCHANGED <<created, sessionVars, closeVars, clientVars, reaper, doomed>>

GatheredCloses(s) ==
    /\ s \in gathered
    /\ gathered' = gathered \ {s}
    /\ IF Immediate(s) THEN Closing("shutdown", {}, {s}, {}) ELSE Closing("shutdown", {}, {}, {s})
    /\ UNCHANGED <<reg, created, plain, dev, old, clientVars, reaper, doomed, over>>

GatheredClosedClientOpen(s) ==
    /\ "shutdown" \in closer[s]
    /\ closer' = [closer EXCEPT ![s] = {}]
    /\ UNCHANGED <<reg, created, sessionVars, shut, clientVars, reaper, endVars>>

GatheredClosed(s) ==
    /\ "shutdown" \in closer[s]
    /\ Closing("shutdown", {s}, {}, {})
    /\ UNCHANGED <<reg, created, plain, dev, old, clientVars, reaper, endVars>>

\* Its end cancels the reaper, which closes the client of the session it is
\* logging out.
CloseAllEnds ==
    /\ over = "closing" /\ gathered = {} /\ ClosedBy("shutdown") = {}
    /\ over' = "done" /\ reaper' = FALSE /\ doomed' = {}
    /\ shut' = [s \in Sessions |-> IF s \in ClosedBy("reaper") THEN "closed" ELSE shut[s]]
    /\ closer' = [s \in Sessions |-> closer[s] \ {"reaper"}]
    /\ UNCHANGED <<reg, created, sessionVars, clientVars, gathered>>

Next ==
    \/ \E c \in Clients, d \in Devices :
         \/ CallRefused(c, d) \/ CloseCall(c, d)
         \/ \E kind \in {"request", "open"} : CallReuses(c, d, kind) \/ CallCreates(c, d, kind)
    \/ \E c \in Clients :
         \/ LoggedIn(c) \/ LoginFails(c) \/ Answered(c) \/ Denied(c) \/ LoggedOut(c)
         \/ SendFails(c) \/ Cancel(c) \/ CloseDone(c)
    \/ \E s \in Sessions : Aging(s) \/ GatheredCloses(s) \/ GatheredClosed(s)
    \/ ReaperTick \/ ReaperResumes \/ CloseAll \/ CloseAllEnds

Spec == Init /\ [][Next]_vars

\* Every exchange with a device has a timeout, and the reaper's sleep ends
\* after REAP_INTERVAL_SECONDS, without a promise what else it finds idle.
Fairness ==
    /\ \A c \in Clients :
         /\ WF_vars(LoggedIn(c) \/ LoginFails(c)) /\ WF_vars(LoggedOut(c))
         /\ WF_vars(SendFails(c) \/ Answered(c)) /\ WF_vars(CloseDone(c))
    /\ \A s \in Sessions : WF_vars(GatheredCloses(s)) /\ WF_vars(GatheredClosed(s))
    /\ WF_vars(Due # {} /\ ReaperTick) /\ WF_vars(ReaperResumes) /\ WF_vars(CloseAllEnds)

FairSpec == Spec /\ Fairness

-----------------------------------------------------------------------------
(* Properties *)

\* One session per device, and a living one is replaced by none: HTTPManager
\* implements SessionRegistry.
Registry == INSTANCE SessionRegistry WITH
    made <- 1 .. created, ended <- {s \in 1 .. created : ~Alive(s)}

ImplementsRegistry == Registry!Spec

\* A session that leaves the registry alive was taken by a failed open() of
\* that session, by close_all, to be closed, or by the reaper, which pops by
\* device name what replaced the session it closed.
CallsSpareAlive ==
    [][\A d \in Devices :
         reg[d] # None /\ reg'[d] # reg[d] /\ shut'[reg[d]] = "no" =>
            \/ \E c \in Clients : op[c] = "open" /\ mine[c] = reg[d] /\ pc'[c] = "idle"
            \/ ReaperResumes \/ CloseAll]_vars

\* Once there is a reaper, a session that is dead, or too old, leaves the
\* registry, unless close_all ends the reaper.
ReaperRemoves ==
    \A d \in Devices, s \in Sessions :
        (reaper /\ reg[d] = s /\ (~Alive(s) \/ old[s])) ~> (reg[d] # s \/ over # "no")

\* close_all ends, whatever calls are in progress, and what was registered
\* when it began is closed then.
ShutdownCloses ==
    \A s \in Sessions :
        (over = "closing" /\ s \in gathered) ~> (over = "done" /\ shut[s] = "closed")

\* mcp_server.py 44, of all protocols: "Sessions also reap themselves after
\* idling".  A registered session that is too old leaves the registry.
ReapsItself ==
    \A d \in Devices, s \in Sessions : (reg[d] = s /\ old[s]) ~> reg[d] # s
=============================================================================
