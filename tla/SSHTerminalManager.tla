------------------------- MODULE SSHTerminalManager -------------------------
(***************************************************************************)
(* The registry of terminal sessions: class SSHTerminalManager of          *)
(* src/opkit/protocols/ssh_terminal.py, its reaper and its shutdown.       *)
(*                                                                         *)
(* A step is the code between two suspension points: no block under        *)
(* `_lock' awaits anything, so the lock never separates two steps.  A      *)
(* session is what the manager sees of SSHTerminalSession; sessions are    *)
(* numbered in the order they are created.  Clocks are not kept: a session *)
(* is "fresh", "idle" for the idle TTL, or "old" as its lifetime allows.   *)
(***************************************************************************)
EXTENDS Naturals, FiniteSets

CONSTANTS
    Clients,       \* callers of open() and close()
    Devices,
    MaxSessions,   \* MAX_SESSIONS
    SessionBound,  \* bound: sessions created in a behaviour
    Cancels,       \* callers may be cancelled
    Shutdown,      \* close_all() may be called
    None           \* no session

Sessions == 1 .. SessionBound

ASSUME DevicesAssumption == IsFiniteSet(Devices)
ASSUME BoundsAssumption == MaxSessions \in Nat \ {0} /\ SessionBound \in Nat
ASSUME SwitchesAssumption == Cancels \in BOOLEAN /\ Shutdown \in BOOLEAN
ASSUME NoneAssumption == None \notin Nat

VARIABLES
    reg,       \* _sessions
    created,   \* how many sessions were constructed
    dev,       \* device_name of each session
    conn,      \* its connection: "none" yet, "up", "down"
    ready,     \* its process exists
    shut,      \* "no"; "closing": _closed; "closed": and the transcript too
    age,       \* how long ago its last activity and its opening are
    pc,        \* what each caller is suspended in
    mine,      \* the session it opens or closes
    stale,     \* the session open() closes first
    reaper,    \* _reaper_task exists
    doomed,    \* the rest of the reaper's list
    reaping,   \* the session it is closing, as a set
    ending,    \* close_all: "no", "closing", "done"
    left,      \* the rest of its list
    closing    \* the session it is closing, as a set

sessionVars == <<dev, conn, ready, shut, age>>
clientVars == <<pc, mine, stale>>
reaperVars == <<reaper, doomed, reaping>>
endVars == <<ending, left, closing>>
vars == <<reg, created, sessionVars, clientVars, reaperVars, endVars>>

Steps == {"idle", "stale", "connect", "channel", "reading", "failing", "closing"}

TypeOK ==
    /\ reg \in [Devices -> Sessions \cup {None}]
    /\ created \in 0 .. SessionBound
    /\ dev \in [Sessions -> Devices \cup {None}]
    /\ conn \in [Sessions -> {"none", "up", "down"}]
    /\ ready \in [Sessions -> BOOLEAN]
    /\ shut \in [Sessions -> {"no", "closing", "closed"}]
    /\ age \in [Sessions -> {"fresh", "idle", "old"}]
    /\ pc \in [Clients -> Steps]
    /\ mine \in [Clients -> Sessions \cup {None}]
    /\ stale \in [Clients -> Sessions \cup {None}]
    /\ reaper \in BOOLEAN
    /\ doomed \subseteq Sessions /\ reaping \subseteq Sessions
    /\ ending \in {"no", "closing", "done"}
    /\ left \subseteq Sessions /\ closing \subseteq Sessions

Init ==
    /\ reg = [d \in Devices |-> None]
    /\ created = 0
    /\ dev = [s \in Sessions |-> None]
    /\ conn = [s \in Sessions |-> "none"]
    /\ ready = [s \in Sessions |-> FALSE]
    /\ shut = [s \in Sessions |-> "no"]
    /\ age = [s \in Sessions |-> "fresh"]
    /\ pc = [c \in Clients |-> "idle"]
    /\ mine = [c \in Clients |-> None]
    /\ stale = [c \in Clients |-> None]
    /\ reaper = FALSE /\ doomed = {} /\ reaping = {}
    /\ ending = "no" /\ left = {} /\ closing = {}

-----------------------------------------------------------------------------
(* What the manager sees of a session *)

\* `connected'.
Connected(s) == shut[s] = "no" /\ ready[s] /\ conn[s] = "up"

\* `expired'.
Expired(s) == age[s] # "fresh"

Registered == {reg[d] : d \in Devices} \ {None}

\* session.close() returns without suspending: it was called before, or
\* there is no connection to wait for.
Immediate(s) == shut[s] # "no" \/ conn[s] = "none"

\* close() called on the sessions of P, which do not suspend, and of X, which
\* do; the close() of those of F resumes and ends.
ShutAfter(F, P, X) ==
    [s \in Sessions |->
        IF s \in F THEN "closed"
        ELSE IF s \in P /\ shut[s] = "no" THEN "closed"
        ELSE IF s \in X THEN "closing"
        ELSE shut[s]]

ConnAfter(X) == [s \in Sessions |-> IF s \in X THEN "down" ELSE conn[s]]

Close1(s) ==
    /\ shut' = IF Immediate(s) THEN ShutAfter({}, {s}, {}) ELSE ShutAfter({}, {}, {s})
    /\ conn' = IF Immediate(s) THEN conn ELSE ConnAfter({s})

CloseEnds(s) ==
    /\ shut' = ShutAfter({s}, {}, {})
    /\ UNCHANGED conn

PopNothing(s) == reg

PopKey(s) == [d \in Devices \ {dev[s]} |-> reg[d]]

\* self._sessions.pop(device_name, None): whichever session is there.
Pop(s) == [reg EXCEPT ![dev[s]] = None]

-----------------------------------------------------------------------------
(* open *)

\* The caller's call returns or raises.
Returns(c) ==
    /\ pc' = [pc EXCEPT ![c] = "idle"]
    /\ mine' = [mine EXCEPT ![c] = None]
    /\ stale' = [stale EXCEPT ![c] = None]

\* The caller goes on, suspended in the given step of its call.
Continues(c, step) ==
    /\ pc' = [pc EXCEPT ![c] = step]
    /\ UNCHANGED <<mine, stale>>

\* Reuse a connected session and read from it: a read that raises may leave it
\* untouched, and closes nothing.
OpenReuses(c, d) ==
    /\ pc[c] = "idle"
    /\ reg[d] # None /\ Connected(reg[d])
    /\ age' = [age EXCEPT ![reg[d]] = IF @ = "idle" THEN "fresh" ELSE @]
    /\ UNCHANGED <<reg, created, dev, conn, ready, shut, clientVars, reaperVars, endVars>>

MustReplaceAnyway(s) == TRUE

\* What is registered is not reused: nothing, or a session not connected.
MustReplace(s) == s # None => ~Connected(s)

FullWithStale(d) == Cardinality({e \in Devices : reg[e] # None}) >= MaxSessions

FullOneMore(d) == Cardinality({e \in Devices \ {d} : reg[e] # None}) > MaxSessions

\* len(self._sessions) >= MAX_SESSIONS, after the stale session was popped.
Full(d) == Cardinality({e \in Devices \ {d} : reg[e] # None}) >= MaxSessions

OpenRefused(c, d) ==
    /\ pc[c] = "idle" /\ MustReplace(reg[d]) /\ Full(d)
    /\ reg' = [reg EXCEPT ![d] = None]
    /\ UNCHANGED <<created, sessionVars, clientVars, reaperVars, endVars>>

\* A new session replaces the stale one, whose close() starts.
OpenNew(c, d) ==
    /\ pc[c] = "idle" /\ MustReplace(reg[d]) /\ ~Full(d)
    /\ created < SessionBound
    /\ created' = created + 1
    /\ dev' = [dev EXCEPT ![created + 1] = d]
    /\ reg' = [reg EXCEPT ![d] = created + 1]
    /\ mine' = [mine EXCEPT ![c] = created + 1]
    /\ IF reg[d] = None
       THEN pc' = [pc EXCEPT ![c] = "connect"] /\ UNCHANGED <<stale, shut, conn>>
       ELSE /\ Close1(reg[d])
            /\ IF Immediate(reg[d])
               THEN pc' = [pc EXCEPT ![c] = "connect"] /\ UNCHANGED stale
               ELSE /\ pc' = [pc EXCEPT ![c] = "stale"]
                    /\ stale' = [stale EXCEPT ![c] = reg[d]]
    /\ UNCHANGED <<ready, age, reaperVars, endVars>>

StaleClosed(c) ==
    /\ pc[c] = "stale"
    /\ CloseEnds(stale[c])
    /\ Continues(c, "connect")
    /\ UNCHANGED <<reg, created, dev, ready, age, reaperVars, endVars>>

\* asyncssh.connect returned: the session has a connection, even if it was
\* closed meanwhile.
ConnectUp(c) ==
    /\ pc[c] = "connect"
    /\ conn' = [conn EXCEPT ![mine[c]] = "up"]
    /\ Continues(c, "channel")
    /\ UNCHANGED <<reg, created, dev, ready, shut, age, reaperVars, endVars>>

\* connect() or the initial read raised: the session is closed, then the
\* device is popped.
Fails(c) ==
    /\ Close1(mine[c])
    /\ IF Immediate(mine[c])
       THEN Returns(c) /\ reg' = Pop(mine[c])
       ELSE Continues(c, "failing") /\ UNCHANGED reg

\* create_process returned.  The initial read waits, or raises at once: it
\* does on a closed transcript, or on a limit it has reached and cannot read
\* up to, or for an encoding that does not exist.
ChannelUp(c) ==
    /\ pc[c] = "channel"
    /\ ready' = [ready EXCEPT ![mine[c]] = TRUE]
    /\ \/ shut[mine[c]] # "closed" /\ Continues(c, "reading") /\ UNCHANGED <<reg, shut, conn>>
       \/ Fails(c)
    /\ UNCHANGED <<created, dev, age, reaperVars, endVars>>

\* One try covers connect() and the initial read: a read that raises after it
\* waited closes a session that is connected.
OpenFails(c) ==
    /\ pc[c] \in {"connect", "channel", "reading"}
    /\ Fails(c)
    /\ UNCHANGED <<created, dev, ready, age, reaperVars, endVars>>

FailureClosed(c) ==
    /\ pc[c] = "failing"
    /\ CloseEnds(mine[c])
    /\ Returns(c)
    /\ reg' = Pop(mine[c])
    /\ UNCHANGED <<created, dev, ready, age, reaperVars, endVars>>

\* The initial read returned; only now is there a reaper.
OpenDone(c) ==
    /\ pc[c] = "reading"
    /\ Returns(c)
    /\ reaper' = TRUE
    /\ UNCHANGED <<reg, created, sessionVars, doomed, reaping, endVars>>

\* CancelledError passes every except clause: nothing is closed or popped.
Cancel(c) ==
    /\ Cancels
    /\ pc[c] # "idle"
    /\ Returns(c)
    /\ UNCHANGED <<reg, created, sessionVars, reaperVars, endVars>>

-----------------------------------------------------------------------------
(* close *)

CloseCall(c, d) ==
    /\ pc[c] = "idle" /\ reg[d] # None
    /\ Close1(reg[d])
    /\ IF Immediate(reg[d])
       THEN reg' = Pop(reg[d]) /\ UNCHANGED <<pc, mine>>
       ELSE /\ pc' = [pc EXCEPT ![c] = "closing"] /\ mine' = [mine EXCEPT ![c] = reg[d]]
            /\ UNCHANGED reg
    /\ UNCHANGED <<created, dev, ready, age, stale, reaperVars, endVars>>

CloseDone(c) ==
    /\ pc[c] = "closing"
    /\ CloseEnds(mine[c])
    /\ Returns(c)
    /\ reg' = Pop(mine[c])
    /\ UNCHANGED <<created, dev, ready, age, reaperVars, endVars>>

-----------------------------------------------------------------------------
(* What happens to sessions by themselves *)

\* The remote side ends the connection and the reader sees it.
Lost(s) ==
    /\ conn[s] = "up"
    /\ conn' = [conn EXCEPT ![s] = "down"]
    /\ UNCHANGED <<reg, created, dev, ready, shut, age, clientVars, reaperVars, endVars>>

\* Time passes without activity, or since the session was opened.
Aging(s) ==
    /\ ready[s] /\ age[s] # "old"
    /\ \E a \in {"idle", "old"} : a # age[s] /\ age' = [age EXCEPT ![s] = a]
    /\ UNCHANGED <<reg, created, dev, conn, ready, shut, clientVars, reaperVars, endVars>>

\* A tool call or output of the device (_touch).
Activity(s) ==
    /\ Connected(s) /\ age[s] = "idle"
    /\ age' = [age EXCEPT ![s] = "fresh"]
    /\ UNCHANGED <<reg, created, dev, conn, ready, shut, clientVars, reaperVars, endVars>>

-----------------------------------------------------------------------------
(* The reaper, and close_all *)

\* Sessions of D are closed one after the other, in any order: those of P
\* without suspending, then x suspends the loop (X = {x}) or the list ends.
Advances(D, P, X) ==
    /\ P \subseteq {s \in D : Immediate(s)}
    /\ \/ X = {} /\ P = D
       \/ \E s \in D : ~Immediate(s) /\ X = {s}

\* Each session closed by the reaper pops its device.
Reap(D, F) ==
    \E P \in SUBSET D : \E X \in {{}} \cup {{s} : s \in D} :
        /\ Advances(D, P, X)
        /\ shut' = ShutAfter(F, P, X) /\ conn' = ConnAfter(X)
        /\ reg' = [d \in Devices |-> IF \E s \in F \cup P : dev[s] = d THEN None ELSE reg[d]]
        /\ doomed' = D \ (P \cup X) /\ reaping' = X
        /\ UNCHANGED <<created, dev, ready, age, clientVars, reaper, endVars>>

ExpiredOnly == {s \in Registered : Expired(s)}

\* The sessions the reaper finds to close.
Doomed == {s \in Registered : ~Connected(s) \/ Expired(s)}

ReaperTick == reaper /\ reaping = {} /\ Reap(Doomed, {})

ReaperResumes == reaper /\ reaping # {} /\ Reap(doomed, reaping)

\* The list of close_all ends by cancelling the reaper, wherever it is.
CloseList(D, F) ==
    \E P \in SUBSET D : \E X \in {{}} \cup {{s} : s \in D} :
        /\ Advances(D, P, X)
        /\ shut' = ShutAfter(F, P, X) /\ conn' = ConnAfter(X)
        /\ left' = D \ (P \cup X) /\ closing' = X
        /\ IF X = {}
           THEN ending' = "done" /\ reaper' = FALSE /\ doomed' = {} /\ reaping' = {}
           ELSE ending' = "closing" /\ UNCHANGED reaperVars
        /\ UNCHANGED <<created, dev, ready, age, clientVars>>

CloseAll ==
    /\ Shutdown /\ ending = "no"
    /\ reg' = [d \in Devices |-> None]
    /\ CloseList(Registered, {})

CloseAllResumes ==
    /\ ending = "closing"
    /\ CloseList(left, closing)
    /\ UNCHANGED reg

Next ==
    \/ \E c \in Clients, d \in Devices :
         OpenReuses(c, d) \/ OpenRefused(c, d) \/ OpenNew(c, d) \/ CloseCall(c, d)
    \/ \E c \in Clients :
         \/ StaleClosed(c) \/ ConnectUp(c) \/ ChannelUp(c) \/ OpenFails(c)
         \/ FailureClosed(c) \/ OpenDone(c) \/ Cancel(c) \/ CloseDone(c)
    \/ \E s \in Sessions : Lost(s) \/ Aging(s) \/ Activity(s)
    \/ ReaperTick \/ ReaperResumes \/ CloseAll \/ CloseAllResumes

Spec == Init /\ [][Next]_vars

\* The reaper's sleep is over after REAP_INTERVAL_SECONDS, and a close() it
\* waits for ends.  Callers may stay suspended for ever: create_process has no
\* timeout.
Fairness == WF_vars(ReaperTick) /\ WF_vars(ReaperResumes)

FairSpec == Spec /\ Fairness

-----------------------------------------------------------------------------
(* Properties *)

\* A session found in the registry can be used: its transcript is not closed,
\* however opens, closes, cancellations, the reaper and close_all overlap.
RegisteredUsable == \A s \in Registered : shut[s] # "closed"

\* At most MAX_SESSIONS devices hold a terminal.
WithinCapacity == Cardinality({d \in Devices : reg[d] # None}) <= MaxSessions

\* An open refused for lack of room changes nothing: the stale session it
\* popped before the check would otherwise be lost without being closed.
RefusalIsHarmless ==
    [][\A c \in Clients, d \in Devices : OpenRefused(c, d) => reg[d] = None]_vars

\* open() closes no connected session but the one it opened itself, when the
\* first read of that one raises: another connected session is closed by
\* close(), the reaper and close_all() only.
OpenSparesConnected ==
    [][\A s \in Sessions :
         Connected(s) /\ shut'[s] # "no" =>
            \/ \E c \in Clients : mine[c] = s /\ pc[c] = "reading" /\ OpenFails(c)
            \/ \E c \in Clients, d \in Devices : CloseCall(c, d)
            \/ ReaperTick \/ ReaperResumes \/ CloseAll \/ CloseAllResumes]_vars

\* Once there is a reaper, a session that is dead, or too old, leaves the
\* registry, unless close_all ends the reaper.
ReaperRemoves ==
    \A d \in Devices, s \in Sessions :
        (reaper /\ reg[d] = s /\ (shut[s] # "no" \/ conn[s] = "down" \/ age[s] = "old"))
            ~> (reg[d] # s \/ ending # "no")

\* mcp_server.py 281, "Snapshot every live session": a connected session
\* is in the registry, or a call in progress, the reaper or close_all still
\* has it in hand.
ConnectedIsTracked ==
    \A s \in Sessions : Connected(s) =>
        \/ s \in Registered \cup doomed \cup reaping \cup left \cup closing
        \/ \E c \in Clients : pc[c] # "idle" /\ s \in {mine[c], stale[c]}
=============================================================================
