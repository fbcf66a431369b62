------------------------------- MODULE SSHExec -------------------------------
(***************************************************************************)
(* The ssh-exec protocol of src/opkit/protocols/ssh_exec.py: its cached    *)
(* sessions (SSHExecSession) and their registry (SSHExecManager).          *)
(*                                                                         *)
(* A step is the code between two suspension points.  Sessions and         *)
(* connections are numbered in the order they are made.  Clocks are not    *)
(* kept: any session may be found expired.                                 *)
(***************************************************************************)
EXTENDS Naturals

CONSTANTS
    Clients,          \* callers of execute(), open() and close()
    Devices,
    SessionBound,     \* bound: sessions created in a behaviour
    ConnectionBound,  \* bound: connections made in a behaviour
    Cancels,          \* callers may be cancelled
    Reaping           \* sessions may expire, and close_all() may be called

Sessions == 1 .. SessionBound
Connections == 1 .. ConnectionBound
None == 0

\* What closes a list of sessions: the reaper and close_all().
Listers == {"reaper", "shutdown"}

ASSUME BoundsAssumption == SessionBound \in Nat /\ ConnectionBound \in Nat

VARIABLES
    reg,      \* _sessions
    created,  \* how many sessions were constructed
    dev,      \* device_name
    conn,     \* connection of each session, None without one
    closed,   \* _closed
    lost,     \* _lost
    cleanup,  \* the close() task a lost command starts
    opened,   \* how many connections were made
    host,     \* the device each connection was made to
    link,     \* "up"; "lost": ended by the other side; "shut": by close()
    pc,       \* what each caller is suspended in
    op,       \* execute, open or close
    mine,     \* the session the call works on
    on,       \* the connection its command runs on
    reaper,   \* _reaper_task exists
    over,     \* close_all: "no", "closing", "done"
    doomed,   \* the rest of the list of sessions each Lister closes
    ending    \* the session it is closing, as a set

sessionVars == <<dev, closed, lost, cleanup>>
linkVars == <<conn, opened, host, link>>
clientVars == <<pc, op, mine, on>>
listVars == <<over, doomed, ending>>
vars == <<reg, created, sessionVars, linkVars, clientVars, reaper, listVars>>

TypeOK ==
    /\ reg \in [Devices -> Sessions \cup {None}]
    /\ created \in 0 .. SessionBound
    /\ dev \in [Sessions -> Devices \cup {None}]
    /\ conn \in [Sessions -> Connections \cup {None}]
    /\ closed \in [Sessions -> BOOLEAN] /\ lost \in [Sessions -> BOOLEAN]
    /\ cleanup \in [Sessions -> {"none", "pending", "closing", "done"}]
    /\ opened \in 0 .. ConnectionBound
    /\ host \in [Connections -> Devices \cup {None}]
    /\ link \in [Connections -> {"none", "up", "lost", "shut"}]
    /\ pc \in [Clients -> {"idle", "connecting", "failing", "running", "closing"}]
    /\ op \in [Clients -> {"none", "execute", "open", "close"}]
    /\ mine \in [Clients -> Sessions \cup {None}]
    /\ on \in [Clients -> Connections \cup {None}]
    /\ \A c \in Clients : pc[c] = "running" => on[c] # None
    /\ reaper \in BOOLEAN /\ over \in {"no", "closing", "done"}
    /\ doomed \in [Listers -> SUBSET Sessions] /\ ending \in [Listers -> SUBSET Sessions]

Init ==
    /\ reg = [d \in Devices |-> None] /\ created = 0
    /\ dev = [s \in Sessions |-> None] /\ conn = [s \in Sessions |-> None]
    /\ closed = [s \in Sessions |-> FALSE] /\ lost = [s \in Sessions |-> FALSE]
    /\ cleanup = [s \in Sessions |-> "none"]
    /\ opened = 0 /\ host = [k \in Connections |-> None] /\ link = [k \in Connections |-> "none"]
    /\ pc = [c \in Clients |-> "idle"] /\ op = [c \in Clients |-> "none"]
    /\ mine = [c \in Clients |-> None] /\ on = [c \in Clients |-> None]
    /\ reaper = FALSE /\ over = "no"
    /\ doomed = [w \in Listers |-> {}] /\ ending = [w \in Listers |-> {}]

-----------------------------------------------------------------------------
(* Sessions *)

AliveUnlessLost(s) == ~lost[s]

\* `alive'.
Alive(s) == ~closed[s] /\ ~lost[s]

UsableAlive(s) == Alive(s)

\* ensure_connected() has nothing to do.
Usable(s) == Alive(s) /\ conn[s] # None

MustCreateUnusable(s) == s # None => ~Usable(s)

\* _get_or_create() makes a session for the device.
MustCreate(s) == s # None => ~Alive(s)

\* close() returns without suspending.
Immediate(s) == closed[s] \/ conn[s] = None

\* close() is called on the sessions of C: their connections are closed.
Closes(C) ==
    /\ closed' = [s \in Sessions |-> closed[s] \/ s \in C]
    /\ link' = [k \in Connections |->
                  IF \E s \in C : ~closed[s] /\ conn[s] = k THEN "shut" ELSE link[k]]

\* After wait_closed, `self.connection = None': whichever connection it is.
ForgetsConnections(C) == conn' = [s \in Sessions |-> IF s \in C THEN None ELSE conn[s]]

PopNever(d, s) == reg

PopAny(d, s) == [reg EXCEPT ![d] = None]

\* The except clauses pop a session only if it is still the registered one.
PopSame(d, s) == IF reg[d] = s THEN [reg EXCEPT ![d] = None] ELSE reg

Returns(c) ==
    /\ pc' = [pc EXCEPT ![c] = "idle"] /\ op' = [op EXCEPT ![c] = "none"]
    /\ mine' = [mine EXCEPT ![c] = None] /\ on' = [on EXCEPT ![c] = None]

-----------------------------------------------------------------------------
(* execute and open *)

\* The registered session is alive: open() is content with the connection it
\* has, execute() runs on it, and both connect where there is none.
CallReuses(c, d, kind) ==
    /\ pc[c] = "idle" /\ ~MustCreate(reg[d])
    /\ IF Usable(reg[d]) /\ kind = "open"
       THEN reaper' = TRUE /\ UNCHANGED clientVars
       ELSE /\ mine' = [mine EXCEPT ![c] = reg[d]] /\ op' = [op EXCEPT ![c] = kind]
            /\ IF Usable(reg[d])
               THEN pc' = [pc EXCEPT ![c] = "running"] /\ on' = [on EXCEPT ![c] = conn[reg[d]]]
               ELSE pc' = [pc EXCEPT ![c] = "connecting"] /\ UNCHANGED on
            /\ UNCHANGED reaper
    /\ UNCHANGED <<reg, created, sessionVars, linkVars, listVars>>

\* Register a new session in the place of a dead one and close that one.  Its
\* close() does not suspend: see DeadHoldsNothing.
CallCreates(c, d, kind) ==
    /\ pc[c] = "idle" /\ MustCreate(reg[d])
    /\ created < SessionBound
    /\ created' = created + 1
    /\ dev' = [dev EXCEPT ![created + 1] = d]
    /\ reg' = [reg EXCEPT ![d] = created + 1]
    /\ pc' = [pc EXCEPT ![c] = "connecting"]
    /\ op' = [op EXCEPT ![c] = kind] /\ mine' = [mine EXCEPT ![c] = created + 1]
    /\ Closes({reg[d]} \ {None})
    /\ UNCHANGED <<lost, cleanup, conn, opened, host, on, reaper, listVars>>

\* asyncssh.connect returned, whatever happened to the session meanwhile; its
\* connection replaces the one another call may have made.
Connects(c) ==
    /\ pc[c] = "connecting" /\ opened < ConnectionBound
    /\ opened' = opened + 1
    /\ link' = [link EXCEPT ![opened + 1] = "up"]
    /\ host' = [host EXCEPT ![opened + 1] = dev[mine[c]]]
    /\ conn' = [conn EXCEPT ![mine[c]] = opened + 1]
    /\ IF op[c] = "execute"
       THEN /\ pc' = [pc EXCEPT ![c] = "running"] /\ on' = [on EXCEPT ![c] = opened + 1]
            /\ UNCHANGED <<op, mine, reaper>>
       ELSE Returns(c) /\ reaper' = TRUE
    /\ UNCHANGED <<reg, created, sessionVars, listVars>>

\* connect() raised: it closes the session, and the call pops it.
ConnectFails(c) ==
    /\ pc[c] = "connecting"
    /\ Closes({mine[c]})
    /\ IF Immediate(mine[c])
       THEN Returns(c) /\ reg' = PopSame(dev[mine[c]], mine[c])
       ELSE pc' = [pc EXCEPT ![c] = "failing"] /\ UNCHANGED <<reg, op, mine, on>>
    /\ UNCHANGED <<created, dev, lost, cleanup, conn, opened, host, reaper, listVars>>

FailureClosed(c) ==
    /\ pc[c] = "failing"
    /\ ForgetsConnections({mine[c]})
    /\ Returns(c) /\ reg' = PopSame(dev[mine[c]], mine[c])
    /\ UNCHANGED <<created, sessionVars, opened, host, link, reaper, listVars>>

RunEnds(c) ==
    /\ pc[c] = "running"
    /\ Returns(c) /\ reaper' = TRUE
    /\ UNCHANGED <<reg, created, sessionVars, linkVars, listVars>>

\* The command's timeout: the session stays, unless it died meanwhile.
RunTimesOut(c) ==
    /\ pc[c] = "running"
    /\ Returns(c)
    /\ reg' = IF Alive(mine[c]) THEN reg ELSE PopSame(dev[mine[c]], mine[c])
    /\ UNCHANGED <<created, sessionVars, linkVars, reaper, listVars>>

\* asyncssh raised: the connection is lost, or only the channel was refused.
\* A task is left behind to close the session.
RunLost(c) ==
    /\ pc[c] = "running"
    /\ lost' = [lost EXCEPT ![mine[c]] = TRUE]
    /\ cleanup' = [cleanup EXCEPT ![mine[c]] = IF @ = "none" THEN "pending" ELSE @]
    /\ Returns(c) /\ reg' = PopSame(dev[mine[c]], mine[c])
    /\ UNCHANGED <<created, dev, closed, linkVars, reaper, listVars>>

Cancel(c) ==
    /\ Cancels /\ pc[c] # "idle"
    /\ Returns(c)
    /\ UNCHANGED <<reg, created, sessionVars, linkVars, reaper, listVars>>

CleanupStarts(s) ==
    /\ cleanup[s] = "pending"
    /\ Closes({s})
    /\ cleanup' = [cleanup EXCEPT ![s] = IF Immediate(s) THEN "done" ELSE "closing"]
    /\ UNCHANGED <<reg, created, dev, lost, conn, opened, host, clientVars, reaper, listVars>>

CleanupEnds(s) ==
    /\ cleanup[s] = "closing"
    /\ ForgetsConnections({s})
    /\ cleanup' = [cleanup EXCEPT ![s] = "done"]
    /\ UNCHANGED <<reg, created, dev, closed, lost, opened, host, link, clientVars, reaper, listVars>>

\* The other side, or the keepalive, ends a connection.  Sessions learn of it
\* only when a command fails.
LinkLost(k) ==
    /\ link[k] = "up"
    /\ link' = [link EXCEPT ![k] = "lost"]
    /\ UNCHANGED <<reg, created, sessionVars, conn, opened, host, clientVars, reaper, listVars>>

-----------------------------------------------------------------------------
(* close, the reaper, close_all *)

\* close() pops first, so its end touches the registry no more.
CloseCall(c, d) ==
    /\ pc[c] = "idle" /\ reg[d] # None
    /\ reg' = [reg EXCEPT ![d] = None]
    /\ Closes({reg[d]})
    /\ IF Immediate(reg[d])
       THEN UNCHANGED <<pc, op, mine>>
       ELSE /\ pc' = [pc EXCEPT ![c] = "closing"] /\ op' = [op EXCEPT ![c] = "close"]
            /\ mine' = [mine EXCEPT ![c] = reg[d]]
    /\ UNCHANGED <<created, dev, lost, cleanup, conn, opened, host, on, reaper, listVars>>

CloseDone(c) ==
    /\ pc[c] = "closing"
    /\ ForgetsConnections({mine[c]})
    /\ Returns(c)
    /\ UNCHANGED <<reg, created, sessionVars, opened, host, link, reaper, listVars>>

\* The sessions of D are closed in turn, in any order: those of P without
\* suspending, then one of them suspends the loop or the list ends.
Advances(D, P, X) ==
    /\ P \subseteq {s \in D : Immediate(s)}
    /\ \/ X = {} /\ P = D
       \/ \E s \in D : ~Immediate(s) /\ X = {s}

\* First the close() of the session of F ends.  The reaper then pops the
\* device of each session it closed, whatever is registered there.
Reap(D, F) ==
    \E P \in SUBSET D : \E X \in {{}} \cup {{s} : s \in D} :
        /\ Advances(D, P, X)
        /\ Closes(P \cup X) /\ ForgetsConnections(F)
        /\ reg' = [d \in Devices |-> IF \E s \in F \cup P : dev[s] = d THEN None ELSE reg[d]]
        /\ doomed' = [doomed EXCEPT !["reaper"] = D \ (P \cup X)]
        /\ ending' = [ending EXCEPT !["reaper"] = X]
        /\ UNCHANGED <<created, dev, lost, cleanup, opened, host, clientVars, reaper, over>>

Registered == {reg[d] : d \in Devices} \ {None}

\* The reaper woke up: it takes what is dead or, at any time, expired.
ReaperTick ==
    /\ reaper /\ ending["reaper"] = {}
    /\ \E E \in SUBSET Registered :
         /\ Reaping \/ E = {}
         /\ Reap(E \cup {s \in Registered : ~Alive(s)}, {})

ReaperResumes ==
    /\ reaper /\ ending["reaper"] # {}
    /\ Reap(doomed["reaper"], ending["reaper"])

\* The list of close_all ends by cancelling the reaper, wherever it is.
CloseList(D, F) ==
    \E P \in SUBSET D : \E X \in {{}} \cup {{s} : s \in D} :
        /\ Advances(D, P, X)
        /\ Closes(P \cup X) /\ ForgetsConnections(F)
        /\ IF X = {}
           THEN /\ over' = "done" /\ reaper' = FALSE
                /\ doomed' = [w \in Listers |-> {}] /\ ending' = [w \in Listers |-> {}]
           ELSE /\ over' = "closing" /\ UNCHANGED reaper
                /\ doomed' = [doomed EXCEPT !["shutdown"] = D \ (P \cup X)]
                /\ ending' = [ending EXCEPT !["shutdown"] = X]
        /\ UNCHANGED <<created, dev, lost, cleanup, opened, host, clientVars>>

CloseAll ==
    /\ Reaping /\ over = "no"
    /\ reg' = [d \in Devices |-> None]
    /\ CloseList(Registered, {})

CloseAllResumes ==
    /\ over = "closing"
    /\ CloseList(doomed["shutdown"], ending["shutdown"])
    /\ UNCHANGED reg

Next ==
    \/ \E c \in Clients, d \in Devices :
         CloseCall(c, d) \/ \E kind \in {"execute", "open"} :
                              CallReuses(c, d, kind) \/ CallCreates(c, d, kind)
    \/ \E c \in Clients :
         \/ Connects(c) \/ ConnectFails(c) \/ FailureClosed(c)
         \/ RunEnds(c) \/ RunTimesOut(c) \/ RunLost(c) \/ Cancel(c) \/ CloseDone(c)
    \/ \E s \in Sessions : CleanupStarts(s) \/ CleanupEnds(s)
    \/ \E k \in Connections : LinkLost(k)
    \/ ReaperTick \/ ReaperResumes \/ CloseAll \/ CloseAllResumes

Spec == Init /\ [][Next]_vars

-----------------------------------------------------------------------------
(* Properties *)

\* A dead session found in the registry has no connection left to close: the
\* call that lost or failed to connect it closed it, or popped it, before
\* anybody else could look.
DeadHoldsNothing ==
    \A d \in Devices : reg[d] # None /\ ~Alive(reg[d]) => Immediate(reg[d])

\* A command is started on a connection this program has not closed: callers
\* wait in turn for a stale session, for a connection and for a failure, while
\* others replace and close what they wait for.
CommandStartsOnOpenConnection ==
    [][\A c \in Clients :
         pc'[c] = "running" /\ pc[c] # "running" => link'[on'[c]] \in {"up", "lost"}]_vars

\* A session that leaves the registry and can still be used was taken by
\* close_all, to be closed, or by the reaper, which pops by device name what
\* replaced the session it closed.  Calls, whatever session they began with
\* and however they end, spare the session of a later call.
CallsSpareAlive ==
    [][\A d \in Devices :
         reg[d] # None /\ reg'[d] # reg[d] /\ ~closed'[reg[d]] /\ ~lost'[reg[d]] =>
            ReaperResumes \/ CloseAll]_vars

\* One session per device, and a living one is replaced by none: SSHExecManager
\* implements SessionRegistry.
Registry == INSTANCE SessionRegistry WITH
    made <- 1 .. created, ended <- {s \in 1 .. created : ~Alive(s)}

ImplementsRegistry == Registry!Spec

\* ssh_exec.py 258: "Owns at most one persistent exec connection per device."
OneConnectionPerDevice ==
    \A k, l \in Connections :
        link[k] = "up" /\ link[l] = "up" /\ host[k] = host[l] => k = l
=============================================================================
