------------------------------- MODULE Server -------------------------------
(***************************************************************************)
(* The program around the four protocol managers: main() of                *)
(* src/opkit/cli.py loads the configuration and serves, validates or       *)
(* probes; the tools of src/opkit/mcp_server.py find a protocol and call   *)
(* its manager; the lifespans close the managers when the transport ends.  *)
(*                                                                         *)
(* Of a manager only what the tools see is kept: whether it holds a        *)
(* session of a device, and whether that session is open.  The modules of  *)
(* the managers have the rest; here sessions open, are lost and are        *)
(* reaped at any time.                                                     *)
(***************************************************************************)
EXTENDS Configuration, RequestRules

CONSTANTS
    Clients,   \* callers of the tools
    Devices,   \* the device names they use
    Launches,  \* command, transport and document of a start of the program
    Requests   \* arguments of the tools http and redfish

WebProtocols == {"http", "redfish"}
ProtocolOrder == <<"ssh-terminal", "ssh-exec", "http", "redfish">>
Transports == {"stdio", "sse", "streamable-http"}

ASSUME DevicesAssumption == Devices \subseteq Texts

\* What argparse lets through.
ASSUME LaunchesAssumption ==
    \A launch \in Launches :
        /\ launch.command \in {"serve", "validate-config", "list-devices", "probe"}
        /\ launch.transport \in Transports

VARIABLES
    phase,      \* how far main() is
    transport,
    config,     \* AppConfig.devices
    held,       \* what each manager holds of each device: "none"; "dark", a
                \* session that is not occupied(); or an "open" one
    job,        \* the call of each client that is in progress, as a set
    left        \* the managers the shutdown has yet to close

vars == <<phase, transport, config, held, job, left>>

NothingHeld == [p \in Protocols |-> [d \in Devices |-> "none"]]

AtMostOneOf(S) == {{}} \cup {{x} : x \in S}

Jobs ==
    [tool : {"open_session", "operation"}, protocol : Protocols, device : Devices,
     request : AtMostOneOf(Requests)]

\* What can be in progress of a client.
Calls == AtMostOneOf(Jobs)

\* Whatever is called or held is configured.
TypeOK ==
    /\ phase \in {"loading", "refused", "printed", "probing", "serving", "draining", "closing",
                  "stopped", "aborted"}
    /\ transport \in Transports
    /\ held \in [Protocols -> [Devices -> {"none", "dark", "open"}]]
    /\ job \in [Clients -> Calls]
    /\ \E n \in 0 .. 4 : left = SubSeq(ProtocolOrder, n + 1, 4)
    /\ \A p \in Protocols, d \in Devices :
         held[p][d] # "none" \/ (\E c \in Clients : \E j \in job[c] : j.protocol = p /\ j.device = d)
           => d \in DOMAIN config /\ p \in DOMAIN config[d]

Init ==
    /\ phase = "loading" /\ transport = "stdio" /\ config = NoConfig
    /\ held = NothingHeld /\ left = <<>>
    /\ job = [c \in Clients |-> {}]

-----------------------------------------------------------------------------
(* The command line *)

\* main() loads the document, and refuses to go on without a configuration.
Load(launch) ==
    /\ phase = "loading"
    /\ transport' = launch.transport
    /\ config' = Loaded(launch.doc)
    /\ phase' = IF ~Accepted(launch.doc) THEN "refused"
                ELSE CASE launch.command \in {"validate-config", "list-devices"} -> "printed"
                       [] launch.command = "probe" -> "probing"
                       [] launch.command = "serve" -> "serving"
    /\ UNCHANGED <<held, job, left>>

\* _probe: whether the session opens or not, all managers are closed.
Probe(d, requested) ==
    /\ phase = "probing"
    /\ phase' = "closing" /\ left' = ProtocolOrder
    /\ \/ UNCHANGED held
       \/ \E p \in Resolve(config, d, requested) : held' = [held EXCEPT ![p][d] = "open"]
    /\ UNCHANGED <<transport, config, job>>

-----------------------------------------------------------------------------
(* The lifespans *)

OwnsSessionsAlways(t) == t \in Transports

\* Of the server's own lifespan.
OwnsSessions(t) == t # "streamable-http"

\* The stateless transport runs that lifespan around every request.
LifespanPerRequest(t) == t = "streamable-http"

\* What a request leaves in the managers when it ends.
AfterRequest(h) ==
    IF LifespanPerRequest(transport) /\ OwnsSessions(transport) THEN NothingHeld ELSE h

ClosesAtExitIfOwned(t) == OwnsSessions(t)

\* The ASGI app has a lifespan of its own.
ClosesAtExit(t) == OwnsSessions(t) \/ t = "streamable-http"

-----------------------------------------------------------------------------
(* The tools *)

Profile(p, d) == IF p = "redfish" THEN p ELSE config[d][p].auth

\* A session is made where none is open: those of the WebUIs, the BMCs and exec
\* count as open at once, a terminal when it is connected.
Joined(p, d) ==
    IF p = "ssh-terminal" /\ held[p][d] # "open" THEN "dark" ELSE "open"

Begins(c, tool, p, d, request) ==
    job' = [job EXCEPT ![c] =
        {[tool |-> tool, protocol |-> p, device |-> d, request |-> request]}]

Idle(c) == phase = "serving" /\ job[c] = {}

OpenSession(c, d, requested) ==
    /\ Idle(c)
    /\ \E p \in Resolve(config, d, requested) :
         /\ Begins(c, "open_session", p, d, {})
         /\ held' = [held EXCEPT ![p][d] = Joined(p, d)]
    /\ UNCHANGED <<phase, transport, config, left>>

\* A command makes its session.
Exec(c, d) ==
    /\ Idle(c)
    /\ \E p \in Resolve(config, d, "ssh-exec") :
         /\ Begins(c, "operation", p, d, {})
         /\ held' = [held EXCEPT ![p][d] = Joined(p, d)]
    /\ UNCHANGED <<phase, transport, config, left>>

\* A terminal has to be there; it need not be connected any more.
Terminal(c, d) ==
    /\ Idle(c)
    /\ \E p \in Resolve(config, d, "ssh-terminal") :
         held[p][d] # "none" /\ Begins(c, "operation", p, d, {})
    /\ UNCHANGED <<phase, transport, config, held, left>>

\* The session is made before the arguments are looked at.
Request(c, d, r) ==
    /\ Idle(c)
    /\ \E p \in WebProtocols \cap (UNION {Resolve(config, d, q) : q \in WebProtocols}) :
         /\ p = "redfish" \/ "json" \notin r.bodies
         /\ IF RequestAccepted(r, Profile(p, d))
            THEN Begins(c, "operation", p, d, {r}) ELSE UNCHANGED job
         /\ held' = AfterRequest([held EXCEPT ![p][d] = Joined(p, d)])
    /\ UNCHANGED <<phase, transport, config, left>>

\* The call of c ends, and leaves h in the managers.
Ends(c, h) ==
    /\ job' = [job EXCEPT ![c] = {}]
    /\ held' = AfterRequest(h)
    /\ UNCHANGED <<phase, transport, config, left>>

\* The terminal an open_session made is connected now, if it is still there.
Succeeds(c) ==
    \E j \in job[c] :
        \/ Ends(c, held)
        \/ /\ j.tool = "open_session" /\ held[j.protocol][j.device] = "dark"
           /\ Ends(c, [held EXCEPT ![j.protocol][j.device] = "open"])

\* An open_session or a command may take its session with it.
Fails(c) ==
    \E j \in job[c] :
        \/ Ends(c, held)
        \/ /\ j.tool = "open_session" \/ j.protocol = "ssh-exec"
           /\ Ends(c, [held EXCEPT ![j.protocol][j.device] = "none"])

\* The protocols close_session may mean: the one that was named, whose session
\* need not be open, or else the only one that has an open session.
Closable(d, requested) ==
    IF requested # Absent
    THEN {p \in {requested} : held[p][d] # "none"}
    ELSE {p \in Protocols : {q \in Protocols : held[q][d] = "open"} = {p}}

CloseSession(d, requested) ==
    /\ phase = "serving"
    /\ \E p \in Closable(d, requested) : held' = AfterRequest([held EXCEPT ![p][d] = "none"])
    /\ UNCHANGED <<phase, transport, config, job, left>>

-----------------------------------------------------------------------------
(* What the managers and the devices do meanwhile *)

Running == phase \in {"serving", "draining", "closing"}

Lost(p, d) ==
    /\ Running /\ held[p][d] = "open"
    /\ held' = [held EXCEPT ![p][d] = "dark"]
    /\ UNCHANGED <<phase, transport, config, job, left>>

Reaped(p, d) ==
    /\ Running /\ held[p][d] # "none"
    /\ held' = [held EXCEPT ![p][d] = "none"]
    /\ UNCHANGED <<phase, transport, config, job, left>>

\* The sse transport runs the server's lifespan for every connection.  When one
\* ends, that lifespan closes the managers, one after the other, under the
\* other connections; this is its close_all() of p.
ConnectionEnds(p) ==
    /\ phase \in {"serving", "draining"} /\ transport = "sse" /\ OwnsSessions(transport)
    /\ held' = [held EXCEPT ![p] = [d \in Devices |-> "none"]]
    /\ UNCHANGED <<phase, transport, config, job, left>>

-----------------------------------------------------------------------------
(* The end *)

\* The transport ended: stdin is closed, the last sse connection is, or the
\* HTTP server got a signal.
StopRequested ==
    /\ phase = "serving"
    /\ phase' = "draining"
    /\ UNCHANGED <<transport, config, held, job, left>>

\* The transport cancels what is still in progress.
Cancelled(c) == phase = "draining" /\ job[c] # {} /\ Ends(c, held)

\* A write to a terminal may be held up by the device for ever: drain() has no
\* timeout, and nothing here makes the transport give it up.
AtTerminal(c) == \E j \in job[c] : j.tool = "operation" /\ j.protocol = "ssh-terminal"

Drained ==
    /\ phase = "draining" /\ \A c \in Clients : job[c] = {}
    /\ IF ClosesAtExit(transport)
       THEN phase' = "closing" /\ left' = ProtocolOrder
       ELSE phase' = "stopped" /\ UNCHANGED left
    /\ UNCHANGED <<transport, config, held, job>>

\* One manager after the other, in the order of create_managers().
ClosesManager ==
    /\ phase = "closing" /\ left # <<>>
    /\ held' = [held EXCEPT ![Head(left)] = [d \in Devices |-> "none"]]
    /\ left' = Tail(left)
    /\ UNCHANGED <<phase, transport, config, job>>

\* close_all() raises, or is cancelled: nobody closes the others.
ManagerRaises ==
    /\ phase = "closing" /\ left # <<>>
    /\ phase' = "aborted"
    /\ UNCHANGED <<transport, config, held, job, left>>

AllClosed ==
    /\ phase = "closing" /\ left = <<>>
    /\ phase' = "stopped"
    /\ UNCHANGED <<transport, config, held, job, left>>

Next ==
    \/ \E launch \in Launches : Load(launch)
    \/ \E d \in Devices, requested \in Protocols \cup {Absent} :
         Probe(d, requested) \/ CloseSession(d, requested)
    \/ \E c \in Clients :
         \/ \E d \in Devices :
              \/ \E requested \in Protocols \cup {Absent} : OpenSession(c, d, requested)
              \/ Exec(c, d) \/ Terminal(c, d)
              \/ \E r \in Requests : Request(c, d, r)
         \/ Succeeds(c) \/ Fails(c) \/ Cancelled(c)
    \/ \E p \in Protocols : ConnectionEnds(p) \/ \E d \in Devices : Lost(p, d) \/ Reaped(p, d)
    \/ StopRequested \/ Drained \/ ClosesManager \/ ManagerRaises \/ AllClosed

Spec == Init /\ [][Next]_vars

\* The transport ends or cancels the calls in progress but those at a terminal,
\* and every close_all() ends: the logouts have timeouts.
Fairness ==
    /\ \A c \in Clients : WF_vars(Cancelled(c) /\ ~AtTerminal(c))
    /\ WF_vars(Drained) /\ WF_vars(ClosesManager) /\ WF_vars(AllClosed)
    /\ WF_vars(\E d \in Devices, requested \in Protocols \cup {Absent} : Probe(d, requested))

FairSpec == Spec /\ Fairness

-----------------------------------------------------------------------------
(* Properties *)

\* config.py 11: the "credential requirements are owned by the protocol module
\* itself (parse_config)".  Whatever document was loaded, what a session asks of
\* its entry later, the user name and the password of its login, is there.
LoadedIsUsable ==
    \A d \in DOMAIN config : \A p \in DOMAIN config[d] : Usable(p, config[d][p])

\* However the caller writes its headers, query and body: no managed header is
\* its own, and wherever the profile puts the token of the login, it is the
\* session's.
WireKeepsOwnLogin ==
    \A c \in Clients : \A j \in job[c] : \A r \in j.request :
        CarriesOwnLogin(r, Profile(j.protocol, j.device))

\* mcp_server.py 166: device sessions "survive across requests and only the
\* usual reaping applies".  While the program serves, a call takes no session
\* out of a manager but the one it was made for.  (The end of a connection does,
\* under sse: its lifespan owns the sessions of them all.)
RequestsSpareSessions ==
    [][\A p \in Protocols, d \in Devices :
         /\ phase \in {"serving", "draining"} /\ held[p][d] # "none" /\ held'[p][d] = "none"
         /\ ~ConnectionEnds(p)
         =>
            /\ \A q \in Protocols, e \in Devices : <<q, e>> # <<p, d>> => held'[q][e] = held[q][e]
            /\ \A c \in Clients : job'[c] # job[c] =>
                 \A j \in job[c] : j.protocol = p /\ j.device = d]_vars

\* However the transport ends, no manager is left with a session, unless one of
\* them fails to close or a call is still at a terminal: the lifespan of stdio
\* and sse, that of the ASGI app, and the probe close them all.
ShutdownReachesAll ==
    (phase \in {"draining", "probing"} /\ \A c \in Clients : ~AtTerminal(c)) ~>
        (phase = "aborted" \/ (phase = "stopped" /\ held = NothingHeld))
=============================================================================
