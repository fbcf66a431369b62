---------------------------- MODULE ServerProofs ----------------------------
(***************************************************************************)
(* Proofs about Configuration, RequestRules and Server: what a document    *)
(* that was accepted is good for, and that all of it is kept, what an      *)
(* accepted request carries, and which sessions the calls and the end of   *)
(* the program leave.                                                      *)
(***************************************************************************)
EXTENDS Server, SequenceTheorems, TLAPS

-----------------------------------------------------------------------------
(* Documents *)

\* An account that is found by name has that name, and fields of its type.
LEMMA AccountIsNamed ==
    ASSUME NEW entries, AccountsAccepted(entries), NEW n \in DOMAIN AccountsOf(entries)
    PROVE  /\ AccountsOf(entries)[n].name = n
           /\ AccountsOf(entries)[n] # NoAccount
           /\ LET w == AccountsOf(entries)[n].password IN IsNone(w) \/ IsString(w)
<1> DEFINE pick == CHOOSE i \in DOMAIN entries : entries[i].name = n
           e == entries[pick]
<1>1. n \in {entries[i].name : i \in DOMAIN entries}
    BY DEF AccountsOf
<1>2. pick \in DOMAIN entries /\ entries[pick].name = n
    BY <1>1
<1>3. AccountAccepted(e)
    BY <1>2 DEF AccountsAccepted
<1>4. AccountsOf(entries)[n] = [name |-> n, username |-> e.username, password |-> e.password]
    BY <1>1 DEF AccountsOf
<1>5. n \in Texts
    BY <1>2, <1>3 DEF AccountAccepted, IsText
<1>6. AccountsOf(entries)[n].name # NoAccount.name
    <2>1. Absent \in NonTexts
        BY DEF NonTexts
    <2>2. n # Absent
        BY <1>5, <2>1, TextsAssumption
    <2> QED BY <1>4, <2>2 DEF NoAccount
<1>7. IsNone(e.password) \/ IsString(e.password)
    BY <1>3 DEF AccountAccepted, AccountFields
<1> QED BY <1>4, <1>6, <1>7

\* What a protocol's parse_config let through, a session can use.
LEMMA AcceptedIsUsable ==
    ASSUME NEW accounts,
           \A n \in DOMAIN accounts :
               /\ accounts[n] # NoAccount
               /\ IsNone(accounts[n].password) \/ IsString(accounts[n].password),
           NEW p \in Protocols, NEW e, ProtocolAccepted(p, e, accounts)
    PROVE  Usable(p, Resolved(p, e, accounts))
<1> DEFINE r == Resolved(p, e, accounts)
<1> SUFFICES Usable(p, r)
    OBVIOUS
<1>1. e.account \in DOMAIN accounts =>
        /\ r.account = accounts[e.account]
        /\ accounts[e.account] # NoAccount
        /\ IsNone(accounts[e.account].password) \/ IsString(accounts[e.account].password)
    BY DEF Resolved, AccountOf
<1>2. CASE p \in SSHProtocols
    <2>1. e.account \in DOMAIN accounts /\ IsText(Username(e, accounts))
        BY <1>2 DEF ProtocolAccepted, SSHAccepted, SSHProtocols
    <2>2. r.auth = "none" /\ r.username = Username(e, accounts) /\ p # "redfish"
        BY <1>2 DEF Resolved, SSHProtocols
    <2> HIDE DEF r
    <2> QED BY <1>1, <2>1, <2>2 DEF Usable
<1>3. CASE p = "redfish"
    <2>1. RedfishAccepted(e, accounts)
        BY <1>3 DEF ProtocolAccepted, SSHProtocols
    <2>2. r.username = Username(e, accounts) /\ p \notin SSHProtocols
        BY <1>3 DEF Resolved, SSHProtocols
    <2> HIDE DEF r
    <2> QED BY <1>1, <2>1, <2>2 DEF Usable, RedfishAccepted
<1>4. CASE p = "http"
    <2>1. HTTPAccepted(e, accounts)
        BY <1>4 DEF ProtocolAccepted, SSHProtocols
    <2>2. p # "redfish" /\ p \notin SSHProtocols
        BY <1>4 DEF SSHProtocols
    <2>3. CASE e.auth \in LoginProfiles
        <3>1. e.account \in DOMAIN accounts /\ ~IsNone(accounts[e.account].password)
              /\ IsText(Username(e, accounts))
            BY <2>1, <2>3 DEF HTTPAccepted
        <3>2. r.username = Username(e, accounts)
            BY <2>3 DEF Resolved
        <3> HIDE DEF r
        <3> QED BY <1>1, <2>2, <3>1, <3>2 DEF Usable
    <2>4. CASE e.auth \notin LoginProfiles
        <3>1. r.auth = "none"
            BY <2>1, <2>4 DEF HTTPAccepted, Resolved
        <3> HIDE DEF r
        <3> QED BY <2>2, <3>1 DEF Usable
    <2> QED BY <2>3, <2>4
<1> QED BY <1>2, <1>3, <1>4 DEF Protocols

\* What a configuration is made of: entries of known protocols that a session
\* can use.
Sound(conf) ==
    \A d \in DOMAIN conf :
        /\ DOMAIN conf[d] \subseteq Protocols
        /\ \A p \in DOMAIN conf[d] : Usable(p, conf[d][p])

\* load_config() returns a sound configuration of whatever document it accepts.
THEOREM LoadedIsSound == ASSUME NEW doc PROVE Sound(Loaded(doc))
<1>1. CASE ~Accepted(doc)
    BY <1>1 DEF Loaded, NoConfig, Sound
<1>2. CASE Accepted(doc)
    <2> DEFINE accounts == AccountsOf(doc.accounts)
               entries == doc.devices
    <2>1. AccountsAccepted(doc.accounts) /\ DevicesAccepted(entries, accounts)
        BY <1>2 DEF Accepted
    <2>2. SUFFICES ASSUME NEW d \in DOMAIN DevicesOf(entries, accounts)
                   PROVE  /\ DOMAIN DevicesOf(entries, accounts)[d] \subseteq Protocols
                          /\ \A p \in DOMAIN DevicesOf(entries, accounts)[d] :
                               Usable(p, DevicesOf(entries, accounts)[d][p])
        BY <1>2 DEF Loaded, Sound
    <2> DEFINE pick == CHOOSE i \in DOMAIN entries : entries[i].name = d
               e == entries[pick]
    <2>3. d \in {entries[i].name : i \in DOMAIN entries}
        BY DEF DevicesOf
    <2>4. pick \in DOMAIN entries
        BY <2>3
    <2>5. DeviceAccepted(e, accounts)
        BY <2>1, <2>4 DEF DevicesAccepted
    <2>6. DevicesOf(entries, accounts)[d] =
            [p \in DOMAIN e.protocols |-> Resolved(p, e.protocols[p], accounts)]
        BY <2>3 DEF DevicesOf
    <2>7. /\ DOMAIN e.protocols \subseteq Protocols
          /\ \A p \in DOMAIN e.protocols : ProtocolAccepted(p, e.protocols[p], accounts)
        BY <2>5 DEF DeviceAccepted
    <2>8. \A p \in DOMAIN e.protocols : Usable(p, Resolved(p, e.protocols[p], accounts))
        BY <2>1, <2>7, AccountIsNamed, AcceptedIsUsable
    <2> HIDE DEF e
    <2> QED BY <2>6, <2>7, <2>8
<1> QED BY <1>1, <1>2

\* load_config() keeps the whole of a document it accepts: every device with
\* its own protocols, each resolved from its own entry, with the account it
\* names; nothing is dropped, and nobody gets what another entry says.
THEOREM LoadedIsComplete ==
    ASSUME NEW doc, Accepted(doc)
    PROVE  LET accounts == AccountsOf(doc.accounts)
               conf == Loaded(doc)
           IN  /\ DOMAIN conf = {doc.devices[i].name : i \in DOMAIN doc.devices}
               /\ \A i \in DOMAIN doc.devices :
                    LET e == doc.devices[i]
                    IN  /\ DOMAIN conf[e.name] = DOMAIN e.protocols
                        /\ \A p \in DOMAIN e.protocols :
                             conf[e.name][p] = Resolved(p, e.protocols[p], accounts)
               /\ \A j \in DOMAIN doc.accounts :
                    LET a == doc.accounts[j]
                    IN  accounts[a.name] =
                          [name |-> a.name, username |-> a.username, password |-> a.password]
<1> DEFINE accounts == AccountsOf(doc.accounts)
           entries == doc.devices
<1>1. Loaded(doc) = DevicesOf(entries, accounts)
    BY DEF Loaded
<1>2. AccountsAccepted(doc.accounts) /\ DevicesAccepted(entries, accounts)
    BY DEF Accepted
<1>3. DOMAIN Loaded(doc) = {entries[i].name : i \in DOMAIN entries}
    BY <1>1 DEF DevicesOf
<1>4. ASSUME NEW i \in DOMAIN entries
      PROVE  Loaded(doc)[entries[i].name] =
               [p \in DOMAIN entries[i].protocols |->
                  Resolved(p, entries[i].protocols[p], accounts)]
    <2> DEFINE d == entries[i].name
               pick == CHOOSE k \in DOMAIN entries : entries[k].name = d
    <2>1. pick \in DOMAIN entries /\ entries[pick].name = d
        OBVIOUS
    <2>2. pick = i
        BY <1>2, <2>1 DEF DevicesAccepted
    <2>3. d \in {entries[k].name : k \in DOMAIN entries}
        OBVIOUS
    <2>4. DevicesOf(entries, accounts)[d] =
            [p \in DOMAIN entries[pick].protocols |->
               Resolved(p, entries[pick].protocols[p], accounts)]
        BY <2>3 DEF DevicesOf
    <2> QED BY <1>1, <2>2, <2>4
<1>5. ASSUME NEW j \in DOMAIN doc.accounts
      PROVE  accounts[doc.accounts[j].name] =
               [name |-> doc.accounts[j].name, username |-> doc.accounts[j].username,
                password |-> doc.accounts[j].password]
    <2> DEFINE n == doc.accounts[j].name
               pick == CHOOSE k \in DOMAIN doc.accounts : doc.accounts[k].name = n
    <2>1. pick \in DOMAIN doc.accounts /\ doc.accounts[pick].name = n
        OBVIOUS
    <2>2. pick = j
        BY <1>2, <2>1 DEF AccountsAccepted
    <2>3. accounts[n] = [name |-> n, username |-> doc.accounts[pick].username,
                         password |-> doc.accounts[pick].password]
        BY DEF AccountsOf
    <2> QED BY <2>2, <2>3
<1> QED BY <1>3, <1>4, <1>5

\* A tool call means at most one protocol, one the device is configured with:
\* the one it names, or without a name the only one there is.
THEOREM ResolvedIsUnambiguous ==
    ASSUME NEW conf, NEW d, NEW requested
    PROVE  /\ \A p, q \in Resolve(conf, d, requested) : p = q
           /\ \A p \in Resolve(conf, d, requested) :
                /\ d \in DOMAIN conf /\ p \in DOMAIN conf[d]
                /\ requested # Absent => p = requested
                /\ requested = Absent => DOMAIN conf[d] = {p}
BY DEF Resolve

-----------------------------------------------------------------------------
(* Requests *)

\* Whatever request() accepts goes out without a managed header of the caller's,
\* and with the session's token wherever the profile puts one.
THEOREM AcceptedKeepsLogin ==
    ASSUME NEW r, NEW profile, RequestAccepted(r, profile)
    PROVE  CarriesOwnLogin(r, profile)
<1>1. \A k \in DOMAIN Headers(r, profile) \cap ManagedBy(profile) :
          Headers(r, profile)[k] = "session"
    BY DEF RequestAccepted, HeaderAccepted, Headers, CallerFields
<1>2. profile = "redfish" => Headers(r, profile)["x-auth-token"] = "session"
    BY <1>1 DEF Headers, ManagedBy
<1>3. profile = "tplink" /\ r.path = "page.cgi" =>
        /\ Query(r, profile)["token"] = "session"
        /\ "form" \in r.bodies => Form(r, profile)["token"] = "session"
    BY DEF Query, Form, Injected, CallerFields
<1>4. profile = "zte-be7200" /\ r.method = "POST" =>
        /\ "form" \in r.bodies => Form(r, profile)["_sessionTOKEN"] = "session"
        /\ r.bodies \cap {"body", "base64"} # {} /\ r.urlencoded =>
             Content(r, profile)["_sessionTOKEN"] = "session"
    BY DEF Form, Content, Injected, CallerFields
<1> QED BY <1>1, <1>2, <1>3, <1>4 DEF CarriesOwnLogin

-----------------------------------------------------------------------------
(* The state of the program *)

\* Only the streamable transport has a lifespan per request, and that one owns
\* no sessions.
LEMMA RequestsLeaveSessions == \A h : AfterRequest(h) = h
BY DEF AfterRequest, LifespanPerRequest, OwnsSessions

LEMMA ResolvedIsConfigured ==
    ASSUME NEW d, NEW requested, Sound(config), NEW p \in Resolve(config, d, requested)
    PROVE  d \in DOMAIN config /\ p \in DOMAIN config[d] /\ p \in Protocols
<1>1. d \in DOMAIN config /\ p \in DOMAIN config[d]
    BY DEF Resolve
<1> QED BY <1>1 DEF Sound

HeldType == [Protocols -> [Devices -> {"none", "dark", "open"}]]

\* The managers that are closed one after the other are those that are left,
\* from the first.
LEMMA LeftTail ==
    ASSUME NEW n \in 0 .. 4, left = SubSeq(ProtocolOrder, n + 1, 4), left # <<>>
    PROVE  /\ \E m \in 0 .. 4 : Tail(left) = SubSeq(ProtocolOrder, m + 1, 4)
           /\ Head(left) \in Protocols
           /\ \A i \in DOMAIN left : left[i] = Head(left) \/ \E k \in DOMAIN Tail(left) : Tail(left)[k] = left[i]
<1>1. ProtocolOrder \in Seq(Protocols) /\ Len(ProtocolOrder) = 4
    BY DEF ProtocolOrder, Protocols, SSHProtocols
<1>2. n < 4
    BY <1>1, SubSeqEmpty
<1>3. left \in Seq(Protocols) /\ Len(left) = 4 - n
    BY <1>1, <1>2, SubSeqProperties
<1>4. Tail(left) = SubSeq(ProtocolOrder, (n + 1) + 1, 4)
    BY <1>1, <1>2, HeadTailOfSubSeq
<1>5. Head(left) \in Protocols /\ Head(left) = left[1]
    BY <1>3, HeadTailProperties
<1>6. ASSUME NEW i \in DOMAIN left
      PROVE  left[i] = Head(left) \/ \E k \in DOMAIN Tail(left) : Tail(left)[k] = left[i]
    <2>1. CASE i = 1
        BY <1>5, <2>1
    <2>2. CASE i # 1
        <3>1. i - 1 \in DOMAIN Tail(left) /\ Tail(left)[i - 1] = left[i]
            BY <1>3, <1>6, <2>2, HeadTailProperties
        <3> QED BY <3>1
    <2> QED BY <2>1, <2>2
<1>7. \E m \in 0 .. 4 : Tail(left) = SubSeq(ProtocolOrder, m + 1, 4)
    BY <1>2, <1>4
<1> QED BY <1>5, <1>6, <1>7

-----------------------------------------------------------------------------
(* The invariant *)

IsConfigured(p, d) == d \in DOMAIN config /\ p \in DOMAIN config[d]

\* Before a configuration is loaded nothing is held or called.
Unloaded == phase = "loading" => held = NothingHeld /\ \A c \in Clients : job[c] = {}

\* Once the managers are being closed, those that are not left stay empty.
ClosedStayEmpty ==
    /\ phase \in {"closing", "stopped"} =>
         \A p \in Protocols, d \in Devices :
             held[p][d] = "none" \/ \E i \in DOMAIN left : left[i] = p
    /\ phase = "stopped" => left = <<>>

IInv == TypeOK /\ Sound(config) /\ Unloaded /\ ClosedStayEmpty /\ WireKeepsOwnLogin

\* What RequestsSpareSessions says of a step.
Spares ==
    \A p \in Protocols, d \in Devices :
        /\ phase \in {"serving", "draining"} /\ held[p][d] # "none" /\ held'[p][d] = "none"
        /\ ~ConnectionEnds(p)
        =>
            /\ \A q \in Protocols, e \in Devices : <<q, e>> # <<p, d>> => held'[q][e] = held[q][e]
            /\ \A c \in Clients : job'[c] # job[c] =>
                 \A j \in job[c] : j.protocol = p /\ j.device = d

\* A step of the tools, the managers or the devices: it ends in the invariant
\* if the sessions and calls it adds are of configured protocols, its requests
\* were accepted, and it adds no session while the managers are being closed.
LEMMA PlainStep ==
    ASSUME IInv, phase # "loading", UNCHANGED <<phase, transport, config, left>>,
           held' \in HeldType, job' \in [Clients -> Calls],
           \A p \in Protocols, d \in Devices : held'[p][d] # "none" =>
               held[p][d] # "none" \/ (phase = "serving" /\ IsConfigured(p, d)),
           \A c \in Clients : \A j \in job'[c] :
               \/ j \in job[c]
               \/ /\ IsConfigured(j.protocol, j.device)
                  /\ \A r \in j.request : RequestAccepted(r, Profile(j.protocol, j.device))
    PROVE  IInv'
<1>1. \A p \in Protocols, d \in Devices :
          held'[p][d] # "none" \/ (\E c \in Clients : \E j \in job'[c] : j.protocol = p /\ j.device = d)
              => IsConfigured(p, d)
    <2> SUFFICES ASSUME NEW p \in Protocols, NEW d \in Devices
                 PROVE  /\ held'[p][d] # "none" => IsConfigured(p, d)
                        /\ \A c \in Clients : \A j \in job'[c] :
                             j.protocol = p /\ j.device = d => IsConfigured(p, d)
        OBVIOUS
    <2>1. held'[p][d] # "none" => IsConfigured(p, d)
        BY DEF IInv, TypeOK, IsConfigured
    <2>2. ASSUME NEW c \in Clients, NEW j \in job'[c], j.protocol = p, j.device = d
          PROVE  IsConfigured(p, d)
        BY <2>2 DEF IInv, TypeOK, IsConfigured
    <2> QED BY <2>1, <2>2
<1>2. TypeOK'
    BY <1>1 DEF IInv, TypeOK, HeldType, IsConfigured
<1>3. Sound(config)'
    BY DEF IInv, Sound
<1>4. Unloaded' /\ ClosedStayEmpty'
    BY DEF IInv, Unloaded, ClosedStayEmpty
<1>5. WireKeepsOwnLogin'
    <2> SUFFICES ASSUME NEW c \in Clients, NEW j \in job'[c], NEW r \in j.request
                 PROVE  CarriesOwnLogin(r, Profile(j.protocol, j.device))
        BY DEF WireKeepsOwnLogin, Profile
    <2>1. CASE j \in job[c]
        BY <2>1 DEF IInv, WireKeepsOwnLogin
    <2>2. CASE RequestAccepted(r, Profile(j.protocol, j.device))
        BY <2>2, AcceptedKeepsLogin
    <2> QED BY <2>1, <2>2
<1> QED BY <1>2, <1>3, <1>4, <1>5 DEF IInv

\* A call begins, with a session of its own where none was open, or is refused
\* after that session was made.
LEMMA BeginStep ==
    ASSUME IInv, phase = "serving", UNCHANGED <<phase, transport, config, left>>,
           NEW c \in Clients, NEW tool \in {"open_session", "operation"},
           NEW p \in Protocols, NEW d \in Devices, IsConfigured(p, d),
           NEW request \in AtMostOneOf(Requests),
           \A r \in request : RequestAccepted(r, Profile(p, d)),
           job' = job \/ Begins(c, tool, p, d, request),
           held' = held \/ held' = [held EXCEPT ![p][d] = Joined(p, d)]
    PROVE  IInv' /\ Spares
<1>1. held \in HeldType /\ job \in [Clients -> Calls]
    BY DEF IInv, TypeOK, HeldType
<1>2. /\ held' \in HeldType
      /\ \A q \in Protocols, e \in Devices :
           held'[q][e] = held[q][e] \/ (q = p /\ e = d /\ held'[q][e] # "none")
    <2>1. CASE held' = held
        BY <1>1, <2>1
    <2>2. CASE held' = [held EXCEPT ![p][d] = Joined(p, d)]
        <3>1. Joined(p, d) \in {"none", "dark", "open"} /\ Joined(p, d) # "none"
            BY DEF Joined
        <3> QED BY <1>1, <2>2, <3>1 DEF HeldType
    <2> QED BY <2>1, <2>2
<1>3. /\ job' \in [Clients -> Calls]
      /\ \A b \in Clients : \A j \in job'[b] :
           \/ j \in job[b]
           \/ j.protocol = p /\ j.device = d /\ j.request = request
    <2>1. CASE job' = job
        BY <1>1, <2>1
    <2>2. CASE Begins(c, tool, p, d, request)
        <3> DEFINE new == [tool |-> tool, protocol |-> p, device |-> d, request |-> request]
        <3>1. new \in Jobs
            BY DEF Jobs
        <3>2. {new} \in Calls
            BY <3>1 DEF Calls, AtMostOneOf
        <3>3. job' = [job EXCEPT ![c] = {new}]
            BY <2>2 DEF Begins
        <3>4. new.protocol = p /\ new.device = d /\ new.request = request
            OBVIOUS
        <3> HIDE DEF new
        <3>5. job'[c] = {new} /\ \A b \in Clients \ {c} : job'[b] = job[b]
            BY <1>1, <3>3
        <3>6. job' \in [Clients -> Calls]
            BY <1>1, <3>2, <3>3
        <3> QED BY <3>4, <3>5, <3>6
    <2> QED BY <2>1, <2>2
<1>4. IInv'
    <2>1. \A q \in Protocols, e \in Devices : held'[q][e] # "none" =>
              held[q][e] # "none" \/ (phase = "serving" /\ IsConfigured(q, e))
        BY <1>2
    <2>2. \A b \in Clients : \A j \in job'[b] :
              \/ j \in job[b]
              \/ /\ IsConfigured(j.protocol, j.device)
                 /\ \A r \in j.request : RequestAccepted(r, Profile(j.protocol, j.device))
        BY <1>3
    <2> QED BY <1>2, <1>3, <2>1, <2>2, PlainStep
<1>5. Spares
    BY <1>2 DEF Spares
<1> QED BY <1>4, <1>5

\* A session is lost, opened or gone, or a call ends, or both.
LEMMA HoldStep ==
    ASSUME IInv, phase # "loading", UNCHANGED <<phase, transport, config, left>>,
           NEW p \in Protocols, NEW d \in Devices, NEW v \in {"none", "dark", "open"},
           v # "none" => held[p][d] # "none",
           held' = [held EXCEPT ![p][d] = v],
           \/ job' = job
           \/ \E c \in Clients :
                /\ job' = [job EXCEPT ![c] = {}]
                /\ \A j \in job[c] : v = "none" => j.protocol = p /\ j.device = d
    PROVE  IInv' /\ Spares
<1>1. held \in HeldType /\ job \in [Clients -> Calls]
    BY DEF IInv, TypeOK, HeldType
<1>2. /\ held' \in HeldType /\ held'[p][d] = v
      /\ \A q \in Protocols, e \in Devices : <<q, e>> # <<p, d>> => held'[q][e] = held[q][e]
    BY <1>1 DEF HeldType
<1>3. {} \in Calls
    BY DEF Calls, AtMostOneOf
<1>4. /\ job' \in [Clients -> Calls]
      /\ \A c \in Clients : job'[c] = job[c] \/ job'[c] = {}
      /\ \A c \in Clients : job'[c] # job[c] =>
           \A j \in job[c] : v = "none" => j.protocol = p /\ j.device = d
    <2>1. CASE job' = job
        BY <1>1, <2>1
    <2>2. ASSUME NEW c \in Clients, job' = [job EXCEPT ![c] = {}],
                 \A j \in job[c] : v = "none" => j.protocol = p /\ j.device = d
          PROVE  /\ job' \in [Clients -> Calls]
                 /\ \A b \in Clients : job'[b] = job[b] \/ (b = c /\ job'[b] = {})
        BY <1>1, <1>3, <2>2
    <2> QED BY <2>1, <2>2
<1>5. IInv'
    <2>1. \A q \in Protocols, e \in Devices : held'[q][e] # "none" => held[q][e] # "none"
        BY <1>2
    <2>2. \A c \in Clients : \A j \in job'[c] : j \in job[c]
        BY <1>4
    <2> QED BY <1>2, <1>4, <2>1, <2>2, PlainStep
<1>6. Spares
    <2> SUFFICES ASSUME NEW q \in Protocols, NEW e \in Devices,
                        held[q][e] # "none", held'[q][e] = "none"
                 PROVE  /\ \A o \in Protocols, f \in Devices :
                              <<o, f>> # <<q, e>> => held'[o][f] = held[o][f]
                        /\ \A c \in Clients : job'[c] # job[c] =>
                             \A j \in job[c] : j.protocol = q /\ j.device = e
        BY DEF Spares
    <2>1. q = p /\ e = d /\ v = "none"
        BY <1>2
    <2> QED BY <1>2, <1>4, <2>1
<1> QED BY <1>5, <1>6

\* Nothing but a call's end changes: nothing is taken from a manager.
LEMMA CallEnds ==
    ASSUME IInv, NEW c \in Clients, job[c] # {}, Ends(c, held)
    PROVE  IInv' /\ Spares
<1>1. phase # "loading"
    BY DEF IInv, Unloaded
<1>2. held' = held /\ job' = [job EXCEPT ![c] = {}] /\ UNCHANGED <<phase, transport, config, left>>
    BY RequestsLeaveSessions DEF Ends
<1>3. job' \in [Clients -> Calls] /\ held' \in HeldType
    BY <1>2 DEF IInv, TypeOK, HeldType, Calls, AtMostOneOf
<1>4. \A b \in Clients : \A j \in job'[b] : j \in job[b]
    BY <1>2 DEF IInv, TypeOK
<1> QED BY <1>1, <1>2, <1>3, <1>4, PlainStep DEF Spares

-----------------------------------------------------------------------------
(* The actions *)

LEMMA LoadStep ==
    ASSUME IInv, NEW launch \in Launches, Load(launch)
    PROVE  IInv'
<1>1. held' = NothingHeld /\ job' = job /\ \A c \in Clients : job[c] = {}
    BY DEF Load, IInv, Unloaded
<1>2. phase' \in {"refused", "printed", "probing", "serving"}
    BY LaunchesAssumption DEF Load
<1>3. TypeOK'
    <2>1. transport' \in Transports
        BY LaunchesAssumption DEF Load
    <2>2. held' \in HeldType
        BY <1>1 DEF HeldType, NothingHeld
    <2>3. /\ \A p \in Protocols, d \in Devices : held'[p][d] = "none"
          /\ \A c \in Clients : job'[c] = {}
        BY <1>1 DEF NothingHeld
    <2>4. left' = left
        BY DEF Load
    <2> QED BY <1>1, <1>2, <2>1, <2>2, <2>3, <2>4 DEF TypeOK, IInv, HeldType
<1>4. Sound(config)'
    <2>1. config' = Loaded(launch.doc)
        BY DEF Load
    <2> QED BY <2>1, LoadedIsSound DEF Sound
<1>5. Unloaded' /\ ClosedStayEmpty'
    BY <1>2 DEF Unloaded, ClosedStayEmpty
<1>6. WireKeepsOwnLogin'
    BY <1>1 DEF WireKeepsOwnLogin
<1> QED BY <1>3, <1>4, <1>5, <1>6 DEF IInv

LEMMA AllAreLeft ==
    /\ \E n \in 0 .. 4 : ProtocolOrder = SubSeq(ProtocolOrder, n + 1, 4)
    /\ \A p \in Protocols : \E i \in DOMAIN ProtocolOrder : ProtocolOrder[i] = p
<1>1. ProtocolOrder \in Seq(Protocols) /\ Len(ProtocolOrder) = 4
    BY DEF ProtocolOrder, Protocols, SSHProtocols
<1>2. SubSeq(ProtocolOrder, 1, Len(ProtocolOrder)) = ProtocolOrder
    BY <1>1, SubSeqFull
<1>3. ASSUME NEW p \in Protocols
      PROVE  \E i \in DOMAIN ProtocolOrder : ProtocolOrder[i] = p
    <2>1. DOMAIN ProtocolOrder = 1 .. 4
        BY <1>1
    <2>2. /\ ProtocolOrder[1] = "ssh-terminal" /\ ProtocolOrder[2] = "ssh-exec"
          /\ ProtocolOrder[3] = "http" /\ ProtocolOrder[4] = "redfish"
        BY DEF ProtocolOrder
    <2> QED BY <2>1, <2>2 DEF Protocols, SSHProtocols
<1>4. \E n \in 0 .. 4 : ProtocolOrder = SubSeq(ProtocolOrder, n + 1, 4)
    <2> WITNESS 0 \in 0 .. 4
    <2> QED BY <1>1, <1>2
<1> QED BY <1>3, <1>4

LEMMA ProbeStep ==
    ASSUME IInv, NEW d \in Devices, NEW requested, Probe(d, requested)
    PROVE  IInv' /\ Spares
<1>1. /\ phase = "probing" /\ phase' = "closing" /\ left' = ProtocolOrder
      /\ UNCHANGED <<transport, config, job>>
    BY DEF Probe
<1>2. /\ held' \in HeldType
      /\ \A p \in Protocols, e \in Devices :
           held'[p][e] # "none" => held[p][e] # "none" \/ IsConfigured(p, e)
    <2>1. CASE held' = held
        BY <2>1 DEF IInv, TypeOK, HeldType
    <2>2. ASSUME NEW p \in Resolve(config, d, requested), held' = [held EXCEPT ![p][d] = "open"]
          PROVE  /\ held' \in HeldType
                 /\ \A q \in Protocols, e \in Devices :
                      held'[q][e] # "none" => held[q][e] # "none" \/ IsConfigured(q, e)
        <3>1. p \in Protocols /\ IsConfigured(p, d)
            BY ResolvedIsConfigured DEF IInv, IsConfigured
        <3>2. held \in HeldType
            BY DEF IInv, TypeOK, HeldType
        <3> QED BY <2>2, <3>1, <3>2 DEF HeldType
    <2> QED BY <2>1, <2>2 DEF Probe
<1>3. TypeOK'
    <2>1. \A p \in Protocols, e \in Devices :
              held'[p][e] # "none" \/ (\E c \in Clients : \E j \in job'[c] : j.protocol = p /\ j.device = e)
                  => IsConfigured(p, e)
        BY <1>1, <1>2 DEF IInv, TypeOK, IsConfigured
    <2>2. \E n \in 0 .. 4 : left' = SubSeq(ProtocolOrder, n + 1, 4)
        BY <1>1, AllAreLeft
    <2> QED BY <1>1, <1>2, <2>1, <2>2 DEF IInv, TypeOK, HeldType, IsConfigured
<1>4. Sound(config)' /\ Unloaded' /\ WireKeepsOwnLogin'
    BY <1>1 DEF IInv, Sound, Unloaded, WireKeepsOwnLogin, Profile
<1>5. ClosedStayEmpty'
    BY <1>1, AllAreLeft DEF ClosedStayEmpty
<1> QED BY <1>1, <1>3, <1>4, <1>5 DEF IInv, Spares

LEMMA OpenSessionStep ==
    ASSUME IInv, NEW c \in Clients, NEW d \in Devices, NEW requested,
           OpenSession(c, d, requested)
    PROVE  IInv' /\ Spares
<1>1. PICK p \in Resolve(config, d, requested) :
          Begins(c, "open_session", p, d, {}) /\ held' = [held EXCEPT ![p][d] = Joined(p, d)]
    BY DEF OpenSession
<1>2. p \in Protocols /\ IsConfigured(p, d)
    BY ResolvedIsConfigured DEF IInv, IsConfigured
<1>3. {} \in AtMostOneOf(Requests)
    BY DEF AtMostOneOf
<1> QED BY <1>1, <1>2, <1>3, BeginStep DEF OpenSession, Idle

LEMMA ExecStep ==
    ASSUME IInv, NEW c \in Clients, NEW d \in Devices, Exec(c, d)
    PROVE  IInv' /\ Spares
<1>1. PICK p \in Resolve(config, d, "ssh-exec") :
          Begins(c, "operation", p, d, {}) /\ held' = [held EXCEPT ![p][d] = Joined(p, d)]
    BY DEF Exec
<1>2. p \in Protocols /\ IsConfigured(p, d)
    BY ResolvedIsConfigured DEF IInv, IsConfigured
<1>3. {} \in AtMostOneOf(Requests)
    BY DEF AtMostOneOf
<1> QED BY <1>1, <1>2, <1>3, BeginStep DEF Exec, Idle

LEMMA TerminalStep ==
    ASSUME IInv, NEW c \in Clients, NEW d \in Devices, Terminal(c, d)
    PROVE  IInv' /\ Spares
<1>1. PICK p \in Resolve(config, d, "ssh-terminal") : Begins(c, "operation", p, d, {})
    BY DEF Terminal
<1>2. p \in Protocols /\ IsConfigured(p, d)
    BY ResolvedIsConfigured DEF IInv, IsConfigured
<1>3. {} \in AtMostOneOf(Requests)
    BY DEF AtMostOneOf
<1> QED BY <1>1, <1>2, <1>3, BeginStep DEF Terminal, Idle

LEMMA RequestStep ==
    ASSUME IInv, NEW c \in Clients, NEW d \in Devices, NEW r \in Requests, Request(c, d, r)
    PROVE  IInv' /\ Spares
<1>1. PICK p \in WebProtocols \cap (UNION {Resolve(config, d, q) : q \in WebProtocols}) :
          /\ IF RequestAccepted(r, Profile(p, d))
             THEN Begins(c, "operation", p, d, {r}) ELSE UNCHANGED job
          /\ held' = [held EXCEPT ![p][d] = Joined(p, d)]
    BY RequestsLeaveSessions DEF Request
<1>2. p \in Protocols /\ IsConfigured(p, d)
    <2>1. PICK q \in WebProtocols : p \in Resolve(config, d, q)
        OBVIOUS
    <2> QED BY <2>1, ResolvedIsConfigured DEF IInv, IsConfigured
<1>3. phase = "serving" /\ UNCHANGED <<phase, transport, config, left>>
    BY DEF Request, Idle
<1>4. CASE RequestAccepted(r, Profile(p, d))
    <2> DEFINE request == {r}
    <2>1. request \in AtMostOneOf(Requests)
        BY DEF AtMostOneOf
    <2>2. \A x \in request : RequestAccepted(x, Profile(p, d))
        BY <1>4
    <2>3. Begins(c, "operation", p, d, request) /\ held' = [held EXCEPT ![p][d] = Joined(p, d)]
        BY <1>1, <1>4
    <2> HIDE DEF request
    <2> QED BY <1>2, <1>3, <2>1, <2>2, <2>3, BeginStep
<1>5. CASE ~RequestAccepted(r, Profile(p, d))
    <2> DEFINE request == {}
    <2>1. request \in AtMostOneOf(Requests) /\ \A x \in request : FALSE
        BY DEF AtMostOneOf
    <2>2. job' = job /\ held' = [held EXCEPT ![p][d] = Joined(p, d)]
        BY <1>1, <1>5
    <2> HIDE DEF request
    <2> QED BY <1>2, <1>3, <2>1, <2>2, BeginStep
<1> QED BY <1>4, <1>5

LEMMA SucceedsStep ==
    ASSUME IInv, NEW c \in Clients, Succeeds(c)
    PROVE  IInv' /\ Spares
<1>1. PICK j \in job[c] :
          \/ Ends(c, held)
          \/ /\ j.tool = "open_session" /\ held[j.protocol][j.device] = "dark"
             /\ Ends(c, [held EXCEPT ![j.protocol][j.device] = "open"])
    BY DEF Succeeds
<1>2. j.protocol \in Protocols /\ j.device \in Devices /\ phase # "loading"
    <2>1. job[c] \in Calls
        BY DEF IInv, TypeOK
    <2>2. j \in Jobs
        BY <2>1 DEF Calls, AtMostOneOf
    <2> QED BY <2>2 DEF Jobs, IInv, Unloaded
<1>3. CASE Ends(c, held)
    BY <1>3, CallEnds
<1>4. CASE /\ held[j.protocol][j.device] = "dark"
           /\ Ends(c, [held EXCEPT ![j.protocol][j.device] = "open"])
    <2>1. /\ held' = [held EXCEPT ![j.protocol][j.device] = "open"]
          /\ job' = [job EXCEPT ![c] = {}] /\ UNCHANGED <<phase, transport, config, left>>
        BY <1>4, RequestsLeaveSessions DEF Ends
    <2> QED BY <1>2, <1>4, <2>1, HoldStep
<1> QED BY <1>1, <1>3, <1>4

LEMMA FailsStep ==
    ASSUME IInv, NEW c \in Clients, Fails(c)
    PROVE  IInv' /\ Spares
<1>1. PICK j \in job[c] :
          \/ Ends(c, held)
          \/ /\ j.tool = "open_session" \/ j.protocol = "ssh-exec"
             /\ Ends(c, [held EXCEPT ![j.protocol][j.device] = "none"])
    BY DEF Fails
<1>2. /\ j.protocol \in Protocols /\ j.device \in Devices /\ phase # "loading"
      /\ \A k \in job[c] : k = j
    <2>1. job[c] \in Calls
        BY DEF IInv, TypeOK
    <2>2. j \in Jobs /\ \A k \in job[c] : k = j
        BY <2>1 DEF Calls, AtMostOneOf
    <2> QED BY <2>2 DEF Jobs, IInv, Unloaded
<1>3. CASE Ends(c, held)
    BY <1>3, CallEnds
<1>4. CASE Ends(c, [held EXCEPT ![j.protocol][j.device] = "none"])
    <2>1. /\ held' = [held EXCEPT ![j.protocol][j.device] = "none"]
          /\ job' = [job EXCEPT ![c] = {}] /\ UNCHANGED <<phase, transport, config, left>>
        BY <1>4, RequestsLeaveSessions DEF Ends
    <2> QED BY <1>2, <2>1, HoldStep
<1> QED BY <1>1, <1>3, <1>4

LEMMA CloseSessionStep ==
    ASSUME IInv, NEW d \in Devices, NEW requested \in Protocols \cup {Absent},
           CloseSession(d, requested)
    PROVE  IInv' /\ Spares
<1>1. PICK p \in Closable(d, requested) : held' = [held EXCEPT ![p][d] = "none"]
    BY RequestsLeaveSessions DEF CloseSession
<1>2. p \in Protocols
    BY DEF Closable
<1>3. phase = "serving" /\ job' = job /\ UNCHANGED <<phase, transport, config, left>>
    BY DEF CloseSession
<1> QED BY <1>1, <1>2, <1>3, HoldStep

LEMMA LostStep ==
    ASSUME IInv, NEW p \in Protocols, NEW d \in Devices, Lost(p, d)
    PROVE  IInv' /\ Spares
<1>1. phase # "loading" /\ held[p][d] # "none"
    BY DEF Lost, Running
<1> QED BY <1>1, HoldStep DEF Lost

LEMMA ReapedStep ==
    ASSUME IInv, NEW p \in Protocols, NEW d \in Devices, Reaped(p, d)
    PROVE  IInv' /\ Spares
<1>1. phase # "loading"
    BY DEF Reaped, Running
<1> QED BY <1>1, HoldStep DEF Reaped

\* It only takes sessions, and all of one manager: what it is exempt from.
LEMMA ConnectionEndsStep ==
    ASSUME IInv, NEW p \in Protocols, ConnectionEnds(p)
    PROVE  IInv' /\ Spares
<1>1. /\ phase # "loading" /\ UNCHANGED <<phase, transport, config, left>> /\ job' = job
      /\ held' = [held EXCEPT ![p] = [d \in Devices |-> "none"]]
    BY DEF ConnectionEnds
<1>2. held \in HeldType /\ job \in [Clients -> Calls]
    BY DEF IInv, TypeOK, HeldType
<1>3. held' \in HeldType
    BY <1>1, <1>2 DEF HeldType
<1>4. \A q \in Protocols, d \in Devices :
          /\ q # p => held'[q][d] = held[q][d]
          /\ held'[q][d] # "none" => held[q][d] # "none"
    BY <1>1, <1>2 DEF HeldType
<1>5. IInv'
    BY <1>1, <1>2, <1>3, <1>4, PlainStep
<1>6. Spares
    <2> SUFFICES ASSUME NEW q \in Protocols, NEW d \in Devices,
                        held[q][d] # "none", held'[q][d] = "none", ~ConnectionEnds(q)
                 PROVE  FALSE
        BY <1>1 DEF Spares
    <2> QED BY <1>4
<1> QED BY <1>5, <1>6

LEMMA StopRequestedStep ==
    ASSUME IInv, StopRequested
    PROVE  IInv' /\ Spares
BY DEF StopRequested, IInv, TypeOK, Sound, Unloaded, ClosedStayEmpty, WireKeepsOwnLogin, Profile,
    Spares

LEMMA DrainedStep ==
    ASSUME IInv, Drained
    PROVE  IInv' /\ Spares
<1>1. /\ phase' = "closing" /\ left' = ProtocolOrder
      /\ UNCHANGED <<transport, config, held, job>>
    BY DEF Drained, ClosesAtExit, OwnsSessions
<1>2. TypeOK'
    BY <1>1, AllAreLeft DEF IInv, TypeOK
<1>3. Sound(config)' /\ Unloaded' /\ WireKeepsOwnLogin'
    BY <1>1 DEF IInv, Sound, Unloaded, WireKeepsOwnLogin, Profile
<1>4. ClosedStayEmpty'
    BY <1>1, AllAreLeft DEF ClosedStayEmpty
<1> QED BY <1>1, <1>2, <1>3, <1>4 DEF IInv, Spares

LEMMA ClosesManagerStep ==
    ASSUME IInv, ClosesManager
    PROVE  IInv' /\ Spares
<1> DEFINE p == Head(left)
<1>1. /\ phase = "closing" /\ phase' = phase /\ left' = Tail(left)
      /\ held' = [held EXCEPT ![p] = [d \in Devices |-> "none"]]
      /\ UNCHANGED <<transport, config, job>>
    BY DEF ClosesManager
<1>2. /\ \E m \in 0 .. 4 : left' = SubSeq(ProtocolOrder, m + 1, 4)
      /\ p \in Protocols
      /\ \A i \in DOMAIN left : left[i] = p \/ \E k \in DOMAIN left' : left'[k] = left[i]
    BY <1>1, LeftTail DEF IInv, TypeOK, ClosesManager
<1> HIDE DEF p
<1>3. /\ held' \in HeldType
      /\ \A d \in Devices : held'[p][d] = "none"
      /\ \A q \in Protocols, d \in Devices : q # p => held'[q][d] = held[q][d]
    BY <1>1, <1>2 DEF IInv, TypeOK, HeldType
<1>4. TypeOK'
    <2>1. \A q \in Protocols, d \in Devices :
              held'[q][d] # "none" \/ (\E c \in Clients : \E j \in job'[c] : j.protocol = q /\ j.device = d)
                  => IsConfigured(q, d)
        BY <1>1, <1>3 DEF IInv, TypeOK, IsConfigured
    <2> QED BY <1>1, <1>2, <1>3, <2>1 DEF IInv, TypeOK, HeldType, IsConfigured
<1>5. Sound(config)' /\ Unloaded' /\ WireKeepsOwnLogin'
    BY <1>1 DEF IInv, Sound, Unloaded, WireKeepsOwnLogin, Profile
<1>6. ClosedStayEmpty'
    <2> SUFFICES ASSUME NEW q \in Protocols, NEW d \in Devices, held'[q][d] # "none"
                 PROVE  \E k \in DOMAIN left' : left'[k] = q
        BY <1>1 DEF ClosedStayEmpty
    <2>1. q # p /\ held[q][d] # "none"
        BY <1>3
    <2>2. PICK i \in DOMAIN left : left[i] = q
        BY <1>1, <2>1 DEF IInv, ClosedStayEmpty
    <2> QED BY <1>2, <2>1, <2>2
<1> QED BY <1>1, <1>4, <1>5, <1>6 DEF IInv, Spares

LEMMA ManagerRaisesStep ==
    ASSUME IInv, ManagerRaises
    PROVE  IInv' /\ Spares
BY DEF ManagerRaises, IInv, TypeOK, Sound, Unloaded, ClosedStayEmpty, WireKeepsOwnLogin, Profile,
    Spares

LEMMA AllClosedStep ==
    ASSUME IInv, AllClosed
    PROVE  IInv' /\ Spares
BY DEF AllClosed, IInv, TypeOK, Sound, Unloaded, ClosedStayEmpty, WireKeepsOwnLogin, Profile,
    Spares

-----------------------------------------------------------------------------
(* The theorems *)

LEMMA InitIInv == Init => IInv
<1> SUFFICES ASSUME Init PROVE IInv
    OBVIOUS
<1>1. TypeOK
    <2>1. <<>> = SubSeq(ProtocolOrder, 4 + 1, 4)
        BY SubSeqEmpty
    <2>2. \E n \in 0 .. 4 : left = SubSeq(ProtocolOrder, n + 1, 4)
        BY <2>1 DEF Init
    <2>3. job \in [Clients -> Calls]
        BY DEF Init, Calls, AtMostOneOf
    <2> QED BY <2>2, <2>3 DEF Init, TypeOK, NothingHeld, Transports
<1>2. Sound(config) /\ Unloaded /\ ClosedStayEmpty /\ WireKeepsOwnLogin
    BY DEF Init, Sound, NoConfig, Unloaded, ClosedStayEmpty, WireKeepsOwnLogin
<1> QED BY <1>1, <1>2 DEF IInv

LEMMA NextStep == IInv /\ [Next]_vars => IInv' /\ (Spares \/ UNCHANGED vars)
<1> SUFFICES ASSUME IInv, [Next]_vars PROVE IInv' /\ (Spares \/ UNCHANGED vars)
    OBVIOUS
<1>1. ASSUME NEW launch \in Launches, Load(launch) PROVE IInv' /\ Spares
    BY <1>1, LoadStep DEF Load, Spares
<1>2. ASSUME NEW d \in Devices, NEW requested \in Protocols \cup {Absent},
             Probe(d, requested) \/ CloseSession(d, requested)
      PROVE  IInv' /\ Spares
    BY <1>2, ProbeStep, CloseSessionStep
<1>3. ASSUME NEW c \in Clients, NEW d \in Devices, NEW requested, OpenSession(c, d, requested)
      PROVE  IInv' /\ Spares
    BY <1>3, OpenSessionStep
<1>4. ASSUME NEW c \in Clients, NEW d \in Devices, Exec(c, d) \/ Terminal(c, d)
      PROVE  IInv' /\ Spares
    BY <1>4, ExecStep, TerminalStep
<1>5. ASSUME NEW c \in Clients, NEW d \in Devices, NEW r \in Requests, Request(c, d, r)
      PROVE  IInv' /\ Spares
    BY <1>5, RequestStep
<1>6. ASSUME NEW c \in Clients, Succeeds(c) \/ Fails(c) PROVE IInv' /\ Spares
    BY <1>6, SucceedsStep, FailsStep
<1>7. ASSUME NEW c \in Clients, Cancelled(c) PROVE IInv' /\ Spares
    BY <1>7, CallEnds DEF Cancelled
<1>8. ASSUME NEW p \in Protocols, NEW d \in Devices, Lost(p, d) \/ Reaped(p, d)
      PROVE  IInv' /\ Spares
    BY <1>8, LostStep, ReapedStep
<1>9. ASSUME NEW p \in Protocols, ConnectionEnds(p) PROVE IInv' /\ Spares
    BY <1>9, ConnectionEndsStep
<1>10. CASE StopRequested \/ Drained \/ ClosesManager \/ ManagerRaises \/ AllClosed
    BY <1>10, StopRequestedStep, DrainedStep, ClosesManagerStep, ManagerRaisesStep, AllClosedStep
<1>11. CASE UNCHANGED vars
    BY <1>11 DEF vars, IInv, TypeOK, Sound, Unloaded, ClosedStayEmpty, WireKeepsOwnLogin, Profile
<1> QED BY <1>1, <1>2, <1>3, <1>4, <1>5, <1>6, <1>7, <1>8, <1>9, <1>10, <1>11 DEF Next

THEOREM Invariant == Spec => []IInv
BY InitIInv, NextStep, PTL DEF Spec

\* The state keeps its type, whatever is called is configured.
THEOREM TypeCorrect == Spec => []TypeOK
BY Invariant, PTL DEF IInv

\* Whatever document was loaded, the logins have what they need.
THEOREM LoginsHaveWhatTheyNeed == Spec => []LoadedIsUsable
<1>1. IInv => LoadedIsUsable
    BY DEF IInv, Sound, LoadedIsUsable
<1> QED BY <1>1, Invariant, PTL

\* No request in progress has a managed header of the caller's, or a token of
\* its own where the profile puts the session's.
THEOREM LoginIsTheSessions == Spec => []WireKeepsOwnLogin
BY Invariant, PTL DEF IInv

\* No call takes the session of another one's device out of a manager.
THEOREM SessionsSpared == Spec => RequestsSpareSessions
<1>1. IInv /\ [Next]_vars => [Spares]_vars
    BY NextStep
<1> QED BY <1>1, Invariant, PTL DEF Spec, RequestsSpareSessions, Spares

\* A program that stopped without an error holds no session.
StoppedHoldsNothing == phase = "stopped" => held = NothingHeld

\* main() returns only once every manager is empty.
THEOREM EmptyWhenStopped == Spec => []StoppedHoldsNothing
<1>1. ASSUME IInv, phase = "stopped" PROVE held = NothingHeld
    <2>1. \A p \in Protocols, d \in Devices : held[p][d] = "none"
        BY <1>1 DEF IInv, ClosedStayEmpty
    <2>2. held \in HeldType
        BY <1>1 DEF IInv, TypeOK, HeldType
    <2>3. \A p \in Protocols : held[p] = [d \in Devices |-> "none"]
        BY <2>1, <2>2 DEF HeldType
    <2> QED BY <2>2, <2>3 DEF HeldType, NothingHeld
<1>2. IInv => StoppedHoldsNothing
    BY <1>1 DEF StoppedHoldsNothing
<1> QED BY <1>2, Invariant, PTL
=============================================================================
