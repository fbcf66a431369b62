-------------------------- MODULE HTTPManagerProofs --------------------------
(***************************************************************************)
(* Proofs about HTTPManager, for any number of callers, devices and        *)
(* sessions: it implements SessionRegistry, its calls leave the living     *)
(* sessions of others in place and reach the device they named, and        *)
(* close_all takes what was registered.                                    *)
(***************************************************************************)
EXTENDS HTTPManager, TLAPS

Created == 1 .. created

\* A session is registered under its own device; what a call, the reaper or
\* close_all has in hand was created; a session not created yet is untouched.
RegistryInv ==
    /\ \A d \in Devices : reg[d] # None => reg[d] \in Created /\ dev[reg[d]] = d
    /\ \A s \in Created : dev[s] \in Devices
    /\ \A s \in Sessions \ Created : shut[s] = "no" /\ closer[s] = {}
    /\ \A c \in Clients : pc[c] # "idle" => mine[c] \in Created
    /\ doomed \cup gathered \subseteq Created

IInv == TypeOK /\ RegistryInv

\* What TypeOK says of the callers.
ClientTypes ==
    /\ pc \in [Clients -> {"idle", "relogin", "login", "sending", "closing"}]
    /\ op \in [Clients -> {"none", "request", "open", "close"}]
    /\ mine \in [Clients -> Sessions \cup {None}]
    /\ retry \in [Clients -> BOOLEAN]

\* A step that makes no session and revives none.
Quiet ==
    /\ created' = created /\ dev' = dev
    /\ \A d \in Devices : reg'[d] \in {reg[d], None}
    /\ \A s \in Sessions : shut[s] # "no" => shut'[s] # "no"
    /\ \A s \in Sessions \ Created : shut'[s] = "no" /\ closer'[s] = {}
    /\ \A c \in Clients : pc'[c] # "idle" => mine'[c] \in Created
    /\ doomed' \cup gathered' \subseteq Created

-----------------------------------------------------------------------------
\* The initial registry is empty.
THEOREM InitIInv == Init => IInv
<1> SUFFICES ASSUME Init PROVE IInv
  OBVIOUS
<1>1. created \in 0 .. SessionBound /\ Created = {}
  BY BoundAssumption DEF Init, Created
<1>2. TypeOK
  BY <1>1 DEF Init, TypeOK
<1>3. RegistryInv
  BY <1>1 DEF Init, RegistryInv
<1> QED
  BY <1>2, <1>3 DEF IInv

\* Created sessions are sessions.
LEMMA CreatedSessions == ASSUME TypeOK PROVE Created \subseteq Sessions /\ None \notin Sessions
BY BoundAssumption DEF TypeOK, Created, Sessions, None

\* A quiet step keeps the invariant and releases.
LEMMA QuietStep == ASSUME IInv, TypeOK', Quiet PROVE IInv' /\ Registry!Release
<1>1. Created' = Created
  BY DEF Quiet, Created
<1>2. RegistryInv'
  BY <1>1 DEF IInv, RegistryInv, Quiet
<1>3. reg' \in [Devices -> Sessions \cup {None}]
  BY DEF TypeOK
<1>4. Registry!Release
  BY <1>1, <1>3, CreatedSessions DEF Quiet, Registry!Release, Alive, IInv, Created
<1> QED
  BY <1>2, <1>4 DEF IInv

\* The step of a caller keeps its types.
LEMMA StandsType ==
    ASSUME TypeOK, NEW c \in Clients, NEW s \in Sessions \cup {None}, NEW again \in BOOLEAN,
           NEW step \in {"idle", "relogin", "login", "sending", "closing"},
           NEW kind \in {"none", "request", "open", "close"},
           Stands(c, step, kind, s, again)
    PROVE  /\ ClientTypes'
           /\ pc'[c] = step /\ mine'[c] = s
           /\ \A b \in Clients \ {c} : pc'[b] = pc[b] /\ mine'[b] = mine[b]
BY DEF Stands, TypeOK, ClientTypes

\* Returning is standing idle.
LEMMA ReturnsType ==
    ASSUME TypeOK, NEW c \in Clients, Returns(c)
    PROVE  /\ ClientTypes'
           /\ pc'[c] = "idle"
           /\ \A b \in Clients \ {c} : pc'[b] = pc[b] /\ mine'[b] = mine[b]
BY DEF Returns, Stands, TypeOK, ClientTypes

\* session.close() on any sessions only ever takes them further.
LEMMA ClosingEffect ==
    ASSUME TypeOK, NEW w \in Closers, NEW F, NEW P, NEW X, Closing(w, F, P, X)
    PROVE  /\ shut' \in [Sessions -> {"no", "closing", "closed"}]
           /\ closer' \in [Sessions -> SUBSET Closers]
           /\ auth' \in [Sessions -> BOOLEAN]
           /\ \A s \in Sessions : shut[s] # "no" \/ s \in F \cup P \cup X => shut'[s] # "no"
           /\ \A s \in Sessions \ (F \cup P \cup X) : shut'[s] = shut[s] /\ closer'[s] = closer[s]
<1>1. shut' \in [Sessions -> {"no", "closing", "closed"}]
  BY DEF Closing, TypeOK
<1>2. closer' \in [Sessions -> SUBSET Closers]
  BY DEF Closing, TypeOK
<1>3. auth' \in [Sessions -> BOOLEAN]
  BY DEF Closing, TypeOK
<1>4. \A s \in Sessions : shut[s] # "no" \/ s \in F \cup P \cup X => shut'[s] # "no"
  BY DEF Closing, TypeOK
<1>5. \A s \in Sessions \ (F \cup P \cup X) : shut'[s] = shut[s] /\ closer'[s] = closer[s]
  BY DEF Closing, TypeOK
<1> QED
  BY <1>1, <1>2, <1>3, <1>4, <1>5

\* Whoever closes a session closes one that was created.
LEMMA ClosedByCreated == ASSUME IInv, NEW w \in Closers PROVE ClosedBy(w) \subseteq Created
BY DEF ClosedBy, IInv, RegistryInv

\* The registry holds created sessions, and each under its own device.
LEMMA RegisteredCreated ==
    ASSUME IInv
    PROVE  /\ Registered \subseteq Created
           /\ \A s \in Registered : dev[s] \in Devices /\ reg[dev[s]] = s
BY DEF Registered, IInv, RegistryInv

\* Popping a session only empties its device.
LEMMA PopEffect ==
    ASSUME IInv, NEW d \in Devices, NEW s, reg' = PopSame(d, s)
    PROVE  /\ reg' \in [Devices -> Sessions \cup {None}]
           /\ \A e \in Devices : reg'[e] \in {reg[e], None}
           /\ \A e \in Devices : reg'[e] # reg[e] => reg[e] = s
BY DEF PopSame, IInv, TypeOK

\* A living session leaves the registry only with the failed open() of it.
Spares ==
    \A d \in Devices :
        reg[d] # None /\ reg'[d] # reg[d] /\ shut'[reg[d]] = "no" =>
            \E c \in Clients : op[c] = "open" /\ mine[c] = reg[d] /\ pc'[c] = "idle"

\* A call that raises pops at most the session it could not open.
LEMMA RaisesEffect ==
    ASSUME IInv, NEW c \in Clients, NEW kind, NEW s \in Created, Raises(c, kind, s)
    PROVE  /\ reg' \in [Devices -> Sessions \cup {None}]
           /\ \A e \in Devices : reg'[e] \in {reg[e], None}
           /\ \A e \in Devices : reg'[e] # reg[e] => reg[e] = s /\ kind = "open"
           /\ Returns(c) /\ reaper' = reaper
<1>1. CASE kind = "open"
  BY <1>1, PopEffect DEF Raises, IInv, RegistryInv
<1>2. CASE kind # "open"
  BY <1>2 DEF Raises, IInv, TypeOK
<1> QED
  BY <1>1, <1>2 DEF Raises

\* Of a call that is authenticated the registry notices nothing.
LEMMA AuthenticatedEffect ==
    ASSUME IInv, NEW c \in Clients, NEW kind \in {"none", "request", "open", "close"},
           NEW s \in Created, NEW again \in BOOLEAN, Authenticated(c, kind, s, again)
    PROVE  /\ ClientTypes'
           /\ \A b \in Clients : pc'[b] # "idle" => mine'[b] \in Created
           /\ reg' = reg /\ reaper' \in BOOLEAN
<1> USE CreatedSessions DEF IInv
<1>1. CASE Returns(c) /\ reg' = reg
  BY <1>1, ReturnsType DEF Authenticated, Raises, TypeOK, RegistryInv
<1>2. CASE Stands(c, "sending", kind, s, again) /\ UNCHANGED <<reg, reaper>>
  BY <1>2, StandsType DEF TypeOK, RegistryInv
<1> QED
  BY <1>1, <1>2 DEF Authenticated, Raises

-----------------------------------------------------------------------------
\* A step that leaves the sessions' closing and the lists alone.
LEMMA OpenStep ==
    ASSUME IInv, UNCHANGED <<created, plain, dev, closeVars, endVars>>,
           reg' \in [Devices -> Sessions \cup {None}],
           \A d \in Devices : reg'[d] \in {reg[d], None},
           auth' \in [Sessions -> BOOLEAN], old' \in [Sessions -> BOOLEAN], reaper' \in BOOLEAN,
           ClientTypes',
           \A c \in Clients : pc'[c] # "idle" => mine'[c] \in Created
    PROVE  TypeOK' /\ Quiet
<1>1. TypeOK'
  BY DEF IInv, TypeOK, ClientTypes, closeVars, endVars
<1>2. Quiet
  BY DEF IInv, RegistryInv, Quiet, closeVars, endVars
<1> QED
  BY <1>1, <1>2

\* A call finds its session.
LEMMA CallReusesStep ==
    ASSUME IInv, NEW c \in Clients, NEW d \in Devices, NEW kind \in {"request", "open"},
           CallReuses(c, d, kind)
    PROVE  TypeOK' /\ Quiet /\ Spares
<1> USE CreatedSessions DEF IInv
<1>1. reg[d] \in Created /\ reg[d] \in Sessions
  BY DEF CallReuses, MustCreate, TypeOK, RegistryInv
<1>2. CASE auth[reg[d]] \/ d \in plain
  <2>1. Authenticated(c, kind, reg[d], FALSE) /\ auth' = [auth EXCEPT ![reg[d]] = TRUE]
    BY <1>2 DEF CallReuses
  <2>2. auth' \in [Sessions -> BOOLEAN]
    BY <2>1 DEF TypeOK
  <2>3. reg' = reg /\ reaper' \in BOOLEAN /\ (\A b \in Clients : pc'[b] # "idle" => mine'[b] \in Created)
    BY <1>1, <2>1, AuthenticatedEffect
  <2>4. /\ ClientTypes'
    BY <1>1, <2>1, AuthenticatedEffect
  <2>5. UNCHANGED <<created, plain, dev, old, closeVars, endVars>>
    BY DEF CallReuses
  <2>6. reg' \in [Devices -> Sessions \cup {None}] /\ old' \in [Sessions -> BOOLEAN]
    BY <2>3, <2>5 DEF TypeOK
  <2>7. TypeOK' /\ Quiet
    BY <2>2, <2>3, <2>4, <2>5, <2>6, OpenStep
  <2> QED
    BY <2>3, <2>7 DEF Spares
<1>3. CASE ~(auth[reg[d]] \/ d \in plain)
  <2>1. Stands(c, "login", kind, reg[d], FALSE) /\ UNCHANGED <<auth, reg, reaper>>
    BY <1>3 DEF CallReuses
  <2>2. /\ ClientTypes'
        /\ mine'[c] = reg[d]
        /\ \A b \in Clients \ {c} : pc'[b] = pc[b] /\ mine'[b] = mine[b]
    BY <1>1, <2>1, StandsType
  <2>3. \A b \in Clients : pc'[b] # "idle" => mine'[b] \in Created
    BY <1>1, <2>2 DEF RegistryInv
  <2> QED
    BY <2>1, <2>2, <2>3, OpenStep DEF CallReuses, TypeOK, Spares
<1> QED
  BY <1>2, <1>3

\* A new session: the registry takes it, and only there.
LEMMA RegisterStep ==
    ASSUME IInv, NEW d \in Devices, Registers(d), UNCHANGED <<plain, closeVars, endVars>>,
           auth' \in [Sessions -> BOOLEAN], old' = old, reaper' \in BOOLEAN, ClientTypes',
           \A c \in Clients : pc'[c] # "idle" => mine'[c] \in Created \cup {created + 1}
    PROVE  IInv' /\ Registry!Register(d, created + 1) /\ Spares
<1>1. /\ created + 1 \in Sessions /\ created + 1 \notin Created /\ created \in Nat
      /\ Created' = Created \cup {created + 1}
      /\ created' \in 0 .. SessionBound
  BY BoundAssumption DEF IInv, TypeOK, Registers, Created, Sessions
<1>2. /\ reg' = [reg EXCEPT ![d] = created + 1] /\ dev' = [dev EXCEPT ![created + 1] = d]
      /\ shut' = shut /\ closer' = closer
  BY DEF Registers, closeVars
<1>3. TypeOK'
  <2>1. reg' \in [Devices -> Sessions \cup {None}] /\ dev' \in [Sessions -> Devices \cup {None}]
    BY <1>1, <1>2 DEF IInv, TypeOK
  <2> QED
    BY <1>1, <2>1 DEF IInv, TypeOK, ClientTypes, closeVars, endVars
<1>4. RegistryInv'
  <2>1. \A e \in Devices : reg'[e] # None => reg'[e] \in Created' /\ dev'[reg'[e]] = e
    BY <1>1, <1>2, CreatedSessions DEF IInv, TypeOK, RegistryInv
  <2>2. \A s \in Created' : dev'[s] \in Devices
    BY <1>1, <1>2, CreatedSessions DEF IInv, TypeOK, RegistryInv
  <2>3. doomed' \cup gathered' \subseteq Created'
    BY <1>1 DEF IInv, RegistryInv, endVars
  <2> QED
    BY <1>1, <1>2, <2>1, <2>2, <2>3 DEF IInv, RegistryInv
<1>5. reg[d] = None \/ (reg[d] \in Created /\ shut[reg[d]] # "no")
  BY DEF Registers, MustCreate, Alive, IInv, RegistryInv
<1>6. Registry!Register(d, created + 1)
  <2>1. shut[created + 1] = "no"
    BY <1>1 DEF IInv, RegistryInv
  <2>2. {s \in 1 .. created' : ~(shut'[s] = "no")} = {s \in 1 .. created : ~(shut[s] = "no")}
    BY <1>1, <1>2, <2>1 DEF Created
  <2>3. reg[d] \in {s \in 1 .. created : ~(shut[s] = "no")} \cup {None}
    BY <1>5 DEF Created
  <2> QED
    BY <1>1, <1>2, <2>2, <2>3 DEF Registry!Register, Alive, Created
<1>7. Spares
  BY <1>2, <1>5 DEF Spares, IInv, TypeOK
<1> QED
  BY <1>3, <1>4, <1>6, <1>7 DEF IInv

\* A call makes the session it goes on with.
LEMMA CallCreatesStep ==
    ASSUME IInv, NEW c \in Clients, NEW d \in Devices, NEW kind \in {"request", "open"},
           CallCreates(c, d, kind)
    PROVE  IInv' /\ Registry!Register(d, created + 1) /\ Spares
<1>1. Registers(d) /\ UNCHANGED <<plain, closeVars, endVars>> /\ old' = old
  BY DEF CallCreates
<1>2. created + 1 \in Sessions
  BY BoundAssumption DEF CallCreates, Registers, IInv, TypeOK, Sessions
<1>3. auth' \in [Sessions -> BOOLEAN] /\ reaper' \in BOOLEAN
  BY DEF CallCreates, IInv, TypeOK
<1>4. \/ UNCHANGED clientVars
      \/ \E step \in {"sending", "login"} : Stands(c, step, kind, created + 1, FALSE)
  BY DEF CallCreates
<1>5. CASE UNCHANGED clientVars
  <2>1. ClientTypes' /\ (\A b \in Clients : pc'[b] # "idle" => mine'[b] \in Created)
    BY <1>5 DEF IInv, TypeOK, RegistryInv, ClientTypes, clientVars
  <2> QED
    BY <1>1, <1>3, <2>1, RegisterStep
<1>6. ASSUME NEW step \in {"sending", "login"}, Stands(c, step, kind, created + 1, FALSE)
      PROVE  IInv' /\ Registry!Register(d, created + 1) /\ Spares
  <2>1. ClientTypes' /\ mine'[c] = created + 1
        /\ (\A b \in Clients \ {c} : pc'[b] = pc[b] /\ mine'[b] = mine[b])
    <3>1. TypeOK
      BY DEF IInv
    <3>2. created + 1 \in Sessions \cup {None}
      BY <1>2
    <3> HIDE DEF IInv
    <3> QED
      BY <1>6, <3>1, <3>2 DEF Stands, TypeOK, ClientTypes
  <2>2. \A b \in Clients : pc'[b] # "idle" => mine'[b] \in Created \cup {created + 1}
    BY <2>1 DEF IInv, RegistryInv
  <2> QED
    BY <1>1, <1>3, <2>1, <2>2, RegisterStep
<1> QED
  BY <1>4, <1>5, <1>6

\* A refused call makes a session too.
LEMMA CallRefusedStep ==
    ASSUME IInv, NEW c \in Clients, NEW d \in Devices, CallRefused(c, d)
    PROVE  IInv' /\ Registry!Register(d, created + 1) /\ Spares
<1>1. ClientTypes' /\ (\A b \in Clients : pc'[b] # "idle" => mine'[b] \in Created)
  BY DEF CallRefused, IInv, TypeOK, RegistryInv, ClientTypes, clientVars
<1>2. auth' \in [Sessions -> BOOLEAN] /\ old' = old /\ reaper' \in BOOLEAN
  BY DEF CallRefused, IInv, TypeOK
<1> QED
  BY <1>1, <1>2, RegisterStep DEF CallRefused

-----------------------------------------------------------------------------
\* How the calls in progress go on: none closes a session, and one that raises
\* out of open() pops its own.
LEMMA CallsStep ==
    ASSUME IInv, NEW c \in Clients,
           \/ LoggedIn(c) \/ LoginFails(c) \/ Answered(c) \/ Denied(c) \/ LoggedOut(c)
           \/ SendFails(c)
    PROVE  TypeOK' /\ Quiet /\ Spares
<1> DEFINE s == mine[c]
<1>1. s \in Created /\ s \in Sessions /\ op[c] \in {"none", "request", "open", "close"}
  BY CreatedSessions DEF IInv, RegistryInv, TypeOK, LoggedIn, LoginFails, Answered, Denied, LoggedOut, SendFails
<1> HIDE DEF s
<1>2. ASSUME NEW kind, Raises(c, kind, s), kind = "open" => op[c] = "open",
             UNCHANGED <<created, plain, dev, old, closeVars, endVars>>,
             auth' \in [Sessions -> BOOLEAN]
      PROVE  TypeOK' /\ Quiet /\ Spares
  <2>1. /\ reg' \in [Devices -> Sessions \cup {None}] /\ reaper' = reaper /\ Returns(c)
        /\ \A e \in Devices : reg'[e] \in {reg[e], None}
        /\ \A e \in Devices : reg'[e] # reg[e] => reg[e] = s /\ kind = "open"
    BY <1>1, <1>2, RaisesEffect
  <2>2. ClientTypes' /\ pc'[c] = "idle" /\ (\A b \in Clients : pc'[b] # "idle" => mine'[b] \in Created)
    BY <2>1, ReturnsType DEF IInv, RegistryInv
  <2>3. TypeOK' /\ Quiet
    BY <1>2, <2>1, <2>2, OpenStep DEF IInv, TypeOK
  <2>4. Spares
    BY <1>2, <2>1, <2>2 DEF Spares, s
  <2> QED
    BY <2>3, <2>4
<1>3. ASSUME NEW step \in {"idle", "relogin", "login", "sending", "closing"},
             NEW kind \in {"none", "request", "open", "close"}, NEW again \in BOOLEAN,
             Stands(c, step, kind, s, again), reg' = reg, reaper' \in BOOLEAN,
             UNCHANGED <<created, plain, dev, old, closeVars, endVars>>,
             auth' \in [Sessions -> BOOLEAN]
      PROVE  TypeOK' /\ Quiet /\ Spares
  <2>1. /\ ClientTypes' /\ mine'[c] = s
        /\ \A b \in Clients \ {c} : pc'[b] = pc[b] /\ mine'[b] = mine[b]
    BY <1>1, <1>3, StandsType DEF IInv
  <2>2. \A b \in Clients : pc'[b] # "idle" => mine'[b] \in Created
    BY <1>1, <2>1 DEF IInv, RegistryInv
  <2>3. TypeOK' /\ Quiet
    BY <1>3, <2>1, <2>2, OpenStep DEF IInv, TypeOK
  <2> QED
    BY <1>3, <2>3 DEF Spares
<1>4. CASE LoggedIn(c)
  <2>1. auth' \in [Sessions -> BOOLEAN] /\ retry[c] \in BOOLEAN
    BY <1>4 DEF LoggedIn, IInv, TypeOK
  <2>2. Authenticated(c, op[c], s, retry[c])
    BY <1>4 DEF LoggedIn, s
  <2>3. /\ ClientTypes' /\ reg' = reg /\ reaper' \in BOOLEAN
        /\ \A b \in Clients : pc'[b] # "idle" => mine'[b] \in Created
    BY <1>1, <2>1, <2>2, AuthenticatedEffect
  <2>4. TypeOK' /\ Quiet
    BY <1>4, <2>1, <2>3, OpenStep DEF LoggedIn, IInv, TypeOK
  <2> QED
    BY <2>3, <2>4 DEF Spares
<1>5. CASE LoginFails(c)
  BY <1>2, <1>5 DEF LoginFails, s, sessionVars, IInv, TypeOK
<1>6. CASE Answered(c)
  <2>1. Returns(c) /\ reg' = reg /\ reaper' = TRUE
        /\ UNCHANGED <<created, plain, dev, auth, old, closeVars, endVars>>
    BY <1>6 DEF Answered, sessionVars
  <2>2. ClientTypes' /\ (\A b \in Clients : pc'[b] # "idle" => mine'[b] \in Created)
    BY <2>1, ReturnsType DEF IInv, RegistryInv
  <2>3. TypeOK' /\ Quiet
    BY <2>1, <2>2, OpenStep DEF IInv, TypeOK
  <2> QED
    BY <2>1, <2>3 DEF Spares
<1>7. CASE Denied(c)
  <2>1. /\ UNCHANGED <<created, plain, dev, auth, old, closeVars, endVars>>
        /\ auth' \in [Sessions -> BOOLEAN]
    BY <1>7 DEF Denied, sessionVars, IInv, TypeOK
  <2>2. CASE Authenticated(c, "request", s, TRUE)
    <3>1. \/ Raises(c, "request", s)
          \/ Stands(c, "sending", "request", s, TRUE) /\ UNCHANGED <<reg, reaper>>
      BY <2>2 DEF Authenticated
    <3> QED
      BY <1>2, <1>3, <2>1, <3>1 DEF IInv, TypeOK
  <2>3. CASE Stands(c, "relogin", "request", s, TRUE) /\ UNCHANGED <<reg, reaper>>
    BY <1>3, <2>1, <2>3 DEF IInv, TypeOK
  <2> QED
    BY <1>7, <2>2, <2>3 DEF Denied, s
<1>8. CASE LoggedOut(c)
  <2>1. CASE shut[s] = "closed"
    BY <1>2, <1>8, <2>1 DEF LoggedOut, s, IInv, TypeOK
  <2>2. CASE shut[s] # "closed"
    BY <1>3, <1>8, <2>2 DEF LoggedOut, s, IInv, TypeOK
  <2> QED
    BY <2>1, <2>2
<1>9. CASE SendFails(c)
  BY <1>2, <1>9 DEF SendFails, s, sessionVars, IInv, TypeOK
<1> QED
  BY <1>4, <1>5, <1>6, <1>7, <1>8, <1>9

\* A session gets old.
LEMMA AgingStep ==
    ASSUME IInv, NEW s \in Sessions, Aging(s) PROVE TypeOK' /\ Quiet /\ Spares
<1>1. ClientTypes' /\ (\A b \in Clients : pc'[b] # "idle" => mine'[b] \in Created)
  BY DEF Aging, clientVars, IInv, TypeOK, ClientTypes, RegistryInv
<1>2. old' \in [Sessions -> BOOLEAN] /\ auth' \in [Sessions -> BOOLEAN] /\ reaper' \in BOOLEAN
  BY DEF Aging, IInv, TypeOK
<1>3. TypeOK' /\ Quiet
  BY <1>1, <1>2, OpenStep DEF Aging, IInv, TypeOK
<1> QED
  BY <1>3 DEF Aging, Spares

-----------------------------------------------------------------------------
\* A step that closes sessions and takes some out of the registry.
LEMMA CloseStep ==
    ASSUME IInv, UNCHANGED <<created, plain, dev, old>>,
           NEW w \in Closers, NEW F \in SUBSET Created, NEW P \in SUBSET Created,
           NEW X \in SUBSET Created, Closing(w, F, P, X),
           reg' \in [Devices -> Sessions \cup {None}],
           \A d \in Devices : reg'[d] \in {reg[d], None},
           reaper' \in BOOLEAN, over' \in {"no", "closing", "done"},
           doomed' \in SUBSET Created, gathered' \in SUBSET Created, ClientTypes',
           \A c \in Clients : pc'[c] # "idle" => mine'[c] \in Created
    PROVE  TypeOK' /\ Quiet
<1>1. /\ shut' \in [Sessions -> {"no", "closing", "closed"}]
      /\ closer' \in [Sessions -> SUBSET Closers]
      /\ auth' \in [Sessions -> BOOLEAN]
  BY ClosingEffect DEF IInv
<1>2. \A s \in Sessions : shut[s] # "no" => shut'[s] # "no"
  BY ClosingEffect DEF IInv
<1>3. \A s \in Sessions \ Created : shut'[s] = "no" /\ closer'[s] = {}
  BY ClosingEffect DEF IInv, RegistryInv
<1>4. doomed' \subseteq Sessions /\ gathered' \subseteq Sessions
  BY CreatedSessions DEF IInv
<1>5. TypeOK'
  BY <1>1, <1>4 DEF IInv, TypeOK, ClientTypes
<1>6. Quiet
  BY <1>2, <1>3 DEF Quiet
<1> QED
  BY <1>5, <1>6

\* close() of a device.
LEMMA CloseCallStep ==
    ASSUME IInv, NEW c \in Clients, NEW d \in Devices, CloseCall(c, d)
    PROVE  TypeOK' /\ Quiet /\ Spares
<1> DEFINE s == reg[d]
<1>1. s \in Created /\ s \in Sessions /\ c \in Closers
  BY CreatedSessions DEF CloseCall, IInv, RegistryInv, Closers
<1>2. /\ reg' \in [Devices -> Sessions \cup {None}]
      /\ \A e \in Devices : reg'[e] \in {reg[e], None}
      /\ \A e \in Devices : reg'[e] # reg[e] => reg[e] = s
  BY DEF CloseCall, IInv, TypeOK
<1>3. /\ UNCHANGED <<created, plain, dev, old>> /\ reaper' \in BOOLEAN
      /\ over' \in {"no", "closing", "done"}
      /\ doomed' \in SUBSET Created /\ gathered' \in SUBSET Created
  BY DEF CloseCall, IInv, TypeOK, RegistryInv, endVars
<1>4. PICK P \in SUBSET {s}, X \in SUBSET {s} : Closing(c, {}, P, X) /\ s \in P \cup X
  <2>1. Closing(c, {}, {s}, {}) \/ Closing(c, {}, {}, {s})
    BY DEF CloseCall
  <2>2. {s} \in SUBSET {s} /\ {} \in SUBSET {s} /\ s \in {s} \cup {} /\ s \in {} \cup {s}
    OBVIOUS
  <2> QED
    BY <2>1, <2>2
<1>5. UNCHANGED clientVars \/ Stands(c, "closing", "close", s, FALSE)
  BY DEF CloseCall
<1>6. ClientTypes' /\ (\A b \in Clients : pc'[b] # "idle" => mine'[b] \in Created)
  <2>1. CASE UNCHANGED clientVars
    BY <2>1 DEF clientVars, IInv, TypeOK, ClientTypes, RegistryInv
  <2>2. CASE Stands(c, "closing", "close", s, FALSE)
    <3>1. ClientTypes' /\ mine'[c] = s /\ (\A b \in Clients \ {c} : pc'[b] = pc[b] /\ mine'[b] = mine[b])
      BY <1>1, <2>2, StandsType DEF IInv
    <3> QED
      BY <1>1, <3>1 DEF IInv, RegistryInv
  <2> QED
    BY <1>5, <2>1, <2>2
<1>7. P \in SUBSET Created /\ X \in SUBSET Created /\ {} \in SUBSET Created
  BY <1>1
<1>8. TypeOK' /\ Quiet
  BY <1>1, <1>2, <1>3, <1>4, <1>6, <1>7, CloseStep
<1>9. shut'[s] # "no"
  BY <1>1, <1>4, ClosingEffect DEF IInv
<1> QED
  BY <1>2, <1>8, <1>9 DEF Spares

\* A suspended close() ends.
LEMMA CloseDoneStep ==
    ASSUME IInv, NEW c \in Clients, CloseDone(c) PROVE TypeOK' /\ Quiet /\ Spares
<1>1. mine[c] \in Created /\ c \in Closers
  BY DEF CloseDone, IInv, RegistryInv, Closers
<1>2. ClientTypes' /\ (\A b \in Clients : pc'[b] # "idle" => mine'[b] \in Created)
  BY ReturnsType DEF CloseDone, IInv, RegistryInv
<1>3. TypeOK' /\ Quiet
  <2>1. /\ UNCHANGED <<created, plain, dev, old>> /\ reaper' \in BOOLEAN /\ reg' = reg
        /\ over' \in {"no", "closing", "done"}
        /\ doomed' \in SUBSET Created /\ gathered' \in SUBSET Created
        /\ reg' \in [Devices -> Sessions \cup {None}]
    BY DEF CloseDone, IInv, TypeOK, RegistryInv, endVars
  <2>2. {mine[c]} \in SUBSET Created /\ {} \in SUBSET Created
    BY <1>1
  <2> QED
    BY <1>1, <1>2, <2>1, <2>2, CloseStep DEF CloseDone
<1> QED
  BY <1>3 DEF CloseDone, Spares

\* The reaper goes through its list; it starts from sessions that are
\* registered, or from those it has left and the one it closed.
LEMMA ReapStep ==
    ASSUME IInv, NEW D \in SUBSET Created, NEW F \in SUBSET Created, Reap(D, F)
    PROVE  /\ TypeOK' /\ Quiet
           /\ \A d \in Devices : reg'[d] # reg[d] =>
                \E s \in F \cup D : dev[s] = d /\ shut'[s] # "no"
<1>1. PICK P \in SUBSET {s \in D : Immediate(s)}, X \in {{}} \cup {{s} : s \in D} :
        /\ Closing("reaper", F, P, X)
        /\ reg' = [d \in Devices |-> IF \E s \in F \cup P : dev[s] = d THEN None ELSE reg[d]]
        /\ doomed' = D \ (P \cup X)
        /\ UNCHANGED <<created, plain, dev, old, clientVars, reaper, gathered, over>>
  BY DEF Reap
<1>2. P \in SUBSET Created /\ X \in SUBSET Created /\ P \subseteq D
  BY <1>1
<1>3. /\ reg' \in [Devices -> Sessions \cup {None}]
      /\ \A d \in Devices : reg'[d] \in {reg[d], None}
  BY <1>1 DEF IInv, TypeOK
<1>4. ClientTypes' /\ (\A b \in Clients : pc'[b] # "idle" => mine'[b] \in Created)
  BY <1>1 DEF clientVars, IInv, TypeOK, ClientTypes, RegistryInv
<1>5. /\ reaper' \in BOOLEAN /\ over' \in {"no", "closing", "done"}
      /\ doomed' \in SUBSET Created /\ gathered' \in SUBSET Created
  BY <1>1 DEF IInv, TypeOK, RegistryInv
<1>6. "reaper" \in Closers
  BY DEF Closers
<1>7. TypeOK' /\ Quiet
  BY <1>1, <1>2, <1>3, <1>4, <1>5, <1>6, CloseStep
<1>8. \A d \in Devices : reg'[d] # reg[d] => \E s \in F \cup D : dev[s] = d /\ shut'[s] # "no"
  <2> SUFFICES ASSUME NEW d \in Devices, reg'[d] # reg[d]
               PROVE  \E s \in F \cup D : dev[s] = d /\ shut'[s] # "no"
    OBVIOUS
  <2>1. PICK s \in F \cup P : dev[s] = d
    BY <1>1 DEF IInv, TypeOK
  <2>2. s \in Sessions /\ s \in F \cup D
    BY <1>2, CreatedSessions DEF IInv
  <2>3. shut'[s] # "no"
    BY <1>1, <1>6, <2>2, ClosingEffect DEF IInv
  <2> QED
    BY <2>1, <2>2, <2>3
<1> QED
  BY <1>7, <1>8

\* The reaper wakes up: what it takes from the registry it closed.
LEMMA ReaperTickStep == ASSUME IInv, ReaperTick PROVE TypeOK' /\ Quiet /\ Spares
<1>1. PICK idle \in SUBSET Registered : Reap(idle \cup Due, {})
  BY DEF ReaperTick
<1>2. idle \cup Due \subseteq Registered /\ idle \cup Due \in SUBSET Created /\ {} \in SUBSET Created
  BY RegisteredCreated DEF Due
<1>3. /\ TypeOK' /\ Quiet
      /\ \A d \in Devices : reg'[d] # reg[d] =>
           \E s \in {} \cup (idle \cup Due) : dev[s] = d /\ shut'[s] # "no"
  BY <1>1, <1>2, ReapStep
<1>4. \A d \in Devices : reg'[d] # reg[d] => shut'[reg[d]] # "no"
  BY <1>2, <1>3, RegisteredCreated
<1> QED
  BY <1>3, <1>4 DEF Spares

\* The session the reaper waited for is closed.
LEMMA ReaperResumesStep == ASSUME IInv, ReaperResumes PROVE TypeOK' /\ Quiet
<1>1. doomed \in SUBSET Created /\ ClosedBy("reaper") \in SUBSET Created
  BY ClosedByCreated DEF IInv, RegistryInv, Closers
<1> QED
  BY <1>1, ReapStep DEF ReaperResumes

\* close_all empties the registry.
LEMMA CloseAllStep == ASSUME IInv, CloseAll PROVE TypeOK' /\ Quiet
<1>1. ClientTypes' /\ (\A b \in Clients : pc'[b] # "idle" => mine'[b] \in Created)
  BY DEF CloseAll, clientVars, IInv, TypeOK, ClientTypes, RegistryInv
<1>2. gathered' \subseteq Created /\ gathered' \subseteq Sessions
  BY RegisteredCreated, CreatedSessions DEF CloseAll, IInv
<1>3. /\ reg' \in [Devices -> Sessions \cup {None}]
      /\ \A d \in Devices : reg'[d] = None
  BY DEF CloseAll
<1>4. TypeOK'
  BY <1>1, <1>2, <1>3 DEF CloseAll, IInv, TypeOK, ClientTypes, sessionVars, closeVars
<1>5. Quiet
  BY <1>1, <1>2, <1>3 DEF CloseAll, Quiet, IInv, RegistryInv, sessionVars, closeVars
<1> QED
  BY <1>4, <1>5

\* A task of gather() begins, or ends, to close its session.
LEMMA GatheredStep ==
    ASSUME IInv, NEW s \in Sessions, GatheredCloses(s) \/ GatheredClosed(s)
    PROVE  TypeOK' /\ Quiet /\ Spares
<1>1. s \in Created /\ "shutdown" \in Closers
  BY DEF GatheredCloses, GatheredClosed, IInv, RegistryInv, Closers
<1>2. PICK F \in SUBSET Created, P \in SUBSET Created, X \in SUBSET Created :
        Closing("shutdown", F, P, X)
  <2>1. \/ Closing("shutdown", {}, {s}, {}) \/ Closing("shutdown", {}, {}, {s})
        \/ Closing("shutdown", {s}, {}, {})
    BY DEF GatheredCloses, GatheredClosed
  <2>2. {s} \in SUBSET Created /\ {} \in SUBSET Created
    BY <1>1
  <2> QED
    BY <2>1, <2>2
<1>3. /\ UNCHANGED <<created, plain, dev, old, reg>> /\ reaper' \in BOOLEAN
      /\ reg' \in [Devices -> Sessions \cup {None}]
      /\ over' \in {"no", "closing", "done"}
      /\ doomed' \in SUBSET Created /\ gathered' \in SUBSET Created
  BY DEF GatheredCloses, GatheredClosed, IInv, TypeOK, RegistryInv, endVars
<1>4. ClientTypes' /\ (\A b \in Clients : pc'[b] # "idle" => mine'[b] \in Created)
  BY DEF GatheredCloses, GatheredClosed, clientVars, IInv, TypeOK, ClientTypes, RegistryInv
<1>5. TypeOK' /\ Quiet
  BY <1>1, <1>2, <1>3, <1>4, CloseStep
<1> QED
  BY <1>3, <1>5 DEF Spares

\* The end of close_all cancels the reaper.
LEMMA CloseAllEndsStep == ASSUME IInv, CloseAllEnds PROVE TypeOK' /\ Quiet /\ Spares
<1>1. ClientTypes' /\ (\A b \in Clients : pc'[b] # "idle" => mine'[b] \in Created)
  BY DEF CloseAllEnds, clientVars, IInv, TypeOK, ClientTypes, RegistryInv
<1>2. shut' \in [Sessions -> {"no", "closing", "closed"}] /\ closer' \in [Sessions -> SUBSET Closers]
  BY DEF CloseAllEnds, IInv, TypeOK
<1>3. TypeOK'
  BY <1>1, <1>2 DEF CloseAllEnds, IInv, TypeOK, ClientTypes, sessionVars
<1>4. ClosedBy("reaper") \subseteq Created
  BY ClosedByCreated DEF Closers
<1>5. Quiet
  BY <1>1, <1>4 DEF CloseAllEnds, Quiet, IInv, TypeOK, RegistryInv, sessionVars
<1> QED
  BY <1>3, <1>5 DEF CloseAllEnds, Spares

\* A cancelled caller leaves its session where it is.
LEMMA CancelStep ==
    ASSUME IInv, NEW c \in Clients, Cancel(c) PROVE TypeOK' /\ Quiet /\ Spares
<1>1. ClientTypes' /\ (\A b \in Clients : pc'[b] # "idle" => mine'[b] \in Created)
  BY ReturnsType DEF Cancel, IInv, RegistryInv
<1>2. mine[c] \in Created
  BY DEF Cancel, IInv, RegistryInv
<1>3. shut' \in [Sessions -> {"no", "closing", "closed"}] /\ closer' \in [Sessions -> SUBSET Closers]
  BY DEF Cancel, IInv, TypeOK, closeVars
<1>4. TypeOK'
  BY <1>1, <1>3 DEF Cancel, IInv, TypeOK, ClientTypes, sessionVars, endVars
<1>5. /\ \A s \in Sessions : shut[s] # "no" => shut'[s] # "no"
      /\ \A s \in Sessions \ Created : shut'[s] = "no" /\ closer'[s] = {}
  BY <1>2 DEF Cancel, IInv, TypeOK, RegistryInv, closeVars
<1>6. Quiet
  BY <1>1, <1>5 DEF Cancel, Quiet, IInv, RegistryInv, sessionVars, endVars
<1> QED
  BY <1>4, <1>6 DEF Cancel, Spares

-----------------------------------------------------------------------------
\* Every step keeps the invariant and is a step of the registry; only the
\* reaper and close_all take a living session that no failed open() lost.
THEOREM StepIInv ==
    ASSUME IInv, [Next]_vars
    PROVE  /\ IInv'
           /\ Registry!Next \/ UNCHANGED Registry!vars
           /\ Spares \/ ReaperResumes \/ CloseAll
<1>1. ASSUME TypeOK', Quiet, Spares \/ ReaperResumes \/ CloseAll
      PROVE  IInv' /\ Registry!Next /\ (Spares \/ ReaperResumes \/ CloseAll)
  BY <1>1, QuietStep DEF Registry!Next
<1>2. ASSUME NEW d \in Devices, Registry!Register(d, created + 1)
      PROVE  Registry!Next
  BY <1>2 DEF Registry!Next, Registry!Register
<1>3. ASSUME NEW c \in Clients, NEW d \in Devices, CallRefused(c, d)
      PROVE  IInv' /\ Registry!Next /\ Spares
  BY <1>2, <1>3, CallRefusedStep
<1>4. ASSUME NEW c \in Clients, NEW d \in Devices, CloseCall(c, d)
      PROVE  IInv' /\ Registry!Next /\ (Spares \/ ReaperResumes \/ CloseAll)
  BY <1>1, <1>4, CloseCallStep
<1>5. ASSUME NEW c \in Clients, NEW d \in Devices, NEW kind \in {"request", "open"},
             CallReuses(c, d, kind)
      PROVE  IInv' /\ Registry!Next /\ (Spares \/ ReaperResumes \/ CloseAll)
  BY <1>1, <1>5, CallReusesStep
<1>6. ASSUME NEW c \in Clients, NEW d \in Devices, NEW kind \in {"request", "open"},
             CallCreates(c, d, kind)
      PROVE  IInv' /\ Registry!Next /\ Spares
  BY <1>2, <1>6, CallCreatesStep
<1>7. ASSUME NEW c \in Clients,
             \/ LoggedIn(c) \/ LoginFails(c) \/ Answered(c) \/ Denied(c) \/ LoggedOut(c)
             \/ SendFails(c) \/ Cancel(c) \/ CloseDone(c)
      PROVE  IInv' /\ Registry!Next /\ (Spares \/ ReaperResumes \/ CloseAll)
  BY <1>1, <1>7, CallsStep, CancelStep, CloseDoneStep
<1>8. ASSUME NEW s \in Sessions, Aging(s) \/ GatheredCloses(s) \/ GatheredClosed(s)
      PROVE  IInv' /\ Registry!Next /\ (Spares \/ ReaperResumes \/ CloseAll)
  BY <1>1, <1>8, AgingStep, GatheredStep
<1>9. CASE ReaperTick \/ ReaperResumes \/ CloseAll \/ CloseAllEnds
  BY <1>1, <1>9, ReaperTickStep, ReaperResumesStep, CloseAllStep, CloseAllEndsStep
<1>10. CASE UNCHANGED vars
  <2>1. IInv'
    BY <1>10 DEF vars, IInv, TypeOK, RegistryInv, Created, sessionVars, closeVars, clientVars, endVars
  <2>2. UNCHANGED Registry!vars
    BY <1>10 DEF Registry!vars, vars, closeVars, Alive
  <2> QED
    BY <1>10, <2>1, <2>2 DEF Spares, vars
<1> QED
  BY <1>3, <1>4, <1>5, <1>6, <1>7, <1>8, <1>9, <1>10 DEF Next

\* The invariant always holds.
THEOREM AlwaysIInv == Spec => []IInv
<1>1. ASSUME IInv, [Next]_vars PROVE IInv'
  BY <1>1, StepIInv
<1> QED
  BY <1>1, InitIInv, PTL DEF Spec

\* TypeOK: the registry keeps its type.
THEOREM TypeCorrect == Spec => []TypeOK
<1>1. IInv => TypeOK
  BY DEF IInv
<1> QED
  BY <1>1, AlwaysIInv, PTL

\* HTTPManager implements SessionRegistry: no session is registered twice, or
\* in the place of a living one, or revived.
THEOREM ManagerImplementsRegistry == Spec => ImplementsRegistry
<1>1. Init => Registry!Init
  BY BoundAssumption DEF Init, Registry!Init
<1>2. ASSUME IInv, [Next]_vars PROVE [Registry!Next]_(Registry!vars)
  BY <1>2, StepIInv
<1> QED
  BY <1>1, <1>2, AlwaysIInv, PTL DEF Spec, ImplementsRegistry, Registry!Spec

\* Calls spare the living sessions of others.
THEOREM SessionsSpared == Spec => CallsSpareAlive
<1>1. ASSUME IInv, [Next]_vars
      PROVE  [\A d \in Devices :
                reg[d] # None /\ reg'[d] # reg[d] /\ shut'[reg[d]] = "no" =>
                   \/ \E c \in Clients : op[c] = "open" /\ mine[c] = reg[d] /\ pc'[c] = "idle"
                   \/ ReaperResumes \/ CloseAll]_vars
  BY <1>1, StepIInv DEF Spares
<1> QED
  BY <1>1, AlwaysIInv, PTL DEF Spec, CallsSpareAlive

-----------------------------------------------------------------------------
(* Calls *)

\* What a call waits for tells what was called.
CallInv ==
    /\ \A c \in Clients : pc[c] = "login" => op[c] \in {"request", "open"}
    /\ \A c \in Clients : pc[c] \in {"relogin", "sending"} => op[c] = "request"

\* request and open: a call that waits for a login, a logout or an answer works
\* on one session until it ends, and that of the device it named.
StaysOnItsDevice ==
    [][/\ \A c \in Clients : pc[c] # "idle" /\ pc'[c] # "idle" =>
            mine'[c] = mine[c] /\ dev'[mine'[c]] = dev[mine[c]] /\ op'[c] = op[c]
       /\ \A c \in Clients, d \in Devices, kind \in {"request", "open"} :
            (CallReuses(c, d, kind) \/ CallCreates(c, d, kind)) /\ pc'[c] # "idle" =>
               dev'[mine'[c]] = d]_vars

\* request: what is sent again is sent again once, and what is sent first goes
\* out on a session that counts as authenticated.
Resends ==
    \A c \in Clients :
        /\ pc[c] # "idle" /\ pc'[c] # "idle" =>
             /\ retry[c] => retry'[c]
             /\ pc[c] = "sending" => UNCHANGED <<pc[c], retry[c]>> \/ (~retry[c] /\ retry'[c])
        /\ pc'[c] = "sending" /\ pc[c] # "sending" => auth'[mine'[c]]

ResendsOnce == [][Resends]_vars

\* The same of one call.
GoesOn(c) ==
    /\ pc[c] # "idle" /\ pc'[c] # "idle" =>
         /\ mine'[c] = mine[c] /\ dev'[mine'[c]] = dev[mine[c]] /\ op'[c] = op[c]
         /\ retry[c] => retry'[c]
         /\ pc[c] = "sending" => UNCHANGED <<pc[c], retry[c]>> \/ (~retry[c] /\ retry'[c])
    /\ pc'[c] = "sending" /\ pc[c] # "sending" => auth'[mine'[c]]

Stays ==
    /\ \A c \in Clients : GoesOn(c)
    /\ \A c \in Clients, d \in Devices, kind \in {"request", "open"} :
         (CallReuses(c, d, kind) \/ CallCreates(c, d, kind)) /\ pc'[c] # "idle" =>
            dev'[mine'[c]] = d

\* The ways a request or an open goes on: it ends, or waits for its session s.
Proceeds(c, kind, s, again) ==
    \/ Returns(c)
    \/ Stands(c, "login", kind, s, again)
    \/ kind = "request" /\ Stands(c, "relogin", kind, s, again)
    \/ kind = "request" /\ Stands(c, "sending", kind, s, again)

LEMMA AuthenticatedProceeds ==
    ASSUME NEW c, NEW kind \in {"request", "open"}, NEW s, NEW again, Authenticated(c, kind, s, again)
    PROVE  Proceeds(c, kind, s, again)
BY DEF Authenticated, Raises, Proceeds

\* A caller's step, by what it leaves of the call.
LEMMA ProceedsEffect ==
    ASSUME TypeOK, NEW c \in Clients, NEW kind \in {"request", "open"}, NEW s, NEW again,
           Proceeds(c, kind, s, again)
    PROVE  /\ \A b \in Clients \ {c} : UNCHANGED <<pc[b], op[b], mine[b], retry[b]>>
           /\ \/ pc'[c] = "idle"
              \/ /\ op'[c] = kind /\ mine'[c] = s /\ retry'[c] = again
                 /\ pc'[c] = "login" \/ (pc'[c] \in {"relogin", "sending"} /\ kind = "request")
<1>1. CASE Returns(c)
  BY <1>1 DEF Returns, Stands, TypeOK
<1>2. ASSUME NEW step, Stands(c, step, kind, s, again)
      PROVE  /\ \A b \in Clients \ {c} : UNCHANGED <<pc[b], op[b], mine[b], retry[b]>>
             /\ pc'[c] = step /\ op'[c] = kind /\ mine'[c] = s /\ retry'[c] = again
  BY <1>2 DEF Stands, TypeOK
<1> QED
  BY <1>1, <1>2 DEF Proceeds

\* A call goes on as it should.
LEMMA ProceedsCall ==
    ASSUME IInv, CallInv, NEW c \in Clients, NEW kind \in {"request", "open"}, NEW s \in Created,
           NEW again, Proceeds(c, kind, s, again), \A r \in Created : dev'[r] = dev[r],
           pc'[c] = "sending" => auth'[s] \/ pc[c] = "sending",
           pc[c] # "idle" =>
               /\ mine[c] = s /\ op[c] = kind /\ (retry[c] => again)
               /\ pc[c] = "sending" => ~retry[c] /\ again
    PROVE  CallInv' /\ \A b \in Clients : GoesOn(b)
<1>1. TypeOK
  BY DEF IInv
<1>2. /\ \A b \in Clients \ {c} : UNCHANGED <<pc[b], op[b], mine[b], retry[b]>>
      /\ \/ pc'[c] = "idle"
         \/ /\ op'[c] = kind /\ mine'[c] = s /\ retry'[c] = again
            /\ pc'[c] = "login" \/ (pc'[c] \in {"relogin", "sending"} /\ kind = "request")
  BY <1>1, ProceedsEffect
<1>3. GoesOn(c)
  BY <1>2 DEF GoesOn
<1>4. \A b \in Clients \ {c} : GoesOn(b)
  BY <1>2 DEF GoesOn, IInv, RegistryInv
<1>5. CallInv'
  BY <1>2 DEF CallInv
<1> QED
  BY <1>3, <1>4, <1>5

\* Nobody's call is concerned, or one that ends.
LEMMA NoCall ==
    ASSUME IInv, CallInv, \A r \in Created : dev'[r] = dev[r],
           \/ UNCHANGED clientVars
           \/ \E c \in Clients : Returns(c) \/ (pc[c] = "idle" /\ \E s : Stands(c, "closing", "close", s, FALSE))
    PROVE  CallInv' /\ \A b \in Clients : GoesOn(b)
<1>1. CASE UNCHANGED clientVars
  BY <1>1 DEF clientVars, CallInv, GoesOn, IInv, RegistryInv
<1>2. ASSUME NEW c \in Clients,
             Returns(c) \/ (pc[c] = "idle" /\ \E s : Stands(c, "closing", "close", s, FALSE))
      PROVE  CallInv' /\ \A b \in Clients : GoesOn(b)
  <2>1. /\ \A b \in Clients \ {c} : UNCHANGED <<pc[b], op[b], mine[b], retry[b]>>
        /\ pc'[c] = "idle" \/ (pc[c] = "idle" /\ pc'[c] = "closing")
    BY <1>2 DEF Returns, Stands, IInv, TypeOK
  <2>2. CallInv'
    BY <2>1 DEF CallInv
  <2> QED
    BY <2>1, <2>2 DEF GoesOn, IInv, RegistryInv
<1> QED
  BY <1>1, <1>2

\* A call finds its session.
LEMMA CallReusesCall ==
    ASSUME IInv, CallInv, NEW c \in Clients, NEW d \in Devices,
           NEW kind \in {"request", "open"}, CallReuses(c, d, kind)
    PROVE  /\ CallInv' /\ \A b \in Clients : GoesOn(b)
           /\ pc'[c] # "idle" => dev'[mine'[c]] = d
<1> DEFINE s == reg[d]
<1>1. /\ s \in Created /\ s \in Sessions /\ pc[c] = "idle" /\ dev[s] = d /\ dev' = dev /\ TypeOK
  BY CreatedSessions DEF CallReuses, MustCreate, IInv, TypeOK, RegistryInv
<1>2. Proceeds(c, kind, s, FALSE)
  <2>1. Authenticated(c, kind, s, FALSE) \/ Stands(c, "login", kind, s, FALSE)
    BY DEF CallReuses
  <2> QED
    BY <2>1, AuthenticatedProceeds DEF Proceeds
<1>3. pc'[c] = "sending" => auth'[s]
  <2>1. CASE Stands(c, "login", kind, s, FALSE)
    BY <1>1, <2>1 DEF Stands, TypeOK
  <2>2. CASE auth' = [auth EXCEPT ![s] = TRUE]
    BY <1>1, <2>2 DEF TypeOK
  <2> QED
    BY <2>1, <2>2 DEF CallReuses
<1> HIDE DEF s
<1>4. CallInv' /\ \A b \in Clients : GoesOn(b)
  BY <1>1, <1>2, <1>3, ProceedsCall
<1>5. pc'[c] = "idle" \/ mine'[c] = s
  BY <1>1, <1>2, ProceedsEffect
<1> QED
  BY <1>1, <1>4, <1>5

\* A call makes its session.
LEMMA CallCreatesCall ==
    ASSUME IInv, CallInv, NEW c \in Clients, NEW d \in Devices,
           NEW kind \in {"request", "open"}, CallCreates(c, d, kind)
    PROVE  /\ CallInv' /\ \A b \in Clients : GoesOn(b)
           /\ pc'[c] # "idle" => dev'[mine'[c]] = d
<1> DEFINE s == created + 1
<1>1. /\ s \in Sessions /\ pc[c] = "idle" /\ dev' = [dev EXCEPT ![s] = d] /\ TypeOK
      /\ \A r \in Created : dev'[r] = dev[r]
  BY CreatedSessions, BoundAssumption
     DEF CallCreates, Registers, IInv, TypeOK, Sessions, Created
<1>2. \/ UNCHANGED clientVars \/ Stands(c, "login", kind, s, FALSE)
      \/ (kind = "request" /\ Stands(c, "sending", kind, s, FALSE) /\ auth' = [auth EXCEPT ![s] = TRUE])
  BY DEF CallCreates
<1> HIDE DEF s
<1>3. CASE UNCHANGED clientVars
  BY <1>1, <1>3, NoCall DEF clientVars
<1>4. CASE ~UNCHANGED clientVars
  <2>1. /\ \A b \in Clients \ {c} : UNCHANGED <<pc[b], op[b], mine[b], retry[b]>>
        /\ op'[c] = kind /\ mine'[c] = s /\ dev'[s] = d
        /\ pc'[c] = "login" \/ (pc'[c] = "sending" /\ kind = "request" /\ auth'[s])
    BY <1>1, <1>2, <1>4 DEF Stands, TypeOK
  <2>2. \A b \in Clients : GoesOn(b)
    BY <1>1, <2>1 DEF GoesOn, IInv, RegistryInv
  <2>3. CallInv'
    BY <2>1 DEF CallInv
  <2> QED
    BY <2>1, <2>2, <2>3
<1> QED
  BY <1>3, <1>4

\* A call's login or logout ends, or its request is denied.
LEMMA CallsOn ==
    ASSUME IInv, CallInv, NEW c \in Clients, LoggedIn(c) \/ Denied(c) \/ LoggedOut(c)
    PROVE  CallInv' /\ \A b \in Clients : GoesOn(b)
<1> DEFINE s == mine[c]
<1>1. s \in Created /\ s \in Sessions /\ TypeOK /\ dev' = dev
  BY CreatedSessions DEF LoggedIn, Denied, LoggedOut, IInv, RegistryInv, sessionVars
<1>2. CASE LoggedIn(c)
  <2>1. op[c] \in {"request", "open"} /\ pc[c] = "login"
    BY <1>2 DEF LoggedIn, CallInv
  <2>2. Proceeds(c, op[c], s, retry[c]) /\ auth'[s]
    BY <1>1, <1>2, <2>1, AuthenticatedProceeds DEF LoggedIn, TypeOK
  <2> QED
    BY <1>1, <2>1, <2>2, ProceedsCall
<1>3. CASE Denied(c)
  <2>1. /\ op[c] = "request" /\ pc[c] = "sending" /\ ~retry[c] /\ "request" \in {"request", "open"}
        /\ Proceeds(c, "request", s, TRUE)
    BY <1>3, AuthenticatedProceeds DEF Denied, CallInv, Proceeds
  <2> QED
    BY <1>1, <2>1, ProceedsCall
<1>4. CASE LoggedOut(c)
  <2>1. op[c] = "request" /\ pc[c] = "relogin" /\ "request" \in {"request", "open"}
    BY <1>4 DEF LoggedOut, CallInv
  <2>2. Proceeds(c, "request", s, TRUE) /\ pc'[c] # "sending"
    BY <1>1, <1>4 DEF LoggedOut, Raises, Returns, Stands, Proceeds, TypeOK
  <2> QED
    BY <1>1, <2>1, <2>2, ProceedsCall
<1> QED
  BY <1>2, <1>3, <1>4

\* Calls, step by step.
LEMMA CallStep == ASSUME IInv, CallInv, [Next]_vars PROVE CallInv' /\ Stays
<1> DEFINE Good == CallInv' /\ \A b \in Clients : GoesOn(b)
<1>1. ASSUME UNCHANGED clientVars, dev' = dev PROVE Good
  BY <1>1, NoCall
<1>2. ASSUME NEW c \in Clients, Returns(c), dev' = dev PROVE Good
  BY <1>2, NoCall
<1>3. ASSUME NEW c \in Clients, NEW d \in Devices,
             \/ CallRefused(c, d) \/ CloseCall(c, d)
             \/ \E kind \in {"request", "open"} : CallReuses(c, d, kind) \/ CallCreates(c, d, kind)
      PROVE  Good
  <2>1. CASE CallRefused(c, d)
    <3>1. UNCHANGED clientVars /\ \A r \in Created : dev'[r] = dev[r]
      BY <2>1, CreatedSessions, BoundAssumption DEF CallRefused, Registers, IInv, TypeOK, Created
    <3> QED
      BY <3>1, NoCall
  <2>2. CASE CloseCall(c, d)
    <3>1. /\ dev' = dev /\ pc[c] = "idle"
          /\ UNCHANGED clientVars \/ \E s : Stands(c, "closing", "close", s, FALSE)
      BY <2>2 DEF CloseCall
    <3> QED
      BY <3>1, NoCall
  <2> QED
    BY <1>3, <2>1, <2>2, CallReusesCall, CallCreatesCall
<1>4. ASSUME NEW c \in Clients,
             \/ LoggedIn(c) \/ LoginFails(c) \/ Answered(c) \/ Denied(c) \/ LoggedOut(c)
             \/ SendFails(c) \/ Cancel(c) \/ CloseDone(c)
      PROVE  Good
  <2>1. CASE LoginFails(c) \/ Answered(c) \/ SendFails(c) \/ Cancel(c) \/ CloseDone(c)
    <3>1. Returns(c) /\ dev' = dev
      BY <2>1 DEF LoginFails, Answered, SendFails, Cancel, CloseDone, Raises, sessionVars
    <3> QED
      BY <1>2, <3>1
  <2> QED
    BY <1>4, <2>1, CallsOn
<1>5. ASSUME \/ UNCHANGED vars
             \/ \E s \in Sessions : Aging(s) \/ GatheredCloses(s) \/ GatheredClosed(s)
             \/ ReaperTick \/ ReaperResumes \/ CloseAll \/ CloseAllEnds
      PROVE  Good
  <2>1. UNCHANGED clientVars /\ dev' = dev
    BY <1>5 DEF vars, Aging, GatheredCloses, GatheredClosed, ReaperTick, ReaperResumes, Reap,
                CloseAll, CloseAllEnds, sessionVars
  <2> QED
    BY <1>1, <2>1
<1> HIDE DEF Good
<1>6. Good
  BY <1>3, <1>4, <1>5 DEF Next
<1> QED
  BY <1>6, CallReusesCall, CallCreatesCall DEF Stays, Good

LEMMA AlwaysStays == Spec => [][Stays]_vars
<1>1. Init => CallInv
  BY DEF Init, CallInv
<1>2. ASSUME IInv, CallInv, [Next]_vars PROVE CallInv' /\ [Stays]_vars
  BY <1>2, CallStep
<1> QED
  BY <1>1, <1>2, AlwaysIInv, PTL DEF Spec

\* A call reaches the device it named, whatever becomes of that device's
\* sessions while it waits.
THEOREM CallsReachTheirDevice == Spec => StaysOnItsDevice
<1>1. Stays => /\ \A c \in Clients : pc[c] # "idle" /\ pc'[c] # "idle" =>
                    mine'[c] = mine[c] /\ dev'[mine'[c]] = dev[mine[c]] /\ op'[c] = op[c]
               /\ \A c \in Clients, d \in Devices, kind \in {"request", "open"} :
                    (CallReuses(c, d, kind) \/ CallCreates(c, d, kind)) /\ pc'[c] # "idle" =>
                       dev'[mine'[c]] = d
  BY DEF Stays, GoesOn
<1> QED
  BY <1>1, AlwaysStays, PTL DEF StaysOnItsDevice

\* Denied or not, a request is sent twice at most.
THEOREM RequestsAreResentOnce == Spec => ResendsOnce
<1>1. Stays => Resends
  BY DEF Stays, GoesOn, Resends
<1> QED
  BY <1>1, AlwaysStays, PTL DEF ResendsOnce

-----------------------------------------------------------------------------
(* Shutdown *)

\* A session close_all took: while it runs its turn is to come, or it is
\* closed, or close_all or the reaper waits for the logout that ends it; when
\* close_all is done the session is closed.
Taken(s) ==
    \/ over = "done" /\ shut[s] = "closed"
    \/ /\ over = "closing"
       /\ \/ s \in gathered \/ shut[s] = "closed"
          \/ shut[s] = "closing" /\ closer[s] \subseteq {"reaper", "shutdown"}

Takes ==
    \A s \in Sessions : Taken(s) \/ (CloseAll /\ s \in Registered) => Taken(s)'

\* close_all: what was registered when it began is taken from then on, whoever
\* else closes it or is cancelled while closing it, and so closed in the end.
ShutdownClosesAll == [][Takes]_vars

\* Whoever waits for a logout closes the session, and nobody else does; of the
\* sessions registered, or left to close_all, that is the reaper.
EndInv ==
    /\ \A s \in Sessions : shut[s] = "closing" <=> closer[s] # {}
    /\ \A s \in Sessions : \A v, w \in closer[s] : v = w
    /\ \A s \in Registered \cup gathered : closer[s] \subseteq {"reaper"}
    /\ Registered \cap gathered = {}

\* The ends of sessions in a step in which w begins to wait for those of X.
Ends(w, X) ==
    \A s \in Sessions :
        \/ UNCHANGED <<shut[s], closer[s]>>
        \/ shut'[s] = "closed" /\ closer'[s] = {}
        \/ s \in X /\ shut[s] = "no" /\ shut'[s] = "closing" /\ closer'[s] = {w}

\* What a step that is not close_all's beginning may do to the registry.
RegistryMoves == \A d \in Devices : reg'[d] \in {reg[d], None} \cup (Sessions \ Created)

\* The registry takes new sessions only.
LEMMA RegistryMovesOnly == ASSUME IInv, [Next]_vars PROVE RegistryMoves
<1>1. reg \in [Devices -> Sessions \cup {None}]
  BY DEF IInv, TypeOK
<1>2. Registry!Next \/ UNCHANGED Registry!vars
  BY StepIInv
<1>3. CASE UNCHANGED Registry!vars
  BY <1>3 DEF Registry!vars, RegistryMoves
<1>4. CASE Registry!Next
  <2>1. CASE Registry!Release
    BY <2>1 DEF Registry!Release, RegistryMoves
  <2>2. ASSUME NEW d \in Devices, NEW s \in Sessions, Registry!Register(d, s) PROVE RegistryMoves
    BY <1>1, <2>2 DEF Registry!Register, RegistryMoves, Created
  <2> QED
    BY <1>4, <2>1, <2>2 DEF Registry!Next
<1> QED
  BY <1>2, <1>3, <1>4

\* session.close() ends sessions, or makes its caller wait.
LEMMA ClosingEnds ==
    ASSUME TypeOK, EndInv, NEW w \in Closers, NEW F, NEW P, NEW X, Closing(w, F, P, X),
           \A s \in X : shut[s] = "no" /\ s \notin P
    PROVE  /\ Ends(w, X)
           /\ \A s \in Sessions : s \in F \/ (s \in P /\ shut[s] = "no") => shut'[s] = "closed"
           /\ \A s \in Sessions \ F : s \in P /\ shut[s] # "no" =>
                UNCHANGED <<shut[s], closer[s]>>
           /\ \A s \in Sessions \ F : s \in X => shut'[s] = "closing" /\ closer'[s] = {w}
<1>1. /\ shut' = [s \in Sessions |->
                    IF s \in F \/ (s \in P /\ shut[s] = "no") THEN "closed"
                    ELSE IF s \in X THEN "closing" ELSE shut[s]]
      /\ closer' = [s \in Sessions |->
                      IF s \in F THEN {} ELSE IF s \in X THEN {w} ELSE closer[s]]
  BY DEF Closing
<1>2. \A s \in Sessions : shut[s] = "no" => closer[s] = {}
  BY DEF EndInv
<1> QED
  BY <1>1, <1>2 DEF Ends

\* Such a step keeps the invariant.
LEMMA EndsKeep ==
    ASSUME IInv, EndInv, RegistryMoves, NEW w, NEW X, Ends(w, X), gathered' \subseteq gathered,
           w = "reaper" \/ X \cap (Registered' \cup gathered') = {}
    PROVE  EndInv'
<1>1. /\ TypeOK /\ Created \subseteq Sessions /\ gathered \subseteq Created /\ Registered \subseteq Created
      /\ None \notin Sessions
  BY CreatedSessions, RegisteredCreated DEF IInv, RegistryInv
<1>2. \A s \in Registered' : s \in Registered \/ s \in Sessions \ Created
  BY DEF Registered, RegistryMoves
<1>3. \A s \in Sessions : shut'[s] = "closing" <=> closer'[s] # {}
  BY DEF EndInv, Ends
<1>4. \A s \in Sessions : \A u, v \in closer'[s] : u = v
  BY DEF EndInv, Ends
<1>5. Registered' \cap gathered' = {}
  BY <1>1, <1>2 DEF EndInv
<1>6. \A s \in Registered' \cup gathered' : closer'[s] \subseteq {"reaper"}
  <2> SUFFICES ASSUME NEW s \in Registered' \cup gathered' PROVE closer'[s] \subseteq {"reaper"}
    OBVIOUS
  <2>1. s \in Sessions /\ closer[s] \subseteq {"reaper"}
    BY <1>1, <1>2 DEF EndInv, IInv, RegistryInv
  <2> QED
    BY <2>1 DEF Ends
<1> QED
  BY <1>3, <1>4, <1>5, <1>6 DEF EndInv

\* While close_all goes neither on nor begins, what it took stays taken.
LEMMA EndsTake ==
    ASSUME EndInv, NEW w, NEW X, Ends(w, X), UNCHANGED <<over, gathered>>, ~CloseAll PROVE Takes
BY DEF Ends, Takes, Taken

\* A step of none of these.
LEMMA QuietEnd ==
    ASSUME IInv, EndInv, RegistryMoves, UNCHANGED <<shut, closer, over, gathered>>, ~CloseAll
    PROVE  EndInv' /\ Takes
<1>1. Ends("reaper", {})
  BY DEF Ends
<1> QED
  BY <1>1, EndsKeep, EndsTake

LEMMA CloseCallEnd ==
    ASSUME IInv, EndInv, RegistryMoves, NEW c \in Clients, NEW d \in Devices, CloseCall(c, d)
    PROVE  EndInv' /\ Takes
<1> DEFINE s == reg[d]
<1>1. /\ TypeOK /\ s \in Registered /\ s \in Sessions /\ dev[s] = d /\ c \in Closers
      /\ UNCHANGED <<over, gathered>>
  BY DEF CloseCall, IInv, RegistryInv, TypeOK, Registered, Closers, endVars
<1>2. ~CloseAll
  BY <1>1 DEF CloseAll
<1>3. s \notin Registered' \cup gathered'
  <2>1. \A e \in Devices : reg'[e] # s
    BY <1>1 DEF CloseCall, IInv, TypeOK, RegistryInv
  <2> QED
    BY <1>1, <2>1 DEF Registered, EndInv
<1>4. PICK X \in {{}, {s}} : Ends(c, X)
  <2>1. CASE Immediate(s) /\ Closing(c, {}, {s}, {})
    <3>1. Ends(c, {})
      BY <1>1, <2>1, ClosingEnds
    <3> QED
      BY <3>1
  <2>2. CASE ~Immediate(s) /\ Closing(c, {}, {}, {s})
    <3>1. shut[s] = "no"
      BY <2>2 DEF Immediate
    <3>2. Ends(c, {s})
      BY <1>1, <2>2, <3>1, ClosingEnds
    <3> QED
      BY <3>2
  <2> QED
    BY <2>1, <2>2 DEF CloseCall
<1>5. EndInv'
  BY <1>1, <1>3, <1>4, EndsKeep
<1> QED
  BY <1>1, <1>2, <1>4, <1>5, EndsTake

\* A close() ends, or is cancelled, which closes its session too.
LEMMA CloseDoneEnd ==
    ASSUME IInv, EndInv, RegistryMoves, NEW c \in Clients, CloseDone(c) \/ Cancel(c)
    PROVE  EndInv' /\ Takes
<1>1. TypeOK /\ UNCHANGED <<over, gathered>> /\ c \in Closers
  BY DEF CloseDone, Cancel, IInv, Closers, endVars
<1>2. ~CloseAll
  BY <1>1 DEF CloseAll
<1>3. Ends("reaper", {})
  <2>1. CASE CloseDone(c)
    BY <1>1, <2>1, ClosingEnds DEF CloseDone, Ends
  <2>2. CASE Cancel(c)
    BY <1>1, <2>2 DEF Cancel, Ends, TypeOK, closeVars
  <2> QED
    BY <2>1, <2>2
<1> QED
  BY <1>1, <1>2, <1>3, EndsKeep, EndsTake

\* The reaper goes through its list.
LEMMA ReapEnd ==
    ASSUME IInv, EndInv, RegistryMoves, NEW D, NEW F, Reap(D, F) PROVE EndInv' /\ Takes
<1>1. PICK P \in SUBSET {s \in D : Immediate(s)}, X \in {{}} \cup {{s} : s \in D} :
        /\ IF X = {} THEN P = D ELSE \A s \in X : ~Immediate(s)
        /\ Closing("reaper", F, P, X) /\ UNCHANGED <<gathered, over>>
  BY DEF Reap
<1>2. \A s \in X : shut[s] = "no" /\ s \notin P
  BY <1>1 DEF Immediate
<1>3. TypeOK /\ "reaper" \in Closers /\ ~CloseAll
  BY <1>1 DEF IInv, Closers, CloseAll
<1>4. Ends("reaper", X)
  BY <1>1, <1>2, <1>3, ClosingEnds
<1> QED
  BY <1>1, <1>3, <1>4, EndsKeep, EndsTake

\* close_all takes all that is registered.
LEMMA CloseAllEnd == ASSUME IInv, EndInv, CloseAll PROVE EndInv' /\ Takes
<1>1. /\ UNCHANGED <<shut, closer>> /\ over = "no" /\ over' = "closing" /\ gathered' = Registered
      /\ reg' = [d \in Devices |-> None]
  BY DEF CloseAll, sessionVars, closeVars
<1>2. Registered' = {}
  BY <1>1 DEF Registered
<1>3. EndInv'
  BY <1>1, <1>2 DEF EndInv
<1>4. Takes
  BY <1>1 DEF Takes, Taken
<1> QED
  BY <1>3, <1>4

\* A task of gather() closes its session, unless somebody else is.
LEMMA GatheredEnd ==
    ASSUME IInv, EndInv, RegistryMoves, NEW s \in Sessions, GatheredCloses(s) \/ GatheredClosed(s)
    PROVE  EndInv' /\ Takes
<1>1. TypeOK /\ "shutdown" \in Closers /\ over' = over /\ reg' = reg
  BY DEF GatheredCloses, GatheredClosed, IInv, Closers, endVars
<1>2. ~CloseAll
  BY <1>1 DEF CloseAll
<1>3. CASE GatheredClosed(s)
  <2>1. Ends("reaper", {}) /\ UNCHANGED <<over, gathered>>
    BY <1>1, <1>3, ClosingEnds DEF GatheredClosed, Ends, endVars
  <2> QED
    BY <1>2, <2>1, EndsKeep, EndsTake
<1>4. CASE GatheredCloses(s)
  <2>1. /\ s \in gathered /\ gathered' = gathered \ {s} /\ s \notin Registered'
        /\ closer[s] \subseteq {"reaper"}
    BY <1>1, <1>4 DEF GatheredCloses, EndInv, Registered
  <2>2. PICK X \in {{}, {s}} :
          /\ Ends("shutdown", X)
          /\ \/ shut'[s] = "closed"
             \/ shut'[s] = "closing" /\ closer'[s] \subseteq {"reaper", "shutdown"}
    <3>1. CASE Immediate(s) /\ Closing("shutdown", {}, {s}, {})
      <4>1. /\ Ends("shutdown", {}) /\ (shut[s] = "no" => shut'[s] = "closed")
            /\ shut[s] # "no" => UNCHANGED <<shut[s], closer[s]>>
        BY <1>1, <3>1, ClosingEnds
      <4> QED
        BY <1>1, <2>1, <4>1 DEF TypeOK
    <3>2. CASE ~Immediate(s) /\ Closing("shutdown", {}, {}, {s})
      <4>1. shut[s] = "no"
        BY <3>2 DEF Immediate
      <4>2. Ends("shutdown", {s}) /\ shut'[s] = "closing" /\ closer'[s] = {"shutdown"}
        BY <1>1, <3>2, <4>1, ClosingEnds
      <4> QED
        BY <4>2
    <3> QED
      BY <1>4, <3>1, <3>2 DEF GatheredCloses
  <2>3. EndInv'
    BY <2>1, <2>2, EndsKeep
  <2>4. Takes
    BY <1>1, <1>2, <2>1, <2>2 DEF Ends, Takes, Taken
  <2> QED
    BY <2>3, <2>4
<1> QED
  BY <1>3, <1>4

\* close_all is done: what the reaper was closing is closed.
LEMMA CloseAllEndsEnd ==
    ASSUME IInv, EndInv, RegistryMoves, CloseAllEnds PROVE EndInv' /\ Takes
<1>1. /\ TypeOK /\ "shutdown" \in Closers /\ over = "closing" /\ over' = "done" /\ gathered = {}
      /\ gathered' = gathered /\ ClosedBy("shutdown") = {}
  BY DEF CloseAllEnds, IInv, Closers
<1>2. Ends("reaper", {}) /\ \A s \in ClosedBy("reaper") : shut'[s] = "closed"
  BY <1>1 DEF CloseAllEnds, Ends, ClosedBy, EndInv, TypeOK
<1>3. \A s \in Sessions : Taken(s) => Taken(s)'
  BY <1>1, <1>2 DEF Taken, Ends, EndInv, ClosedBy
<1> QED
  BY <1>1, <1>2, <1>3, EndsKeep DEF Takes, CloseAll

\* The ends of sessions, step by step.
LEMMA EndStep == ASSUME IInv, EndInv, [Next]_vars PROVE EndInv' /\ Takes
<1>1. RegistryMoves
  BY RegistryMovesOnly
<1>2. ASSUME UNCHANGED <<shut, closer, over, gathered>> PROVE EndInv' /\ Takes
  BY <1>1, <1>2, QuietEnd DEF CloseAll
<1>3. ASSUME NEW c \in Clients, NEW d \in Devices,
             \/ CallRefused(c, d) \/ CloseCall(c, d)
             \/ \E kind \in {"request", "open"} : CallReuses(c, d, kind) \/ CallCreates(c, d, kind)
      PROVE  EndInv' /\ Takes
  BY <1>1, <1>2, <1>3, CloseCallEnd DEF CallRefused, CallReuses, CallCreates, closeVars, endVars
<1>4. ASSUME NEW c \in Clients,
             \/ LoggedIn(c) \/ LoginFails(c) \/ Answered(c) \/ Denied(c) \/ LoggedOut(c)
             \/ SendFails(c) \/ Cancel(c) \/ CloseDone(c)
      PROVE  EndInv' /\ Takes
  BY <1>1, <1>2, <1>4, CloseDoneEnd
     DEF LoggedIn, LoginFails, Answered, Denied, LoggedOut, SendFails, closeVars, endVars
<1>5. CASE UNCHANGED vars \/ \E s \in Sessions : Aging(s)
  BY <1>2, <1>5 DEF vars, Aging, closeVars, endVars
<1>6. CASE ReaperTick \/ ReaperResumes
  BY <1>1, <1>6, ReapEnd DEF ReaperTick, ReaperResumes
<1>7. ASSUME NEW s \in Sessions, GatheredCloses(s) \/ GatheredClosed(s) PROVE EndInv' /\ Takes
  BY <1>1, <1>7, GatheredEnd
<1>8. CASE CloseAll \/ CloseAllEnds
  BY <1>1, <1>8, CloseAllEnd, CloseAllEndsEnd
<1> QED
  BY <1>3, <1>4, <1>5, <1>6, <1>7, <1>8 DEF Next

\* close_all: whatever was registered when it began is closed when it is done.
THEOREM ShutdownTakesAll == Spec => ShutdownClosesAll
<1>1. Init => EndInv
  BY DEF Init, EndInv, Registered
<1>2. ASSUME IInv, EndInv, [Next]_vars PROVE EndInv' /\ [Takes]_vars
  BY <1>2, EndStep
<1> QED
  BY <1>1, <1>2, AlwaysIInv, PTL DEF Spec, ShutdownClosesAll
=============================================================================
