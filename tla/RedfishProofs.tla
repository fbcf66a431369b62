---------------------------- MODULE RedfishProofs ----------------------------
(***************************************************************************)
(* Proofs about Redfish, for any number of callers, devices, sessions and  *)
(* service sessions: one login at a time on a session that needs one,      *)
(* requests carry their session's token of the moment and are resent once, *)
(* close_all takes what was registered, and the manager implements         *)
(* SessionRegistry.                                                        *)
(***************************************************************************)
EXTENDS Redfish, TLAPS

Created == 1 .. created

\* A session is registered under its own device; what a call, the reaper or
\* close_all has in hand was created; a session not created yet is untouched.
RegistryInv ==
    /\ \A d \in Devices : reg[d] # None => reg[d] \in Created /\ dev[reg[d]] = d
    /\ \A s \in Created : dev[s] \in Devices
    /\ \A s \in Sessions \ Created : shut[s] = "no" /\ closer[s] = {} /\ ~auth[s]
    /\ \A c \in Clients : pc[c] # "idle" => mine[c] \in Created
    /\ doomed \cup gathered \subseteq Created

\* One caller at most posts a login for a session, and the session is not
\* authenticated meanwhile.
OneLogin ==
    /\ \A b, c \in Clients :
         pc[b] = "login" /\ pc[c] = "login" /\ mine[b] = mine[c] => b = c
    /\ \A c \in Clients : pc[c] = "login" => ~auth[mine[c]]

IInv == TypeOK /\ RegistryInv /\ LockHeldByLogin /\ OneLogin /\ SendsWithToken

\* What TypeOK says of the callers.
ClientTypes ==
    /\ pc \in [Clients -> {"idle", "locked", "login", "sending", "closing"}]
    /\ op \in [Clients -> {"none", "request", "open", "close"}]
    /\ mine \in [Clients -> Sessions \cup {None}]
    /\ retry \in [Clients -> BOOLEAN]
    /\ sent \in [Clients -> Tokens \cup {None}]

\* What TypeOK says of logins and of the BMCs.
LoginTypes ==
    /\ auth \in [Sessions -> BOOLEAN]
    /\ token \in [Sessions -> Tokens \cup {None}]
    /\ url \in [Sessions -> Tokens \cup {None}]
    /\ issued \in 0 .. TokenBound
    /\ service \in [Tokens -> {"none", "live", "over"}]

\* A step that makes no session and revives none.
Quiet ==
    /\ created' = created /\ dev' = dev
    /\ \A d \in Devices : reg'[d] \in {reg[d], None}
    /\ \A s \in Sessions : shut[s] # "no" => shut'[s] # "no"
    /\ \A s \in Sessions \ Created : shut'[s] = "no" /\ closer'[s] = {} /\ ~auth'[s]
    /\ \A c \in Clients : pc'[c] # "idle" => mine'[c] \in Created
    /\ doomed' \cup gathered' \subseteq Created

\* A living session leaves the registry only with the failed open() of it.
Spares ==
    \A d \in Devices :
        reg[d] # None /\ reg'[d] # reg[d] /\ shut'[reg[d]] = "no" =>
            \E c \in Clients : op[c] = "open" /\ mine[c] = reg[d] /\ pc'[c] = "idle"

\* One caller's step; H holds the sessions its call may work on.
Moves(c, H) ==
    /\ ClientTypes'
    /\ \A b \in Clients \ {c} : pc'[b] = pc[b] /\ mine'[b] = mine[b] /\ sent'[b] = sent[b]
    /\ pc'[c] # "idle" => mine'[c] \in H
    /\ pc'[c] = "sending" => sent'[c] # None

\* A caller has no login in progress after its step, or has just begun one.
Leaves(c) == pc'[c] # "login" /\ holder' = [s \in Sessions |-> holder[s] \ {c}]

Enters(c) ==
    /\ pc[c] # "login" /\ pc'[c] = "login" /\ holder[mine'[c]] = {}
    /\ holder' = [holder EXCEPT ![mine'[c]] = {c}]

-----------------------------------------------------------------------------
\* Nothing is registered and nobody calls.
THEOREM InitIInv == Init => IInv
<1> SUFFICES ASSUME Init PROVE IInv
  OBVIOUS
<1>1. created \in 0 .. SessionBound /\ Created = {} /\ issued \in 0 .. TokenBound
  BY BoundsAssumption DEF Init, Created
<1>2. TypeOK
  BY <1>1 DEF Init, TypeOK
<1>3. RegistryInv
  BY <1>1 DEF Init, RegistryInv
<1>4. LockHeldByLogin
  BY DEF Init, LockHeldByLogin
<1>5. OneLogin /\ SendsWithToken
  BY DEF Init, OneLogin, SendsWithToken
<1> QED
  BY <1>2, <1>3, <1>4, <1>5 DEF IInv

\* Created sessions are sessions.
LEMMA CreatedSessions == ASSUME TypeOK PROVE Created \subseteq Sessions /\ None \notin Sessions
BY BoundsAssumption DEF TypeOK, Created, Sessions, None

\* A quiet step keeps the registry's invariant and releases.
LEMMA QuietStep == ASSUME IInv, TypeOK', Quiet PROVE RegistryInv' /\ Registry!Release
<1>1. Created' = Created
  BY DEF Quiet, Created
<1>2. RegistryInv'
  BY <1>1 DEF IInv, RegistryInv, Quiet
<1>3. reg' \in [Devices -> Sessions \cup {None}]
  BY DEF TypeOK
<1>4. Registry!Release
  BY <1>1, <1>3, CreatedSessions DEF Quiet, Registry!Release, Alive, IInv, Created
<1> QED
  BY <1>2, <1>4

\* A caller without a login in progress holds no lock; one with a login holds
\* its session's, and only that.
LEMMA HoldsOwn ==
    ASSUME IInv, NEW c \in Clients
    PROVE  /\ pc[c] # "login" => holder = [s \in Sessions |-> holder[s] \ {c}]
           /\ mine[c] \in Sessions =>
                [holder EXCEPT ![mine[c]] = @ \ {c}] = [s \in Sessions |-> holder[s] \ {c}]
<1>1. \A s \in Sessions : s # mine[c] => c \notin holder[s]
  BY DEF IInv, LockHeldByLogin
<1>2. pc[c] # "login" => \A s \in Sessions : c \notin holder[s]
  BY DEF IInv, LockHeldByLogin
<1>3. holder \in [Sessions -> SUBSET Clients]
  BY DEF IInv, TypeOK
<1>4. ASSUME pc[c] # "login" PROVE holder = [s \in Sessions |-> holder[s] \ {c}]
  <2>1. \A s \in Sessions : holder[s] \ {c} = holder[s]
    BY <1>2, <1>4
  <2> QED
    BY <1>3, <2>1
<1>5. ASSUME mine[c] \in Sessions
      PROVE  [holder EXCEPT ![mine[c]] = @ \ {c}] = [s \in Sessions |-> holder[s] \ {c}]
  <2>1. \A s \in Sessions : s # mine[c] => holder[s] \ {c} = holder[s]
    BY <1>1
  <2> QED
    BY <1>3, <2>1
<1> QED
  BY <1>4, <1>5

\* The locks follow the caller.
LEMMA LockStep ==
    ASSUME IInv, NEW c \in Clients, NEW H \in SUBSET Sessions, Moves(c, H), Leaves(c) \/ Enters(c),
           \A b \in Clients : pc'[b] = "login" => ~auth'[mine'[b]]
    PROVE  LockHeldByLogin' /\ OneLogin' /\ holder' \in [Sessions -> SUBSET Clients]
<1>1. holder' \in [Sessions -> SUBSET Clients]
  BY DEF Leaves, Enters, IInv, TypeOK
<1>2. \A s \in Sessions : holder[s] = {b \in Clients : pc[b] = "login" /\ mine[b] = s}
  BY DEF IInv, LockHeldByLogin
<1>3. CASE Leaves(c)
  <2>1. ASSUME NEW s \in Sessions
        PROVE  holder'[s] = {b \in Clients : pc'[b] = "login" /\ mine'[b] = s}
    <3>1. holder'[s] = holder[s] \ {c}
      BY <1>3 DEF Leaves
    <3> QED
      BY <1>2, <1>3, <3>1 DEF Leaves, Moves
  <2>2. OneLogin'
    BY <1>3 DEF Leaves, Moves, OneLogin, IInv
  <2> QED
    BY <1>1, <2>1, <2>2 DEF LockHeldByLogin
<1>4. CASE Enters(c)
  <2>1. ASSUME NEW s \in Sessions
        PROVE  holder'[s] = {b \in Clients : pc'[b] = "login" /\ mine'[b] = s}
    <3>1. CASE s = mine'[c]
      <4>1. holder'[s] = {c} /\ holder[s] = {}
        BY <1>4, <3>1 DEF Enters, IInv, TypeOK
      <4> QED
        BY <1>2, <1>4, <3>1, <4>1 DEF Enters, Moves
    <3>2. CASE s # mine'[c]
      <4>1. holder'[s] = holder[s] /\ c \notin holder[s]
        BY <1>2, <1>4, <3>2 DEF Enters, IInv, TypeOK
      <4> QED
        BY <1>2, <1>4, <3>2, <4>1 DEF Enters, Moves
    <3> QED
      BY <3>1, <3>2
  <2>2. mine'[c] \in Sessions
    BY <1>4 DEF Enters, Moves
  <2>3. \A b \in Clients \ {c} : ~(pc'[b] = "login" /\ mine'[b] = mine'[c])
    BY <1>2, <1>4, <2>2 DEF Enters, Moves
  <2>4. \A a, b \in Clients \ {c} :
          pc'[a] = "login" /\ pc'[b] = "login" /\ mine'[a] = mine'[b] => a = b
    BY DEF Moves, OneLogin, IInv
  <2>5. OneLogin'
    BY <2>3, <2>4 DEF OneLogin
  <2> QED
    BY <1>1, <2>1, <2>5 DEF LockHeldByLogin
<1> QED
  BY <1>3, <1>4

\* Where a call stands.
LEMMA StandsType ==
    ASSUME TypeOK, NEW c \in Clients, NEW s \in Sessions, NEW again \in BOOLEAN,
           NEW step \in {"locked", "login", "sending", "closing"},
           NEW kind \in {"none", "request", "open", "close"}, NEW k \in Tokens \cup {None},
           Stands(c, step, kind, s, again, k), step = "sending" => k # None
    PROVE  Moves(c, {s}) /\ pc'[c] = step /\ mine'[c] = s
<1>1. ClientTypes'
  BY DEF Stands, TypeOK, ClientTypes
<1>2. \A b \in Clients \ {c} : pc'[b] = pc[b] /\ mine'[b] = mine[b] /\ sent'[b] = sent[b]
  BY DEF Stands, TypeOK
<1>3. pc'[c] = step /\ mine'[c] = s /\ sent'[c] = k
  BY DEF Stands, TypeOK
<1> QED
  BY <1>1, <1>2, <1>3 DEF Moves

\* A call that returned works on nothing.
LEMMA ReturnsType ==
    ASSUME TypeOK, NEW c \in Clients, Returns(c) PROVE Moves(c, {}) /\ pc'[c] = "idle"
<1>1. ClientTypes'
  BY DEF Returns, Stands, TypeOK, ClientTypes
<1>2. \A b \in Clients \ {c} : pc'[b] = pc[b] /\ mine'[b] = mine[b] /\ sent'[b] = sent[b]
  BY DEF Returns, Stands, TypeOK
<1>3. pc'[c] = "idle"
  BY DEF Returns, Stands, TypeOK
<1> QED
  BY <1>1, <1>2, <1>3 DEF Moves

\* A step is a step with more in hand.
LEMMA MovesMore == ASSUME NEW c, NEW H, NEW K, Moves(c, H), H \subseteq K PROVE Moves(c, K)
BY DEF Moves

-----------------------------------------------------------------------------
(* How a call goes on *)

\* What a call does to the registry: nothing, or it pops its session s.
Pops(s) ==
    /\ reg' \in [Devices -> Sessions \cup {None}]
    /\ \A d \in Devices : reg'[d] \in {reg[d], None}
    /\ \A d \in Devices : reg'[d] # reg[d] => reg[d] = s

\* A call that raises pops at most the session it could not open.
LEMMA RaisesEffect ==
    ASSUME IInv, NEW c \in Clients, NEW kind, NEW s \in Created, Raises(c, kind, s)
    PROVE  /\ Moves(c, {s}) /\ pc'[c] = "idle" /\ reaper' \in BOOLEAN
           /\ Pops(s) /\ (kind # "open" => reg' = reg)
<1>1. Moves(c, {s}) /\ pc'[c] = "idle" /\ reaper' \in BOOLEAN
  BY ReturnsType, MovesMore DEF Raises, IInv, TypeOK
<1>2. CASE kind = "open"
  <2>1. reg' = PopSame(dev[s], s) /\ reg \in [Devices -> Sessions \cup {None}]
    BY <1>2 DEF Raises, IInv, TypeOK
  <2> QED
    BY <1>1, <1>2, <2>1 DEF PopSame, Pops
<1>3. CASE kind # "open"
  BY <1>1, <1>3 DEF Raises, Pops, IInv, TypeOK
<1> QED
  BY <1>2, <1>3

\* Of a call that is authenticated the registry notices nothing.
LEMMA AuthenticatedEffect ==
    ASSUME IInv, NEW c \in Clients, NEW kind \in {"none", "request", "open", "close"},
           NEW s \in Created, NEW again \in BOOLEAN, NEW k \in Tokens,
           Authenticated(c, kind, s, again, k)
    PROVE  Moves(c, {s}) /\ pc'[c] # "login" /\ reaper' \in BOOLEAN /\ Pops(s) /\ reg' = reg
<1>1. s \in Sessions /\ k # None /\ reg \in [Devices -> Sessions \cup {None}] /\ reaper \in BOOLEAN
  BY CreatedSessions DEF IInv, Tokens, None, TypeOK
<1>2. TypeOK /\ k \in Tokens \cup {None}
  BY DEF IInv
<1>3. s \in Sessions /\ k # None
  BY <1>1
<1>4. CASE kind = "open"
  BY <1>1, <1>4, ReturnsType, MovesMore DEF Authenticated, Pops, IInv
<1>5. CASE kind # "open" /\ shut[s] = "closed"
  BY <1>5, RaisesEffect DEF Authenticated
<1>6. CASE kind # "open" /\ shut[s] # "closed"
  <2>1. UNCHANGED <<reg, reaper>>
    BY <1>6 DEF Authenticated
  <2>2. Stands(c, "sending", kind, s, again, k)
    BY <1>6 DEF Authenticated
  <2>3. Moves(c, {s}) /\ pc'[c] = "sending"
    BY <1>2, <1>3, <2>2, StandsType
  <2> QED
    BY <1>1, <2>1, <2>3 DEF Pops
<1> QED
  BY <1>4, <1>5, <1>6

\* The lock was free and is taken to log in, unless the client is closed.
LEMMA LogsInEffect ==
    ASSUME IInv, NEW c \in Clients, NEW kind \in {"none", "request", "open", "close"},
           NEW s \in Created, NEW again \in BOOLEAN, pc[c] # "login", holder[s] = {},
           LogsIn(c, kind, s, again)
    PROVE  /\ Moves(c, {s}) /\ (Leaves(c) \/ Enters(c)) /\ reaper' \in BOOLEAN
           /\ Pops(s) /\ (kind # "open" \/ shut[s] # "closed" => reg' = reg)
<1>1. s \in Sessions /\ reg \in [Devices -> Sessions \cup {None}] /\ reaper \in BOOLEAN
  BY CreatedSessions DEF IInv, TypeOK
<1>2. TypeOK /\ None \in Tokens \cup {None}
  BY DEF IInv
<1>3. s \in Sessions
  BY <1>1
<1>4. CASE shut[s] = "closed"
  <2>1. Raises(c, kind, s) /\ holder' = holder
    BY <1>4 DEF LogsIn
  <2> QED
    BY <1>4, <2>1, RaisesEffect, HoldsOwn DEF Leaves
<1>5. CASE shut[s] # "closed"
  <2>1. reg' = reg /\ reaper' = reaper /\ holder' = [holder EXCEPT ![s] = {c}]
    BY <1>5 DEF LogsIn
  <2>2. Stands(c, "login", kind, s, again, None)
    BY <1>5 DEF LogsIn
  <2>3. Moves(c, {s}) /\ pc'[c] = "login" /\ mine'[c] = s
    BY <1>2, <1>3, <2>2, StandsType
  <2> QED
    BY <1>1, <2>1, <2>3 DEF Enters, Pops
<1> QED
  BY <1>4, <1>5

\* It logs in, or queues for the lock.
LEMMA WantsLoginEffect ==
    ASSUME IInv, NEW c \in Clients, NEW kind \in {"none", "request", "open", "close"},
           NEW s \in Created, NEW again \in BOOLEAN, pc[c] # "login",
           WantsLogin(c, kind, s, again)
    PROVE  /\ Moves(c, {s}) /\ (Leaves(c) \/ Enters(c)) /\ reaper' \in BOOLEAN
           /\ Pops(s) /\ (kind # "open" \/ shut[s] # "closed" => reg' = reg)
<1>1. CASE holder[s] = {} /\ LogsIn(c, kind, s, again)
  BY <1>1, LogsInEffect
<1>2. CASE Stands(c, "locked", kind, s, again, None) /\ UNCHANGED <<reg, holder, reaper>>
  <2>1. s \in Sessions /\ reg \in [Devices -> Sessions \cup {None}] /\ reaper \in BOOLEAN
    BY CreatedSessions DEF IInv, TypeOK
  <2>2. TypeOK /\ None \in Tokens \cup {None} /\ s \in Sessions
    BY <2>1 DEF IInv
  <2>3. Stands(c, "locked", kind, s, again, None)
    BY <1>2
  <2>4. Moves(c, {s}) /\ pc'[c] = "locked"
    BY <2>2, <2>3, StandsType
  <2>5. Leaves(c)
    BY <1>2, <2>4, HoldsOwn DEF Leaves
  <2> QED
    BY <1>2, <2>1, <2>4, <2>5 DEF Pops
<1> QED
  BY <1>1, <1>2 DEF WantsLogin

-----------------------------------------------------------------------------
\* A caller's step that closes no session.
LEMMA CallStep ==
    ASSUME IInv, NEW c \in Clients, NEW s \in Created, Moves(c, {s}), Leaves(c) \/ Enters(c),
           Pops(s), reaper' \in BOOLEAN, UNCHANGED <<created, sessionVars, endVars>>,
           LoginTypes', \A r \in Sessions : auth'[r] => token'[r] # None,
           \A r \in Sessions \ Created : ~auth'[r],
           \A b \in Clients : pc'[b] = "login" => ~auth'[mine'[b]]
    PROVE  IInv' /\ Registry!Release
<1>1. {s} \in SUBSET Sessions
  BY CreatedSessions DEF IInv
<1>2. LockHeldByLogin' /\ OneLogin' /\ holder' \in [Sessions -> SUBSET Clients]
  BY <1>1, LockStep
<1>3. TypeOK'
  BY <1>2 DEF IInv, TypeOK, Moves, ClientTypes, LoginTypes, Pops, sessionVars, endVars
<1>4. \A b \in Clients : pc'[b] # "idle" => mine'[b] \in Created
  BY DEF Moves, IInv, RegistryInv
<1>5. Quiet
  BY <1>4 DEF Quiet, Pops, IInv, RegistryInv, sessionVars, endVars
<1>6. SendsWithToken'
  BY DEF SendsWithToken, Moves, IInv
<1> QED
  BY <1>2, <1>3, <1>5, <1>6, QuietStep DEF IInv

\* The same without a word about logins, which stay as they are.
LEMMA CallOnlyStep ==
    ASSUME IInv, NEW c \in Clients, NEW s \in Created, Moves(c, {s}), Leaves(c) \/ Enters(c),
           Pops(s), reaper' \in BOOLEAN, UNCHANGED <<created, sessionVars, endVars>>,
           UNCHANGED <<auth, token, url, bmcVars>>,
           pc'[c] = "login" => ~auth[s]
    PROVE  IInv' /\ Registry!Release
<1>1. LoginTypes'
  BY DEF IInv, TypeOK, LoginTypes, bmcVars
<1>2. /\ \A r \in Sessions : auth'[r] => token'[r] # None
      /\ \A r \in Sessions \ Created : ~auth'[r]
  BY DEF IInv, SendsWithToken, RegistryInv
<1>3. \A b \in Clients : pc'[b] = "login" => ~auth'[mine'[b]]
  BY DEF IInv, OneLogin, Moves
<1> QED
  BY <1>1, <1>2, <1>3, CallStep

\* A call finds its session.
LEMMA CallReusesStep ==
    ASSUME IInv, NEW c \in Clients, NEW d \in Devices, NEW kind \in {"request", "open"},
           CallReuses(c, d, kind)
    PROVE  IInv' /\ Registry!Release /\ Spares
<1>1. reg[d] \in Created /\ reg[d] \in Sessions /\ shut[reg[d]] = "no" /\ pc[c] = "idle"
  BY CreatedSessions DEF CallReuses, MustCreate, Alive, IInv, TypeOK, RegistryInv
<1>2. UNCHANGED <<created, sessionVars, endVars>> /\ UNCHANGED <<auth, token, url, bmcVars>>
  BY DEF CallReuses
<1>3. CASE auth[reg[d]]
  <2>1. token[reg[d]] \in Tokens /\ Authenticated(c, kind, reg[d], FALSE, token[reg[d]]) /\ holder' = holder
    BY <1>1, <1>3 DEF CallReuses, IInv, TypeOK, SendsWithToken
  <2>2. Moves(c, {reg[d]}) /\ pc'[c] # "login" /\ reaper' \in BOOLEAN /\ Pops(reg[d]) /\ reg' = reg
    BY <1>1, <2>1, AuthenticatedEffect
  <2>3. Leaves(c)
    BY <1>1, <2>1, <2>2, HoldsOwn DEF Leaves
  <2> QED
    BY <1>1, <1>2, <2>2, <2>3, CallOnlyStep DEF Spares
<1>4. CASE ~auth[reg[d]]
  <2>1. WantsLogin(c, kind, reg[d], FALSE)
    BY <1>4 DEF CallReuses
  <2>2. /\ Moves(c, {reg[d]}) /\ (Leaves(c) \/ Enters(c)) /\ reaper' \in BOOLEAN
        /\ Pops(reg[d]) /\ reg' = reg
    BY <1>1, <2>1, WantsLoginEffect
  <2> QED
    BY <1>1, <1>2, <1>4, <2>2, CallOnlyStep DEF Spares
<1> QED
  BY <1>3, <1>4

\* A waiting call takes the lock.
LEMMA LockTakenStep ==
    ASSUME IInv, NEW c \in Clients, LockTaken(c) PROVE IInv' /\ Registry!Release /\ Spares
<1> DEFINE s == mine[c]
<1>1. /\ s \in Created /\ s \in Sessions /\ pc[c] = "locked" /\ holder[s] = {}
      /\ op[c] \in {"none", "request", "open", "close"} /\ retry[c] \in BOOLEAN
  BY CreatedSessions DEF LockTaken, IInv, TypeOK, RegistryInv
<1>2. UNCHANGED <<created, sessionVars, endVars>> /\ UNCHANGED <<auth, token, url, bmcVars>>
  BY DEF LockTaken
<1>3. CASE auth[s]
  <2>1. token[s] \in Tokens /\ Authenticated(c, op[c], s, retry[c], token[s]) /\ holder' = holder
    BY <1>1, <1>3 DEF LockTaken, IInv, TypeOK, SendsWithToken
  <2>2. Moves(c, {s}) /\ pc'[c] # "login" /\ reaper' \in BOOLEAN /\ Pops(s) /\ reg' = reg
    BY <1>1, <2>1, AuthenticatedEffect
  <2>3. Leaves(c)
    BY <1>1, <2>1, <2>2, HoldsOwn DEF Leaves
  <2> QED
    BY <1>1, <1>2, <2>2, <2>3, CallOnlyStep DEF Spares
<1>4. CASE ~auth[s]
  <2>1. LogsIn(c, op[c], s, retry[c])
    BY <1>4 DEF LockTaken
  <2>2. /\ Moves(c, {s}) /\ (Leaves(c) \/ Enters(c)) /\ reaper' \in BOOLEAN
        /\ Pops(s) /\ (shut[s] # "closed" => reg' = reg)
    BY <1>1, <2>1, LogsInEffect
  <2>3. Spares
    BY <1>1, <1>2, <2>2 DEF Spares, Pops, sessionVars
  <2> QED
    BY <1>1, <1>2, <1>4, <2>2, <2>3, CallOnlyStep
<1> QED
  BY <1>3, <1>4

\* A login succeeds: its caller held the session's lock alone.
LEMMA LoginUpStep ==
    ASSUME IInv, NEW c \in Clients, LoginUp(c) PROVE IInv' /\ Registry!Release /\ Spares
<1> DEFINE s == mine[c]
           k == issued + 1
<1>1. /\ s \in Created /\ s \in Sessions /\ pc[c] = "login"
      /\ op[c] \in {"none", "request", "open", "close"} /\ retry[c] \in BOOLEAN
  BY CreatedSessions DEF LoginUp, IInv, TypeOK, RegistryInv
<1>2. k \in Tokens /\ k \in 0 .. TokenBound /\ k # None
  BY BoundsAssumption DEF LoginUp, IInv, TypeOK, Tokens, None
<1>3. /\ issued' = k /\ service' = [service EXCEPT ![k] = "live"]
      /\ auth' = [auth EXCEPT ![s] = TRUE] /\ token' = [token EXCEPT ![s] = k]
      /\ UNCHANGED <<created, sessionVars, endVars>>
      /\ \E location \in {k, None} : url' = [url EXCEPT ![s] = location]
  BY DEF LoginUp
<1>4. Releases(c, s) /\ Authenticated(c, op[c], s, retry[c], k)
  BY DEF LoginUp
<1> HIDE DEF k
<1>5. LoginTypes'
  BY <1>1, <1>2, <1>3 DEF LoginTypes, IInv, TypeOK
<1>6. /\ \A r \in Sessions : auth'[r] => token'[r] # None
      /\ \A r \in Sessions \ Created : ~auth'[r]
  BY <1>1, <1>2, <1>3 DEF IInv, TypeOK, SendsWithToken, RegistryInv
<1>7. Moves(c, {s}) /\ pc'[c] # "login" /\ reaper' \in BOOLEAN /\ Pops(s) /\ reg' = reg
  BY <1>1, <1>2, <1>4, AuthenticatedEffect
<1>8. Leaves(c)
  BY <1>1, <1>4, <1>7, HoldsOwn DEF Leaves, Releases
<1>9. \A b \in Clients : pc'[b] = "login" => ~auth'[mine'[b]]
  <2> SUFFICES ASSUME NEW b \in Clients, pc'[b] = "login" PROVE ~auth'[mine'[b]]
    OBVIOUS
  <2>1. b # c /\ pc[b] = "login" /\ mine'[b] = mine[b]
    BY <1>7 DEF Moves
  <2>2. mine[b] # s /\ mine[b] \in Sessions /\ ~auth[mine[b]]
    BY <1>1, <2>1, CreatedSessions DEF IInv, OneLogin, RegistryInv
  <2> QED
    BY <1>3, <2>1, <2>2 DEF IInv, TypeOK
<1>10. IInv' /\ Registry!Release
  BY <1>1, <1>3, <1>5, <1>6, <1>7, <1>8, <1>9, CallStep
<1> QED
  BY <1>7, <1>10 DEF Spares

\* A login fails: open() pops its session.
LEMMA LoginFailsStep ==
    ASSUME IInv, NEW c \in Clients, LoginFails(c) PROVE IInv' /\ Registry!Release /\ Spares
<1> DEFINE s == mine[c]
<1>1. s \in Created /\ s \in Sessions /\ Raises(c, op[c], s) /\ Releases(c, s)
  BY CreatedSessions DEF LoginFails, IInv, TypeOK, RegistryInv
<1>2. UNCHANGED <<created, sessionVars, endVars>> /\ UNCHANGED <<auth, token, url, bmcVars>>
  BY DEF LoginFails
<1>3. Moves(c, {s}) /\ pc'[c] = "idle" /\ reaper' \in BOOLEAN /\ Pops(s) /\ (op[c] # "open" => reg' = reg)
  BY <1>1, RaisesEffect
<1>4. Leaves(c)
  BY <1>1, <1>3, HoldsOwn DEF Leaves, Releases
<1>5. Spares
  BY <1>3 DEF Spares, Pops
<1> QED
  BY <1>1, <1>2, <1>3, <1>4, <1>5, CallOnlyStep

\* A request is answered, or fails.
LEMMA SentStep ==
    ASSUME IInv, NEW c \in Clients, Answered(c) \/ SendFails(c)
    PROVE  IInv' /\ Registry!Release /\ Spares
<1> DEFINE s == mine[c]
<1>1. s \in Created /\ s \in Sessions /\ pc[c] = "sending"
  BY CreatedSessions DEF Answered, SendFails, IInv, TypeOK, RegistryInv
<1>2. /\ UNCHANGED <<created, sessionVars, endVars>> /\ UNCHANGED <<auth, token, url, bmcVars>>
      /\ holder' = holder
  BY DEF Answered, SendFails, loginVars
<1>3. Moves(c, {s}) /\ pc'[c] = "idle" /\ reaper' \in BOOLEAN /\ Pops(s) /\ reg' = reg
  <2>1. CASE Answered(c)
    <3>1. Returns(c) /\ reg' = reg /\ reaper' = TRUE /\ reg \in [Devices -> Sessions \cup {None}]
      BY <2>1 DEF Answered, IInv, TypeOK
    <3> QED
      BY <3>1, ReturnsType, MovesMore DEF Pops, IInv
  <2>2. CASE SendFails(c)
    BY <1>1, <2>2, RaisesEffect DEF SendFails
  <2> QED
    BY <2>1, <2>2
<1>4. Leaves(c)
  BY <1>1, <1>2, <1>3, HoldsOwn DEF Leaves
<1> QED
  BY <1>1, <1>2, <1>3, <1>4, CallOnlyStep DEF Spares

\* A request is denied: the session's login is forgotten.
LEMMA RejectedStep ==
    ASSUME IInv, NEW c \in Clients, Rejected(c) PROVE IInv' /\ Registry!Release /\ Spares
<1> DEFINE s == mine[c]
<1>1. /\ s \in Created /\ s \in Sessions /\ pc[c] = "sending"
      /\ WantsLogin(c, "request", s, TRUE)
  BY CreatedSessions DEF Rejected, IInv, TypeOK, RegistryInv
<1>2. /\ auth' = [auth EXCEPT ![s] = FALSE] /\ token' = [token EXCEPT ![s] = None]
      /\ url' = [url EXCEPT ![s] = None] /\ UNCHANGED <<created, sessionVars, bmcVars, endVars>>
  BY DEF Rejected
<1>3. /\ Moves(c, {s}) /\ (Leaves(c) \/ Enters(c)) /\ reaper' \in BOOLEAN
      /\ Pops(s) /\ reg' = reg
  BY <1>1, WantsLoginEffect
<1>4. LoginTypes'
  BY <1>1, <1>2 DEF LoginTypes, IInv, TypeOK, bmcVars
<1>5. /\ \A r \in Sessions : auth'[r] => token'[r] # None
      /\ \A r \in Sessions \ Created : ~auth'[r]
      /\ \A r \in Sessions : ~auth[r] => ~auth'[r]
      /\ ~auth'[s]
  BY <1>1, <1>2 DEF IInv, TypeOK, SendsWithToken, RegistryInv
<1>6. \A b \in Clients : pc'[b] = "login" => ~auth'[mine'[b]]
  BY <1>3, <1>5, CreatedSessions DEF IInv, OneLogin, Moves, RegistryInv
<1>7. IInv' /\ Registry!Release
  BY <1>1, <1>2, <1>3, <1>4, <1>5, <1>6, CallStep
<1> QED
  BY <1>3, <1>7 DEF Spares

\* The BMC ends a service session.
LEMMA ServiceOverStep ==
    ASSUME IInv, NEW k \in Tokens, ServiceOver(k) PROVE IInv' /\ Registry!Release /\ Spares
<1>1. service' \in [Tokens -> {"none", "live", "over"}]
  BY DEF ServiceOver, IInv, TypeOK
<1>2. UNCHANGED <<reg, created, sessionVars, loginVars, issued, clientVars, reaper, endVars>>
  BY DEF ServiceOver
<1>3. TypeOK'
  BY <1>1, <1>2 DEF IInv, TypeOK, sessionVars, loginVars, clientVars, endVars
<1>4. Quiet
  BY <1>2 DEF Quiet, IInv, RegistryInv, sessionVars, loginVars, clientVars, endVars
<1>5. LockHeldByLogin' /\ OneLogin' /\ SendsWithToken'
  BY <1>2 DEF IInv, LockHeldByLogin, OneLogin, SendsWithToken, loginVars, clientVars
<1> QED
  BY <1>2, <1>3, <1>4, <1>5, QuietStep DEF Spares, IInv

-----------------------------------------------------------------------------
\* A new session: the registry takes it, and only there.
LEMMA RegisterStep ==
    ASSUME IInv, NEW d \in Devices, Registers(d),
           UNCHANGED <<shut, closer, auth, token, url, bmcVars, reaper, endVars>>,
           ClientTypes', holder' \in [Sessions -> SUBSET Clients],
           LockHeldByLogin', OneLogin', SendsWithToken',
           \A c \in Clients : pc'[c] # "idle" => mine'[c] \in Created \cup {created + 1}
    PROVE  IInv' /\ Registry!Register(d, created + 1) /\ Spares
<1>1. /\ created + 1 \in Sessions /\ created + 1 \notin Created /\ created \in Nat
      /\ Created' = Created \cup {created + 1}
      /\ created' \in 0 .. SessionBound
  BY BoundsAssumption DEF IInv, TypeOK, Registers, Created, Sessions
<1>2. /\ reg' = [reg EXCEPT ![d] = created + 1] /\ dev' = [dev EXCEPT ![created + 1] = d]
      /\ shut' = shut /\ closer' = closer
  BY DEF Registers
<1>3. TypeOK'
  <2>1. reg' \in [Devices -> Sessions \cup {None}] /\ dev' \in [Sessions -> Devices \cup {None}]
    BY <1>1, <1>2 DEF IInv, TypeOK
  <2> QED
    BY <1>1, <2>1 DEF IInv, TypeOK, ClientTypes, bmcVars, endVars
<1>4. RegistryInv'
  <2>1. \A e \in Devices : reg'[e] # None => reg'[e] \in Created' /\ dev'[reg'[e]] = e
    BY <1>1, <1>2, CreatedSessions DEF IInv, TypeOK, RegistryInv
  <2>2. \A s \in Created' : dev'[s] \in Devices
    BY <1>1, <1>2, CreatedSessions DEF IInv, TypeOK, RegistryInv
  <2>3. doomed' \cup gathered' \subseteq Created'
    BY <1>1 DEF IInv, RegistryInv, endVars
  <2> QED
    BY <1>1, <1>2, <2>1, <2>2, <2>3 DEF IInv, RegistryInv
<1>5. reg[d] = None \/ (reg[d] \in Created /\ shut[reg[d]] # "no")
  BY DEF Registers, MustCreate, Alive, IInv, RegistryInv
<1>6. Registry!Register(d, created + 1)
  <2>1. shut[created + 1] = "no"
    BY <1>1 DEF IInv, RegistryInv
  <2>2. {s \in 1 .. created' : ~(shut'[s] = "no")} = {s \in 1 .. created : ~(shut[s] = "no")}
    BY <1>1, <1>2, <2>1 DEF Created
  <2>3. reg[d] \in {s \in 1 .. created : ~(shut[s] = "no")} \cup {None}
    BY <1>5 DEF Created
  <2> QED
    BY <1>1, <1>2, <2>2, <2>3 DEF Registry!Register, Alive, Created
<1>7. Spares
  BY <1>2, <1>5 DEF Spares, IInv, TypeOK
<1> QED
  BY <1>3, <1>4, <1>6, <1>7 DEF IInv

\* A call makes the session it logs in.
LEMMA CallCreatesStep ==
    ASSUME IInv, NEW c \in Clients, NEW d \in Devices, NEW kind \in {"request", "open"},
           CallCreates(c, d, kind)
    PROVE  IInv' /\ Registry!Register(d, created + 1) /\ Spares
<1> DEFINE s == created + 1
<1>1. /\ s \in Sessions /\ s \notin Created /\ TypeOK /\ FALSE \in BOOLEAN
      /\ None \in Tokens \cup {None}
  BY BoundsAssumption DEF CallCreates, Registers, IInv, TypeOK, Sessions, Created
<1>2. /\ Registers(d) /\ UNCHANGED <<shut, closer, auth, token, url, bmcVars, reaper, endVars>>
      /\ pc[c] = "idle"
  BY DEF CallCreates
<1>3. Stands(c, "login", kind, s, FALSE, None) /\ holder' = [holder EXCEPT ![s] = {c}]
  BY DEF CallCreates
<1> HIDE DEF s
<1>4. Moves(c, {s}) /\ pc'[c] = "login" /\ mine'[c] = s
  <2>1. Stands(c, "login", kind, s, FALSE, None)
    BY <1>3
  <2> QED
    BY <1>1, <2>1, StandsType
<1>5. holder[s] = {}
  BY <1>1 DEF IInv, RegistryInv, LockHeldByLogin
<1>6. Enters(c)
  BY <1>2, <1>3, <1>4, <1>5 DEF Enters
<1>7. \A b \in Clients : pc'[b] = "login" => ~auth'[mine'[b]]
  BY <1>1, <1>2, <1>4 DEF IInv, OneLogin, Moves, RegistryInv
<1>8. {s} \in SUBSET Sessions
  BY <1>1
<1>9. LockHeldByLogin' /\ OneLogin' /\ holder' \in [Sessions -> SUBSET Clients]
  BY <1>4, <1>6, <1>7, <1>8, LockStep
<1>10. SendsWithToken'
  BY <1>2, <1>4 DEF SendsWithToken, Moves, IInv
<1>11. \A b \in Clients : pc'[b] # "idle" => mine'[b] \in Created \cup {created + 1}
  BY <1>4 DEF Moves, IInv, RegistryInv, s
<1> QED
  BY <1>2, <1>4, <1>9, <1>10, <1>11, RegisterStep DEF Moves

\* A refused call makes a session too.
LEMMA CallRefusedStep ==
    ASSUME IInv, NEW c \in Clients, NEW d \in Devices, CallRefused(c, d)
    PROVE  IInv' /\ Registry!Register(d, created + 1) /\ Spares
<1>1. /\ Registers(d) /\ UNCHANGED <<shut, closer, auth, token, url, bmcVars, reaper, endVars>>
      /\ UNCHANGED <<holder, clientVars>>
  BY DEF CallRefused, loginVars
<1>2. ClientTypes' /\ holder' \in [Sessions -> SUBSET Clients]
  BY <1>1 DEF clientVars, IInv, TypeOK, ClientTypes
<1>3. LockHeldByLogin' /\ OneLogin' /\ SendsWithToken'
  BY <1>1 DEF clientVars, IInv, LockHeldByLogin, OneLogin, SendsWithToken
<1>4. \A b \in Clients : pc'[b] # "idle" => mine'[b] \in Created \cup {created + 1}
  BY <1>1 DEF clientVars, IInv, RegistryInv
<1> QED
  BY <1>1, <1>2, <1>3, <1>4, RegisterStep

-----------------------------------------------------------------------------
(* close, the reaper, close_all *)

\* session.close() on any sessions only ever takes them further.
LEMMA ClosingEffect ==
    ASSUME TypeOK, NEW w \in Closers, NEW F, NEW P, NEW X, Closing(w, F, P, X)
    PROVE  /\ shut' \in [Sessions -> {"no", "closing", "closed"}]
           /\ closer' \in [Sessions -> SUBSET Closers]
           /\ \A s \in Sessions : shut[s] # "no" \/ s \in F \cup P \cup X => shut'[s] # "no"
           /\ \A s \in Sessions \ (F \cup P \cup X) : shut'[s] = shut[s] /\ closer'[s] = closer[s]
<1>1. shut' \in [Sessions -> {"no", "closing", "closed"}]
  BY DEF Closing, TypeOK
<1>2. closer' \in [Sessions -> SUBSET Closers]
  BY DEF Closing, TypeOK
<1>3. \A s \in Sessions : shut[s] # "no" \/ s \in F \cup P \cup X => shut'[s] # "no"
  BY DEF Closing, TypeOK
<1>4. \A s \in Sessions \ (F \cup P \cup X) : shut'[s] = shut[s] /\ closer'[s] = closer[s]
  BY DEF Closing, TypeOK
<1> QED
  BY <1>1, <1>2, <1>3, <1>4

\* Whoever closes a session closes one that was created.
LEMMA ClosedByCreated == ASSUME IInv, NEW w \in Closers PROVE ClosedBy(w) \subseteq Created
BY DEF ClosedBy, IInv, RegistryInv

\* The registry holds created sessions, and each under its own device.
LEMMA RegisteredCreated ==
    ASSUME IInv
    PROVE  /\ Registered \subseteq Created
           /\ \A s \in Registered : dev[s] \in Devices /\ reg[dev[s]] = s
BY DEF Registered, IInv, RegistryInv

\* A caller's step, if any, that no login is concerned with.
Beside(c) == UNCHANGED <<clientVars, holder>> \/ (Moves(c, Created) /\ Leaves(c))

\* A step that closes sessions and takes some out of the registry.
LEMMA CloseStep ==
    ASSUME IInv, NEW c, c \in Clients \/ UNCHANGED <<clientVars, holder>>, Beside(c),
           UNCHANGED <<created, dev, auth, token, url, bmcVars>>,
           shut' \in [Sessions -> {"no", "closing", "closed"}],
           closer' \in [Sessions -> SUBSET Closers],
           \A s \in Sessions : shut[s] # "no" => shut'[s] # "no",
           \A s \in Sessions \ Created : shut'[s] = shut[s] /\ closer'[s] = closer[s],
           reg' \in [Devices -> Sessions \cup {None}],
           \A d \in Devices : reg'[d] \in {reg[d], None},
           reaper' \in BOOLEAN, over' \in {"no", "closing", "done"},
           doomed' \in SUBSET Created, gathered' \in SUBSET Created
    PROVE  IInv' /\ Registry!Release
<1>1. /\ ClientTypes' /\ holder' \in [Sessions -> SUBSET Clients]
      /\ LockHeldByLogin' /\ OneLogin' /\ SendsWithToken'
      /\ \A b \in Clients : pc'[b] # "idle" => mine'[b] \in Created
  <2>1. CASE UNCHANGED <<clientVars, holder>>
    <3>1. ClientTypes' /\ holder' \in [Sessions -> SUBSET Clients]
      BY <2>1 DEF clientVars, IInv, TypeOK, ClientTypes
    <3>2. LockHeldByLogin' /\ OneLogin' /\ SendsWithToken'
      BY <2>1 DEF clientVars, IInv, LockHeldByLogin, OneLogin, SendsWithToken
    <3> QED
      BY <2>1, <3>1, <3>2 DEF clientVars, IInv, RegistryInv
  <2>2. CASE c \in Clients /\ Moves(c, Created) /\ Leaves(c)
    <3>1. \A b \in Clients : pc'[b] = "login" => ~auth'[mine'[b]]
      BY <2>2 DEF IInv, OneLogin, Moves, Leaves
    <3>2. Created \in SUBSET Sessions
      BY CreatedSessions DEF IInv
    <3>3. LockHeldByLogin' /\ OneLogin' /\ holder' \in [Sessions -> SUBSET Clients]
      BY <2>2, <3>1, <3>2, LockStep
    <3>4. SendsWithToken'
      BY <2>2 DEF SendsWithToken, Moves, IInv
    <3> QED
      BY <2>2, <3>3, <3>4 DEF Moves, IInv, RegistryInv
  <2> QED
    BY <2>1, <2>2 DEF Beside
<1>2. doomed' \subseteq Sessions /\ gathered' \subseteq Sessions
  BY CreatedSessions DEF IInv
<1>3. TypeOK'
  BY <1>1, <1>2 DEF IInv, TypeOK, ClientTypes, bmcVars
<1>4. Quiet
  BY <1>1 DEF Quiet, IInv, RegistryInv
<1> QED
  BY <1>1, <1>3, <1>4, QuietStep DEF IInv

\* A step of close() that the callers do not notice.
LEMMA ClosingStep ==
    ASSUME IInv, NEW w \in Closers, NEW F \in SUBSET Created, NEW P \in SUBSET Created,
           NEW X \in SUBSET Created, Closing(w, F, P, X),
           NEW c, c \in Clients \/ UNCHANGED <<clientVars, holder>>, Beside(c),
           UNCHANGED <<created, dev, auth, token, url, bmcVars>>,
           reg' \in [Devices -> Sessions \cup {None}],
           \A d \in Devices : reg'[d] \in {reg[d], None},
           reaper' \in BOOLEAN, over' \in {"no", "closing", "done"},
           doomed' \in SUBSET Created, gathered' \in SUBSET Created
    PROVE  /\ IInv' /\ Registry!Release
           /\ \A s \in F \cup P \cup X : shut'[s] # "no"
<1>1. TypeOK /\ Created \subseteq Sessions
  BY CreatedSessions DEF IInv
<1>2. /\ shut' \in [Sessions -> {"no", "closing", "closed"}]
      /\ closer' \in [Sessions -> SUBSET Closers]
      /\ \A s \in Sessions : shut[s] # "no" \/ s \in F \cup P \cup X => shut'[s] # "no"
      /\ \A s \in Sessions \ (F \cup P \cup X) : shut'[s] = shut[s] /\ closer'[s] = closer[s]
  BY <1>1, ClosingEffect
<1>3. IInv' /\ Registry!Release
  BY <1>2, CloseStep
<1> QED
  BY <1>1, <1>2, <1>3

\* close() of a device.
LEMMA CloseCallStep ==
    ASSUME IInv, NEW c \in Clients, NEW d \in Devices, CloseCall(c, d)
    PROVE  IInv' /\ Registry!Release /\ Spares
<1> DEFINE s == reg[d]
<1>1. /\ s \in Created /\ s \in Sessions /\ c \in Closers /\ pc[c] = "idle"
      /\ TypeOK /\ FALSE \in BOOLEAN /\ None \in Tokens \cup {None}
  BY CreatedSessions DEF CloseCall, IInv, RegistryInv, Closers
<1>2. /\ reg' \in [Devices -> Sessions \cup {None}]
      /\ \A e \in Devices : reg'[e] \in {reg[e], None}
      /\ \A e \in Devices : reg'[e] # reg[e] => reg[e] = s
  BY DEF CloseCall, IInv, TypeOK
<1>3. /\ UNCHANGED <<created, dev, auth, token, url, bmcVars>> /\ holder' = holder
      /\ reaper' \in BOOLEAN /\ over' \in {"no", "closing", "done"}
      /\ doomed' \in SUBSET Created /\ gathered' \in SUBSET Created
  BY DEF CloseCall, IInv, TypeOK, RegistryInv, endVars, loginVars
<1>4. PICK P \in SUBSET {s}, X \in SUBSET {s} : Closing(c, {}, P, X) /\ s \in P \cup X
  <2>1. Closing(c, {}, {s}, {}) \/ Closing(c, {}, {}, {s})
    BY DEF CloseCall
  <2>2. {s} \in SUBSET {s} /\ {} \in SUBSET {s} /\ s \in {s} \cup {} /\ s \in {} \cup {s}
    OBVIOUS
  <2> QED
    BY <2>1, <2>2
<1>5. UNCHANGED clientVars \/ Stands(c, "closing", "close", s, FALSE, None)
  BY DEF CloseCall
<1>6. Beside(c)
  <2>1. CASE UNCHANGED clientVars
    BY <1>3, <2>1 DEF Beside
  <2>2. CASE Stands(c, "closing", "close", s, FALSE, None)
    <3>1. Moves(c, {s}) /\ pc'[c] = "closing"
      BY <1>1, <2>2, StandsType
    <3>2. Moves(c, Created)
      BY <1>1, <3>1, MovesMore
    <3>3. Leaves(c)
      BY <1>1, <1>3, <3>1, HoldsOwn DEF Leaves
    <3> QED
      BY <3>2, <3>3 DEF Beside
  <2> QED
    BY <1>5, <2>1, <2>2
<1>7. P \in SUBSET Created /\ X \in SUBSET Created /\ {} \in SUBSET Created
  BY <1>1
<1>8. IInv' /\ Registry!Release /\ shut'[s] # "no"
  BY <1>1, <1>2, <1>3, <1>4, <1>6, <1>7, ClosingStep
<1> QED
  BY <1>2, <1>8 DEF Spares

\* A suspended close() ends.
LEMMA CloseDoneStep ==
    ASSUME IInv, NEW c \in Clients, CloseDone(c) PROVE IInv' /\ Registry!Release /\ Spares
<1>1. mine[c] \in Created /\ c \in Closers /\ pc[c] = "closing" /\ TypeOK
  BY DEF CloseDone, IInv, RegistryInv, Closers
<1>2. /\ UNCHANGED <<created, dev, auth, token, url, bmcVars>> /\ holder' = holder /\ reg' = reg
      /\ reaper' \in BOOLEAN /\ over' \in {"no", "closing", "done"}
      /\ doomed' \in SUBSET Created /\ gathered' \in SUBSET Created
      /\ reg' \in [Devices -> Sessions \cup {None}]
  BY DEF CloseDone, IInv, TypeOK, RegistryInv, endVars, loginVars
<1>3. Moves(c, Created) /\ pc'[c] = "idle"
  BY <1>1, ReturnsType, MovesMore DEF CloseDone
<1>4. Beside(c)
  BY <1>1, <1>2, <1>3, HoldsOwn DEF Beside, Leaves
<1>5. {mine[c]} \in SUBSET Created /\ {} \in SUBSET Created /\ Closing(c, {mine[c]}, {}, {})
  BY <1>1 DEF CloseDone
<1>6. IInv' /\ Registry!Release
  BY <1>1, <1>2, <1>4, <1>5, ClosingStep
<1> QED
  BY <1>2, <1>6 DEF Spares

\* The reaper goes through its list; it starts from sessions that are
\* registered, or from those it has left and the one it closed.
LEMMA ReapStep ==
    ASSUME IInv, NEW D \in SUBSET Created, NEW F \in SUBSET Created, Reap(D, F)
    PROVE  /\ IInv' /\ Registry!Release
           /\ \A d \in Devices : reg'[d] # reg[d] =>
                \E s \in F \cup D : dev[s] = d /\ shut'[s] # "no"
<1>1. PICK P \in SUBSET {s \in D : Immediate(s)}, X \in {{}} \cup {{s} : s \in D} :
        /\ Closing("reaper", F, P, X)
        /\ reg' = [d \in Devices |-> IF \E s \in F \cup P : dev[s] = d THEN None ELSE reg[d]]
        /\ doomed' = D \ (P \cup X)
        /\ UNCHANGED <<created, dev, loginVars, bmcVars, clientVars, reaper, gathered, over>>
  BY DEF Reap
<1>2. P \in SUBSET Created /\ X \in SUBSET Created /\ P \subseteq D
  BY <1>1
<1>3. /\ reg' \in [Devices -> Sessions \cup {None}]
      /\ \A d \in Devices : reg'[d] \in {reg[d], None}
  BY <1>1 DEF IInv, TypeOK
<1>4. /\ UNCHANGED <<created, dev, auth, token, url, bmcVars>> /\ UNCHANGED <<clientVars, holder>>
      /\ reaper' \in BOOLEAN /\ over' \in {"no", "closing", "done"}
      /\ doomed' \in SUBSET Created /\ gathered' \in SUBSET Created
  BY <1>1 DEF loginVars, IInv, TypeOK, RegistryInv
<1>5. Beside(None) /\ "reaper" \in Closers
  BY <1>4 DEF Beside, Closers
<1>6. /\ IInv' /\ Registry!Release
      /\ \A s \in F \cup P \cup X : shut'[s] # "no"
  BY <1>1, <1>2, <1>3, <1>4, <1>5, ClosingStep
<1>7. \A d \in Devices : reg'[d] # reg[d] => \E s \in F \cup P : dev[s] = d
  BY <1>1 DEF IInv, TypeOK
<1> QED
  BY <1>2, <1>6, <1>7

\* The reaper wakes up: what it takes from the registry it closed.
LEMMA ReaperTickStep == ASSUME IInv, ReaperTick PROVE IInv' /\ Registry!Release /\ Spares
<1>1. PICK E \in SUBSET Registered : Reap(E \cup {s \in Registered : ~Alive(s)}, {})
  BY DEF ReaperTick
<1> DEFINE D == E \cup {s \in Registered : ~Alive(s)}
<1>2. D \subseteq Registered /\ D \in SUBSET Created /\ {} \in SUBSET Created
  BY RegisteredCreated
<1>3. /\ IInv' /\ Registry!Release
      /\ \A d \in Devices : reg'[d] # reg[d] => \E s \in {} \cup D : dev[s] = d /\ shut'[s] # "no"
  BY <1>1, <1>2, ReapStep
<1>4. \A d \in Devices : reg'[d] # reg[d] => shut'[reg[d]] # "no"
  BY <1>2, <1>3, RegisteredCreated
<1> QED
  BY <1>3, <1>4 DEF Spares

\* The session the reaper waited for is closed.
LEMMA ReaperResumesStep == ASSUME IInv, ReaperResumes PROVE IInv' /\ Registry!Release
<1>1. doomed \in SUBSET Created /\ ClosedBy("reaper") \in SUBSET Created
  BY ClosedByCreated DEF IInv, RegistryInv, Closers
<1> QED
  BY <1>1, ReapStep DEF ReaperResumes

\* close_all empties the registry.
LEMMA CloseAllStep == ASSUME IInv, CloseAll PROVE IInv' /\ Registry!Release
<1>1. /\ UNCHANGED <<created, dev, auth, token, url, bmcVars>> /\ UNCHANGED <<clientVars, holder>>
      /\ UNCHANGED <<shut, closer>>
      /\ reaper' \in BOOLEAN /\ over' \in {"no", "closing", "done"} /\ doomed' \in SUBSET Created
  BY DEF CloseAll, sessionVars, loginVars, IInv, TypeOK, RegistryInv
<1>2. gathered' \in SUBSET Created
  BY RegisteredCreated DEF CloseAll
<1>3. /\ reg' \in [Devices -> Sessions \cup {None}]
      /\ \A d \in Devices : reg'[d] \in {reg[d], None}
  BY DEF CloseAll
<1>4. /\ shut' \in [Sessions -> {"no", "closing", "closed"}]
      /\ closer' \in [Sessions -> SUBSET Closers]
      /\ \A s \in Sessions : shut[s] # "no" => shut'[s] # "no"
      /\ \A s \in Sessions \ Created : shut'[s] = shut[s] /\ closer'[s] = closer[s]
  BY <1>1 DEF IInv, TypeOK
<1>5. Beside(None)
  BY <1>1 DEF Beside
<1> QED
  BY <1>1, <1>2, <1>3, <1>4, <1>5, CloseStep

\* A task of gather() begins, or ends, to close its session.
LEMMA GatheredStep ==
    ASSUME IInv, NEW s \in Sessions, GatheredCloses(s) \/ GatheredClosed(s)
    PROVE  IInv' /\ Registry!Release /\ Spares
<1>1. s \in Created /\ "shutdown" \in Closers
  BY DEF GatheredCloses, GatheredClosed, IInv, RegistryInv, Closers
<1>2. PICK F \in SUBSET Created, P \in SUBSET Created, X \in SUBSET Created :
        Closing("shutdown", F, P, X)
  <2>1. \/ Closing("shutdown", {}, {s}, {}) \/ Closing("shutdown", {}, {}, {s})
        \/ Closing("shutdown", {s}, {}, {})
    BY DEF GatheredCloses, GatheredClosed
  <2>2. {s} \in SUBSET Created /\ {} \in SUBSET Created
    BY <1>1
  <2> QED
    BY <2>1, <2>2
<1>3. /\ UNCHANGED <<created, dev, auth, token, url, bmcVars>> /\ UNCHANGED <<clientVars, holder>>
      /\ reg' = reg /\ reg' \in [Devices -> Sessions \cup {None}] /\ reaper' \in BOOLEAN
      /\ over' \in {"no", "closing", "done"}
      /\ doomed' \in SUBSET Created /\ gathered' \in SUBSET Created
  BY DEF GatheredCloses, GatheredClosed, IInv, TypeOK, RegistryInv, endVars, loginVars
<1>4. Beside(None)
  BY <1>3 DEF Beside
<1>5. IInv' /\ Registry!Release
  BY <1>1, <1>2, <1>3, <1>4, ClosingStep
<1> QED
  BY <1>3, <1>5 DEF Spares

\* The end of close_all cancels the reaper.
LEMMA CloseAllEndsStep == ASSUME IInv, CloseAllEnds PROVE IInv' /\ Registry!Release /\ Spares
<1>1. /\ UNCHANGED <<created, dev, auth, token, url, bmcVars>> /\ UNCHANGED <<clientVars, holder>>
      /\ reg' = reg /\ reg' \in [Devices -> Sessions \cup {None}] /\ reaper' \in BOOLEAN
      /\ over' \in {"no", "closing", "done"}
      /\ doomed' \in SUBSET Created /\ gathered' \in SUBSET Created
  BY DEF CloseAllEnds, IInv, TypeOK, RegistryInv, loginVars
<1>2. Beside(None) /\ "shutdown" \in Closers /\ "reaper" \in Closers
  BY <1>1 DEF Beside, Closers
<1>3. ClosedBy("reaper") \in SUBSET Created /\ {} \in SUBSET Created
  BY <1>2, ClosedByCreated
<1>4. Closing("shutdown", ClosedBy("reaper"), {}, {})
  BY DEF CloseAllEnds
<1>5. IInv' /\ Registry!Release
  BY <1>1, <1>2, <1>3, <1>4, ClosingStep
<1> QED
  BY <1>1, <1>5 DEF Spares

\* A cancelled caller leaves its session where it is, and its lock.
LEMMA CancelStep ==
    ASSUME IInv, NEW c \in Clients, Cancel(c) PROVE IInv' /\ Registry!Release /\ Spares
<1>1. mine[c] \in Created /\ mine[c] \in Sessions /\ TypeOK
  BY CreatedSessions DEF Cancel, IInv, RegistryInv
<1>2. /\ UNCHANGED <<created, dev, auth, token, url, bmcVars>>
      /\ reg' = reg /\ reg' \in [Devices -> Sessions \cup {None}] /\ reaper' \in BOOLEAN
      /\ over' \in {"no", "closing", "done"}
      /\ doomed' \in SUBSET Created /\ gathered' \in SUBSET Created
  BY DEF Cancel, IInv, TypeOK, RegistryInv, endVars
<1>3. Moves(c, Created) /\ pc'[c] = "idle"
  BY <1>1, ReturnsType, MovesMore DEF Cancel
<1>4. Beside(c)
  BY <1>1, <1>3, HoldsOwn DEF Beside, Leaves, Cancel, Releases
<1>5. /\ shut' \in [Sessions -> {"no", "closing", "closed"}]
      /\ closer' \in [Sessions -> SUBSET Closers]
      /\ \A s \in Sessions : shut[s] # "no" => shut'[s] # "no"
      /\ \A s \in Sessions \ Created : shut'[s] = shut[s] /\ closer'[s] = closer[s]
  BY <1>1 DEF Cancel, IInv, TypeOK
<1>6. IInv' /\ Registry!Release
  BY <1>2, <1>4, <1>5, CloseStep
<1> QED
  BY <1>2, <1>6 DEF Spares

-----------------------------------------------------------------------------
\* Every step keeps the invariant and is a step of the registry; only the
\* reaper and close_all take a living session that no failed open() lost.
THEOREM StepIInv ==
    ASSUME IInv, [Next]_vars
    PROVE  /\ IInv'
           /\ Registry!Next \/ UNCHANGED Registry!vars
           /\ Spares \/ ReaperResumes \/ CloseAll
<1>1. Registry!Release => Registry!Next
  BY DEF Registry!Next
<1>2. ASSUME NEW d \in Devices, Registry!Register(d, created + 1)
      PROVE  Registry!Next
  BY <1>2 DEF Registry!Next, Registry!Register
<1>3. ASSUME NEW c \in Clients, NEW d \in Devices,
             \/ CallRefused(c, d) \/ CloseCall(c, d)
             \/ \E kind \in {"request", "open"} : CallReuses(c, d, kind) \/ CallCreates(c, d, kind)
      PROVE  IInv' /\ Registry!Next /\ Spares
  BY <1>1, <1>2, <1>3, CallRefusedStep, CloseCallStep, CallReusesStep, CallCreatesStep
<1>4. ASSUME NEW c \in Clients,
             \/ LockTaken(c) \/ LoginUp(c) \/ LoginFails(c) \/ Answered(c) \/ Rejected(c)
             \/ SendFails(c) \/ Cancel(c) \/ CloseDone(c)
      PROVE  IInv' /\ Registry!Next /\ Spares
  BY <1>1, <1>4, LockTakenStep, LoginUpStep, LoginFailsStep, SentStep, RejectedStep,
     CancelStep, CloseDoneStep
<1>5. ASSUME NEW s \in Sessions, GatheredCloses(s) \/ GatheredClosed(s)
      PROVE  IInv' /\ Registry!Next /\ Spares
  BY <1>1, <1>5, GatheredStep
<1>6. ASSUME NEW k \in Tokens, ServiceOver(k)
      PROVE  IInv' /\ Registry!Next /\ Spares
  BY <1>1, <1>6, ServiceOverStep
<1>7. CASE ReaperTick \/ ReaperResumes \/ CloseAll \/ CloseAllEnds
  BY <1>1, <1>7, ReaperTickStep, ReaperResumesStep, CloseAllStep, CloseAllEndsStep
<1>8. CASE UNCHANGED vars
  <2>1. TypeOK' /\ RegistryInv'
    BY <1>8 DEF vars, IInv, TypeOK, RegistryInv, Created, sessionVars, loginVars, bmcVars,
                clientVars, endVars
  <2>2. LockHeldByLogin' /\ OneLogin' /\ SendsWithToken'
    BY <1>8 DEF vars, IInv, LockHeldByLogin, OneLogin, SendsWithToken, loginVars, clientVars
  <2>3. UNCHANGED Registry!vars
    BY <1>8 DEF Registry!vars, vars, sessionVars, Alive
  <2> QED
    BY <1>8, <2>1, <2>2, <2>3 DEF Spares, vars, IInv
<1> QED
  BY <1>3, <1>4, <1>5, <1>6, <1>7, <1>8 DEF Next

\* The invariant always holds.
THEOREM AlwaysIInv == Spec => []IInv
<1>1. ASSUME IInv, [Next]_vars PROVE IInv'
  BY <1>1, StepIInv
<1> QED
  BY <1>1, InitIInv, PTL DEF Spec

\* TypeOK: sessions, calls and service sessions keep their type.
THEOREM TypeCorrect == Spec => []TypeOK
<1>1. IInv => TypeOK
  BY DEF IInv
<1> QED
  BY <1>1, AlwaysIInv, PTL

\* A lock is held by the one caller that posts a login for its session.
THEOREM LockIsLogin == Spec => []LockHeldByLogin
<1>1. IInv => LockHeldByLogin
  BY DEF IInv
<1> QED
  BY <1>1, AlwaysIInv, PTL

\* The assertions about tokens hold.
THEOREM RequestsCarryToken == Spec => []SendsWithToken
<1>1. IInv => SendsWithToken
  BY DEF IInv
<1> QED
  BY <1>1, AlwaysIInv, PTL

\* No session is logged in that is.
THEOREM LoginsNeeded == Spec => LoginOnlyWhenNeeded
<1>1. ASSUME IInv, [Next]_vars
      PROVE  [\A c \in Clients : pc'[c] = "login" /\ pc[c] # "login" => ~auth'[mine'[c]]]_vars
  <2>1. IInv'
    BY <1>1, StepIInv
  <2> QED
    BY <2>1 DEF IInv, OneLogin
<1> QED
  BY <1>1, AlwaysIInv, PTL DEF Spec, LoginOnlyWhenNeeded

\* RedfishManager implements SessionRegistry: no session is registered twice,
\* or in the place of a living one, or revived.
THEOREM ManagerImplementsRegistry == Spec => ImplementsRegistry
<1>1. Init => Registry!Init
  BY BoundsAssumption DEF Init, Registry!Init
<1>2. ASSUME IInv, [Next]_vars PROVE [Registry!Next]_(Registry!vars)
  BY <1>2, StepIInv
<1> QED
  BY <1>1, <1>2, AlwaysIInv, PTL DEF Spec, ImplementsRegistry, Registry!Spec

\* Calls spare the living sessions of others.
THEOREM SessionsSpared == Spec => CallsSpareAlive
<1>1. ASSUME IInv, [Next]_vars
      PROVE  [\A d \in Devices :
                reg[d] # None /\ reg'[d] # reg[d] /\ shut'[reg[d]] = "no" =>
                   \/ \E c \in Clients : op[c] = "open" /\ mine[c] = reg[d] /\ pc'[c] = "idle"
                   \/ ReaperResumes \/ CloseAll]_vars
  BY <1>1, StepIInv DEF Spares
<1> QED
  BY <1>1, AlwaysIInv, PTL DEF Spec, CallsSpareAlive

-----------------------------------------------------------------------------
(* Tokens and calls *)

\* _send and relogin: whatever re-logins, late answers and cancellations do,
\* a token is one session's, and a request carries one that was given to the
\* session it works on, never to that of another device.
TokensNotShared ==
    /\ \A s, t \in Sessions : token[s] # None /\ token[s] = token[t] => s = t
    /\ \A c \in Clients, t \in Sessions : sent[c] # None /\ token[t] = sent[c] => t = mine[c]
    /\ \A b, c \in Clients : sent[b] # None /\ sent[b] = sent[c] => mine[b] = mine[c]

\* _authenticate_locked and close: the service session a session would delete
\* is the one its token belongs to.
DeletesItsOwn == \A s \in Sessions : url[s] \in {token[s], None}

\* A token is given once: every one in use was issued.
TokenInv ==
    /\ TokensNotShared /\ DeletesItsOwn
    /\ \A s \in Sessions : token[s] <= issued
    /\ \A c \in Clients : sent[c] <= issued

\* What a call waits for tells what was called.
CallInv ==
    /\ \A c \in Clients : pc[c] \in {"locked", "login"} => op[c] \in {"request", "open"}
    /\ \A c \in Clients : pc[c] = "sending" => op[c] = "request"

\* request and open: a call that waits for a login, for the lock or for an
\* answer works on one session until it ends, and that of the device it named.
StaysOnItsDevice ==
    [][/\ \A c \in Clients : pc[c] # "idle" /\ pc'[c] # "idle" =>
            mine'[c] = mine[c] /\ dev'[mine'[c]] = dev[mine[c]] /\ op'[c] = op[c]
       /\ \A c \in Clients, d \in Devices, kind \in {"request", "open"} :
            (CallReuses(c, d, kind) \/ CallCreates(c, d, kind)) /\ pc'[c] # "idle" =>
               dev'[mine'[c]] = d]_vars

\* redfish.py 275, "re-login once and retry": a request in flight is answered,
\* fails, or is given up for the one retry of its call, which remembers it.
Resends ==
    \A c \in Clients : pc[c] # "idle" /\ pc'[c] # "idle" =>
        /\ retry[c] => retry'[c]
        /\ pc[c] = "sending" => \/ UNCHANGED <<pc[c], sent[c], retry[c]>>
                                \/ ~retry[c] /\ retry'[c] /\ pc'[c] \in {"locked", "login"}

ResendsOnce == [][Resends]_vars

\* ensure_authenticated and _send: a request goes out with the token its
\* session has then, and only while the session counts as authenticated,
\* whoever logged it in.
SendsCurrent ==
    \A c \in Clients : pc'[c] = "sending" /\ pc[c] # "sending" =>
        auth'[mine'[c]] /\ sent'[c] = token'[mine'[c]]

SendsCurrentToken == [][SendsCurrent]_vars

\* The same of one call.
GoesOn(c) ==
    /\ pc[c] # "idle" /\ pc'[c] # "idle" =>
         /\ mine'[c] = mine[c] /\ dev'[mine'[c]] = dev[mine[c]] /\ op'[c] = op[c]
         /\ retry[c] => retry'[c]
         /\ pc[c] = "sending" => \/ UNCHANGED <<pc[c], sent[c], retry[c]>>
                                 \/ ~retry[c] /\ retry'[c] /\ pc'[c] \in {"locked", "login"}
    /\ pc'[c] = "sending" /\ pc[c] # "sending" =>
         auth'[mine'[c]] /\ sent'[c] = token'[mine'[c]]

Stays ==
    /\ \A c \in Clients : GoesOn(c)
    /\ \A c \in Clients, d \in Devices, kind \in {"request", "open"} :
         (CallReuses(c, d, kind) \/ CallCreates(c, d, kind)) /\ pc'[c] # "idle" =>
            dev'[mine'[c]] = d

\* The ways a request or an open goes on: it ends, waits, or sends k.
Proceeds(c, kind, s, again, k) ==
    \/ Returns(c)
    \/ \E step \in {"locked", "login"} : Stands(c, step, kind, s, again, None)
    \/ kind # "open" /\ Stands(c, "sending", kind, s, again, k)

LEMMA AuthenticatedProceeds ==
    ASSUME NEW c, NEW kind, NEW s, NEW again, NEW k, Authenticated(c, kind, s, again, k)
    PROVE  Proceeds(c, kind, s, again, k)
BY DEF Authenticated, Raises, Proceeds

LEMMA WantsLoginProceeds ==
    ASSUME NEW c, NEW kind, NEW s, NEW again, NEW k,
           WantsLogin(c, kind, s, again) \/ LogsIn(c, kind, s, again)
    PROVE  Proceeds(c, kind, s, again, k)
BY DEF WantsLogin, LogsIn, Raises, Proceeds

\* Of a call that ended nothing is left.
LEMMA ReturnsEffect ==
    ASSUME TypeOK, NEW c \in Clients, Returns(c)
    PROVE  /\ pc'[c] = "idle" /\ sent'[c] = None
           /\ \A b \in Clients \ {c} :
                UNCHANGED <<pc[b], op[b], mine[b], retry[b], sent[b]>>
BY DEF Returns, Stands, TypeOK

LEMMA StandsEffect ==
    ASSUME TypeOK, NEW c \in Clients, NEW step, NEW kind, NEW s, NEW again, NEW k,
           Stands(c, step, kind, s, again, k)
    PROVE  /\ pc'[c] = step /\ op'[c] = kind /\ mine'[c] = s /\ retry'[c] = again /\ sent'[c] = k
           /\ \A b \in Clients \ {c} :
                UNCHANGED <<pc[b], op[b], mine[b], retry[b], sent[b]>>
BY DEF Stands, TypeOK

\* A caller's step, by what it leaves of the call.
LEMMA ProceedsEffect ==
    ASSUME TypeOK, NEW c \in Clients, NEW kind \in {"request", "open"}, NEW s, NEW again, NEW k,
           Proceeds(c, kind, s, again, k)
    PROVE  /\ \A b \in Clients \ {c} :
                UNCHANGED <<pc[b], op[b], mine[b], retry[b], sent[b]>>
           /\ \/ pc'[c] = "idle"
              \/ /\ op'[c] = kind /\ mine'[c] = s /\ retry'[c] = again
                 /\ pc'[c] \in {"locked", "login"} \/ (pc'[c] = "sending" /\ kind = "request")
           /\ sent'[c] = None \/ (sent'[c] = k /\ mine'[c] = s)
<1>1. CASE Returns(c)
  BY <1>1, ReturnsEffect
<1>2. ASSUME NEW step \in {"locked", "login"}, Stands(c, step, kind, s, again, None)
      PROVE  /\ \A b \in Clients \ {c} :
                  UNCHANGED <<pc[b], op[b], mine[b], retry[b], sent[b]>>
             /\ op'[c] = kind /\ mine'[c] = s /\ retry'[c] = again /\ sent'[c] = None
             /\ pc'[c] \in {"locked", "login"}
  BY <1>2, StandsEffect
<1>3. CASE kind # "open" /\ Stands(c, "sending", kind, s, again, k)
  <2>1. Stands(c, "sending", kind, s, again, k)
    BY <1>3
  <2> QED
    BY <1>3, <2>1, StandsEffect
<1> QED
  BY <1>1, <1>2, <1>3 DEF Proceeds

\* Nobody's call begins, and c's goes on as GoesOn demands.
LEMMA OneGoesOn ==
    ASSUME IInv, CallInv, NEW c \in Clients,
           \A s \in Created : dev'[s] = dev[s],
           \A b \in Clients \ {c} : UNCHANGED <<pc[b], op[b], mine[b], retry[b], sent[b]>>,
           GoesOn(c),
           pc'[c] \in {"locked", "login"} => op'[c] \in {"request", "open"},
           pc'[c] = "sending" => op'[c] = "request"
    PROVE  CallInv' /\ \A b \in Clients : GoesOn(b)
<1>1. \A b \in Clients \ {c} : GoesOn(b)
  BY DEF GoesOn, IInv, RegistryInv
<1> QED
  BY <1>1 DEF CallInv

\* The step of one caller keeps the tokens apart: what it sends is its
\* session's token, and one session at most was given another, a new one.
LEMMA TokenStep ==
    ASSUME IInv, TokenInv, TypeOK', NEW c \in Clients, NEW r \in Sessions,
           \A b \in Clients \ {c} : UNCHANGED <<mine[b], sent[b]>>,
           \A s \in Sessions : s # r => token'[s] = token[s] /\ url'[s] = url[s],
           \/ token'[r] = token[r] /\ url'[r] = url[r] /\ issued' = issued
           \/ token'[r] = None /\ url'[r] = None /\ issued' = issued
           \/ token'[r] = issued + 1 /\ url'[r] \in {issued + 1, None} /\ issued' = issued + 1,
           sent'[c] = None \/ (sent'[c] = token'[mine'[c]] /\ mine'[c] \in Sessions)
    PROVE  TokenInv'
<1>1. /\ issued \in Nat /\ issued' \in Nat /\ issued <= issued' /\ None = 0 /\ 0 <= issued'
      /\ issued + 1 # None
      /\ \A s \in Sessions : token[s] \in Nat /\ token[s] # issued + 1 /\ token'[s] \in Nat
      /\ \A b \in Clients : sent[b] \in Nat /\ sent[b] # issued + 1
  BY BoundsAssumption DEF IInv, TypeOK, TokenInv, Tokens, None
<1>2. \A s \in Sessions : token'[s] <= issued' /\ url'[s] \in {token'[s], None}
  <2>1. \A s \in Sessions : token[s] <= issued /\ url[s] \in {token[s], None}
    BY DEF TokenInv, DeletesItsOwn
  <2> QED
    BY <1>1, <2>1
<1>3. \A b \in Clients : sent'[b] <= issued'
  <2>1. \A b \in Clients : sent[b] <= issued
    BY DEF TokenInv
  <2> QED
    BY <1>1, <1>2, <2>1
<1>4. ASSUME NEW s \in Sessions, NEW t \in Sessions, token'[s] # None, token'[s] = token'[t]
      PROVE  s = t
  BY <1>1, <1>4 DEF TokenInv, TokensNotShared
<1>5. ASSUME NEW b \in Clients, NEW t \in Sessions, sent'[b] # None, token'[t] = sent'[b]
      PROVE  t = mine'[b]
  BY <1>1, <1>4, <1>5 DEF TokenInv, TokensNotShared
<1>6. ASSUME NEW a \in Clients, NEW b \in Clients, sent'[a] # None, sent'[a] = sent'[b]
      PROVE  mine'[a] = mine'[b]
  BY <1>5, <1>6 DEF TokenInv, TokensNotShared
<1> QED
  BY <1>2, <1>3, <1>4, <1>5, <1>6 DEF TokenInv, TokensNotShared, DeletesItsOwn

\* A call goes on, with the tokens as they are.
LEMMA ProceedsCall ==
    ASSUME IInv, CallInv, IInv', NEW c \in Clients, NEW kind \in {"request", "open"},
           NEW s \in Created, NEW again, NEW k, Proceeds(c, kind, s, again, k),
           k = None \/ (k = token'[s] /\ auth'[s]), \A r \in Created : dev'[r] = dev[r],
           pc[c] # "idle" =>
               /\ mine[c] = s /\ op[c] = kind /\ (retry[c] => again)
               /\ pc[c] = "sending" => ~retry[c] /\ again /\ k = None
    PROVE  CallInv' /\ \A b \in Clients : GoesOn(b)
<1>1. TypeOK
  BY DEF IInv
<1>2. /\ \A b \in Clients \ {c} : UNCHANGED <<pc[b], op[b], mine[b], retry[b], sent[b]>>
      /\ \/ pc'[c] = "idle"
         \/ /\ op'[c] = kind /\ mine'[c] = s /\ retry'[c] = again
            /\ pc'[c] \in {"locked", "login"} \/ (pc'[c] = "sending" /\ kind = "request")
      /\ sent'[c] = None \/ (sent'[c] = k /\ mine'[c] = s)
  BY <1>1, ProceedsEffect
<1>3. pc'[c] = "sending" => sent'[c] = k /\ mine'[c] = s /\ k # None
  BY <1>2 DEF IInv, SendsWithToken
<1>4. GoesOn(c)
  BY <1>2, <1>3 DEF GoesOn
<1> QED
  BY <1>2, <1>4, OneGoesOn

LEMMA ProceedsToken ==
    ASSUME IInv, TokenInv, IInv', NEW c \in Clients, NEW kind \in {"request", "open"},
           NEW s \in Sessions, NEW again, NEW k, Proceeds(c, kind, s, again, k),
           k = token'[s] \/ k = None,
           \A r \in Sessions : r # s => token'[r] = token[r] /\ url'[r] = url[r],
           \/ token'[s] = token[s] /\ url'[s] = url[s] /\ issued' = issued
           \/ token'[s] = None /\ url'[s] = None /\ issued' = issued
           \/ token'[s] = issued + 1 /\ url'[s] \in {issued + 1, None} /\ issued' = issued + 1
    PROVE  TokenInv'
<1>1. TypeOK
  BY DEF IInv
<1>2. /\ \A b \in Clients \ {c} : UNCHANGED <<mine[b], sent[b]>>
      /\ sent'[c] = None \/ (sent'[c] = k /\ mine'[c] = s)
  BY <1>1, ProceedsEffect
<1> QED
  BY <1>2, TokenStep DEF IInv

\* A call ends.
LEMMA ReturnsCall ==
    ASSUME IInv, CallInv, TokenInv, IInv', NEW c \in Clients, Returns(c),
           UNCHANGED <<dev, token, url, issued>>
    PROVE  CallInv' /\ TokenInv' /\ \A b \in Clients : GoesOn(b)
<1>1. TypeOK /\ \A r \in Created : dev'[r] = dev[r]
  BY DEF IInv
<1>2. /\ pc'[c] = "idle" /\ sent'[c] = None
      /\ \A b \in Clients \ {c} : UNCHANGED <<pc[b], op[b], mine[b], retry[b], sent[b]>>
  BY <1>1, ReturnsEffect
<1>3. CallInv' /\ \A b \in Clients : GoesOn(b)
  BY <1>1, <1>2, OneGoesOn DEF GoesOn
<1>4. TokenInv'
  <2>1. ASSUME NEW r \in Sessions PROVE TokenInv'
    BY <1>2, TokenStep DEF IInv
  <2>2. CASE Sessions = {}
    BY <1>2, <2>2 DEF TokenInv, TokensNotShared, DeletesItsOwn, IInv, TypeOK, None
  <2> QED
    BY <2>1, <2>2
<1> QED
  BY <1>3, <1>4

\* Nobody's call is concerned.
LEMMA NoCall ==
    ASSUME IInv, CallInv, TokenInv, UNCHANGED <<clientVars, token, url, issued>>,
           \A r \in Created : dev'[r] = dev[r]
    PROVE  CallInv' /\ TokenInv' /\ \A b \in Clients : GoesOn(b)
<1>1. CallInv' /\ \A b \in Clients : GoesOn(b)
  BY DEF clientVars, CallInv, GoesOn, IInv, RegistryInv
<1>2. TokenInv'
  BY DEF clientVars, TokenInv, TokensNotShared, DeletesItsOwn
<1> QED
  BY <1>1, <1>2

LEMMA CallReusesCall ==
    ASSUME IInv, CallInv, TokenInv, IInv', NEW c \in Clients, NEW d \in Devices,
           NEW kind \in {"request", "open"}, CallReuses(c, d, kind)
    PROVE  CallInv' /\ TokenInv' /\ \A b \in Clients : GoesOn(b)
<1> DEFINE s == reg[d]
           k == IF auth[s] THEN token[s] ELSE None
<1>1. s \in Created /\ s \in Sessions /\ pc[c] = "idle"
  BY CreatedSessions DEF CallReuses, MustCreate, IInv, TypeOK, RegistryInv
<1>2. UNCHANGED <<dev, auth, token, url, issued>>
  BY DEF CallReuses, sessionVars, bmcVars
<1>3. Proceeds(c, kind, s, FALSE, k)
  <2>1. Authenticated(c, kind, s, FALSE, k) \/ WantsLogin(c, kind, s, FALSE)
    BY DEF CallReuses
  <2> QED
    BY <2>1, AuthenticatedProceeds, WantsLoginProceeds
<1>4. k = None \/ (k = token'[s] /\ auth'[s])
  BY <1>2
<1> HIDE DEF s, k
<1>5. CallInv' /\ \A b \in Clients : GoesOn(b)
  BY <1>1, <1>2, <1>3, <1>4, ProceedsCall
<1>6. TokenInv'
  BY <1>1, <1>2, <1>3, <1>4, ProceedsToken
<1> QED
  BY <1>5, <1>6

LEMMA LockTakenCall ==
    ASSUME IInv, CallInv, TokenInv, IInv', NEW c \in Clients, LockTaken(c)
    PROVE  CallInv' /\ TokenInv' /\ \A b \in Clients : GoesOn(b)
<1> DEFINE s == mine[c]
           k == IF auth[s] THEN token[s] ELSE None
<1>1. s \in Created /\ s \in Sessions /\ pc[c] = "locked" /\ op[c] \in {"request", "open"}
  BY CreatedSessions DEF LockTaken, IInv, RegistryInv, CallInv
<1>2. UNCHANGED <<dev, auth, token, url, issued>>
  BY DEF LockTaken, sessionVars, bmcVars
<1>3. Proceeds(c, op[c], s, retry[c], k)
  <2>1. Authenticated(c, op[c], s, retry[c], k) \/ LogsIn(c, op[c], s, retry[c])
    BY DEF LockTaken
  <2> QED
    BY <2>1, AuthenticatedProceeds, WantsLoginProceeds
<1>4. k = None \/ (k = token'[s] /\ auth'[s])
  BY <1>2
<1> HIDE DEF k
<1>5. CallInv' /\ \A b \in Clients : GoesOn(b)
  BY <1>1, <1>2, <1>3, <1>4, ProceedsCall
<1>6. TokenInv'
  BY <1>1, <1>2, <1>3, <1>4, ProceedsToken
<1> QED
  BY <1>5, <1>6

LEMMA LoginUpCall ==
    ASSUME IInv, CallInv, TokenInv, IInv', NEW c \in Clients, LoginUp(c)
    PROVE  CallInv' /\ TokenInv' /\ \A b \in Clients : GoesOn(b)
<1> DEFINE s == mine[c]
           k == issued + 1
<1>1. s \in Created /\ s \in Sessions /\ pc[c] = "login" /\ op[c] \in {"request", "open"}
  BY CreatedSessions DEF LoginUp, IInv, RegistryInv, CallInv
<1>2. /\ dev' = dev /\ issued' = k /\ token' = [token EXCEPT ![s] = k]
      /\ \E location \in {k, None} : url' = [url EXCEPT ![s] = location]
  BY DEF LoginUp, sessionVars
<1>3. Proceeds(c, op[c], s, retry[c], k)
  BY AuthenticatedProceeds DEF LoginUp
<1>4. /\ token'[s] = k /\ url'[s] \in {k, None} /\ auth'[s]
      /\ \A r \in Sessions : r # s => token'[r] = token[r] /\ url'[r] = url[r]
  BY <1>1, <1>2 DEF LoginUp, IInv, TypeOK
<1>5. CallInv' /\ \A b \in Clients : GoesOn(b)
  BY <1>1, <1>2, <1>3, <1>4, ProceedsCall
<1>6. TokenInv'
  BY <1>1, <1>2, <1>3, <1>4, ProceedsToken
<1> QED
  BY <1>5, <1>6

LEMMA RejectedCall ==
    ASSUME IInv, CallInv, TokenInv, IInv', NEW c \in Clients, Rejected(c)
    PROVE  CallInv' /\ TokenInv' /\ \A b \in Clients : GoesOn(b)
<1> DEFINE s == mine[c]
<1>1. /\ s \in Created /\ s \in Sessions /\ pc[c] = "sending" /\ op[c] = "request" /\ ~retry[c]
      /\ "request" \in {"request", "open"}
  BY CreatedSessions DEF Rejected, IInv, RegistryInv, CallInv
<1>2. /\ dev' = dev /\ issued' = issued /\ token' = [token EXCEPT ![s] = None]
      /\ url' = [url EXCEPT ![s] = None]
  BY DEF Rejected, sessionVars, bmcVars
<1>3. Proceeds(c, "request", s, TRUE, None)
  BY WantsLoginProceeds DEF Rejected
<1>4. CallInv' /\ \A b \in Clients : GoesOn(b)
  BY <1>1, <1>2, <1>3, ProceedsCall
<1>5. /\ token'[s] = None /\ url'[s] = None
      /\ \A r \in Sessions : r # s => token'[r] = token[r] /\ url'[r] = url[r]
  BY <1>1, <1>2 DEF IInv, TypeOK
<1>6. TokenInv'
  BY <1>1, <1>2, <1>3, <1>5, ProceedsToken
<1> QED
  BY <1>4, <1>6

\* A new session has no token yet.
LEMMA CallCreatesCall ==
    ASSUME IInv, CallInv, TokenInv, IInv', NEW c \in Clients, NEW d \in Devices,
           NEW kind \in {"request", "open"}, CallCreates(c, d, kind)
    PROVE  CallInv' /\ TokenInv' /\ \A b \in Clients : GoesOn(b)
<1> DEFINE s == created + 1
<1>1. /\ s \in Sessions /\ pc[c] = "idle" /\ TypeOK
      /\ \A r \in Created : dev'[r] = dev[r]
  BY CreatedSessions, BoundsAssumption
     DEF CallCreates, Registers, IInv, TypeOK, Sessions, Created
<1>2. Stands(c, "login", kind, s, FALSE, None) /\ UNCHANGED <<token, url, issued>>
  BY DEF CallCreates, bmcVars
<1>3. Proceeds(c, kind, s, FALSE, None)
  BY <1>2 DEF Proceeds
<1> HIDE DEF s
<1>4. /\ \A b \in Clients \ {c} : UNCHANGED <<pc[b], op[b], mine[b], retry[b], sent[b]>>
      /\ op'[c] = kind /\ pc'[c] = "login"
  BY <1>1, <1>2, StandsEffect
<1>5. CallInv' /\ \A b \in Clients : GoesOn(b)
  BY <1>1, <1>4, OneGoesOn DEF GoesOn
<1>6. TokenInv'
  BY <1>1, <1>2, <1>3, ProceedsToken
<1> QED
  BY <1>5, <1>6

LEMMA CloseCallCall ==
    ASSUME IInv, CallInv, TokenInv, IInv', NEW c \in Clients, NEW d \in Devices, CloseCall(c, d)
    PROVE  CallInv' /\ TokenInv' /\ \A b \in Clients : GoesOn(b)
<1> DEFINE s == reg[d]
<1>1. /\ s \in Sessions /\ pc[c] = "idle" /\ TypeOK
      /\ UNCHANGED <<dev, token, url, issued>> /\ \A r \in Created : dev'[r] = dev[r]
  BY DEF CloseCall, IInv, TypeOK, loginVars, bmcVars
<1>2. CASE UNCHANGED clientVars
  BY <1>1, <1>2, NoCall
<1>3. CASE Stands(c, "closing", "close", s, FALSE, None)
  <2>1. /\ \A b \in Clients \ {c} : UNCHANGED <<pc[b], op[b], mine[b], retry[b], sent[b]>>
        /\ pc'[c] = "closing" /\ sent'[c] = None
    BY <1>1, <1>3, StandsEffect
  <2>2. CallInv' /\ \A b \in Clients : GoesOn(b)
    BY <1>1, <2>1, OneGoesOn DEF GoesOn
  <2>3. TokenInv'
    BY <1>1, <2>1, TokenStep DEF IInv
  <2> QED
    BY <2>2, <2>3
<1> QED
  BY <1>2, <1>3 DEF CloseCall

\* A call asks its own device.
LEMMA CallAsks ==
    ASSUME IInv, NEW c \in Clients, NEW d \in Devices, NEW kind \in {"request", "open"},
           CallReuses(c, d, kind) \/ CallCreates(c, d, kind), pc'[c] # "idle"
    PROVE  dev'[mine'[c]] = d
<1>1. TypeOK
  BY DEF IInv
<1>2. CASE CallReuses(c, d, kind)
  <2> DEFINE s == reg[d]
  <2>1. dev[s] = d /\ dev' = dev
    BY <1>2 DEF CallReuses, MustCreate, IInv, RegistryInv, sessionVars
  <2>2. Authenticated(c, kind, s, FALSE, token[s]) \/ WantsLogin(c, kind, s, FALSE)
    BY <1>2 DEF CallReuses
  <2>3. Proceeds(c, kind, s, FALSE, token[s])
    BY <2>2, AuthenticatedProceeds, WantsLoginProceeds
  <2> HIDE DEF s
  <2>4. pc'[c] = "idle" \/ mine'[c] = s
    BY <1>1, <2>3, ProceedsEffect
  <2> QED
    BY <2>1, <2>4
<1>3. CASE CallCreates(c, d, kind)
  <2> DEFINE s == created + 1
  <2>1. s \in Sessions /\ dev' = [dev EXCEPT ![s] = d]
    BY <1>1, <1>3, BoundsAssumption DEF CallCreates, Registers, TypeOK, Sessions
  <2>2. Stands(c, "login", kind, s, FALSE, None)
    BY <1>3 DEF CallCreates
  <2> HIDE DEF s
  <2>3. mine'[c] = s
    BY <1>1, <2>2 DEF Stands, TypeOK
  <2> QED
    BY <1>1, <2>1, <2>3 DEF TypeOK
<1> QED
  BY <1>2, <1>3

\* Tokens and calls, step by step.
LEMMA CallsStep ==
    ASSUME IInv, CallInv, TokenInv, [Next]_vars PROVE CallInv' /\ TokenInv' /\ Stays
<1>1. IInv' /\ TypeOK
  BY StepIInv DEF IInv
<1> DEFINE Good == CallInv' /\ TokenInv' /\ \A b \in Clients : GoesOn(b)
<1>2. ASSUME NEW c \in Clients, NEW d \in Devices,
             \/ CallRefused(c, d) \/ CloseCall(c, d)
             \/ \E kind \in {"request", "open"} : CallReuses(c, d, kind) \/ CallCreates(c, d, kind)
      PROVE  Good
  <2>1. CASE CallRefused(c, d)
    <3>1. UNCHANGED <<clientVars, token, url, issued>> /\ \A r \in Created : dev'[r] = dev[r]
      BY <1>1, <2>1 DEF CallRefused, Registers, loginVars, bmcVars, TypeOK, Created
    <3> QED
      BY <3>1, NoCall
  <2> QED
    BY <1>1, <1>2, <2>1, CloseCallCall, CallReusesCall, CallCreatesCall
<1>3. ASSUME NEW c \in Clients,
             \/ LockTaken(c) \/ LoginUp(c) \/ LoginFails(c) \/ Answered(c) \/ Rejected(c)
             \/ SendFails(c) \/ Cancel(c) \/ CloseDone(c)
      PROVE  Good
  <2>1. CASE LoginFails(c) \/ Answered(c) \/ SendFails(c) \/ Cancel(c) \/ CloseDone(c)
    <3>1. Returns(c) /\ UNCHANGED <<dev, token, url, issued>>
      BY <2>1 DEF LoginFails, Answered, SendFails, Cancel, CloseDone, Raises, sessionVars,
                  loginVars, bmcVars
    <3> QED
      BY <1>1, <3>1, ReturnsCall
  <2> QED
    BY <1>1, <1>3, <2>1, LockTakenCall, LoginUpCall, RejectedCall
<1>4. ASSUME \/ UNCHANGED vars \/ \E k \in Tokens : ServiceOver(k)
             \/ \E s \in Sessions : GatheredCloses(s) \/ GatheredClosed(s)
             \/ ReaperTick \/ ReaperResumes \/ CloseAll \/ CloseAllEnds
      PROVE  Good
  <2>1. UNCHANGED <<clientVars, token, url, issued>> /\ dev' = dev
    BY <1>4 DEF vars, ServiceOver, GatheredCloses, GatheredClosed, ReaperTick, ReaperResumes, Reap,
                CloseAll, CloseAllEnds, sessionVars, loginVars, bmcVars
  <2>2. \A r \in Created : dev'[r] = dev[r]
    BY <2>1
  <2> QED
    BY <2>1, <2>2, NoCall
<1> HIDE DEF Good
<1>5. Good
  BY <1>2, <1>3, <1>4 DEF Next
<1> QED
  BY <1>5, CallAsks DEF Stays, Good

LEMMA AlwaysTokenInv == Spec => [](CallInv /\ TokenInv) /\ [][Stays]_vars
<1>1. Init => CallInv /\ TokenInv
  BY DEF Init, CallInv, TokenInv, TokensNotShared, DeletesItsOwn, None
<1>2. ASSUME IInv, CallInv /\ TokenInv, [Next]_vars PROVE (CallInv /\ TokenInv)' /\ [Stays]_vars
  BY <1>2, CallsStep
<1> QED
  BY <1>1, <1>2, AlwaysIInv, PTL DEF Spec

\* No token is shared by two sessions, or sent for a session it is not of,
\* and a session deletes no service session but its own.
THEOREM TokensStayApart == Spec => []TokensNotShared /\ []DeletesItsOwn
<1>1. CallInv /\ TokenInv => TokensNotShared /\ DeletesItsOwn
  BY DEF TokenInv
<1> QED
  BY <1>1, AlwaysTokenInv, PTL

\* A call reaches the device it named, also where sessions are replaced,
\* closed or logged in again while it waits.
THEOREM CallsReachTheirDevice == Spec => StaysOnItsDevice
<1>1. Stays => /\ \A c \in Clients : pc[c] # "idle" /\ pc'[c] # "idle" =>
                    mine'[c] = mine[c] /\ dev'[mine'[c]] = dev[mine[c]] /\ op'[c] = op[c]
               /\ \A c \in Clients, d \in Devices, kind \in {"request", "open"} :
                    (CallReuses(c, d, kind) \/ CallCreates(c, d, kind)) /\ pc'[c] # "idle" =>
                       dev'[mine'[c]] = d
  BY DEF Stays, GoesOn
<1> QED
  BY <1>1, AlwaysTokenInv, PTL DEF StaysOnItsDevice

\* A request is sent with its session's token of the moment.
THEOREM RequestsSendCurrentToken == Spec => SendsCurrentToken
<1>1. Stays => SendsCurrent
  BY DEF Stays, GoesOn, SendsCurrent
<1> QED
  BY <1>1, AlwaysTokenInv, PTL DEF SendsCurrentToken

\* Denied or not, a request is sent twice at most.
THEOREM RequestsAreResentOnce == Spec => ResendsOnce
<1>1. Stays => Resends
  BY DEF Stays, GoesOn, Resends
<1> QED
  BY <1>1, AlwaysTokenInv, PTL DEF ResendsOnce

\* With one caller a request in flight carries its session's token: nobody
\* else logs the session in again, or out, meanwhile.
SentIsToken == \A c \in Clients : pc[c] = "sending" => auth[mine[c]] /\ sent[c] = token[mine[c]]

\* relogin by a caller that is alone discards a token only if the BMC ended its
\* service session: finding redfish_late_rejection takes two callers.
THEOREM AloneDiscardsOver ==
    (\A b, c \in Clients : b = c) => (Spec => DiscardedTokenIsOver)
<1> SUFFICES ASSUME \A b, c \in Clients : b = c PROVE Spec => DiscardedTokenIsOver
  OBVIOUS
<1>1. ASSUME IInv, SentIsToken, [Next]_vars, [Stays]_vars PROVE SentIsToken'
  <2> SUFFICES ASSUME NEW c \in Clients, pc'[c] = "sending", Stays
               PROVE  auth'[mine'[c]] /\ sent'[c] = token'[mine'[c]]
    BY <1>1 DEF SentIsToken, vars, loginVars, clientVars
  <2>1. CASE pc[c] # "sending"
    BY <1>1, <2>1 DEF Stays, GoesOn
  <2>2. CASE pc[c] = "sending"
    <3>1. mine'[c] = mine[c] /\ sent'[c] = sent[c]
      BY <1>1, <2>2 DEF Stays, GoesOn
    <3>2. ~LoginUp(c) /\ ~Rejected(c)
      <4>1. ASSUME Rejected(c) PROVE pc'[c] # "sending"
        <5>1. sent'[c] = None
          BY <1>1, <4>1 DEF Rejected, WantsLogin, LogsIn, Raises, Returns, Stands, IInv, TypeOK
        <5> QED
          BY <1>1, <5>1, StepIInv DEF IInv, SendsWithToken
      <4> QED
        BY <2>2, <4>1 DEF LoginUp
    <3>3. \A b \in Clients : ~LoginUp(b) /\ ~Rejected(b)
      BY <3>2
    <3>4. UNCHANGED <<auth, token>>
      <4>1. UNCHANGED <<auth, token, url>>
        BY <1>1, <3>3 DEF Next, vars, CallReuses, CallCreates, CallRefused, CloseCall, LockTaken,
           LoginFails, Answered, SendFails, Cancel, CloseDone, ServiceOver, GatheredCloses,
           GatheredClosed, ReaperTick, ReaperResumes, Reap, CloseAll, CloseAllEnds, loginVars
      <4> QED
        BY <4>1
    <3> QED
      BY <1>1, <2>2, <3>1, <3>4 DEF SentIsToken
  <2> QED
    BY <2>1, <2>2
<1>2. Init => SentIsToken
  BY DEF Init, SentIsToken
<1>3. ASSUME SentIsToken, TypeOK, [Next]_vars
      PROVE  [\A s \in Sessions : auth[s] /\ ~auth'[s] => service[token[s]] = "over"]_vars
  <2> SUFFICES ASSUME NEW s \in Sessions, auth[s] /\ ~auth'[s], Next
               PROVE  service[token[s]] = "over"
    BY <1>3 DEF vars, loginVars
  <2>1. PICK c \in Clients : LoginUp(c) \/ Rejected(c)
    BY DEF Next, CallReuses, CallCreates, CallRefused, CloseCall, LockTaken,
       LoginFails, Answered, SendFails, Cancel, CloseDone, ServiceOver, GatheredCloses,
       GatheredClosed, ReaperTick, ReaperResumes, Reap, CloseAll, CloseAllEnds, loginVars
  <2>2. s = mine[c] /\ Rejected(c)
    BY <1>3, <2>1 DEF LoginUp, Rejected, TypeOK
  <2> QED
    BY <1>3, <2>2 DEF Rejected, SentIsToken
<1>4. IInv => TypeOK
  BY DEF IInv
<1> QED
  BY <1>1, <1>2, <1>3, <1>4, AlwaysIInv, AlwaysTokenInv, PTL DEF Spec, DiscardedTokenIsOver

-----------------------------------------------------------------------------
(* Shutdown *)

\* A session close_all took: while it runs its turn is to come, or it is
\* closed, or close_all or the reaper waits for the DELETE that ends it; when
\* close_all is done the session is closed.
Taken(s) ==
    \/ over = "done" /\ shut[s] = "closed"
    \/ /\ over = "closing"
       /\ \/ s \in gathered \/ shut[s] = "closed"
          \/ shut[s] = "closing" /\ closer[s] \subseteq {"reaper", "shutdown"}

Takes ==
    \A s \in Sessions : Taken(s) \/ (CloseAll /\ s \in Registered) => Taken(s)'

\* close_all: what was registered when it began is taken from then on, whoever
\* else closes it or is cancelled while closing it, and so closed in the end.
ShutdownClosesAll == [][Takes]_vars

\* Whoever waits for a DELETE closes the session, and nobody else does; of the
\* sessions registered, or left to close_all, that is the reaper.
EndInv ==
    /\ \A s \in Sessions : shut[s] = "closing" <=> closer[s] # {}
    /\ \A s \in Sessions : \A v, w \in closer[s] : v = w
    /\ \A s \in Registered \cup gathered : closer[s] \subseteq {"reaper"}
    /\ Registered \cap gathered = {}

\* The ends of sessions in a step in which w begins to wait for those of X.
Ends(w, X) ==
    \A s \in Sessions :
        \/ UNCHANGED <<shut[s], closer[s]>>
        \/ shut'[s] = "closed" /\ closer'[s] = {}
        \/ s \in X /\ shut[s] = "no" /\ shut'[s] = "closing" /\ closer'[s] = {w}

\* What a step that is not close_all's beginning may do to the registry.
RegistryMoves == \A d \in Devices : reg'[d] \in {reg[d], None} \cup (Sessions \ Created)

\* The registry takes new sessions only.
LEMMA RegistryMovesOnly == ASSUME IInv, [Next]_vars PROVE RegistryMoves
<1>1. reg \in [Devices -> Sessions \cup {None}]
  BY DEF IInv, TypeOK
<1>2. Registry!Next \/ UNCHANGED Registry!vars
  BY StepIInv
<1>3. CASE UNCHANGED Registry!vars
  BY <1>3 DEF Registry!vars, RegistryMoves
<1>4. CASE Registry!Next
  <2>1. CASE Registry!Release
    BY <2>1 DEF Registry!Release, RegistryMoves
  <2>2. ASSUME NEW d \in Devices, NEW s \in Sessions, Registry!Register(d, s) PROVE RegistryMoves
    BY <1>1, <2>2 DEF Registry!Register, RegistryMoves, Created
  <2> QED
    BY <1>4, <2>1, <2>2 DEF Registry!Next
<1> QED
  BY <1>2, <1>3, <1>4

\* session.close() ends sessions, or makes its caller wait.
LEMMA ClosingEnds ==
    ASSUME TypeOK, EndInv, NEW w \in Closers, NEW F, NEW P, NEW X, Closing(w, F, P, X),
           \A s \in X : shut[s] = "no" /\ s \notin P
    PROVE  /\ Ends(w, X)
           /\ \A s \in Sessions : s \in F \/ (s \in P /\ shut[s] = "no") => shut'[s] = "closed"
           /\ \A s \in Sessions \ F : s \in P /\ shut[s] # "no" =>
                UNCHANGED <<shut[s], closer[s]>>
           /\ \A s \in Sessions \ F : s \in X => shut'[s] = "closing" /\ closer'[s] = {w}
<1>1. /\ shut' = [s \in Sessions |->
                    IF s \in F \/ (s \in P /\ shut[s] = "no") THEN "closed"
                    ELSE IF s \in X THEN "closing" ELSE shut[s]]
      /\ closer' = [s \in Sessions |->
                      IF s \in F THEN {} ELSE IF s \in X THEN {w} ELSE closer[s]]
  BY DEF Closing
<1>2. \A s \in Sessions : shut[s] = "no" => closer[s] = {}
  BY DEF EndInv
<1> QED
  BY <1>1, <1>2 DEF Ends

\* Such a step keeps the invariant.
LEMMA EndsKeep ==
    ASSUME IInv, EndInv, RegistryMoves, NEW w, NEW X, Ends(w, X), gathered' \subseteq gathered,
           w = "reaper" \/ X \cap (Registered' \cup gathered') = {}
    PROVE  EndInv'
<1>1. /\ TypeOK /\ Created \subseteq Sessions /\ gathered \subseteq Created /\ Registered \subseteq Created
      /\ None \notin Sessions
  BY CreatedSessions, RegisteredCreated DEF IInv, RegistryInv
<1>2. \A s \in Registered' : s \in Registered \/ s \in Sessions \ Created
  BY DEF Registered, RegistryMoves
<1>3. \A s \in Sessions : shut'[s] = "closing" <=> closer'[s] # {}
  BY DEF EndInv, Ends
<1>4. \A s \in Sessions : \A u, v \in closer'[s] : u = v
  BY DEF EndInv, Ends
<1>5. Registered' \cap gathered' = {}
  BY <1>1, <1>2 DEF EndInv
<1>6. \A s \in Registered' \cup gathered' : closer'[s] \subseteq {"reaper"}
  <2> SUFFICES ASSUME NEW s \in Registered' \cup gathered' PROVE closer'[s] \subseteq {"reaper"}
    OBVIOUS
  <2>1. s \in Sessions /\ closer[s] \subseteq {"reaper"}
    BY <1>1, <1>2 DEF EndInv, IInv, RegistryInv
  <2> QED
    BY <2>1 DEF Ends
<1> QED
  BY <1>3, <1>4, <1>5, <1>6 DEF EndInv

\* While close_all goes neither on nor begins, what it took stays taken.
LEMMA EndsTake ==
    ASSUME EndInv, NEW w, NEW X, Ends(w, X), UNCHANGED <<over, gathered>>, ~CloseAll PROVE Takes
BY DEF Ends, Takes, Taken

\* A step of none of these.
LEMMA QuietEnd ==
    ASSUME IInv, EndInv, RegistryMoves, UNCHANGED <<shut, closer, over, gathered>>, ~CloseAll
    PROVE  EndInv' /\ Takes
<1>1. Ends("reaper", {})
  BY DEF Ends
<1> QED
  BY <1>1, EndsKeep, EndsTake

LEMMA CloseCallEnd ==
    ASSUME IInv, EndInv, RegistryMoves, NEW c \in Clients, NEW d \in Devices, CloseCall(c, d)
    PROVE  EndInv' /\ Takes
<1> DEFINE s == reg[d]
<1>1. /\ TypeOK /\ s \in Registered /\ s \in Sessions /\ dev[s] = d /\ c \in Closers
      /\ UNCHANGED <<over, gathered>>
  BY DEF CloseCall, IInv, RegistryInv, TypeOK, Registered, Closers, endVars
<1>2. ~CloseAll
  BY <1>1 DEF CloseAll
<1>3. s \notin Registered' \cup gathered'
  <2>1. \A e \in Devices : reg'[e] # s
    BY <1>1 DEF CloseCall, IInv, TypeOK, RegistryInv
  <2> QED
    BY <1>1, <2>1 DEF Registered, EndInv
<1>4. PICK X \in {{}, {s}} : Ends(c, X)
  <2>1. CASE Immediate(s) /\ Closing(c, {}, {s}, {})
    <3>1. Ends(c, {})
      BY <1>1, <2>1, ClosingEnds
    <3> QED
      BY <3>1
  <2>2. CASE ~Immediate(s) /\ Closing(c, {}, {}, {s})
    <3>1. shut[s] = "no"
      BY <2>2 DEF Immediate
    <3>2. Ends(c, {s})
      BY <1>1, <2>2, <3>1, ClosingEnds
    <3> QED
      BY <3>2
  <2> QED
    BY <2>1, <2>2 DEF CloseCall
<1>5. EndInv'
  BY <1>1, <1>3, <1>4, EndsKeep
<1> QED
  BY <1>1, <1>2, <1>4, <1>5, EndsTake

\* A close() ends, or is cancelled, which closes its session too.
LEMMA CloseDoneEnd ==
    ASSUME IInv, EndInv, RegistryMoves, NEW c \in Clients, CloseDone(c) \/ Cancel(c)
    PROVE  EndInv' /\ Takes
<1>1. TypeOK /\ UNCHANGED <<over, gathered>> /\ c \in Closers
  BY DEF CloseDone, Cancel, IInv, Closers, endVars
<1>2. ~CloseAll
  BY <1>1 DEF CloseAll
<1>3. Ends("reaper", {})
  <2>1. CASE CloseDone(c)
    BY <1>1, <2>1, ClosingEnds DEF CloseDone, Ends
  <2>2. CASE Cancel(c)
    BY <1>1, <2>2 DEF Cancel, Ends, TypeOK
  <2> QED
    BY <2>1, <2>2
<1> QED
  BY <1>1, <1>2, <1>3, EndsKeep, EndsTake

\* The reaper goes through its list.
LEMMA ReapEnd ==
    ASSUME IInv, EndInv, RegistryMoves, NEW D, NEW F, Reap(D, F) PROVE EndInv' /\ Takes
<1>1. PICK P \in SUBSET {s \in D : Immediate(s)}, X \in {{}} \cup {{s} : s \in D} :
        /\ IF X = {} THEN P = D ELSE \A s \in X : ~Immediate(s)
        /\ Closing("reaper", F, P, X) /\ UNCHANGED <<gathered, over>>
  BY DEF Reap
<1>2. \A s \in X : shut[s] = "no" /\ s \notin P
  BY <1>1 DEF Immediate
<1>3. TypeOK /\ "reaper" \in Closers /\ ~CloseAll
  BY <1>1 DEF IInv, Closers, CloseAll
<1>4. Ends("reaper", X)
  BY <1>1, <1>2, <1>3, ClosingEnds
<1> QED
  BY <1>1, <1>3, <1>4, EndsKeep, EndsTake

\* close_all takes all that is registered.
LEMMA CloseAllEnd == ASSUME IInv, EndInv, CloseAll PROVE EndInv' /\ Takes
<1>1. /\ UNCHANGED <<shut, closer>> /\ over = "no" /\ over' = "closing" /\ gathered' = Registered
      /\ reg' = [d \in Devices |-> None]
  BY DEF CloseAll, sessionVars
<1>2. Registered' = {}
  BY <1>1 DEF Registered
<1>3. EndInv'
  BY <1>1, <1>2 DEF EndInv
<1>4. Takes
  BY <1>1 DEF Takes, Taken
<1> QED
  BY <1>3, <1>4

\* A task of gather() closes its session, unless somebody else is.
LEMMA GatheredEnd ==
    ASSUME IInv, EndInv, RegistryMoves, NEW s \in Sessions, GatheredCloses(s) \/ GatheredClosed(s)
    PROVE  EndInv' /\ Takes
<1>1. TypeOK /\ "shutdown" \in Closers /\ over' = over /\ reg' = reg
  BY DEF GatheredCloses, GatheredClosed, IInv, Closers, endVars
<1>2. ~CloseAll
  BY <1>1 DEF CloseAll
<1>3. CASE GatheredClosed(s)
  <2>1. Ends("reaper", {}) /\ UNCHANGED <<over, gathered>>
    BY <1>1, <1>3, ClosingEnds DEF GatheredClosed, Ends, endVars
  <2> QED
    BY <1>2, <2>1, EndsKeep, EndsTake
<1>4. CASE GatheredCloses(s)
  <2>1. /\ s \in gathered /\ gathered' = gathered \ {s} /\ s \notin Registered'
        /\ closer[s] \subseteq {"reaper"}
    BY <1>1, <1>4 DEF GatheredCloses, EndInv, Registered
  <2>2. PICK X \in {{}, {s}} :
          /\ Ends("shutdown", X)
          /\ \/ shut'[s] = "closed"
             \/ shut'[s] = "closing" /\ closer'[s] \subseteq {"reaper", "shutdown"}
    <3>1. CASE Immediate(s) /\ Closing("shutdown", {}, {s}, {})
      <4>1. /\ Ends("shutdown", {}) /\ (shut[s] = "no" => shut'[s] = "closed")
            /\ shut[s] # "no" => UNCHANGED <<shut[s], closer[s]>>
        BY <1>1, <3>1, ClosingEnds
      <4> QED
        BY <1>1, <2>1, <4>1 DEF TypeOK
    <3>2. CASE ~Immediate(s) /\ Closing("shutdown", {}, {}, {s})
      <4>1. shut[s] = "no"
        BY <3>2 DEF Immediate
      <4>2. Ends("shutdown", {s}) /\ shut'[s] = "closing" /\ closer'[s] = {"shutdown"}
        BY <1>1, <3>2, <4>1, ClosingEnds
      <4> QED
        BY <4>2
    <3> QED
      BY <1>4, <3>1, <3>2 DEF GatheredCloses
  <2>3. EndInv'
    BY <2>1, <2>2, EndsKeep
  <2>4. Takes
    BY <1>1, <1>2, <2>1, <2>2 DEF Ends, Takes, Taken
  <2> QED
    BY <2>3, <2>4
<1> QED
  BY <1>3, <1>4

\* close_all is done: what the reaper was closing is closed.
LEMMA CloseAllEndsEnd ==
    ASSUME IInv, EndInv, RegistryMoves, CloseAllEnds PROVE EndInv' /\ Takes
<1>1. /\ TypeOK /\ "shutdown" \in Closers /\ over = "closing" /\ over' = "done" /\ gathered = {}
      /\ gathered' = gathered /\ ClosedBy("shutdown") = {}
  BY DEF CloseAllEnds, IInv, Closers
<1>2. Ends("reaper", {}) /\ \A s \in ClosedBy("reaper") : shut'[s] = "closed"
  BY <1>1, ClosingEnds DEF CloseAllEnds, Ends, ClosedBy
<1>3. \A s \in Sessions : Taken(s) => Taken(s)'
  BY <1>1, <1>2 DEF Taken, Ends, EndInv, ClosedBy
<1> QED
  BY <1>1, <1>2, <1>3, EndsKeep DEF Takes, CloseAll

\* The ends of sessions, step by step.
LEMMA EndStep == ASSUME IInv, EndInv, [Next]_vars PROVE EndInv' /\ Takes
<1>1. RegistryMoves
  BY RegistryMovesOnly
<1>2. ASSUME UNCHANGED <<shut, closer, over, gathered>> PROVE EndInv' /\ Takes
  BY <1>1, <1>2, QuietEnd DEF CloseAll
<1>3. ASSUME NEW c \in Clients, NEW d \in Devices,
             \/ CallRefused(c, d) \/ CloseCall(c, d)
             \/ \E kind \in {"request", "open"} : CallReuses(c, d, kind) \/ CallCreates(c, d, kind)
      PROVE  EndInv' /\ Takes
  BY <1>1, <1>2, <1>3, CloseCallEnd DEF CallRefused, CallReuses, CallCreates, sessionVars, endVars
<1>4. ASSUME NEW c \in Clients,
             \/ LockTaken(c) \/ LoginUp(c) \/ LoginFails(c) \/ Answered(c) \/ Rejected(c)
             \/ SendFails(c) \/ Cancel(c) \/ CloseDone(c)
      PROVE  EndInv' /\ Takes
  BY <1>1, <1>2, <1>4, CloseDoneEnd
     DEF LockTaken, LoginUp, LoginFails, Answered, Rejected, SendFails, sessionVars, endVars
<1>5. CASE UNCHANGED vars \/ \E k \in Tokens : ServiceOver(k)
  BY <1>2, <1>5 DEF vars, ServiceOver, sessionVars, endVars
<1>6. CASE ReaperTick \/ ReaperResumes
  BY <1>1, <1>6, ReapEnd DEF ReaperTick, ReaperResumes
<1>7. ASSUME NEW s \in Sessions, GatheredCloses(s) \/ GatheredClosed(s) PROVE EndInv' /\ Takes
  BY <1>1, <1>7, GatheredEnd
<1>8. CASE CloseAll \/ CloseAllEnds
  BY <1>1, <1>8, CloseAllEnd, CloseAllEndsEnd
<1> QED
  BY <1>3, <1>4, <1>5, <1>6, <1>7, <1>8 DEF Next

\* close_all: whatever was registered when it began is closed when it is done.
THEOREM ShutdownTakesAll == Spec => ShutdownClosesAll
<1>1. Init => EndInv
  BY DEF Init, EndInv, Registered
<1>2. ASSUME IInv, EndInv, [Next]_vars PROVE EndInv' /\ [Takes]_vars
  BY <1>2, EndStep
<1> QED
  BY <1>1, <1>2, AlwaysIInv, PTL DEF Spec, ShutdownClosesAll
=============================================================================
