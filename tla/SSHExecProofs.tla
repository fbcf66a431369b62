---------------------------- MODULE SSHExecProofs ----------------------------
(***************************************************************************)
(* Proofs about SSHExec, for any number of callers, devices, sessions and  *)
(* connections: what is dead in the registry holds no connection, commands *)
(* start on connections this program has not closed and on their own       *)
(* device, calls leave living sessions in place, lost sessions are closed, *)
(* close_all takes what was registered, and the manager implements         *)
(* SessionRegistry.                                                        *)
(***************************************************************************)
EXTENDS SSHExec, TLAPS

Created == 1 .. created

\* A session is registered under its own device and leaves the registry with
\* the command that finds it lost; what anybody has in hand was created.
RegistryInv ==
    /\ \A d \in Devices : reg[d] # None =>
         reg[d] \in Created /\ dev[reg[d]] = d /\ ~lost[reg[d]]
    /\ \A s \in Created : dev[s] \in Devices
    /\ \A s \in Sessions \ Created : ~closed[s] /\ ~lost[s] /\ cleanup[s] = "none"
    /\ \A w \in Listers : doomed[w] \subseteq Created /\ ending[w] \subseteq Created

\* A call has a session, and one whose connect() failed has closed it.
CallInv ==
    /\ \A c \in Clients : pc[c] # "idle" => mine[c] \in Created
    /\ \A c \in Clients : pc[c] = "failing" => closed[mine[c]]

\* A connection belongs to one session, which ends it with itself.
LinkInv ==
    /\ \A s \in Sessions : conn[s] # None => conn[s] \in 1 .. opened
    /\ \A s, t \in Sessions : conn[s] # None /\ conn[s] = conn[t] => s = t
    /\ \A s \in Sessions : ~closed[s] /\ conn[s] # None => link[conn[s]] \in {"up", "lost"}

IInv == TypeOK /\ RegistryInv /\ CallInv /\ LinkInv

\* What TypeOK says of the callers.
ClientTypes ==
    /\ pc \in [Clients -> {"idle", "connecting", "failing", "running", "closing"}]
    /\ op \in [Clients -> {"none", "execute", "open", "close"}]
    /\ mine \in [Clients -> Sessions \cup {None}]
    /\ on \in [Clients -> Connections \cup {None}]

\* What it says of the lists, and that their sessions were created.
Lists ==
    /\ reaper \in BOOLEAN /\ over \in {"no", "closing", "done"}
    /\ doomed \in [Listers -> SUBSET Created] /\ ending \in [Listers -> SUBSET Created]

\* One caller's step; H holds the sessions its call may work on.
Moves(c, H) ==
    /\ ClientTypes'
    /\ \A b \in Clients \ {c} : pc'[b] = pc[b] /\ mine'[b] = mine[b] /\ on'[b] = on[b]
    /\ pc'[c] # "idle" => mine'[c] \in H
    /\ pc'[c] = "running" => on'[c] # None
    /\ pc'[c] = "failing" => closed'[mine'[c]]

\* At most that caller is concerned.
Calls(c, H) == UNCHANGED clientVars \/ (c \in Clients /\ Moves(c, H))

\* A step of the callers starts commands on connections that are not shut.
Starts ==
    \A c \in Clients :
        pc'[c] = "running" /\ pc[c] # "running" => link'[on'[c]] \in {"up", "lost"}

\* What leaves the registry is dead.
Spares ==
    \A d \in Devices :
        reg[d] # None /\ reg'[d] # reg[d] => closed'[reg[d]] \/ lost'[reg[d]]

-----------------------------------------------------------------------------
\* Nothing is registered and nobody calls.
THEOREM InitIInv == Init => IInv
<1> SUFFICES ASSUME Init PROVE IInv
  OBVIOUS
<1>1. created \in 0 .. SessionBound /\ Created = {} /\ opened \in 0 .. ConnectionBound
  BY BoundsAssumption DEF Init, Created
<1>2. TypeOK
  BY <1>1 DEF Init, TypeOK
<1>3. RegistryInv /\ CallInv
  BY <1>1 DEF Init, RegistryInv, CallInv
<1>4. LinkInv
  BY DEF Init, LinkInv
<1> QED
  BY <1>2, <1>3, <1>4 DEF IInv

\* Created sessions are sessions.
LEMMA CreatedSessions == ASSUME TypeOK PROVE Created \subseteq Sessions /\ None \notin Sessions
BY BoundsAssumption DEF TypeOK, Created, Sessions, None

\* close() of the sessions of C, and the connections it shuts.
LEMMA ClosesEffect ==
    ASSUME TypeOK, NEW C, Closes(C)
    PROVE  /\ closed' \in [Sessions -> BOOLEAN]
           /\ link' \in [Connections -> {"none", "up", "lost", "shut"}]
           /\ \A s \in Sessions : closed'[s] <=> closed[s] \/ s \in C
           /\ \A k \in Connections :
                (\A s \in C : closed[s] \/ conn[s] # k) => link'[k] = link[k]
<1>1. closed' \in [Sessions -> BOOLEAN] /\ \A s \in Sessions : closed'[s] <=> closed[s] \/ s \in C
  BY DEF Closes, TypeOK
<1>2. /\ link' \in [Connections -> {"none", "up", "lost", "shut"}]
      /\ \A k \in Connections : (\A s \in C : closed[s] \/ conn[s] # k) => link'[k] = link[k]
  BY DEF Closes, TypeOK
<1> QED
  BY <1>1, <1>2

\* Where nothing is closed, nobody calls close().
LEMMA NothingCloses == ASSUME TypeOK, UNCHANGED <<closed, link>> PROVE Closes({})
<1>1. \A s \in Sessions : (closed[s] \/ s \in {}) = closed[s]
  BY DEF TypeOK
<1>2. closed' = [s \in Sessions |-> closed[s] \/ s \in {}]
  BY <1>1 DEF TypeOK
<1>3. link' = [k \in Connections |->
                 IF \E s \in {} : ~closed[s] /\ conn[s] = k THEN "shut" ELSE link[k]]
  BY DEF TypeOK
<1> QED
  BY <1>2, <1>3 DEF Closes

\* The callers after such a step.
LEMMA CallsStep ==
    ASSUME IInv, NEW c, Calls(c, Created),
           \A s \in Sessions : closed[s] => closed'[s]
    PROVE  /\ ClientTypes'
           /\ \A b \in Clients : pc'[b] # "idle" => mine'[b] \in Created
           /\ \A b \in Clients : pc'[b] = "failing" => closed'[mine'[b]]
           /\ \A b \in Clients : pc'[b] = "running" => on'[b] # None
<1>1. Created \subseteq Sessions
  BY CreatedSessions DEF IInv
<1>2. CASE UNCHANGED clientVars
  <2>1. ClientTypes'
    BY <1>2 DEF clientVars, IInv, TypeOK, ClientTypes
  <2> QED
    BY <1>1, <1>2, <2>1 DEF clientVars, IInv, TypeOK, CallInv
<1>3. CASE c \in Clients /\ Moves(c, Created)
  BY <1>1, <1>3 DEF Moves, IInv, TypeOK, CallInv
<1> QED
  BY <1>2, <1>3 DEF Calls

\* A step that makes no session and no connection.
LEMMA ReleaseStep ==
    ASSUME IInv, NEW c, Calls(c, Created), NEW C \in SUBSET Created, Closes(C),
           UNCHANGED <<created, dev, opened, host>>,
           conn' \in [Sessions -> Connections \cup {None}],
           \A s \in Sessions : conn'[s] \in {conn[s], None},
           lost' \in [Sessions -> BOOLEAN], \A s \in Sessions : lost[s] => lost'[s],
           cleanup' \in [Sessions -> {"none", "pending", "closing", "done"}],
           \A s \in Sessions \ Created : ~lost'[s] /\ cleanup'[s] = "none",
           reg' \in [Devices -> Sessions \cup {None}],
           \A d \in Devices : reg'[d] \in {reg[d], None},
           \A d \in Devices : reg'[d] # None => ~lost'[reg'[d]],
           Lists'
    PROVE  IInv' /\ Registry!Release
<1>1. TypeOK /\ Created \subseteq Sessions /\ None \notin Sessions /\ Created' = Created
  BY CreatedSessions DEF IInv, Created
<1>2. /\ closed' \in [Sessions -> BOOLEAN]
      /\ link' \in [Connections -> {"none", "up", "lost", "shut"}]
      /\ \A s \in Sessions : closed'[s] <=> closed[s] \/ s \in C
      /\ \A k \in Connections :
           (\A s \in C : closed[s] \/ conn[s] # k) => link'[k] = link[k]
  BY <1>1, ClosesEffect
<1>3. /\ ClientTypes'
      /\ \A b \in Clients : pc'[b] # "idle" => mine'[b] \in Created
      /\ \A b \in Clients : pc'[b] = "failing" => closed'[mine'[b]]
      /\ \A b \in Clients : pc'[b] = "running" => on'[b] # None
  BY <1>2, CallsStep
<1>4. /\ doomed' \in [Listers -> SUBSET Sessions] /\ ending' \in [Listers -> SUBSET Sessions]
      /\ \A w \in Listers : doomed'[w] \subseteq Created /\ ending'[w] \subseteq Created
      /\ reaper' \in BOOLEAN /\ over' \in {"no", "closing", "done"}
  BY <1>1 DEF Lists
<1>5. TypeOK'
  BY <1>1, <1>2, <1>3, <1>4 DEF TypeOK, ClientTypes
<1>6. RegistryInv'
  BY <1>1, <1>2, <1>4 DEF IInv, RegistryInv
<1>7. CallInv'
  BY <1>1, <1>3 DEF CallInv
<1>8. LinkInv'
  <2>1. /\ \A s \in Sessions : conn'[s] # None => conn'[s] \in 1 .. opened'
        /\ \A s, t \in Sessions : conn'[s] # None /\ conn'[s] = conn'[t] => s = t
    BY DEF IInv, LinkInv
  <2>2. ASSUME NEW s \in Sessions, ~closed'[s], conn'[s] # None
        PROVE  link'[conn'[s]] \in {"up", "lost"}
    <3>1. ~closed[s] /\ s \notin C /\ conn'[s] = conn[s] /\ conn[s] # None
      BY <1>2, <2>2
    <3>2. conn[s] \in Connections /\ \A t \in C : conn[t] # conn[s]
      BY <1>1, <3>1 DEF IInv, LinkInv, TypeOK
    <3> QED
      BY <1>2, <3>1, <3>2 DEF IInv, LinkInv
  <2> QED
    BY <2>1, <2>2 DEF LinkInv
<1>9. Registry!Release
  BY <1>1, <1>2 DEF Registry!Release, Alive, Created, TypeOK, IInv, RegistryInv
<1> QED
  BY <1>5, <1>6, <1>7, <1>8, <1>9 DEF IInv

\* The same where no command is lost.
LEMMA PlainStep ==
    ASSUME IInv, NEW c, Calls(c, Created), NEW C \in SUBSET Created, Closes(C),
           UNCHANGED <<created, dev, lost, cleanup, opened, host>>,
           conn' \in [Sessions -> Connections \cup {None}],
           \A s \in Sessions : conn'[s] \in {conn[s], None},
           reg' \in [Devices -> Sessions \cup {None}],
           \A d \in Devices : reg'[d] \in {reg[d], None},
           Lists'
    PROVE  IInv' /\ Registry!Release
<1>1. /\ lost' \in [Sessions -> BOOLEAN]
      /\ cleanup' \in [Sessions -> {"none", "pending", "closing", "done"}]
      /\ \A s \in Sessions : lost[s] => lost'[s]
      /\ \A s \in Sessions \ Created : ~lost'[s] /\ cleanup'[s] = "none"
      /\ \A d \in Devices : reg'[d] # None => ~lost'[reg'[d]]
  BY DEF IInv, TypeOK, RegistryInv
<1> QED
  BY <1>1, ReleaseStep

\* Lists that nobody changes stay lists.
LEMMA ListsKept == ASSUME IInv, UNCHANGED <<created, listVars>>, reaper' \in BOOLEAN PROVE Lists'
BY DEF IInv, TypeOK, RegistryInv, Lists, listVars, Created

\* A call that returned works on nothing.
LEMMA ReturnsMoves ==
    ASSUME TypeOK, NEW c \in Clients, Returns(c)
    PROVE  Calls(c, Created) /\ pc'[c] = "idle"
<1>1. ClientTypes'
  BY DEF Returns, TypeOK, ClientTypes
<1>2. \A b \in Clients \ {c} : pc'[b] = pc[b] /\ mine'[b] = mine[b] /\ on'[b] = on[b]
  BY DEF Returns, TypeOK
<1>3. pc'[c] = "idle"
  BY DEF Returns, TypeOK
<1> QED
  BY <1>1, <1>2, <1>3 DEF Moves, Calls

\* A call that does not run a command starts none.
LEMMA NoStart ==
    ASSUME NEW c, NEW H, Calls(c, H), UNCHANGED clientVars \/ pc'[c] # "running"
    PROVE  Starts
BY DEF Calls, Moves, Starts, clientVars

\* Popping a session only empties its device.
LEMMA PopEffect ==
    ASSUME TypeOK, NEW d, NEW s, reg' = PopSame(d, s)
    PROVE  /\ reg' \in [Devices -> Sessions \cup {None}]
           /\ \A e \in Devices : reg'[e] \in {reg[e], None}
           /\ \A e \in Devices : reg'[e] # reg[e] => reg[e] = s
BY DEF PopSame, TypeOK

\* The session a call has in hand.
LEMMA MineCreated ==
    ASSUME IInv, NEW c \in Clients, pc[c] # "idle"
    PROVE  mine[c] \in Created /\ mine[c] \in Sessions /\ {mine[c]} \in SUBSET Created /\ TypeOK
BY CreatedSessions DEF IInv, CallInv

-----------------------------------------------------------------------------
(* execute and open *)

\* A call finds its session; the connection it runs on belongs to it.
LEMMA CallReusesStep ==
    ASSUME IInv, NEW c \in Clients, NEW d \in Devices, NEW kind \in {"execute", "open"},
           CallReuses(c, d, kind)
    PROVE  IInv' /\ Registry!Release /\ Starts /\ Spares
<1> DEFINE s == reg[d]
<1>1. /\ s \in Created /\ s \in Sessions /\ Alive(s) /\ TypeOK
      /\ UNCHANGED <<reg, created, dev, closed, lost, cleanup, conn, opened, host, link, listVars>>
      /\ reaper' \in BOOLEAN
  BY CreatedSessions DEF CallReuses, MustCreate, IInv, TypeOK, RegistryInv, sessionVars, linkVars
<1>2. Usable(s) => conn[s] # None /\ conn[s] \in Connections /\ link[conn[s]] \in {"up", "lost"}
  BY <1>1 DEF Usable, Alive, IInv, TypeOK, LinkInv
<1>3. Calls(c, Created) /\ Starts
  <2>1. CASE Usable(s) /\ kind = "open"
    <3>1. UNCHANGED clientVars
      BY <2>1 DEF CallReuses
    <3> QED
      BY <3>1 DEF Calls, Starts, clientVars
  <2>2. CASE Usable(s) /\ kind # "open"
    <3>1. /\ pc' = [pc EXCEPT ![c] = "running"] /\ mine' = [mine EXCEPT ![c] = s]
          /\ op' = [op EXCEPT ![c] = kind] /\ on' = [on EXCEPT ![c] = conn[s]]
      BY <2>2 DEF CallReuses
    <3>2. /\ pc'[c] = "running" /\ mine'[c] = s /\ on'[c] = conn[s]
          /\ \A b \in Clients \ {c} : pc'[b] = pc[b] /\ mine'[b] = mine[b] /\ on'[b] = on[b]
      BY <3>1 DEF IInv, TypeOK
    <3>3. ClientTypes'
      BY <1>1, <1>2, <2>2, <3>1 DEF TypeOK, ClientTypes
    <3> QED
      BY <1>1, <1>2, <2>2, <3>2, <3>3 DEF Calls, Moves, Starts
  <2>3. CASE ~Usable(s)
    <3>1. /\ pc' = [pc EXCEPT ![c] = "connecting"] /\ mine' = [mine EXCEPT ![c] = s]
          /\ op' = [op EXCEPT ![c] = kind] /\ on' = on
      BY <2>3 DEF CallReuses
    <3>2. /\ pc'[c] = "connecting" /\ mine'[c] = s
          /\ \A b \in Clients \ {c} : pc'[b] = pc[b] /\ mine'[b] = mine[b] /\ on'[b] = on[b]
      BY <3>1 DEF IInv, TypeOK
    <3>3. ClientTypes'
      BY <1>1, <3>1 DEF TypeOK, ClientTypes
    <3> QED
      BY <1>1, <3>2, <3>3 DEF Calls, Moves, Starts
  <2> QED
    BY <2>1, <2>2, <2>3
<1>4. Closes({}) /\ {} \in SUBSET Created
  BY <1>1, NothingCloses
<1>5. Lists'
  BY <1>1, ListsKept
<1>6. IInv' /\ Registry!Release
  BY <1>1, <1>3, <1>4, <1>5, PlainStep DEF TypeOK
<1> QED
  BY <1>1, <1>3, <1>6 DEF Spares

\* A call makes a session in the place of one that is closed.
LEMMA CallCreatesStep ==
    ASSUME IInv, NEW c \in Clients, NEW d \in Devices, NEW kind \in {"execute", "open"},
           CallCreates(c, d, kind)
    PROVE  IInv' /\ Registry!Register(d, created + 1) /\ Starts /\ Spares
<1> DEFINE s == created + 1
           C == {reg[d]} \ {None}
<1>1. /\ s \in Sessions /\ s \notin Created /\ created \in Nat /\ TypeOK
      /\ Created' = Created \cup {s} /\ created' \in 0 .. SessionBound
      /\ Created \subseteq Sessions /\ None \notin Sessions
  BY BoundsAssumption, CreatedSessions DEF CallCreates, IInv, TypeOK, Created, Sessions
<1>2. /\ reg' = [reg EXCEPT ![d] = s] /\ dev' = [dev EXCEPT ![s] = d] /\ Closes(C)
      /\ UNCHANGED <<lost, cleanup, conn, opened, host, on, reaper, over, doomed, ending>>
      /\ pc' = [pc EXCEPT ![c] = "connecting"] /\ op' = [op EXCEPT ![c] = kind]
      /\ mine' = [mine EXCEPT ![c] = s]
  BY DEF CallCreates, listVars
<1>3. \A r \in C : r \in Created /\ closed[r]
  BY DEF CallCreates, MustCreate, Alive, IInv, RegistryInv
<1>4. /\ closed' \in [Sessions -> BOOLEAN]
      /\ link' \in [Connections -> {"none", "up", "lost", "shut"}]
      /\ \A r \in Sessions : closed'[r] <=> closed[r]
      /\ \A k \in Connections : link'[k] = link[k]
  BY <1>1, <1>2, <1>3, ClosesEffect
<1> HIDE DEF s, C
<1>5. /\ ClientTypes' /\ pc'[c] = "connecting" /\ mine'[c] = s
      /\ \A b \in Clients \ {c} : pc'[b] = pc[b] /\ mine'[b] = mine[b] /\ on'[b] = on[b]
  <2>1. ClientTypes'
    BY <1>1, <1>2 DEF TypeOK, ClientTypes
  <2> QED
    BY <1>1, <1>2, <2>1 DEF TypeOK
<1>6. TypeOK'
  <2>1. reg' \in [Devices -> Sessions \cup {None}] /\ dev' \in [Sessions -> Devices \cup {None}]
    BY <1>1, <1>2 DEF TypeOK
  <2>2. \A b \in Clients : pc'[b] = "running" => on'[b] # None
    BY <1>1, <1>5 DEF TypeOK
  <2> QED
    BY <1>1, <1>2, <1>4, <1>5, <2>1, <2>2 DEF TypeOK, ClientTypes
<1>7. RegistryInv'
  <2>1. \A e \in Devices : reg'[e] # None =>
          reg'[e] \in Created' /\ dev'[reg'[e]] = e /\ ~lost'[reg'[e]]
    BY <1>1, <1>2 DEF IInv, TypeOK, RegistryInv
  <2>2. \A r \in Created' : dev'[r] \in Devices
    BY <1>1, <1>2 DEF IInv, TypeOK, RegistryInv
  <2>3. \A r \in Sessions \ Created' : ~closed'[r] /\ ~lost'[r] /\ cleanup'[r] = "none"
    BY <1>1, <1>2, <1>4 DEF IInv, RegistryInv
  <2>4. \A w \in Listers : doomed'[w] \subseteq Created' /\ ending'[w] \subseteq Created'
    BY <1>1, <1>2 DEF IInv, RegistryInv
  <2> QED
    BY <2>1, <2>2, <2>3, <2>4 DEF RegistryInv
<1>8. CallInv'
  <2>1. \A b \in Clients : pc'[b] # "idle" => mine'[b] \in Created'
    BY <1>1, <1>5 DEF IInv, CallInv
  <2>2. \A b \in Clients : pc'[b] = "failing" => closed'[mine'[b]]
    BY <1>1, <1>4, <1>5 DEF IInv, CallInv
  <2> QED
    BY <2>1, <2>2 DEF CallInv
<1>9. LinkInv'
  BY <1>1, <1>2, <1>4 DEF IInv, LinkInv, TypeOK
<1>10. Registry!Register(d, created + 1)
  <2>1. ~closed[s] /\ ~lost[s]
    BY <1>1 DEF IInv, RegistryInv
  <2>2. {r \in 1 .. created' : ~(~closed'[r] /\ ~lost'[r])}
          = {r \in 1 .. created : ~(~closed[r] /\ ~lost[r])}
    BY <1>1, <1>2, <1>4, <2>1 DEF Created
  <2>3. reg[d] \in {r \in 1 .. created : ~(~closed[r] /\ ~lost[r])} \cup {None}
    BY <1>3 DEF Created, C
  <2> QED
    BY <1>1, <1>2, <2>2, <2>3 DEF Registry!Register, Alive, Created, s
<1>11. Starts
  BY <1>5 DEF Starts
<1>12. Spares
  BY <1>1, <1>2, <1>3, <1>4 DEF Spares, C, TypeOK
<1> QED
  BY <1>6, <1>7, <1>8, <1>9, <1>10, <1>11, <1>12 DEF IInv

\* A connection is made, for the session that asked for it and no other.
LEMMA ConnectsStep ==
    ASSUME IInv, NEW c \in Clients, Connects(c)
    PROVE  IInv' /\ Registry!Release /\ Starts /\ Spares
<1> DEFINE s == mine[c]
           k == opened + 1
<1>1. s \in Created /\ s \in Sessions /\ TypeOK
  BY MineCreated DEF Connects
<1>2. /\ k \in Connections /\ k \notin 1 .. opened /\ k # None /\ opened' \in 0 .. ConnectionBound
      /\ 1 .. opened' = (1 .. opened) \cup {k}
  BY <1>1, BoundsAssumption DEF Connects, TypeOK, Connections, None
<1>3. /\ opened' = k /\ link' = [link EXCEPT ![k] = "up"] /\ conn' = [conn EXCEPT ![s] = k]
      /\ host' = [host EXCEPT ![k] = dev[s]]
      /\ UNCHANGED <<reg, created, dev, closed, lost, cleanup, over, doomed, ending>>
  BY DEF Connects, sessionVars, listVars
<1>4. /\ link' \in [Connections -> {"none", "up", "lost", "shut"}]
      /\ conn' \in [Sessions -> Connections \cup {None}]
      /\ host' \in [Connections -> Devices \cup {None}] /\ link'[k] = "up"
  BY <1>1, <1>2, <1>3 DEF TypeOK
<1> HIDE DEF k
<1>5. Calls(c, Created) /\ reaper' \in BOOLEAN /\ Starts
  <2>1. CASE op[c] = "execute"
    <3>1. /\ pc' = [pc EXCEPT ![c] = "running"] /\ on' = [on EXCEPT ![c] = k]
          /\ UNCHANGED <<op, mine, reaper>>
      BY <2>1 DEF Connects, k
    <3>2. /\ pc'[c] = "running" /\ mine'[c] = s /\ on'[c] = k
          /\ \A b \in Clients \ {c} : pc'[b] = pc[b] /\ mine'[b] = mine[b] /\ on'[b] = on[b]
      BY <1>1, <3>1 DEF TypeOK
    <3>3. ClientTypes' /\ reaper' \in BOOLEAN
      BY <1>1, <1>2, <3>1 DEF TypeOK, ClientTypes
    <3> QED
      BY <1>1, <1>2, <1>4, <3>2, <3>3 DEF Calls, Moves, Starts
  <2>2. CASE op[c] # "execute"
    BY <1>1, <2>2, ReturnsMoves, NoStart DEF Connects
  <2> QED
    BY <2>1, <2>2
<1>6. /\ ClientTypes'
      /\ \A b \in Clients : pc'[b] # "idle" => mine'[b] \in Created
      /\ \A b \in Clients : pc'[b] = "failing" => closed'[mine'[b]]
      /\ \A b \in Clients : pc'[b] = "running" => on'[b] # None
  BY <1>3, <1>5, CallsStep
<1>7. TypeOK'
  BY <1>1, <1>2, <1>3, <1>4, <1>5, <1>6 DEF TypeOK, ClientTypes
<1>8. RegistryInv' /\ CallInv'
  BY <1>3, <1>6 DEF IInv, RegistryInv, CallInv, Created
<1>9. LinkInv'
  <2>1. \A r \in Sessions : conn'[r] = IF r = s THEN k ELSE conn[r]
    BY <1>1, <1>3 DEF TypeOK
  <2>2. \A r \in Sessions : conn[r] # None => conn[r] # k /\ conn[r] \in Connections
    BY <1>1, <1>2 DEF IInv, LinkInv, TypeOK
  <2>3. \A j \in Connections : j # k => link'[j] = link[j]
    BY <1>1, <1>3 DEF TypeOK
  <2>4. \A r \in Sessions : conn'[r] # None => conn'[r] \in 1 .. opened'
    BY <1>2, <2>1 DEF IInv, LinkInv
  <2>5. \A r, u \in Sessions : conn'[r] # None /\ conn'[r] = conn'[u] => r = u
    BY <1>2, <2>1, <2>2 DEF IInv, LinkInv
  <2>6. \A r \in Sessions : ~closed'[r] /\ conn'[r] # None => link'[conn'[r]] \in {"up", "lost"}
    BY <1>3, <1>4, <2>1, <2>2, <2>3 DEF IInv, LinkInv
  <2> QED
    BY <2>4, <2>5, <2>6 DEF LinkInv
<1>10. Registry!Release
  BY <1>1, <1>3 DEF Registry!Release, Alive, TypeOK
<1> QED
  BY <1>3, <1>5, <1>7, <1>8, <1>9, <1>10 DEF IInv, Spares

\* connect() fails: the session is closed before it is popped.
LEMMA ConnectFailsStep ==
    ASSUME IInv, NEW c \in Clients, ConnectFails(c)
    PROVE  IInv' /\ Registry!Release /\ Starts /\ Spares
<1> DEFINE s == mine[c]
<1>1. s \in Created /\ s \in Sessions /\ {s} \in SUBSET Created /\ TypeOK
  BY MineCreated DEF ConnectFails
<1>2. /\ Closes({s}) /\ UNCHANGED <<created, dev, lost, cleanup, opened, host, reaper, listVars>>
      /\ conn' = conn
  BY DEF ConnectFails
<1>3. closed'[s]
  BY <1>1, <1>2, ClosesEffect
<1>4. /\ Calls(c, Created) /\ Starts
      /\ reg' \in [Devices -> Sessions \cup {None}]
      /\ \A e \in Devices : reg'[e] \in {reg[e], None}
      /\ \A e \in Devices : reg'[e] # reg[e] => reg[e] = s
  <2>1. CASE Immediate(s)
    BY <1>1, <2>1, ReturnsMoves, NoStart, PopEffect DEF ConnectFails
  <2>2. CASE ~Immediate(s)
    <3>1. pc' = [pc EXCEPT ![c] = "failing"] /\ UNCHANGED <<reg, op, mine, on>>
      BY <2>2 DEF ConnectFails
    <3>2. ClientTypes'
      BY <1>1, <3>1 DEF TypeOK, ClientTypes
    <3>3. /\ pc'[c] = "failing" /\ mine'[c] = s
          /\ \A b \in Clients \ {c} : pc'[b] = pc[b] /\ mine'[b] = mine[b] /\ on'[b] = on[b]
      BY <1>1, <3>1 DEF TypeOK
    <3>4. Calls(c, Created)
      BY <1>1, <1>3, <3>2, <3>3 DEF Calls, Moves
    <3> QED
      BY <1>1, <3>1, <3>3, <3>4, NoStart DEF TypeOK
  <2> QED
    BY <2>1, <2>2
<1>5. Lists'
  BY <1>2, ListsKept DEF IInv, TypeOK
<1>6. IInv' /\ Registry!Release
  BY <1>1, <1>2, <1>4, <1>5, PlainStep DEF TypeOK
<1> QED
  BY <1>3, <1>4, <1>6 DEF Spares

\* The session is closed, whose connect() failed.
LEMMA FailureClosedStep ==
    ASSUME IInv, NEW c \in Clients, FailureClosed(c)
    PROVE  IInv' /\ Registry!Release /\ Starts /\ Spares
<1> DEFINE s == mine[c]
<1>1. s \in Sessions /\ closed[s] /\ TypeOK
  BY MineCreated DEF FailureClosed, IInv, CallInv
<1>2. /\ UNCHANGED <<created, dev, closed, lost, cleanup, opened, host, link, listVars>>
      /\ reaper' = reaper /\ conn' = [r \in Sessions |-> IF r \in {s} THEN None ELSE conn[r]]
      /\ Returns(c) /\ reg' = PopSame(dev[s], s)
  BY DEF FailureClosed, ForgetsConnections, sessionVars
<1>3. Calls(c, Created) /\ Starts
  BY <1>1, <1>2, ReturnsMoves, NoStart
<1>4. /\ reg' \in [Devices -> Sessions \cup {None}]
      /\ \A e \in Devices : reg'[e] \in {reg[e], None}
      /\ \A e \in Devices : reg'[e] # reg[e] => reg[e] = s
  BY <1>1, <1>2, PopEffect
<1>5. Closes({}) /\ {} \in SUBSET Created /\ Lists'
  BY <1>1, <1>2, NothingCloses, ListsKept DEF TypeOK
<1>6. /\ conn' \in [Sessions -> Connections \cup {None}]
      /\ \A r \in Sessions : conn'[r] \in {conn[r], None}
  BY <1>1, <1>2 DEF TypeOK
<1>7. IInv' /\ Registry!Release
  BY <1>2, <1>3, <1>4, <1>5, <1>6, PlainStep
<1> QED
  BY <1>1, <1>2, <1>3, <1>4, <1>7 DEF Spares

\* A call ends that closes nothing, and pops at most a dead session.
LEMMA RunEndsStep ==
    ASSUME IInv, NEW c \in Clients, RunEnds(c) \/ RunTimesOut(c) \/ Cancel(c)
    PROVE  IInv' /\ Registry!Release /\ Starts /\ Spares
<1>1. /\ Returns(c) /\ TypeOK /\ reaper' \in BOOLEAN /\ pc[c] # "idle"
      /\ UNCHANGED <<created, dev, closed, lost, cleanup, conn, opened, host, link, listVars>>
  BY DEF RunEnds, RunTimesOut, Cancel, sessionVars, linkVars, IInv, TypeOK
<1>2. Calls(c, Created) /\ Starts
  BY <1>1, ReturnsMoves, NoStart
<1>3. Closes({}) /\ {} \in SUBSET Created /\ Lists'
  BY <1>1, NothingCloses, ListsKept
<1>4. reg' = reg \/ (~Alive(mine[c]) /\ reg' = PopSame(dev[mine[c]], mine[c]))
  BY DEF RunEnds, RunTimesOut, Cancel
<1>5. /\ reg' \in [Devices -> Sessions \cup {None}]
      /\ \A e \in Devices : reg'[e] \in {reg[e], None}
      /\ \A e \in Devices : reg'[e] # reg[e] => reg[e] = mine[c] /\ ~Alive(mine[c])
  BY <1>1, <1>4, PopEffect DEF TypeOK
<1>6. IInv' /\ Registry!Release
  BY <1>1, <1>2, <1>3, <1>5, PlainStep DEF TypeOK
<1> QED
  BY <1>1, <1>2, <1>5, <1>6 DEF Spares, Alive

\* A command is lost: its session leaves the registry with it.
LEMMA RunLostStep ==
    ASSUME IInv, NEW c \in Clients, RunLost(c)
    PROVE  IInv' /\ Registry!Release /\ Starts /\ Spares
<1> DEFINE s == mine[c]
<1>1. s \in Created /\ s \in Sessions /\ TypeOK
  BY MineCreated DEF RunLost
<1>2. /\ UNCHANGED <<created, dev, closed, conn, opened, host, link, listVars>>
      /\ reaper' = reaper /\ lost' = [lost EXCEPT ![s] = TRUE]
      /\ cleanup' = [cleanup EXCEPT ![s] = IF @ = "none" THEN "pending" ELSE @]
      /\ Returns(c) /\ reg' = PopSame(dev[s], s)
  BY DEF RunLost, linkVars
<1>3. Calls(c, Created) /\ Starts
  BY <1>1, <1>2, ReturnsMoves, NoStart
<1>4. /\ reg' \in [Devices -> Sessions \cup {None}]
      /\ \A e \in Devices : reg'[e] \in {reg[e], None}
      /\ \A e \in Devices : reg'[e] # reg[e] => reg[e] = s
  BY <1>1, <1>2, PopEffect
<1>5. Closes({}) /\ {} \in SUBSET Created /\ Lists'
  BY <1>1, <1>2, NothingCloses, ListsKept DEF TypeOK
<1>6. /\ lost' \in [Sessions -> BOOLEAN] /\ lost'[s] /\ \A r \in Sessions : lost[r] => lost'[r]
      /\ cleanup' \in [Sessions -> {"none", "pending", "closing", "done"}]
      /\ \A r \in Sessions \ {s} : lost'[r] = lost[r] /\ cleanup'[r] = cleanup[r]
  BY <1>1, <1>2 DEF TypeOK
<1>7. \A r \in Sessions \ Created : ~lost'[r] /\ cleanup'[r] = "none"
  BY <1>1, <1>6 DEF IInv, RegistryInv
<1>8. \A d \in Devices : reg'[d] # None => ~lost'[reg'[d]]
  <2> SUFFICES ASSUME NEW d \in Devices, reg'[d] # None PROVE ~lost'[reg'[d]]
    OBVIOUS
  <2>1. reg'[d] = reg[d] /\ reg[d] \in Sessions /\ ~lost[reg[d]] /\ dev[reg[d]] = d
    BY <1>4, CreatedSessions DEF IInv, RegistryInv
  <2>2. reg[d] # s
    BY <1>1, <1>2, <2>1 DEF PopSame, TypeOK
  <2> QED
    BY <1>6, <2>1, <2>2
<1>9. IInv' /\ Registry!Release
  BY <1>1, <1>2, <1>3, <1>4, <1>5, <1>6, <1>7, <1>8, ReleaseStep DEF TypeOK
<1> QED
  BY <1>3, <1>4, <1>6, <1>9 DEF Spares

\* The task a lost command left closes its session.
LEMMA CleanupStep ==
    ASSUME IInv, NEW s \in Sessions, CleanupStarts(s) \/ CleanupEnds(s)
    PROVE  IInv' /\ Registry!Release /\ Starts /\ Spares
<1>1. s \in Created /\ TypeOK /\ {s} \in SUBSET Created /\ {} \in SUBSET Created
  BY DEF CleanupStarts, CleanupEnds, IInv, RegistryInv
<1>2. /\ UNCHANGED <<reg, created, dev, lost, opened, host, clientVars, listVars>>
      /\ reaper' = reaper
  BY DEF CleanupStarts, CleanupEnds
<1>3. Closes({s}) \/ Closes({})
  BY <1>1, NothingCloses DEF CleanupStarts, CleanupEnds
<1>4. /\ cleanup' \in [Sessions -> {"none", "pending", "closing", "done"}]
      /\ \A r \in Sessions \ {s} : cleanup'[r] = cleanup[r]
  BY <1>1 DEF CleanupStarts, CleanupEnds, TypeOK
<1>5. /\ conn' \in [Sessions -> Connections \cup {None}]
      /\ \A r \in Sessions : conn'[r] \in {conn[r], None}
  BY <1>1 DEF CleanupStarts, CleanupEnds, ForgetsConnections, TypeOK
<1>6. /\ lost' \in [Sessions -> BOOLEAN] /\ reg' \in [Devices -> Sessions \cup {None}]
      /\ \A r \in Sessions : lost[r] => lost'[r]
      /\ \A r \in Sessions \ Created : ~lost'[r] /\ cleanup'[r] = "none"
      /\ \A d \in Devices : reg'[d] # None => ~lost'[reg'[d]]
      /\ \A d \in Devices : reg'[d] \in {reg[d], None}
  BY <1>1, <1>2, <1>4 DEF IInv, TypeOK, RegistryInv
<1>7. Calls(None, Created) /\ Lists' /\ Starts
  BY <1>1, <1>2, ListsKept, NoStart DEF Calls, TypeOK
<1>8. IInv' /\ Registry!Release
  BY <1>1, <1>2, <1>3, <1>4, <1>5, <1>6, <1>7, ReleaseStep
<1> QED
  BY <1>2, <1>7, <1>8 DEF Spares

\* The other side ends a connection: it is not shut.
LEMMA LinkLostStep ==
    ASSUME IInv, NEW k \in Connections, LinkLost(k)
    PROVE  IInv' /\ Registry!Release /\ Starts /\ Spares
<1>1. UNCHANGED <<reg, created, sessionVars, conn, opened, host, clientVars, reaper, listVars>>
  BY DEF LinkLost
<1>2. /\ link' \in [Connections -> {"none", "up", "lost", "shut"}]
      /\ \A j \in Connections : link[j] \in {"up", "lost"} => link'[j] \in {"up", "lost"}
  BY DEF LinkLost, IInv, TypeOK
<1>3. TypeOK'
  BY <1>1, <1>2 DEF IInv, TypeOK, sessionVars, clientVars, listVars
<1>4. RegistryInv' /\ CallInv'
  BY <1>1 DEF IInv, RegistryInv, CallInv, Created, sessionVars, clientVars, listVars
<1>5. LinkInv'
  BY <1>1, <1>2 DEF IInv, TypeOK, LinkInv, sessionVars
<1>6. Registry!Release
  BY <1>1 DEF Registry!Release, Alive, IInv, TypeOK, sessionVars
<1> QED
  BY <1>1, <1>3, <1>4, <1>5, <1>6 DEF IInv, Starts, Spares, clientVars

-----------------------------------------------------------------------------
(* close, the reaper, close_all *)

\* close() of a device pops its session and closes it.
LEMMA CloseCallStep ==
    ASSUME IInv, NEW c \in Clients, NEW d \in Devices, CloseCall(c, d)
    PROVE  IInv' /\ Registry!Release /\ Starts /\ Spares
<1> DEFINE s == reg[d]
<1>1. s \in Created /\ s \in Sessions /\ {s} \in SUBSET Created /\ TypeOK
  BY CreatedSessions DEF CloseCall, IInv, RegistryInv
<1>2. /\ Closes({s}) /\ reg' = [reg EXCEPT ![d] = None] /\ conn' = conn
      /\ UNCHANGED <<created, dev, lost, cleanup, opened, host, on, reaper, listVars>>
  BY DEF CloseCall
<1>3. closed'[s]
  BY <1>1, <1>2, ClosesEffect
<1>4. Calls(c, Created) /\ Starts
  <2>1. CASE Immediate(s)
    <3>1. UNCHANGED clientVars
      BY <1>2, <2>1 DEF CloseCall, clientVars
    <3> QED
      BY <3>1 DEF Calls, Starts, clientVars
  <2>2. CASE ~Immediate(s)
    <3>1. /\ pc' = [pc EXCEPT ![c] = "closing"] /\ op' = [op EXCEPT ![c] = "close"]
          /\ mine' = [mine EXCEPT ![c] = s]
      BY <2>2 DEF CloseCall
    <3>2. ClientTypes'
      BY <1>1, <1>2, <3>1 DEF TypeOK, ClientTypes
    <3>3. /\ pc'[c] = "closing" /\ mine'[c] = s
          /\ \A b \in Clients \ {c} : pc'[b] = pc[b] /\ mine'[b] = mine[b] /\ on'[b] = on[b]
      BY <1>1, <1>2, <3>1 DEF TypeOK
    <3> QED
      BY <1>1, <3>2, <3>3 DEF Calls, Moves, Starts
  <2> QED
    BY <2>1, <2>2
<1>5. /\ reg' \in [Devices -> Sessions \cup {None}]
      /\ \A e \in Devices : reg'[e] \in {reg[e], None}
      /\ \A e \in Devices : reg'[e] # reg[e] => reg[e] = s
  BY <1>1, <1>2 DEF TypeOK
<1>6. Lists'
  BY <1>1, <1>2, ListsKept DEF TypeOK
<1>7. IInv' /\ Registry!Release
  BY <1>1, <1>2, <1>4, <1>5, <1>6, PlainStep DEF TypeOK
<1> QED
  BY <1>3, <1>4, <1>5, <1>7 DEF Spares

\* A suspended close() ends.
LEMMA CloseDoneStep ==
    ASSUME IInv, NEW c \in Clients, CloseDone(c)
    PROVE  IInv' /\ Registry!Release /\ Starts /\ Spares
<1>1. TypeOK
  BY DEF IInv
<1>2. /\ UNCHANGED <<reg, created, dev, closed, lost, cleanup, opened, host, link, listVars>>
      /\ reaper' = reaper /\ Returns(c)
  BY DEF CloseDone, sessionVars
<1>3. Calls(c, Created) /\ Starts
  BY <1>1, <1>2, ReturnsMoves, NoStart
<1>4. Closes({}) /\ {} \in SUBSET Created /\ Lists'
  BY <1>1, <1>2, NothingCloses, ListsKept DEF TypeOK
<1>5. /\ conn' \in [Sessions -> Connections \cup {None}]
      /\ \A r \in Sessions : conn'[r] \in {conn[r], None}
  BY <1>1 DEF CloseDone, ForgetsConnections, TypeOK
<1>6. IInv' /\ Registry!Release
  BY <1>1, <1>2, <1>3, <1>4, <1>5, PlainStep DEF TypeOK
<1> QED
  BY <1>2, <1>3, <1>6 DEF Spares

\* The registry holds created sessions, and each under its own device.
LEMMA RegisteredCreated ==
    ASSUME IInv
    PROVE  /\ Registered \subseteq Created
           /\ \A s \in Registered : dev[s] \in Devices /\ reg[dev[s]] = s
BY DEF Registered, IInv, RegistryInv

\* A list of sessions is closed from its front.
LEMMA AdvancesEffect ==
    ASSUME NEW D \in SUBSET Created, NEW P \in SUBSET D, NEW X \in {{}} \cup {{s} : s \in D}
    PROVE  P \cup X \in SUBSET Created /\ X \in SUBSET Created /\ D \ (P \cup X) \in SUBSET Created
OBVIOUS

\* The reaper goes through its list; it starts from sessions that are
\* registered, or from those it has left and the one it closed.
LEMMA ReapStep ==
    ASSUME IInv, NEW D \in SUBSET Created, NEW F \in SUBSET Created, Reap(D, F)
    PROVE  /\ IInv' /\ Registry!Release /\ Starts
           /\ F = {} => \A d \in Devices : reg'[d] # reg[d] =>
                          \E s \in D : dev[s] = d /\ closed'[s]
<1>1. PICK P \in SUBSET D, X \in {{}} \cup {{s} : s \in D} :
        /\ Closes(P \cup X) /\ ForgetsConnections(F)
        /\ reg' = [d \in Devices |-> IF \E s \in F \cup P : dev[s] = d THEN None ELSE reg[d]]
        /\ doomed' = [doomed EXCEPT !["reaper"] = D \ (P \cup X)]
        /\ ending' = [ending EXCEPT !["reaper"] = X]
        /\ UNCHANGED <<created, dev, lost, cleanup, opened, host, clientVars, reaper, over>>
  BY DEF Reap
<1>2. /\ P \cup X \in SUBSET Created /\ X \in SUBSET Created /\ D \ (P \cup X) \in SUBSET Created
      /\ TypeOK /\ Created \subseteq Sessions
  BY AdvancesEffect, CreatedSessions DEF IInv
<1>3. /\ reg' \in [Devices -> Sessions \cup {None}]
      /\ \A d \in Devices : reg'[d] \in {reg[d], None}
      /\ \A d \in Devices : reg'[d] # reg[d] => \E s \in F \cup P : dev[s] = d
  BY <1>1, <1>2 DEF TypeOK
<1>4. /\ conn' \in [Sessions -> Connections \cup {None}]
      /\ \A r \in Sessions : conn'[r] \in {conn[r], None}
  BY <1>1, <1>2 DEF ForgetsConnections, TypeOK
<1>5. Lists'
  BY <1>1, <1>2 DEF Lists, IInv, TypeOK, RegistryInv, Listers, Created
<1>6. Calls(None, Created) /\ Starts
  BY <1>1 DEF Calls, Starts, clientVars
<1>7. IInv' /\ Registry!Release
  BY <1>1, <1>2, <1>3, <1>4, <1>5, <1>6, PlainStep
<1>8. \A s \in Sessions : closed'[s] <=> closed[s] \/ s \in P \cup X
  BY <1>1, <1>2, ClosesEffect
<1>9. ASSUME F = {}, NEW d \in Devices, reg'[d] # reg[d]
      PROVE  \E s \in D : dev[s] = d /\ closed'[s]
  <2>1. PICK s \in P : dev[s] = d
    BY <1>3, <1>9
  <2> QED
    BY <1>2, <1>8, <2>1
<1> QED
  BY <1>6, <1>7, <1>9

\* The reaper wakes up: what it takes from the registry it closed.
LEMMA ReaperTickStep ==
    ASSUME IInv, ReaperTick PROVE IInv' /\ Registry!Release /\ Starts /\ Spares
<1>1. PICK E \in SUBSET Registered : Reap(E \cup {s \in Registered : ~Alive(s)}, {})
  BY DEF ReaperTick
<1> DEFINE D == E \cup {s \in Registered : ~Alive(s)}
<1>2. D \subseteq Registered /\ D \in SUBSET Created /\ {} \in SUBSET Created
  BY RegisteredCreated
<1> HIDE DEF D
<1>3. /\ IInv' /\ Registry!Release /\ Starts
      /\ \A d \in Devices : reg'[d] # reg[d] => \E s \in D : dev[s] = d /\ closed'[s]
  BY <1>1, <1>2, ReapStep DEF D
<1>4. \A d \in Devices : reg'[d] # reg[d] => closed'[reg[d]]
  BY <1>2, <1>3, RegisteredCreated
<1> QED
  BY <1>3, <1>4 DEF Spares

\* The session the reaper waited for is closed.
LEMMA ReaperResumesStep == ASSUME IInv, ReaperResumes PROVE IInv' /\ Registry!Release /\ Starts
<1>1. doomed["reaper"] \in SUBSET Created /\ ending["reaper"] \in SUBSET Created
  BY DEF IInv, RegistryInv, Listers
<1> QED
  BY <1>1, ReapStep DEF ReaperResumes

\* close_all goes through its list; the registry is as it left it.
LEMMA CloseListStep ==
    ASSUME IInv, NEW D \in SUBSET Created, NEW F \in SUBSET Created, CloseList(D, F),
           reg' \in [Devices -> Sessions \cup {None}],
           \A d \in Devices : reg'[d] \in {reg[d], None}
    PROVE  IInv' /\ Registry!Release /\ Starts
<1>1. PICK P \in SUBSET D, X \in {{}} \cup {{s} : s \in D} :
        /\ Closes(P \cup X) /\ ForgetsConnections(F)
        /\ IF X = {}
           THEN /\ over' = "done" /\ reaper' = FALSE
                /\ doomed' = [w \in Listers |-> {}] /\ ending' = [w \in Listers |-> {}]
           ELSE /\ over' = "closing" /\ UNCHANGED reaper
                /\ doomed' = [doomed EXCEPT !["shutdown"] = D \ (P \cup X)]
                /\ ending' = [ending EXCEPT !["shutdown"] = X]
        /\ UNCHANGED <<created, dev, lost, cleanup, opened, host, clientVars>>
  BY DEF CloseList
<1>2. /\ P \cup X \in SUBSET Created /\ X \in SUBSET Created /\ D \ (P \cup X) \in SUBSET Created
      /\ TypeOK
  BY AdvancesEffect DEF IInv
<1>3. /\ conn' \in [Sessions -> Connections \cup {None}]
      /\ \A r \in Sessions : conn'[r] \in {conn[r], None}
  BY <1>1, <1>2 DEF ForgetsConnections, TypeOK
<1>4. Lists'
  <2>1. CASE X = {}
    BY <1>1, <2>1 DEF Lists
  <2>2. CASE X # {}
    <3>1. /\ over' = "closing" /\ reaper' = reaper /\ created' = created
          /\ doomed' = [doomed EXCEPT !["shutdown"] = D \ (P \cup X)]
          /\ ending' = [ending EXCEPT !["shutdown"] = X]
      BY <1>1, <2>2
    <3>2. over' \in {"no", "closing", "done"}
      BY <3>1
    <3> QED
      BY <1>2, <3>1, <3>2 DEF Lists, IInv, TypeOK, RegistryInv, Listers, Created
  <2> QED
    BY <2>1, <2>2
<1>5. Calls(None, Created) /\ Starts
  BY <1>1 DEF Calls, Starts, clientVars
<1> QED
  BY <1>1, <1>2, <1>3, <1>4, <1>5, PlainStep

\* close_all begins, or goes on.
LEMMA CloseAllStep ==
    ASSUME IInv, CloseAll \/ CloseAllResumes
    PROVE  IInv' /\ Registry!Release /\ Starts /\ (Spares \/ CloseAll)
<1>1. CASE CloseAll
  <2>1. /\ Registered \in SUBSET Created /\ {} \in SUBSET Created
        /\ reg' \in [Devices -> Sessions \cup {None}]
        /\ \A d \in Devices : reg'[d] \in {reg[d], None}
    BY <1>1, RegisteredCreated DEF CloseAll
  <2> QED
    BY <1>1, <2>1, CloseListStep DEF CloseAll
<1>2. CASE CloseAllResumes
  <2>1. /\ doomed["shutdown"] \in SUBSET Created /\ ending["shutdown"] \in SUBSET Created
        /\ reg' = reg /\ reg' \in [Devices -> Sessions \cup {None}]
    BY <1>2 DEF CloseAllResumes, IInv, TypeOK, RegistryInv, Listers
  <2> QED
    BY <1>2, <2>1, CloseListStep DEF CloseAllResumes, Spares
<1> QED
  BY <1>1, <1>2

-----------------------------------------------------------------------------
\* Every step keeps the invariant, is a step of the registry, starts commands
\* where they can run, and, but for the reaper and close_all, takes only dead
\* sessions from the registry.
THEOREM StepIInv ==
    ASSUME IInv, [Next]_vars
    PROVE  /\ IInv' /\ Starts
           /\ Registry!Next \/ UNCHANGED Registry!vars
           /\ Spares \/ ReaperResumes \/ CloseAll
<1>1. Registry!Release => Registry!Next
  BY DEF Registry!Next
<1>2. ASSUME NEW d \in Devices, Registry!Register(d, created + 1)
      PROVE  Registry!Next
  BY <1>2 DEF Registry!Next, Registry!Register
<1>3. ASSUME NEW c \in Clients, NEW d \in Devices,
             CloseCall(c, d) \/ \E kind \in {"execute", "open"} :
                                  CallReuses(c, d, kind) \/ CallCreates(c, d, kind)
      PROVE  IInv' /\ Registry!Next /\ Starts /\ Spares
  BY <1>1, <1>2, <1>3, CloseCallStep, CallReusesStep, CallCreatesStep
<1>4. ASSUME NEW c \in Clients,
             \/ Connects(c) \/ ConnectFails(c) \/ FailureClosed(c)
             \/ RunEnds(c) \/ RunTimesOut(c) \/ RunLost(c) \/ Cancel(c) \/ CloseDone(c)
      PROVE  IInv' /\ Registry!Next /\ Starts /\ Spares
  BY <1>1, <1>4, ConnectsStep, ConnectFailsStep, FailureClosedStep, RunEndsStep, RunLostStep,
     CloseDoneStep
<1>5. ASSUME NEW s \in Sessions, CleanupStarts(s) \/ CleanupEnds(s)
      PROVE  IInv' /\ Registry!Next /\ Starts /\ Spares
  BY <1>1, <1>5, CleanupStep
<1>6. ASSUME NEW k \in Connections, LinkLost(k)
      PROVE  IInv' /\ Registry!Next /\ Starts /\ Spares
  BY <1>1, <1>6, LinkLostStep
<1>7. CASE ReaperTick \/ ReaperResumes \/ CloseAll \/ CloseAllResumes
  BY <1>1, <1>7, ReaperTickStep, ReaperResumesStep, CloseAllStep
<1>8. CASE UNCHANGED vars
  <2>1. TypeOK'
    BY <1>8 DEF vars, IInv, TypeOK, sessionVars, linkVars, clientVars, listVars
  <2>2. RegistryInv' /\ CallInv' /\ LinkInv'
    BY <1>8 DEF vars, IInv, RegistryInv, CallInv, LinkInv, Created, sessionVars, linkVars,
                clientVars, listVars
  <2>3. UNCHANGED Registry!vars
    BY <1>8 DEF Registry!vars, vars, sessionVars, Alive
  <2> QED
    BY <1>8, <2>1, <2>2, <2>3 DEF Starts, Spares, vars, clientVars, IInv
<1> QED
  BY <1>3, <1>4, <1>5, <1>6, <1>7, <1>8 DEF Next

\* The invariant always holds.
THEOREM AlwaysIInv == Spec => []IInv
<1>1. ASSUME IInv, [Next]_vars PROVE IInv'
  BY <1>1, StepIInv
<1> QED
  BY <1>1, InitIInv, PTL DEF Spec

\* TypeOK: sessions, connections and calls keep their type.
THEOREM TypeCorrect == Spec => []TypeOK
<1>1. IInv => TypeOK
  BY DEF IInv
<1> QED
  BY <1>1, AlwaysIInv, PTL

\* A dead session in the registry has no connection to close.
THEOREM DeadIsEmpty == Spec => []DeadHoldsNothing
<1>1. IInv => DeadHoldsNothing
  BY DEF IInv, RegistryInv, DeadHoldsNothing, Alive, Immediate
<1> QED
  BY <1>1, AlwaysIInv, PTL

\* Commands start on connections that are not shut.
THEOREM StartsOpen == Spec => CommandStartsOnOpenConnection
<1>1. ASSUME IInv, [Next]_vars
      PROVE  [\A c \in Clients :
                pc'[c] = "running" /\ pc[c] # "running" => link'[on'[c]] \in {"up", "lost"}]_vars
  BY <1>1, StepIInv DEF Starts
<1> QED
  BY <1>1, AlwaysIInv, PTL DEF Spec, CommandStartsOnOpenConnection

\* SSHExecManager implements SessionRegistry: no session is registered twice,
\* or in the place of a living one, or revived.
THEOREM ManagerImplementsRegistry == Spec => ImplementsRegistry
<1>1. Init => Registry!Init
  BY BoundsAssumption DEF Init, Registry!Init
<1>2. ASSUME IInv, [Next]_vars PROVE [Registry!Next]_(Registry!vars)
  BY <1>2, StepIInv
<1> QED
  BY <1>1, <1>2, AlwaysIInv, PTL DEF Spec, ImplementsRegistry, Registry!Spec

\* Calls spare the living sessions of others.
THEOREM SessionsSpared == Spec => CallsSpareAlive
<1>1. ASSUME IInv, [Next]_vars
      PROVE  [\A d \in Devices :
                reg[d] # None /\ reg'[d] # reg[d] /\ ~closed'[reg[d]] /\ ~lost'[reg[d]] =>
                   ReaperResumes \/ CloseAll]_vars
  BY <1>1, StepIInv DEF Spares
<1> QED
  BY <1>1, AlwaysIInv, PTL DEF Spec, CallsSpareAlive

-----------------------------------------------------------------------------
(* A command runs on the device it was sent to *)

\* A command in progress runs on a connection made to its session's device,
\* also after the session was closed, replaced, or connected once more.
RunsOnItsDevice == \A c \in Clients : pc[c] = "running" => host[on[c]] = dev[mine[c]]

\* A call works for the device it was made for, and for no other until it ends.
StaysOnItsDevice ==
    [][\A c \in Clients : pc'[c] # "idle" =>
         /\ pc[c] # "idle" => dev'[mine'[c]] = dev[mine[c]]
         /\ \A d \in Devices, kind \in {"execute", "open"} :
              CallReuses(c, d, kind) \/ CallCreates(c, d, kind) => dev'[mine'[c]] = d]_vars

\* The connection of a session, and that of a command, were made to the
\* session's device, which is for good.
HostInv ==
    /\ \A s \in Sessions : conn[s] # None => s \in Created /\ host[conn[s]] = dev[s]
    /\ \A c \in Clients : pc[c] = "running" => on[c] \in 1 .. opened
    /\ RunsOnItsDevice

\* What StaysOnItsDevice says of a step.
Stays ==
    \A c \in Clients : pc'[c] # "idle" =>
        /\ pc[c] # "idle" => dev'[mine'[c]] = dev[mine[c]]
        /\ \A d \in Devices, kind \in {"execute", "open"} :
             CallReuses(c, d, kind) \/ CallCreates(c, d, kind) => dev'[mine'[c]] = d

\* What a caller does in a step in which it starts no command.
GoesOn(c) ==
    /\ pc'[c] # "idle" /\ pc[c] # "idle" => mine'[c] = mine[c]
    /\ pc'[c] = "running" => pc[c] = "running" /\ on'[c] = on[c]

\* A caller is left as it was, or returns.
LEMMA ReturnsGoesOn ==
    ASSUME TypeOK, NEW c \in Clients, Returns(c) PROVE \A b \in Clients : GoesOn(b)
BY DEF Returns, TypeOK, GoesOn

\* Only CallReuses, CallCreates and Connects change what a connection, a
\* session or a command is for.
LEMMA QuietHosts ==
    ASSUME IInv, HostInv, UNCHANGED <<created, dev, opened, host>>,
           \A s \in Sessions : conn'[s] \in {conn[s], None},
           \A c \in Clients : GoesOn(c)
    PROVE  /\ HostInv'
           /\ \A c \in Clients : pc'[c] # "idle" /\ pc[c] # "idle" =>
                dev'[mine'[c]] = dev[mine[c]]
<1>1. \A s \in Sessions : conn'[s] # None => s \in Created' /\ host'[conn'[s]] = dev'[s]
  BY DEF HostInv, Created
<1>2. \A c \in Clients : pc'[c] = "running" =>
        on'[c] \in 1 .. opened' /\ host'[on'[c]] = dev'[mine'[c]]
  BY DEF HostInv, RunsOnItsDevice, GoesOn
<1> QED
  BY <1>1, <1>2 DEF HostInv, RunsOnItsDevice, GoesOn

\* Where nobody makes a call, StaysOnItsDevice is about those in progress.
LEMMA NoCallStays ==
    ASSUME \A c \in Clients : pc[c] = "idle" => pc'[c] = "idle",
           \A c \in Clients : pc'[c] # "idle" /\ pc[c] # "idle" => dev'[mine'[c]] = dev[mine[c]]
    PROVE  Stays
BY DEF Stays, CallReuses, CallCreates

\* A call that is made for a device gets a session of that device.
LEMMA CallGetsItsDevice ==
    ASSUME IInv, NEW c \in Clients, NEW d \in Devices, NEW kind \in {"execute", "open"},
           CallReuses(c, d, kind) \/ CallCreates(c, d, kind), pc'[c] # "idle"
    PROVE  dev'[mine'[c]] = d
<1>1. TypeOK /\ pc[c] = "idle"
  BY DEF IInv, CallReuses, CallCreates
<1>2. CASE CallReuses(c, d, kind)
  <2>1. reg[d] # None /\ dev' = dev
    BY <1>2 DEF CallReuses, MustCreate, sessionVars
  <2>2. mine'[c] = reg[d]
    BY <1>1, <1>2 DEF CallReuses, clientVars, TypeOK
  <2> QED
    BY <2>1, <2>2 DEF IInv, RegistryInv
<1>3. CASE CallCreates(c, d, kind)
  <2>1. created + 1 \in Sessions
    BY <1>1, <1>3, BoundsAssumption DEF CallCreates, TypeOK, Sessions
  <2> QED
    BY <1>1, <1>3, <2>1 DEF CallCreates, TypeOK
<1> QED
  BY <1>2, <1>3

\* A call finds the session of its device, with a connection made to it.
LEMMA CallReusesHost ==
    ASSUME IInv, HostInv, NEW c \in Clients, NEW d \in Devices, NEW kind \in {"execute", "open"},
           CallReuses(c, d, kind)
    PROVE  HostInv' /\ Stays
<1> DEFINE s == reg[d]
<1>1. /\ s \in Sessions /\ dev[s] = d /\ s \in Created /\ TypeOK /\ pc[c] = "idle"
      /\ UNCHANGED <<created, dev, conn, opened, host>>
  BY CreatedSessions DEF CallReuses, MustCreate, Alive, IInv, RegistryInv, sessionVars, linkVars
<1>2. \A b \in Clients \ {c} : pc'[b] = pc[b] /\ mine'[b] = mine[b] /\ on'[b] = on[b]
  BY <1>1 DEF CallReuses, clientVars, TypeOK
<1>3. pc'[c] = "running" => conn[s] # None /\ on'[c] = conn[s] /\ mine'[c] = s
  BY <1>1 DEF CallReuses, Usable, clientVars, TypeOK
<1>4. \A b \in Clients : pc'[b] = "running" =>
        on'[b] \in 1 .. opened' /\ host'[on'[b]] = dev'[mine'[b]]
  BY <1>1, <1>2, <1>3 DEF HostInv, RunsOnItsDevice, IInv, LinkInv
<1>5. HostInv'
  BY <1>1, <1>4 DEF HostInv, RunsOnItsDevice, Created
<1>6. \A e \in Devices, k \in {"execute", "open"} : pc'[c] # "idle" =>
        (CallReuses(c, e, k) \/ CallCreates(c, e, k) => dev'[mine'[c]] = e)
  BY CallGetsItsDevice
<1>7. \A b \in Clients \ {c}, e \in Devices, k \in {"execute", "open"} : pc'[b] # "idle" =>
        ~CallReuses(b, e, k) /\ ~CallCreates(b, e, k)
  BY <1>2 DEF CallReuses, CallCreates
<1> QED
  BY <1>1, <1>2, <1>5, <1>6, <1>7 DEF Stays

\* A new session has no connection yet, and runs nothing.
LEMMA CallCreatesHost ==
    ASSUME IInv, HostInv, NEW c \in Clients, NEW d \in Devices, NEW kind \in {"execute", "open"},
           CallCreates(c, d, kind)
    PROVE  HostInv' /\ Stays
<1> DEFINE s == created + 1
<1>1. /\ s \in Sessions /\ s \notin Created /\ TypeOK /\ pc[c] = "idle"
      /\ dev' = [dev EXCEPT ![s] = d] /\ Created \subseteq Created'
      /\ UNCHANGED <<conn, opened, host, on>>
  BY BoundsAssumption DEF CallCreates, IInv, TypeOK, Created, Sessions
<1>2. /\ \A b \in Clients \ {c} : pc'[b] = pc[b] /\ mine'[b] = mine[b]
      /\ pc'[c] = "connecting"
  BY <1>1 DEF CallCreates, TypeOK
<1>3. \A r \in Created : dev'[r] = dev[r]
  BY <1>1, CreatedSessions DEF TypeOK
<1>4. \A b \in Clients \ {c} : pc[b] # "idle" => dev'[mine'[b]] = dev[mine[b]]
  BY <1>2, <1>3 DEF IInv, CallInv
<1>5. \A b \in Clients : pc'[b] = "running" =>
        on'[b] \in 1 .. opened' /\ host'[on'[b]] = dev'[mine'[b]]
  BY <1>1, <1>2, <1>4 DEF HostInv, RunsOnItsDevice
<1>6. HostInv'
  BY <1>1, <1>3, <1>5 DEF HostInv, RunsOnItsDevice
<1>7. \A e \in Devices, k \in {"execute", "open"} : pc'[c] # "idle" =>
        (CallReuses(c, e, k) \/ CallCreates(c, e, k) => dev'[mine'[c]] = e)
  BY CallGetsItsDevice
<1>8. \A b \in Clients \ {c}, e \in Devices, k \in {"execute", "open"} : pc'[b] # "idle" =>
        ~CallReuses(b, e, k) /\ ~CallCreates(b, e, k)
  BY <1>2 DEF CallReuses, CallCreates
<1> QED
  BY <1>1, <1>2, <1>4, <1>6, <1>7, <1>8 DEF Stays

\* A connection is made to the device of the session it is for.
LEMMA ConnectsHost ==
    ASSUME IInv, HostInv, NEW c \in Clients, Connects(c)
    PROVE  HostInv' /\ Stays
<1> DEFINE s == mine[c]
           k == opened + 1
<1>1. /\ s \in Created /\ s \in Sessions /\ TypeOK
      /\ k \in Connections /\ k \notin 1 .. opened /\ 1 .. opened' = (1 .. opened) \cup {k}
  BY MineCreated, BoundsAssumption DEF Connects, IInv, TypeOK, Connections
<1>2. /\ host' = [host EXCEPT ![k] = dev[s]] /\ conn' = [conn EXCEPT ![s] = k]
      /\ UNCHANGED <<created, dev>>
  BY DEF Connects, sessionVars
<1> HIDE DEF k
<1>3. \A b \in Clients \ {c} : pc'[b] = pc[b] /\ mine'[b] = mine[b] /\ on'[b] = on[b]
  BY <1>1 DEF Connects, Returns, TypeOK
<1>4. pc'[c] # "idle" => pc'[c] = "running" /\ mine'[c] = s /\ on'[c] = k
  BY <1>1 DEF Connects, Returns, TypeOK, k
<1>5. \A j \in 1 .. opened : host'[j] = host[j]
  BY <1>1, <1>2 DEF TypeOK
<1>6. host'[k] = dev[s]
  BY <1>1, <1>2 DEF TypeOK
<1>7. \A r \in Sessions : conn'[r] # None => r \in Created' /\ host'[conn'[r]] = dev'[r]
  <2>1. \A r \in Sessions \ {s} : conn'[r] = conn[r]
    BY <1>1, <1>2 DEF TypeOK
  <2>2. conn'[s] = k
    BY <1>1, <1>2 DEF TypeOK
  <2> QED
    BY <1>1, <1>2, <1>5, <1>6, <2>1, <2>2 DEF HostInv, IInv, LinkInv, Created
<1>8. \A b \in Clients : pc'[b] = "running" =>
        on'[b] \in 1 .. opened' /\ host'[on'[b]] = dev'[mine'[b]]
  BY <1>1, <1>2, <1>3, <1>4, <1>5, <1>6 DEF HostInv, RunsOnItsDevice
<1>9. Stays
  BY <1>2, <1>3, <1>4, NoCallStays DEF Connects
<1> QED
  BY <1>7, <1>8, <1>9 DEF HostInv, RunsOnItsDevice

\* The other steps of a caller.
LEMMA CallerHost ==
    ASSUME IInv, HostInv, NEW c \in Clients,
           \/ ConnectFails(c) \/ FailureClosed(c) \/ RunEnds(c) \/ RunTimesOut(c)
           \/ RunLost(c) \/ Cancel(c) \/ CloseDone(c) \/ \E d \in Devices : CloseCall(c, d)
    PROVE  HostInv' /\ Stays
<1>1. TypeOK
  BY DEF IInv
<1>2. UNCHANGED <<created, dev, opened, host>>
  BY DEF ConnectFails, FailureClosed, RunEnds, RunTimesOut, RunLost, Cancel, CloseDone, CloseCall,
         sessionVars, linkVars
<1>3. \A s \in Sessions : conn'[s] \in {conn[s], None}
  BY <1>1 DEF ConnectFails, FailureClosed, RunEnds, RunTimesOut, RunLost, Cancel, CloseDone,
              CloseCall, linkVars, ForgetsConnections
<1>4. /\ \A b \in Clients : GoesOn(b)
      /\ \/ pc' = [pc EXCEPT ![c] = "idle"]
         \/ pc' = pc
         \/ pc' = [pc EXCEPT ![c] = "failing"] /\ pc[c] # "idle"
         \/ (\E d \in Devices : CloseCall(c, d)) /\ pc' = [pc EXCEPT ![c] = "closing"]
  <2>1. CASE Returns(c)
    <3>1. \A b \in Clients : GoesOn(b)
      BY <1>1, <2>1, ReturnsGoesOn
    <3> QED
      BY <2>1, <3>1 DEF Returns
  <2>2. CASE ~Returns(c) /\ ConnectFails(c)
    <3>1. pc' = [pc EXCEPT ![c] = "failing"] /\ UNCHANGED <<mine, on>> /\ pc[c] # "idle"
      BY <2>2 DEF ConnectFails
    <3>2. \A b \in Clients : GoesOn(b)
      BY <1>1, <3>1 DEF TypeOK, GoesOn
    <3> QED
      BY <3>1, <3>2
  <2>3. CASE \E d \in Devices : CloseCall(c, d)
    <3>1. pc' = pc \/ pc' = [pc EXCEPT ![c] = "closing"]
      BY <2>3 DEF CloseCall
    <3>2. \A b \in Clients : GoesOn(b)
      BY <1>1, <2>3 DEF CloseCall, TypeOK, GoesOn
    <3> QED
      BY <2>3, <3>1, <3>2
  <2> QED
    BY <2>1, <2>2, <2>3 DEF FailureClosed, RunEnds, RunTimesOut, RunLost, Cancel, CloseDone
<1>5. /\ HostInv'
      /\ \A b \in Clients : pc'[b] # "idle" /\ pc[b] # "idle" => dev'[mine'[b]] = dev[mine[b]]
  BY <1>2, <1>3, <1>4, QuietHosts
<1>6. Stays
  <2>1. CASE \E d \in Devices : CloseCall(c, d)
    <3>1. PICK d \in Devices : CloseCall(c, d)
      BY <2>1
    <3>2. \A b \in Clients, e \in Devices, k \in {"execute", "open"} :
            ~CallReuses(b, e, k) /\ ~CallCreates(b, e, k)
      <4>1. reg[d] # None /\ reg' = [reg EXCEPT ![d] = None] /\ created' = created
        BY <3>1 DEF CloseCall
      <4>2. reg'[d] # reg[d]
        BY <1>1, <4>1 DEF TypeOK
      <4> QED
        BY <1>1, <4>1, <4>2 DEF CallReuses, CallCreates, TypeOK
    <3> QED
      BY <1>5, <3>2 DEF Stays
  <2>2. CASE ~\E d \in Devices : CloseCall(c, d)
    BY <1>1, <1>4, <1>5, <2>2, NoCallStays DEF TypeOK
  <2> QED
    BY <2>1, <2>2
<1> QED
  BY <1>5, <1>6

\* The commands of all calls in progress stay on their devices.
LEMMA HostStep == ASSUME IInv, HostInv, [Next]_vars PROVE HostInv' /\ Stays
<1>1. CASE UNCHANGED vars
  <2>1. \A c \in Clients : GoesOn(c)
    BY <1>1 DEF vars, clientVars, GoesOn
  <2> QED
    BY <1>1, <2>1, QuietHosts, NoCallStays DEF vars, clientVars, sessionVars, linkVars
<1>2. ASSUME NEW s \in Sessions, CleanupStarts(s) \/ CleanupEnds(s) PROVE HostInv' /\ Stays
  <2>1. UNCHANGED <<created, dev, opened, host, clientVars>>
    BY <1>2 DEF CleanupStarts, CleanupEnds
  <2>2. \A r \in Sessions : conn'[r] \in {conn[r], None}
    BY <1>2 DEF CleanupStarts, CleanupEnds, ForgetsConnections
  <2> QED
    BY <2>1, <2>2, QuietHosts, NoCallStays DEF clientVars, GoesOn
<1>3. ASSUME NEW k \in Connections, LinkLost(k) PROVE HostInv' /\ Stays
  BY <1>3, QuietHosts, NoCallStays DEF LinkLost, clientVars, sessionVars, GoesOn
<1>4. CASE ReaperTick \/ ReaperResumes \/ CloseAll \/ CloseAllResumes
  <2>1. UNCHANGED <<created, dev, opened, host, clientVars>>
    BY <1>4 DEF ReaperTick, ReaperResumes, Reap, CloseAll, CloseAllResumes, CloseList
  <2>2. \A r \in Sessions : conn'[r] \in {conn[r], None}
    BY <1>4 DEF ReaperTick, ReaperResumes, Reap, CloseAll, CloseAllResumes, CloseList,
                ForgetsConnections
  <2> QED
    BY <2>1, <2>2, QuietHosts, NoCallStays DEF clientVars, GoesOn
<1> QED
  BY <1>1, <1>2, <1>3, <1>4, CallReusesHost, CallCreatesHost, ConnectsHost, CallerHost DEF Next

\* A command runs on a connection made to the device it was sent to: the
\* callers of a session share connections that come and go, but a call never
\* ends up with a session of another device, nor a session with a connection
\* of another one.
THEOREM CommandsReachTheirDevice == Spec => []RunsOnItsDevice /\ StaysOnItsDevice
<1>1. Init => HostInv
  BY DEF Init, HostInv, RunsOnItsDevice
<1>2. ASSUME IInv, HostInv, [Next]_vars PROVE HostInv' /\ [Stays]_vars
  BY <1>2, HostStep
<1>3. HostInv => RunsOnItsDevice
  BY DEF HostInv
<1>4. Spec => []HostInv /\ [][Stays]_vars
  BY <1>1, <1>2, AlwaysIInv, PTL DEF Spec
<1> QED
  BY <1>3, <1>4, PTL DEF StaysOnItsDevice, Stays

-----------------------------------------------------------------------------
(* What is lost, forgotten or taken by close_all is closed *)

\* A session that lost a command is closed, or the task that will close it is
\* there.
LostIsCleanedUp ==
    \A s \in Sessions : lost[s] => cleanup[s] # "none" /\ (cleanup[s] # "pending" => closed[s])

\* What a step may forget: a connection that is up is given up only by a
\* session that was closed while the connection was being made, or for the
\* second connection of another call (the finding OneConnectionPerDevice).
Forgets ==
    \A s \in Sessions :
        conn[s] # None /\ link[conn[s]] = "up" /\ conn'[s] # conn[s] =>
            closed[s] \/ \E c \in Clients : Connects(c) /\ mine[c] = s

ForgetsOnlyLate == [][Forgets]_vars

\* close_all took the session: it has it on its list, or it is closed.
Taken(s) == over # "no" /\ (closed[s] \/ (over = "closing" /\ s \in doomed["shutdown"]))

Takes ==
    \A s \in Sessions : Taken(s) \/ (CloseAll /\ s \in Registered) => Taken(s)'

\* What is registered when close_all() begins is taken, and stays it: when
\* close_all() is done the session is closed.
ShutdownClosesAll == [][Takes]_vars

\* Whoever waits for the end of a close() waits for that of a closed session.
EndInv ==
    /\ \A c \in Clients : pc[c] \in {"failing", "closing"} => closed[mine[c]]
    /\ \A w \in Listers : \A s \in ending[w] : closed[s]
    /\ \A s \in Sessions : cleanup[s] \in {"closing", "done"} => closed[s]
    /\ \A s \in Sessions : lost[s] => cleanup[s] # "none"

\* Closed sessions stay closed.
StaysClosed == \A s \in Sessions : closed[s] => closed'[s]

\* A step in which nobody begins to wait for a session that is not closed.
LEMMA QuietEnd ==
    ASSUME IInv, EndInv, StaysClosed, IInv',
           \A c \in Clients : pc'[c] \in {"failing", "closing"} =>
               closed'[mine'[c]] \/ (pc[c] = pc'[c] /\ mine[c] = mine'[c]),
           \A w \in Listers : \A s \in ending'[w] : s \in ending[w] \/ closed'[s],
           \A s \in Sessions : cleanup'[s] \in {"closing", "done"} =>
               closed'[s] \/ cleanup[s] \in {"closing", "done"},
           \A s \in Sessions : lost'[s] => lost[s] \/ cleanup'[s] # "none",
           \A s \in Sessions : cleanup[s] # "none" => cleanup'[s] # "none"
    PROVE  EndInv'
<1>1. Created \subseteq Sessions
  BY CreatedSessions DEF IInv
<1>2. \A c \in Clients : pc'[c] \in {"failing", "closing"} => closed'[mine'[c]]
  BY <1>1 DEF EndInv, StaysClosed, IInv, CallInv
<1>3. \A w \in Listers : \A s \in ending'[w] : closed'[s]
  BY <1>1 DEF EndInv, StaysClosed, IInv, RegistryInv
<1>4. \A s \in Sessions : cleanup'[s] \in {"closing", "done"} => closed'[s]
  BY DEF EndInv, StaysClosed
<1>5. \A s \in Sessions : lost'[s] => cleanup'[s] # "none"
  BY DEF EndInv
<1> QED
  BY <1>2, <1>3, <1>4, <1>5 DEF EndInv

\* Outside the lists, what close_all took stays taken.
LEMMA QuietTakes == ASSUME StaysClosed, UNCHANGED <<over, doomed>>, ~CloseAll PROVE Takes
BY DEF StaysClosed, Takes, Taken

\* A caller's step.
LEMMA CallerEnd ==
    ASSUME IInv, EndInv, IInv', NEW c \in Clients,
           \/ Connects(c) \/ ConnectFails(c) \/ FailureClosed(c) \/ RunEnds(c) \/ RunTimesOut(c)
           \/ RunLost(c) \/ Cancel(c) \/ CloseDone(c)
           \/ \E d \in Devices :
                CloseCall(c, d) \/ \E kind \in {"execute", "open"} :
                                     CallReuses(c, d, kind) \/ CallCreates(c, d, kind)
    PROVE  EndInv' /\ Forgets /\ Takes
<1>1. TypeOK
  BY DEF IInv
<1>2. UNCHANGED listVars /\ ~CloseAll
  <2>1. over' = over /\ UNCHANGED listVars
    BY DEF Connects, ConnectFails, FailureClosed, RunEnds, RunTimesOut, RunLost, Cancel, CloseDone,
           CloseCall, CallReuses, CallCreates, listVars
  <2> QED
    BY <2>1 DEF CloseAll, CloseList
<1>3. StaysClosed
  <2>1. CASE UNCHANGED closed
    BY <2>1 DEF StaysClosed
  <2>2. CASE \E C : Closes(C)
    BY <1>1, <2>2, ClosesEffect DEF StaysClosed
  <2> QED
    BY <2>1, <2>2 DEF Connects, ConnectFails, FailureClosed, RunEnds, RunTimesOut, RunLost, Cancel,
       CloseDone, CloseCall, CallReuses, CallCreates, sessionVars
<1>4. \A b \in Clients : pc'[b] \in {"failing", "closing"} =>
        closed'[mine'[b]] \/ (pc[b] = pc'[b] /\ mine[b] = mine'[b])
  <2>1. CASE ConnectFails(c)
    <3>1. Closes({mine[c]}) /\ mine[c] \in Sessions
      BY <2>1, MineCreated DEF ConnectFails
    <3>2. closed'[mine[c]]
      BY <1>1, <3>1, ClosesEffect
    <3> QED
      BY <1>1, <2>1, <3>2 DEF ConnectFails, Returns, TypeOK
  <2>2. ASSUME NEW d \in Devices, CloseCall(c, d)
        PROVE  \A b \in Clients : pc'[b] \in {"failing", "closing"} =>
                 closed'[mine'[b]] \/ (pc[b] = pc'[b] /\ mine[b] = mine'[b])
    <3>1. Closes({reg[d]}) /\ reg[d] \in Sessions
      BY <1>1, <2>2 DEF CloseCall, TypeOK
    <3>2. closed'[reg[d]]
      BY <1>1, <3>1, ClosesEffect
    <3> QED
      BY <1>1, <2>2, <3>2 DEF CloseCall, TypeOK
  <2>3. CASE Returns(c) \/ UNCHANGED clientVars
    BY <1>1, <2>3 DEF Returns, clientVars, TypeOK
  <2>4. CASE Connects(c) /\ ~Returns(c)
    BY <1>1, <2>4 DEF Connects, TypeOK
  <2>5. ASSUME NEW d \in Devices, NEW kind \in {"execute", "open"},
               CallReuses(c, d, kind) \/ CallCreates(c, d, kind)
        PROVE  \A b \in Clients : pc'[b] \in {"failing", "closing"} =>
                 closed'[mine'[b]] \/ (pc[b] = pc'[b] /\ mine[b] = mine'[b])
    BY <1>1, <2>5 DEF CallReuses, CallCreates, clientVars, TypeOK
  <2> QED
    BY <2>1, <2>2, <2>3, <2>4, <2>5 DEF FailureClosed, RunEnds, RunTimesOut, RunLost, Cancel,
       CloseDone
<1>5. /\ \A s \in Sessions : lost'[s] => lost[s] \/ cleanup'[s] # "none"
      /\ \A s \in Sessions : cleanup[s] # "none" => cleanup'[s] # "none"
      /\ \A s \in Sessions : cleanup'[s] \in {"closing", "done"} => cleanup[s] \in {"closing", "done"}
  <2>1. CASE RunLost(c)
    BY <1>1, <2>1 DEF RunLost, TypeOK
  <2>2. CASE UNCHANGED <<lost, cleanup>>
    BY <2>2
  <2> QED
    BY <2>1, <2>2 DEF Connects, ConnectFails, FailureClosed, RunEnds, RunTimesOut, Cancel,
       CloseDone, CloseCall, CallReuses, CallCreates, sessionVars
<1>6. EndInv'
  BY <1>2, <1>3, <1>4, <1>5, QuietEnd DEF listVars
<1>7. Forgets
  <2>1. CASE UNCHANGED conn
    BY <2>1 DEF Forgets
  <2>2. CASE Connects(c)
    BY <1>1, <2>2 DEF Connects, Forgets, TypeOK
  <2>3. CASE FailureClosed(c) \/ CloseDone(c)
    <3>1. closed[mine[c]] /\ ForgetsConnections({mine[c]})
      BY <2>3 DEF FailureClosed, CloseDone, EndInv
    <3> QED
      BY <3>1 DEF ForgetsConnections, Forgets
  <2> QED
    BY <2>1, <2>2, <2>3 DEF ConnectFails, RunEnds, RunTimesOut, RunLost, Cancel,
       CloseCall, CallReuses, CallCreates, linkVars
<1> QED
  BY <1>2, <1>3, <1>6, <1>7, QuietTakes DEF listVars

\* The task a lost command left closes its session.
LEMMA CleanupEnd ==
    ASSUME IInv, EndInv, IInv', NEW s \in Sessions, CleanupStarts(s) \/ CleanupEnds(s)
    PROVE  EndInv' /\ Forgets /\ Takes
<1>1. /\ TypeOK /\ UNCHANGED <<lost, clientVars, listVars>> /\ ~CloseAll
  <2>1. UNCHANGED <<lost, clientVars, listVars>> /\ over' = over
    BY DEF CleanupStarts, CleanupEnds, listVars
  <2> QED
    BY <2>1 DEF CloseAll, CloseList, IInv
<1>2. StaysClosed /\ (CleanupStarts(s) => closed'[s])
  BY <1>1, ClosesEffect DEF CleanupStarts, CleanupEnds, StaysClosed
<1>3. /\ \A r \in Sessions : cleanup'[r] \in {"closing", "done"} =>
           closed'[r] \/ cleanup[r] \in {"closing", "done"}
      /\ \A r \in Sessions : cleanup[r] # "none" => cleanup'[r] # "none"
  BY <1>1, <1>2 DEF CleanupStarts, CleanupEnds, TypeOK
<1>4. EndInv'
  BY <1>1, <1>2, <1>3, QuietEnd DEF listVars, clientVars
<1>5. Forgets
  <2>1. CASE CleanupStarts(s)
    BY <2>1 DEF CleanupStarts, Forgets
  <2>2. CASE CleanupEnds(s)
    <3>1. closed[s] /\ ForgetsConnections({s})
      BY <2>2 DEF CleanupEnds, EndInv
    <3> QED
      BY <3>1 DEF ForgetsConnections, Forgets
  <2> QED
    BY <2>1, <2>2
<1> QED
  BY <1>1, <1>2, <1>4, <1>5, QuietTakes DEF listVars

\* The reaper goes through its list.
LEMMA ReapEnd ==
    ASSUME IInv, EndInv, IInv', NEW D \in SUBSET Created, NEW F \in SUBSET Created, Reap(D, F),
           \A s \in F : closed[s]
    PROVE  EndInv' /\ Forgets /\ Takes
<1>1. PICK P \in SUBSET D, X \in {{}} \cup {{s} : s \in D} :
        /\ Closes(P \cup X) /\ ForgetsConnections(F)
        /\ doomed' = [doomed EXCEPT !["reaper"] = D \ (P \cup X)]
        /\ ending' = [ending EXCEPT !["reaper"] = X]
        /\ UNCHANGED <<created, dev, lost, cleanup, opened, host, clientVars, reaper, over>>
  BY DEF Reap
<1>2. TypeOK /\ X \subseteq Sessions
  BY CreatedSessions DEF IInv
<1>3. StaysClosed /\ \A s \in X : closed'[s]
  BY <1>1, <1>2, ClosesEffect DEF StaysClosed
<1>4. \A w \in Listers : \A s \in ending'[w] : s \in ending[w] \/ closed'[s]
  BY <1>1, <1>2, <1>3 DEF TypeOK, Listers
<1>5. EndInv'
  BY <1>1, <1>3, <1>4, QuietEnd DEF clientVars
<1>6. Forgets
  BY <1>1 DEF ForgetsConnections, Forgets
<1>7. Takes
  <2>1. ~CloseAll /\ doomed'["shutdown"] = doomed["shutdown"] /\ over' = over
    BY <1>1, <1>2 DEF CloseAll, CloseList, TypeOK, Listers
  <2> QED
    BY <1>3, <2>1 DEF Takes, Taken, StaysClosed
<1> QED
  BY <1>5, <1>6, <1>7

\* close_all goes through its list: what it does not close yet stays on it.
LEMMA CloseListEnd ==
    ASSUME IInv, EndInv, IInv', NEW D \in SUBSET Created, NEW F \in SUBSET Created,
           CloseList(D, F), \A s \in F : closed[s],
           \A s \in Sessions : Taken(s) \/ (CloseAll /\ s \in Registered) => closed[s] \/ s \in D
    PROVE  EndInv' /\ Forgets /\ Takes
<1>1. PICK P \in SUBSET D, X \in {{}} \cup {{s} : s \in D} :
        /\ Advances(D, P, X)
        /\ Closes(P \cup X) /\ ForgetsConnections(F)
        /\ IF X = {}
           THEN /\ over' = "done" /\ reaper' = FALSE
                /\ doomed' = [w \in Listers |-> {}] /\ ending' = [w \in Listers |-> {}]
           ELSE /\ over' = "closing" /\ UNCHANGED reaper
                /\ doomed' = [doomed EXCEPT !["shutdown"] = D \ (P \cup X)]
                /\ ending' = [ending EXCEPT !["shutdown"] = X]
        /\ UNCHANGED <<created, dev, lost, cleanup, opened, host, clientVars>>
  BY DEF CloseList
<1>2. TypeOK /\ X \subseteq Sessions
  BY CreatedSessions DEF IInv
<1>3. /\ StaysClosed /\ \A s \in X : closed'[s]
      /\ \A s \in Sessions : closed'[s] <=> closed[s] \/ s \in P \cup X
  BY <1>1, <1>2, ClosesEffect DEF StaysClosed
<1>4. \A w \in Listers : \A s \in ending'[w] : s \in ending[w] \/ closed'[s]
  <2>1. CASE X = {}
    BY <1>1, <2>1
  <2>2. CASE X # {}
    BY <1>1, <1>2, <1>3, <2>2 DEF TypeOK, Listers
  <2> QED
    BY <2>1, <2>2
<1>5. EndInv'
  BY <1>1, <1>3, <1>4, QuietEnd DEF clientVars
<1>6. Forgets
  BY <1>1 DEF ForgetsConnections, Forgets
<1>7. Takes
  <2>1. CASE X = {}
    <3>1. P = D /\ over' = "done"
      BY <1>1, <2>1 DEF Advances
    <3> QED
      BY <1>3, <3>1 DEF Takes, Taken
  <2>2. CASE X # {}
    <3>1. over' = "closing" /\ doomed'["shutdown"] = D \ (P \cup X)
      BY <1>1, <1>2, <2>2 DEF TypeOK, Listers
    <3> QED
      BY <1>3, <3>1 DEF Takes, Taken
  <2> QED
    BY <2>1, <2>2
<1> QED
  BY <1>5, <1>6, <1>7

\* The ends of sessions, step by step.
LEMMA EndStep == ASSUME IInv, EndInv, [Next]_vars PROVE EndInv' /\ Forgets /\ Takes
<1>1. IInv' /\ TypeOK
  BY StepIInv DEF IInv
<1>2. ASSUME UNCHANGED <<closed, lost, cleanup, conn, clientVars, over, doomed, ending>>
      PROVE  EndInv' /\ Forgets /\ Takes
  <2>1. StaysClosed /\ ~CloseAll
    BY <1>2 DEF StaysClosed, CloseAll, CloseList
  <2> QED
    BY <1>1, <1>2, <2>1, QuietEnd, QuietTakes DEF clientVars, Forgets
<1>3. CASE UNCHANGED vars
  BY <1>2, <1>3 DEF vars, sessionVars, linkVars, listVars
<1>4. ASSUME NEW k \in Connections, LinkLost(k) PROVE EndInv' /\ Forgets /\ Takes
  BY <1>2, <1>4 DEF LinkLost, sessionVars, listVars
<1>5. ASSUME ReaperTick PROVE EndInv' /\ Forgets /\ Takes
  <2>1. PICK E \in SUBSET Registered : Reap(E \cup {s \in Registered : ~Alive(s)}, {})
    BY <1>5 DEF ReaperTick
  <2>2. E \cup {s \in Registered : ~Alive(s)} \in SUBSET Created /\ {} \in SUBSET Created
    BY RegisteredCreated
  <2> QED
    BY <1>1, <2>1, <2>2, ReapEnd
<1>6. ASSUME ReaperResumes PROVE EndInv' /\ Forgets /\ Takes
  <2>1. /\ doomed["reaper"] \in SUBSET Created /\ ending["reaper"] \in SUBSET Created
        /\ \A s \in ending["reaper"] : closed[s]
    BY DEF IInv, RegistryInv, Listers, EndInv
  <2> QED
    BY <1>1, <1>6, <2>1, ReapEnd DEF ReaperResumes
<1>7. ASSUME CloseAll PROVE EndInv' /\ Forgets /\ Takes
  <2>1. Registered \in SUBSET Created /\ {} \in SUBSET Created
    BY RegisteredCreated
  <2>2. \A s \in Sessions : ~Taken(s)
    BY <1>7 DEF CloseAll, Taken
  <2> QED
    BY <1>1, <1>7, <2>1, <2>2, CloseListEnd DEF CloseAll
<1>8. ASSUME CloseAllResumes PROVE EndInv' /\ Forgets /\ Takes
  <2>1. /\ doomed["shutdown"] \in SUBSET Created /\ ending["shutdown"] \in SUBSET Created
        /\ \A s \in ending["shutdown"] : closed[s]
    BY DEF IInv, RegistryInv, Listers, EndInv
  <2>2. \A s \in Sessions : Taken(s) \/ (CloseAll /\ s \in Registered) =>
          closed[s] \/ s \in doomed["shutdown"]
    BY <1>8 DEF Taken, CloseAll, CloseAllResumes
  <2> QED
    BY <1>1, <1>8, <2>1, <2>2, CloseListEnd DEF CloseAllResumes
<1>9. ASSUME NEW c \in Clients,
             \/ Connects(c) \/ ConnectFails(c) \/ FailureClosed(c) \/ RunEnds(c) \/ RunTimesOut(c)
             \/ RunLost(c) \/ Cancel(c) \/ CloseDone(c)
             \/ \E d \in Devices :
                  CloseCall(c, d) \/ \E kind \in {"execute", "open"} :
                                       CallReuses(c, d, kind) \/ CallCreates(c, d, kind)
      PROVE  EndInv' /\ Forgets /\ Takes
  BY <1>1, <1>9, CallerEnd
<1>10. ASSUME NEW s \in Sessions, CleanupStarts(s) \/ CleanupEnds(s)
       PROVE  EndInv' /\ Forgets /\ Takes
  BY <1>1, <1>10, CleanupEnd
<1> QED
  BY <1>3, <1>4, <1>5, <1>6, <1>7, <1>8, <1>9, <1>10 DEF Next

\* These steps, in every behaviour.
LEMMA AlwaysEndInv == Spec => []EndInv /\ [][Forgets]_vars /\ [][Takes]_vars
<1>1. Init => EndInv
  BY DEF Init, EndInv
<1>2. ASSUME IInv, EndInv, [Next]_vars PROVE EndInv' /\ [Forgets]_vars /\ [Takes]_vars
  BY <1>2, EndStep
<1> QED
  BY <1>1, <1>2, AlwaysIInv, PTL DEF Spec

\* _run: whatever interrupts a command, its session is marked lost only
\* together with the task that closes it, and that task, which may be one of
\* several, leaves it closed.
THEOREM LostSessionsAreClosed == Spec => []LostIsCleanedUp
<1>1. IInv /\ EndInv => LostIsCleanedUp
  BY DEF IInv, TypeOK, EndInv, LostIsCleanedUp
<1> QED
  BY <1>1, AlwaysIInv, AlwaysEndInv, PTL

\* The only connections that nobody will close are those of the finding
\* exec_two_connects and those made for a session that was closed meanwhile.
THEOREM ConnectionsForgottenLate == Spec => ForgetsOnlyLate
BY AlwaysEndInv, PTL DEF ForgetsOnlyLate

\* close_all: whatever was registered when it began is closed when it is
\* done, also where calls, failures and the reaper close sessions meanwhile.
THEOREM ShutdownTakesAll == Spec => ShutdownClosesAll
BY AlwaysEndInv, PTL DEF ShutdownClosesAll
=============================================================================
