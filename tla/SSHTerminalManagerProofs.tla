---------------------- MODULE SSHTerminalManagerProofs ----------------------
(***************************************************************************)
(* Proofs about SSHTerminalManager, for any number of callers, devices and *)
(* sessions: what the registry holds can be used, and stays within         *)
(* MAX_SESSIONS, so that a refused open never loses a session; what is     *)
(* lost of a connected session is lost to the close of an older one;       *)
(* close_all takes what was registered.                                    *)
(***************************************************************************)
EXTENDS SSHTerminalManager, FiniteSetTheorems, TLAPS

Created == 1 .. created

\* A session is registered under its own device, and one not created yet is
\* untouched.
RegistryInv ==
    /\ \A d \in Devices : reg[d] # None => reg[d] \in Created /\ dev[reg[d]] = d
    /\ \A s \in Created : dev[s] \in Devices
    /\ \A s \in Sessions \ Created : shut[s] = "no"

\* What a suspended call, the reaper and close_all have in hand was created;
\* the stale session of an open and the list of close_all left the registry
\* for good.
HandsInv ==
    /\ \A c \in Clients : pc[c] # "idle" => mine[c] \in Created
    /\ \A c \in Clients : pc[c] = "stale" => stale[c] \in Created \ Registered
    /\ doomed \cup reaping \subseteq Created
    /\ left \cup closing \subseteq Created \ Registered

IInv == TypeOK /\ RegistryInv /\ HandsInv /\ RegisteredUsable

-----------------------------------------------------------------------------
\* The initial registry is empty.
THEOREM InitIInv == Init => IInv
<1> SUFFICES ASSUME Init PROVE IInv
  OBVIOUS
<1>1. TypeOK
  <2>1. created \in 0 .. SessionBound
    BY BoundsAssumption DEF Init
  <2>2. reaper \in BOOLEAN /\ ready \in [Sessions -> BOOLEAN]
    BY DEF Init
  <2> QED
    BY <2>1, <2>2 DEF Init, TypeOK, Steps
<1>2. Registered = {}
  BY DEF Init, Registered
<1> QED
  BY <1>1, <1>2, BoundsAssumption DEF Init, IInv, RegistryInv, HandsInv, RegisteredUsable, Created

\* Steps that leave the registry and the lists alone and close nothing for
\* good: only the connections, the ages and the callers' steps move.
LEMMA QuietStep ==
    ASSUME IInv, TypeOK',
           UNCHANGED <<reg, created, dev, doomed, reaping, left, closing>>,
           \A s \in Sessions : shut'[s] = shut[s]
                               \/ (s \in Created /\ shut'[s] = "closing")
                               \/ (s \in Created \ Registered /\ shut'[s] = "closed"),
           \A c \in Clients : pc'[c] # "idle" => mine'[c] \in Created,
           \A c \in Clients : pc'[c] = "stale" => pc[c] = "stale" /\ stale'[c] = stale[c]
    PROVE  IInv'
<1>1. Registered' = Registered /\ Created' = Created
  BY DEF Registered, Created
<1>2. RegistryInv'
  BY <1>1 DEF IInv, RegistryInv
<1>3. HandsInv'
  BY <1>1 DEF IInv, HandsInv
<1>4. RegisteredUsable'
  <2>1. \A s \in Registered : s \in Sessions
    BY DEF Registered, IInv, TypeOK
  <2> QED
    BY <1>1, <2>1 DEF IInv, RegisteredUsable
<1> QED
  BY <1>2, <1>3, <1>4 DEF IInv

\* Steps that close sessions and pop their devices.  What stays registered
\* was registered, and is none of those closed for good.
LEMMA PopStep ==
    ASSUME IInv, TypeOK', UNCHANGED <<created, dev>>,
           \A d \in Devices : reg'[d] \in {reg[d], None},
           \A s \in Sessions : shut'[s] = shut[s]
                               \/ (s \in Created /\ shut'[s] = "closing")
                               \/ (s \in Created /\ \A d \in Devices : reg'[d] # s),
           \A c \in Clients : pc'[c] # "idle" => mine'[c] \in Created,
           \A c \in Clients : pc'[c] = "stale" => pc[c] = "stale" /\ stale'[c] = stale[c],
           doomed' \cup reaping' \subseteq Created,
           left' \cup closing' \subseteq left \cup closing \cup (Registered \ Registered')
    PROVE  IInv'
<1>1. Registered' \subseteq Registered /\ Created' = Created
  BY DEF Registered, Created
<1>2. Registered \subseteq Created
  BY DEF Registered, IInv, RegistryInv
<1>3. RegistryInv'
  BY <1>1 DEF IInv, RegistryInv
<1>4. HandsInv'
  BY <1>1, <1>2 DEF IInv, HandsInv
<1>5. RegisteredUsable'
  <2> SUFFICES ASSUME NEW s \in Registered' PROVE shut'[s] # "closed"
    BY DEF RegisteredUsable
  <2>1. PICK d \in Devices : reg'[d] = s /\ s # None
    BY DEF Registered
  <2>2. s \in Registered /\ s \in Sessions
    BY <1>1, <2>1 DEF IInv, TypeOK, Registered
  <2>3. shut[s] # "closed"
    BY <2>2 DEF IInv, RegisteredUsable
  <2> QED
    BY <2>1, <2>2, <2>3
<1> QED
  BY <1>3, <1>4, <1>5 DEF IInv

\* session.close() called on one session, up to where it suspends.
LEMMA Close1Effect ==
    ASSUME TypeOK, NEW s \in Sessions, Close1(s)
    PROVE  /\ shut' \in [Sessions -> {"no", "closing", "closed"}]
           /\ conn' \in [Sessions -> {"none", "up", "down"}]
           /\ \A t \in Sessions : shut'[t] = shut[t] \/ t = s
           /\ ~Immediate(s) => shut'[s] = "closing"
           /\ shut'[s] \in {"closing", "closed"}
BY DEF Close1, ShutAfter, ConnAfter, Immediate, TypeOK

\* A suspended session.close() that resumes and ends.
LEMMA CloseEndsEffect ==
    ASSUME TypeOK, NEW s \in Sessions, CloseEnds(s)
    PROVE  /\ shut' \in [Sessions -> {"no", "closing", "closed"}]
           /\ conn' \in [Sessions -> {"none", "up", "down"}]
           /\ \A t \in Sessions : shut'[t] = shut[t] \/ t = s
BY DEF CloseEnds, ShutAfter, TypeOK

\* The sessions constructed so far are sessions.
LEMMA CreatedSessions == ASSUME TypeOK PROVE Created \subseteq Sessions
BY BoundsAssumption DEF TypeOK, Created, Sessions

\* Popping the device of a session takes that session out of the registry.
LEMMA PopEffect ==
    ASSUME IInv, NEW s \in Created, reg' = Pop(s)
    PROVE  /\ reg' \in [Devices -> Sessions \cup {None}]
           /\ \A d \in Devices : reg'[d] \in {reg[d], None} /\ reg'[d] # s
<1>1. s \in Sessions /\ dev[s] \in Devices
  BY CreatedSessions DEF IInv, RegistryInv
<1>2. s # None
  BY NoneAssumption, <1>1 DEF Sessions
<1> QED
  BY <1>1, <1>2 DEF IInv, TypeOK, RegistryInv, Pop

\* Only constructed sessions are in _sessions.
LEMMA RegisteredCreated == ASSUME IInv PROVE Registered \subseteq Created
BY DEF IInv, RegistryInv, Registered

\* open() registers a new session, and the stale one starts to close.
LEMMA OpenNewStep ==
    ASSUME IInv, NEW c \in Clients, NEW d \in Devices, OpenNew(c, d)
    PROVE  IInv'
<1> DEFINE n == created + 1
<1>1. n \in Sessions /\ n \notin Created /\ Created' = Created \cup {n} /\ n # None
  BY BoundsAssumption, NoneAssumption DEF OpenNew, IInv, TypeOK, Created, Sessions
<1>2. /\ reg' = [reg EXCEPT ![d] = n] /\ dev' = [dev EXCEPT ![n] = d]
      /\ mine' = [mine EXCEPT ![c] = n] /\ created' = n
      /\ UNCHANGED <<ready, age, reaperVars, endVars>>
  BY DEF OpenNew
<1>3. Registered' \subseteq (Registered \ {reg[d]}) \cup {n}
  <2> SUFFICES ASSUME NEW s \in Registered', s # n PROVE s \in Registered \ {reg[d]}
    OBVIOUS
  <2>1. PICK e \in Devices : reg'[e] = s /\ s # None
    BY DEF Registered
  <2>2. e # d /\ reg[e] = s
    BY <1>2, <2>1 DEF IInv, TypeOK
  <2> QED
    BY <2>1, <2>2 DEF Registered, IInv, RegistryInv
<1>4. /\ pc' \in [Clients -> Steps] /\ stale' \in [Clients -> Sessions \cup {None}]
      /\ shut' \in [Sessions -> {"no", "closing", "closed"}]
      /\ conn' \in [Sessions -> {"none", "up", "down"}]
      /\ \A s \in Sessions : shut'[s] = shut[s] \/ (s = reg[d] /\ s # None)
      /\ \A b \in Clients : pc'[b] = "stale" =>
            \/ pc[b] = "stale" /\ stale'[b] = stale[b]
            \/ stale'[b] = reg[d] /\ reg[d] # None
      /\ \A b \in Clients \ {c} : pc'[b] = pc[b]
  <2>1. CASE reg[d] = None
    BY <2>1 DEF OpenNew, IInv, TypeOK, Steps
  <2>2. CASE reg[d] # None
    <3>1. reg[d] \in Sessions
      BY <2>2 DEF IInv, TypeOK
    <3>2. Close1(reg[d])
      BY <2>2 DEF OpenNew
    <3>3. \/ pc' = [pc EXCEPT ![c] = "connect"] /\ UNCHANGED stale
          \/ pc' = [pc EXCEPT ![c] = "stale"] /\ stale' = [stale EXCEPT ![c] = reg[d]]
      BY <2>2 DEF OpenNew
    <3> QED
      BY <2>2, <3>1, <3>2, <3>3, Close1Effect DEF IInv, TypeOK, Steps
  <2> QED
    BY <2>1, <2>2
<1>5. TypeOK'
  <2>1. created' \in 0 .. SessionBound
    BY <1>1, <1>2 DEF Sessions, IInv, TypeOK
  <2>2. /\ reg' \in [Devices -> Sessions \cup {None}]
        /\ dev' \in [Sessions -> Devices \cup {None}]
        /\ mine' \in [Clients -> Sessions \cup {None}]
    BY <1>1, <1>2 DEF IInv, TypeOK
  <2> QED
    BY <1>2, <1>4, <2>1, <2>2 DEF IInv, TypeOK, reaperVars, endVars
<1>6. RegistryInv'
  <2>1. \A e \in Devices : reg'[e] # None => reg'[e] \in Created' /\ dev'[reg'[e]] = e
    BY <1>1, <1>2, CreatedSessions DEF IInv, TypeOK, RegistryInv
  <2>2. \A s \in Created' : dev'[s] \in Devices
    BY <1>1, <1>2, CreatedSessions DEF IInv, TypeOK, RegistryInv
  <2>3. \A s \in Sessions \ Created' : shut'[s] = "no"
    BY <1>1, <1>4 DEF IInv, RegistryInv
  <2> QED
    BY <2>1, <2>2, <2>3 DEF RegistryInv
<1>7. HandsInv'
  <2>1. \A b \in Clients : pc'[b] # "idle" => mine'[b] \in Created'
    BY <1>1, <1>2, <1>4 DEF IInv, TypeOK, HandsInv
  <2>2. \A b \in Clients : pc'[b] = "stale" => stale'[b] \in Created' \ Registered'
    <3> SUFFICES ASSUME NEW b \in Clients, pc'[b] = "stale"
                 PROVE  stale'[b] \in Created' \ Registered'
      OBVIOUS
    <3>1. CASE pc[b] = "stale" /\ stale'[b] = stale[b]
      BY <3>1, <1>1, <1>3 DEF IInv, HandsInv
    <3>2. CASE stale'[b] = reg[d] /\ reg[d] # None
      BY <3>2, <1>1, <1>3 DEF IInv, RegistryInv
    <3> QED
      BY <3>1, <3>2, <1>4
  <2>3. doomed' \cup reaping' \subseteq Created'
    BY <1>1, <1>2 DEF IInv, HandsInv, reaperVars
  <2>4. left' \cup closing' \subseteq Created' \ Registered'
    BY <1>1, <1>2, <1>3 DEF IInv, HandsInv, endVars
  <2> QED
    BY <2>1, <2>2, <2>3, <2>4 DEF HandsInv
<1>8. RegisteredUsable'
  <2> SUFFICES ASSUME NEW s \in Registered' PROVE shut'[s] # "closed"
    BY DEF RegisteredUsable
  <2>1. CASE s = n
    BY <2>1, <1>1, <1>4, RegisteredCreated DEF IInv, RegistryInv, Registered
  <2>2. CASE s # n
    <3>1. s \in Registered \ {reg[d]} /\ s \in Sessions
      BY <1>3, <2>2, RegisteredCreated, CreatedSessions DEF IInv
    <3> QED
      BY <3>1, <1>4 DEF IInv, RegisteredUsable
  <2> QED
    BY <2>1, <2>2
<1> QED
  BY <1>5, <1>6, <1>7, <1>8 DEF IInv

\* Steps of the list loops of the reaper and of close_all.
LEMMA ListEffect ==
    ASSUME TypeOK, NEW F \in SUBSET Sessions, NEW D \in SUBSET Sessions,
           NEW P \in SUBSET D, NEW X \in {{}} \cup {{s} : s \in D},
           shut' = ShutAfter(F, P, X), conn' = ConnAfter(X)
    PROVE  /\ X \subseteq D
           /\ shut' \in [Sessions -> {"no", "closing", "closed"}]
           /\ conn' \in [Sessions -> {"none", "up", "down"}]
           /\ \A s \in Sessions : \/ shut'[s] = shut[s]
                                  \/ s \in F \cup P
                                  \/ s \in X /\ shut'[s] = "closing"
BY DEF ShutAfter, ConnAfter, TypeOK

\* The reaper: whatever it closes for good, it pops.
LEMMA ReapStep ==
    ASSUME IInv, NEW D \in SUBSET Created, NEW F \in SUBSET Created, Reap(D, F)
    PROVE  IInv'
<1>1. PICK P \in SUBSET D : \E X \in {{}} \cup {{s} : s \in D} :
        /\ shut' = ShutAfter(F, P, X) /\ conn' = ConnAfter(X)
        /\ reg' = [d \in Devices |-> IF \E s \in F \cup P : dev[s] = d THEN None ELSE reg[d]]
        /\ doomed' = D \ (P \cup X) /\ reaping' = X
        /\ UNCHANGED <<created, dev, ready, age, clientVars, reaper, endVars>>
  BY DEF Reap
<1>2. PICK X \in {{}} \cup {{s} : s \in D} :
        /\ shut' = ShutAfter(F, P, X) /\ conn' = ConnAfter(X)
        /\ reg' = [d \in Devices |-> IF \E s \in F \cup P : dev[s] = d THEN None ELSE reg[d]]
        /\ doomed' = D \ (P \cup X) /\ reaping' = X
        /\ UNCHANGED <<created, dev, ready, age, clientVars, reaper, endVars>>
  BY <1>1
<1>3. Created \subseteq Sessions
  BY CreatedSessions DEF IInv
<1>4. /\ X \subseteq D
      /\ shut' \in [Sessions -> {"no", "closing", "closed"}]
      /\ conn' \in [Sessions -> {"none", "up", "down"}]
      /\ \A s \in Sessions : \/ shut'[s] = shut[s]
                             \/ s \in F \cup P
                             \/ s \in X /\ shut'[s] = "closing"
  BY <1>2, <1>3, ListEffect DEF IInv
<1>5. \A d \in Devices : reg'[d] \in {reg[d], None}
  BY <1>2
<1>6. \A s \in F \cup P : s \in Created /\ \A d \in Devices : reg'[d] # s
  <2> SUFFICES ASSUME NEW s \in F \cup P, NEW d \in Devices, reg'[d] = s
               PROVE  FALSE
    OBVIOUS
  <2>1. s \in Created /\ s # None
    BY <1>3, NoneAssumption DEF Sessions
  <2>2. reg[d] = s /\ dev[s] = d
    BY <1>5, <2>1 DEF IInv, RegistryInv
  <2> QED
    BY <1>2, <2>1, <2>2
<1>7. TypeOK'
  BY <1>2, <1>3, <1>4, <1>5 DEF IInv, TypeOK, clientVars, endVars
<1>8. doomed' \cup reaping' \subseteq Created /\ UNCHANGED <<created, dev, pc, mine, stale, left, closing>>
  BY <1>2, <1>4 DEF clientVars, endVars
<1>9. \A c \in Clients : pc'[c] # "idle" => mine'[c] \in Created
  BY <1>8 DEF IInv, HandsInv
<1>10. \A s \in Sessions : \/ shut'[s] = shut[s]
                           \/ s \in Created /\ shut'[s] = "closing"
                           \/ s \in Created /\ \A d \in Devices : reg'[d] # s
  BY <1>4, <1>6
<1> QED
  BY <1>5, <1>7, <1>8, <1>9, <1>10, PopStep

\* close_all: whatever it closes left the registry when it began.
LEMMA CloseListStep ==
    ASSUME IInv, NEW D \in SUBSET Created, NEW F \in SUBSET Created, CloseList(D, F),
           reg' \in [Devices -> Sessions \cup {None}],
           \A d \in Devices : reg'[d] \in {reg[d], None},
           UNCHANGED created,
           D \cup F \subseteq left \cup closing \cup Registered,
           (D \cup F) \cap Registered' = {}
    PROVE  IInv'
<1>1. PICK P \in SUBSET D : \E X \in {{}} \cup {{s} : s \in D} :
        /\ shut' = ShutAfter(F, P, X) /\ conn' = ConnAfter(X)
        /\ left' = D \ (P \cup X) /\ closing' = X
  BY DEF CloseList
<1>2. PICK X \in {{}} \cup {{s} : s \in D} :
        /\ shut' = ShutAfter(F, P, X) /\ conn' = ConnAfter(X)
        /\ left' = D \ (P \cup X) /\ closing' = X
  BY <1>1
<1>3. /\ UNCHANGED <<created, dev, ready, age, pc, mine, stale>>
      /\ reaper' \in {reaper, FALSE} /\ doomed' \in {doomed, {}} /\ reaping' \in {reaping, {}}
      /\ ending' \in {"done", "closing"}
  BY DEF CloseList, reaperVars, clientVars
<1>4. Created \subseteq Sessions
  BY CreatedSessions DEF IInv
<1>5. /\ X \subseteq D
      /\ shut' \in [Sessions -> {"no", "closing", "closed"}]
      /\ conn' \in [Sessions -> {"none", "up", "down"}]
      /\ \A s \in Sessions : \/ shut'[s] = shut[s]
                             \/ s \in F \cup P
                             \/ s \in X /\ shut'[s] = "closing"
  BY <1>2, <1>4, ListEffect DEF IInv
<1>6. \A s \in F \cup P : s \in Created /\ \A d \in Devices : reg'[d] # s
  <2> SUFFICES ASSUME NEW s \in F \cup P
               PROVE  s \in Created /\ \A d \in Devices : reg'[d] # s
    OBVIOUS
  <2>1. s \in Created /\ s \notin Registered'
    OBVIOUS
  <2>2. s # None
    BY <1>4, <2>1, NoneAssumption DEF Sessions
  <2>3. \A d \in Devices : reg'[d] # None => reg'[d] \in Registered'
    BY DEF Registered
  <2> QED
    BY <2>1, <2>2, <2>3
<1>7. reaper' \in BOOLEAN
  BY <1>3 DEF IInv, TypeOK
<1>8. TypeOK'
  BY <1>2, <1>3, <1>4, <1>5, <1>7 DEF IInv, TypeOK
<1>9. left' \cup closing' \subseteq left \cup closing \cup (Registered \ Registered')
  BY <1>2, <1>5
<1>10. /\ doomed' \cup reaping' \subseteq Created
       /\ \A c \in Clients : pc'[c] # "idle" => mine'[c] \in Created
  BY <1>3 DEF IInv, HandsInv
<1>11. \A s \in Sessions : \/ shut'[s] = shut[s]
                           \/ s \in Created /\ shut'[s] = "closing"
                           \/ s \in Created /\ \A d \in Devices : reg'[d] # s
  BY <1>5, <1>6
<1> QED
  BY <1>3, <1>8, <1>9, <1>10, <1>11, PopStep

\* Every step of the manager preserves the invariant.
THEOREM NextIInv == IInv /\ [Next]_vars => IInv'
<1> SUFFICES ASSUME IInv, [Next]_vars PROVE IInv'
  OBVIOUS
<1>1. TypeOK /\ Created \subseteq Sessions /\ Registered \subseteq Created
  BY CreatedSessions, RegisteredCreated DEF IInv
<1>2. /\ \A c \in Clients : pc[c] # "idle" => mine[c] \in Created
      /\ doomed \cup reaping \subseteq Created
  BY DEF IInv, HandsInv
<1>3. ASSUME NEW c \in Clients, NEW d \in Devices, OpenReuses(c, d) PROVE IInv'
  <2>1. TypeOK' /\ UNCHANGED <<reg, created, dev, shut, pc, mine, stale, doomed, reaping, left, closing>>
    BY <1>1, <1>3 DEF OpenReuses, TypeOK, clientVars, reaperVars, endVars
  <2> QED
    BY <1>2, <2>1, QuietStep
<1>4. ASSUME NEW c \in Clients, NEW d \in Devices, OpenRefused(c, d) PROVE IInv'
  <2>1. /\ TypeOK' /\ reg' = [reg EXCEPT ![d] = None]
        /\ UNCHANGED <<created, dev, shut, pc, mine, stale, doomed, reaping, left, closing>>
    BY <1>1, <1>4 DEF OpenRefused, TypeOK, sessionVars, clientVars, reaperVars, endVars
  <2>2. \A e \in Devices : reg'[e] \in {reg[e], None}
    BY <1>1, <2>1 DEF TypeOK
  <2> QED
    BY <1>2, <2>1, <2>2, PopStep
<1>5. ASSUME NEW c \in Clients, NEW d \in Devices, OpenNew(c, d) PROVE IInv'
  BY <1>5, OpenNewStep
<1>6. ASSUME NEW c \in Clients, StaleClosed(c) PROVE IInv'
  <2>1. stale[c] \in Created \ Registered /\ stale[c] \in Sessions /\ mine[c] \in Created
    BY <1>1, <1>6 DEF StaleClosed, IInv, HandsInv
  <2>2. /\ pc' = [pc EXCEPT ![c] = "connect"]
        /\ UNCHANGED <<reg, created, dev, ready, age, mine, stale, reaperVars, endVars>>
    BY <1>6 DEF StaleClosed, Continues
  <2>3. /\ shut' \in [Sessions -> {"no", "closing", "closed"}]
        /\ conn' \in [Sessions -> {"none", "up", "down"}]
        /\ \A t \in Sessions : shut'[t] = shut[t] \/ t = stale[c]
    BY <1>1, <1>6, <2>1, CloseEndsEffect DEF StaleClosed
  <2>4. TypeOK'
    BY <1>1, <2>2, <2>3 DEF TypeOK, Steps, reaperVars, endVars
  <2>5. shut'[stale[c]] = "closed"
    BY <1>6, <2>1 DEF StaleClosed, CloseEnds, ShutAfter
  <2> QED
    BY <1>1, <1>2, <2>1, <2>2, <2>3, <2>4, <2>5, QuietStep DEF TypeOK, reaperVars, endVars
<1>7. ASSUME NEW c \in Clients, ConnectUp(c) PROVE IInv'
  <2>1. /\ pc' = [pc EXCEPT ![c] = "channel"] /\ pc[c] = "connect"
        /\ conn' = [conn EXCEPT ![mine[c]] = "up"]
        /\ UNCHANGED <<reg, created, dev, ready, shut, age, mine, stale, reaperVars, endVars>>
    BY <1>7 DEF ConnectUp, Continues
  <2>2. TypeOK'
    BY <1>1, <2>1 DEF TypeOK, Steps, reaperVars, endVars
  <2> QED
    BY <1>1, <1>2, <2>1, <2>2, QuietStep DEF TypeOK, reaperVars, endVars
\* A caller closes the session it holds or was given, and pops its device at
\* once or when the close resumes.
<1>8. ASSUME NEW c \in Clients, NEW s \in Created, NEW step \in {"failing", "closing"},
             Close1(s),
             IF Immediate(s)
             THEN reg' = Pop(s)
             ELSE pc' = [pc EXCEPT ![c] = step] /\ mine' = [mine EXCEPT ![c] = s] /\ UNCHANGED <<reg, stale>>,
             Immediate(s) => Returns(c) \/ UNCHANGED clientVars,
             ready' \in [Sessions -> BOOLEAN],
             UNCHANGED <<created, dev, age, reaperVars, endVars>>
      PROVE  IInv'
  <2>1. /\ shut' \in [Sessions -> {"no", "closing", "closed"}]
        /\ conn' \in [Sessions -> {"none", "up", "down"}]
        /\ \A t \in Sessions : shut'[t] = shut[t] \/ t = s
        /\ ~Immediate(s) => shut'[s] = "closing"
        /\ s \in Sessions
    BY <1>1, <1>8, Close1Effect
  <2>2. CASE Immediate(s)
    <3>1. /\ reg' \in [Devices -> Sessions \cup {None}]
          /\ \A d \in Devices : reg'[d] \in {reg[d], None} /\ reg'[d] # s
      BY <1>8, <2>2, PopEffect
    <3>2. /\ pc' \in [Clients -> Steps] /\ mine' \in [Clients -> Sessions \cup {None}]
          /\ stale' \in [Clients -> Sessions \cup {None}]
          /\ \A b \in Clients :
                \/ pc'[b] = pc[b] /\ mine'[b] = mine[b] /\ stale'[b] = stale[b]
                \/ pc'[b] = "idle"
      BY <1>1, <1>8, <2>2 DEF TypeOK, Returns, Steps, clientVars
    <3>3. TypeOK'
      BY <1>1, <1>8, <2>1, <3>1, <3>2 DEF TypeOK, reaperVars, endVars
    <3> QED
      BY <1>1, <1>2, <1>8, <2>1, <3>1, <3>2, <3>3, PopStep DEF reaperVars, endVars
  <2>3. CASE ~Immediate(s)
    <3>1. TypeOK'
      BY <1>1, <1>8, <2>1, <2>3 DEF TypeOK, Steps, reaperVars, endVars
    <3>2. UNCHANGED <<reg, created, dev, stale, doomed, reaping, left, closing>>
      BY <1>8, <2>3 DEF reaperVars, endVars
    <3>3. /\ \A b \in Clients : pc'[b] # "idle" => mine'[b] \in Created
          /\ \A b \in Clients : pc'[b] = "stale" => pc[b] = "stale"
      BY <1>1, <1>2, <1>8, <2>3 DEF TypeOK
    <3> QED
      BY <1>8, <2>1, <2>3, <3>1, <3>2, <3>3, QuietStep
  <2> QED
    BY <2>2, <2>3
<1>9. ASSUME NEW c \in Clients, pc[c] # "idle", Fails(c), ready' \in [Sessions -> BOOLEAN],
             UNCHANGED <<created, dev, age, reaperVars, endVars>>
      PROVE  IInv'
  <2>1. mine[c] \in Created /\ mine = [mine EXCEPT ![c] = mine[c]]
    BY <1>1, <1>2, <1>9 DEF TypeOK
  <2> QED
    BY <1>8, <1>9, <2>1 DEF Fails, Continues
<1>10. ASSUME NEW c \in Clients, ChannelUp(c) \/ OpenFails(c) PROVE IInv'
  <2>1. /\ pc[c] # "idle" /\ ready' \in [Sessions -> BOOLEAN]
        /\ UNCHANGED <<created, dev, age, reaperVars, endVars>>
    BY <1>1, <1>10 DEF ChannelUp, OpenFails, TypeOK
  <2>2. CASE Fails(c)
    BY <1>9, <2>1, <2>2
  <2>3. CASE Continues(c, "reading") /\ UNCHANGED <<reg, shut, conn>>
    <3>1. TypeOK'
      BY <1>1, <2>1, <2>3 DEF TypeOK, Continues, Steps, reaperVars, endVars
    <3> QED
      BY <1>1, <1>2, <2>1, <2>3, <3>1, QuietStep DEF TypeOK, Continues, reaperVars, endVars
  <2> QED
    BY <1>10, <2>2, <2>3 DEF ChannelUp, OpenFails
<1>11. ASSUME NEW c \in Clients, NEW d \in Devices, CloseCall(c, d) PROVE IInv'
  <2>1. reg[d] \in Created
    BY <1>11 DEF CloseCall, IInv, RegistryInv
  <2> QED
    BY <1>1, <1>8, <1>11, <2>1 DEF CloseCall, clientVars, TypeOK
<1>12. ASSUME NEW c \in Clients, FailureClosed(c) \/ CloseDone(c) PROVE IInv'
  <2>1. /\ mine[c] \in Created /\ CloseEnds(mine[c]) /\ Returns(c) /\ reg' = Pop(mine[c])
        /\ UNCHANGED <<created, dev, ready, age, reaperVars, endVars>>
    BY <1>2, <1>12 DEF FailureClosed, CloseDone
  <2>2. /\ reg' \in [Devices -> Sessions \cup {None}]
        /\ \A d \in Devices : reg'[d] \in {reg[d], None} /\ reg'[d] # mine[c]
    BY <2>1, PopEffect
  <2>3. /\ shut' \in [Sessions -> {"no", "closing", "closed"}]
        /\ conn' \in [Sessions -> {"none", "up", "down"}]
        /\ \A t \in Sessions : shut'[t] = shut[t] \/ t = mine[c]
    BY <1>1, <2>1, CloseEndsEffect
  <2>4. TypeOK'
    BY <1>1, <2>1, <2>2, <2>3 DEF TypeOK, Returns, Steps, reaperVars, endVars
  <2> QED
    BY <1>1, <1>2, <2>1, <2>2, <2>3, <2>4, PopStep DEF TypeOK, Returns, reaperVars, endVars
<1>13. ASSUME NEW c \in Clients, OpenDone(c) \/ Cancel(c) PROVE IInv'
  <2>1. /\ Returns(c) /\ reaper' \in BOOLEAN
        /\ UNCHANGED <<reg, created, sessionVars, doomed, reaping, endVars>>
    BY <1>1, <1>13 DEF OpenDone, Cancel, TypeOK, reaperVars
  <2>2. TypeOK'
    BY <1>1, <2>1 DEF TypeOK, Returns, Steps, sessionVars, endVars
  <2> QED
    BY <1>1, <1>2, <2>1, <2>2, QuietStep DEF TypeOK, Returns, sessionVars, endVars
<1>14. ASSUME NEW s \in Sessions, Lost(s) \/ Aging(s) \/ Activity(s) PROVE IInv'
  <2>1. TypeOK' /\ UNCHANGED <<reg, created, dev, shut, pc, mine, stale, doomed, reaping, left, closing>>
    BY <1>1, <1>14 DEF Lost, Aging, Activity, TypeOK, clientVars, reaperVars, endVars
  <2> QED
    BY <1>2, <2>1, QuietStep
<1>15. CASE ReaperTick
  <2>1. Doomed \subseteq Created /\ {} \in SUBSET Created
    BY <1>1 DEF Doomed
  <2> QED
    BY <1>15, <2>1, ReapStep DEF ReaperTick
<1>16. CASE ReaperResumes
  BY <1>2, <1>16, ReapStep DEF ReaperResumes
<1>17. CASE CloseAll
  <2>1. /\ reg' = [d \in Devices |-> None] /\ Registered' = {} /\ UNCHANGED created
        /\ CloseList(Registered, {})
    BY <1>17 DEF CloseAll, CloseList, Registered
  <2> QED
    BY <1>1, <2>1, CloseListStep
<1>18. CASE CloseAllResumes
  <2>1. /\ UNCHANGED <<reg, created>> /\ Registered' = Registered /\ CloseList(left, closing)
    BY <1>18 DEF CloseAllResumes, CloseList, Registered
  <2>2. left \cup closing \subseteq Created \ Registered
    BY DEF IInv, HandsInv
  <2>3. reg' \in [Devices -> Sessions \cup {None}]
    BY <1>1, <2>1 DEF TypeOK
  <2> QED
    BY <2>1, <2>2, <2>3, CloseListStep
<1>19. CASE UNCHANGED vars
  <2>1. TypeOK' /\ UNCHANGED <<reg, created, dev, shut, pc, mine, stale, doomed, reaping, left, closing>>
    BY <1>1, <1>19 DEF vars, TypeOK, sessionVars, clientVars, reaperVars, endVars
  <2> QED
    BY <1>2, <2>1, QuietStep
<1> QED
  BY <1>3, <1>4, <1>5, <1>6, <1>7, <1>10, <1>11, <1>12, <1>13, <1>14, <1>15, <1>16, <1>17,
     <1>18, <1>19 DEF Next

\* The invariant holds in every reachable state.
THEOREM AlwaysIInv == Spec => []IInv
<1> QED
  BY InitIInv, NextIInv, PTL DEF Spec

-----------------------------------------------------------------------------
(* The properties the runs check *)

\* The manager's variables keep their types.
THEOREM TypeCorrect == Spec => []TypeOK
<1>1. IInv => TypeOK
  BY DEF IInv
<1> QED
  BY <1>1, AlwaysIInv, PTL

\* No tool call is handed a session whose transcript is closed
\* (ssh_terminal.py 507-526, 549-551, 581-594, 606-615).
THEOREM RegistryUsable == Spec => []RegisteredUsable
<1>1. IInv => RegisteredUsable
  BY DEF IInv
<1> QED
  BY <1>1, AlwaysIInv, PTL

Held == {d \in Devices : reg[d] # None}

\* Popping devices never makes the registry larger.
LEMMA HeldShrinks ==
    ASSUME WithinCapacity, \A d \in Devices : reg'[d] \in {reg[d], None}
    PROVE  WithinCapacity'
<1>1. IsFiniteSet(Held) /\ Held' \in SUBSET Held
  BY FS_Subset, DevicesAssumption DEF Held
<1>2. Cardinality(Held') <= Cardinality(Held)
  BY <1>1, FS_Subset
<1>3. Cardinality(Held) \in Nat /\ Cardinality(Held') \in Nat
  BY <1>1, FS_Subset, FS_CardinalityType
<1> QED
  BY <1>2, <1>3, BoundsAssumption DEF WithinCapacity, Held

\* open() checks MAX_SESSIONS before it registers a session, so the registry
\* stays within it.
LEMMA OpenNewCapacity ==
    ASSUME TypeOK, NEW c \in Clients, NEW d \in Devices, OpenNew(c, d)
    PROVE  WithinCapacity'
<1> DEFINE Others == {e \in Devices \ {d} : reg[e] # None}
<1>1. IsFiniteSet(Others) /\ Others \subseteq Devices
  BY FS_Subset, DevicesAssumption
<1>2. Cardinality(Others) \in Nat /\ Cardinality(Others) < MaxSessions
  BY <1>1, FS_CardinalityType, BoundsAssumption DEF OpenNew, Full
<1>3. Held' \subseteq Others \cup {d}
  BY DEF OpenNew, Held, TypeOK
<1>4. /\ IsFiniteSet(Others \cup {d})
      /\ Cardinality(Others \cup {d}) = Cardinality(Others) + 1
  BY <1>1, FS_AddElement
<1>5. Cardinality(Held') <= Cardinality(Others) + 1 /\ Cardinality(Held') \in Nat
  BY <1>3, <1>4, FS_Subset, FS_CardinalityType
<1> QED
  BY <1>2, <1>5, BoundsAssumption DEF WithinCapacity, Held

\* At most MAX_SESSIONS devices hold a terminal (ssh_terminal.py 516-526).
THEOREM Capacity == Spec => []WithinCapacity
<1>1. Init => WithinCapacity
  <2> SUFFICES ASSUME Init PROVE WithinCapacity
    OBVIOUS
  <2>1. Held = {}
    BY DEF Init, Held
  <2> QED
    BY <2>1, FS_EmptySet, BoundsAssumption DEF WithinCapacity, Held
<1>2. TypeOK /\ WithinCapacity /\ [Next]_vars => WithinCapacity'
  <2> SUFFICES ASSUME TypeOK, WithinCapacity, [Next]_vars PROVE WithinCapacity'
    OBVIOUS
  <2>1. ASSUME NEW c \in Clients, NEW d \in Devices, OpenNew(c, d) PROVE WithinCapacity'
    BY <2>1, OpenNewCapacity
  <2>2. ASSUME NEW s, reg' = Pop(s) \/ UNCHANGED reg PROVE WithinCapacity'
    BY <2>2, HeldShrinks DEF Pop, TypeOK
  <2>3. ASSUME NEW c \in Clients, NEW d \in Devices,
               OpenReuses(c, d) \/ OpenRefused(c, d) \/ CloseCall(c, d)
        PROVE  WithinCapacity'
    <3>1. CASE OpenReuses(c, d)
      BY <2>2, <3>1 DEF OpenReuses
    <3>2. CASE OpenRefused(c, d)
      BY <3>2, HeldShrinks DEF OpenRefused, TypeOK
    <3>3. CASE CloseCall(c, d)
      BY <2>2, <3>3 DEF CloseCall
    <3> QED
      BY <2>3, <3>1, <3>2, <3>3
  <2>4. ASSUME NEW c \in Clients,
               \/ StaleClosed(c) \/ ConnectUp(c) \/ ChannelUp(c) \/ OpenFails(c)
               \/ FailureClosed(c) \/ OpenDone(c) \/ Cancel(c) \/ CloseDone(c)
        PROVE  WithinCapacity'
    BY <2>2, <2>4
    DEF StaleClosed, ConnectUp, ChannelUp, OpenFails, Fails, FailureClosed, OpenDone, Cancel,
        CloseDone
  <2>5. ASSUME NEW D, NEW F, Reap(D, F) PROVE WithinCapacity'
    <3>1. \A d \in Devices : reg'[d] \in {reg[d], None}
      BY <2>5 DEF Reap
    <3> QED
      BY <3>1, HeldShrinks
  <2>6. CASE CloseAll \/ CloseAllResumes
    <3>1. \A d \in Devices : reg'[d] \in {reg[d], None}
      BY <2>6 DEF CloseAll, CloseAllResumes
    <3> QED
      BY <3>1, HeldShrinks
  <2>7. UNCHANGED reg => WithinCapacity'
    BY <2>2
  <2> QED
    BY <2>1, <2>3, <2>4, <2>5, <2>6, <2>7
    DEF Next, vars, Lost, Aging, Activity, ReaperTick, ReaperResumes
<1> QED
  BY <1>1, <1>2, TypeCorrect, PTL DEF Spec

\* A refused open had no stale session to pop: popping one and then raising
\* would lose a session nobody ever closes (ssh_terminal.py 516-521).
THEOREM RefusalLosesNothing == Spec => RefusalIsHarmless
<1>1. WithinCapacity /\ [Next]_vars =>
        [\A c \in Clients, d \in Devices : OpenRefused(c, d) => reg[d] = None]_vars
  <2> SUFFICES ASSUME WithinCapacity, NEW c \in Clients, NEW d \in Devices, OpenRefused(c, d),
                      reg[d] # None
               PROVE  FALSE
    OBVIOUS
  <2> DEFINE Others == {e \in Devices \ {d} : reg[e] # None}
  <2>1. Held = Others \cup {d} /\ d \notin Others /\ IsFiniteSet(Others)
    BY FS_Subset, DevicesAssumption DEF Held
  <2>2. Cardinality(Held) = Cardinality(Others) + 1 /\ Cardinality(Others) \in Nat
    BY <2>1, FS_AddElement, FS_CardinalityType
  <2>3. Cardinality(Others) >= MaxSessions /\ Cardinality(Held) <= MaxSessions
    BY DEF OpenRefused, Full, WithinCapacity, Held
  <2> QED
    BY <2>2, <2>3, BoundsAssumption
<1> QED
  BY <1>1, Capacity, PTL DEF Spec, RefusalIsHarmless

-----------------------------------------------------------------------------
(* Which sessions an open closes *)

Opening == {"stale", "connect", "channel"}

\* A session that is being opened has one opener and no process yet, and what
\* a caller waits to see closed is closing.
OpenInv ==
    /\ \A c \in Clients : pc[c] \in Opening => ~ready[mine[c]]
    /\ \A c, b \in Clients : pc[c] \in Opening /\ pc[b] \in Opening /\ c # b => mine[c] # mine[b]
    /\ \A s \in Sessions \ Created : ~ready[s]
    /\ \A c \in Clients : pc[c] = "stale" => shut[stale[c]] # "no"
    /\ \A c \in Clients : pc[c] \in {"failing", "closing"} => shut[mine[c]] # "no"

\* No session is opened again.
StaysShut == \A s \in Sessions : shut[s] # "no" => shut'[s] # "no"

LEMMA ShutForGood == ASSUME TypeOK, [Next]_vars PROVE StaysShut
<1>1. ASSUME NEW s, Close1(s) PROVE StaysShut
  BY <1>1 DEF Close1, ShutAfter, StaysShut, TypeOK
<1>2. ASSUME NEW s, CloseEnds(s) PROVE StaysShut
  BY <1>2 DEF CloseEnds, ShutAfter, StaysShut, TypeOK
<1>3. ASSUME NEW D, NEW F, Reap(D, F) \/ CloseList(D, F) PROVE StaysShut
  <2>1. PICK P, X : shut' = ShutAfter(F, P, X)
    BY <1>3 DEF Reap, CloseList
  <2> QED
    BY <2>1 DEF ShutAfter, StaysShut, TypeOK
<1>4. UNCHANGED shut => StaysShut
  BY DEF StaysShut
<1>5. ASSUME NEW c \in Clients, NEW d \in Devices,
             OpenReuses(c, d) \/ OpenRefused(c, d) \/ OpenNew(c, d) \/ CloseCall(c, d)
      PROVE  StaysShut
  BY <1>1, <1>4, <1>5 DEF OpenReuses, OpenRefused, OpenNew, CloseCall, sessionVars
<1>6. ASSUME NEW c \in Clients,
             \/ StaleClosed(c) \/ ConnectUp(c) \/ ChannelUp(c) \/ OpenFails(c)
             \/ FailureClosed(c) \/ OpenDone(c) \/ Cancel(c) \/ CloseDone(c)
      PROVE  StaysShut
  BY <1>1, <1>2, <1>4, <1>6
  DEF StaleClosed, ConnectUp, ChannelUp, OpenFails, Fails, FailureClosed, OpenDone, Cancel,
      CloseDone, sessionVars
<1>7. ASSUME NEW s \in Sessions, Lost(s) \/ Aging(s) \/ Activity(s) PROVE StaysShut
  BY <1>4, <1>7 DEF Lost, Aging, Activity
<1>8. CASE ReaperTick \/ ReaperResumes \/ CloseAll \/ CloseAllResumes
  BY <1>3, <1>8 DEF ReaperTick, ReaperResumes, CloseAll, CloseAllResumes
<1>9. CASE UNCHANGED vars
  BY <1>4, <1>9 DEF vars, sessionVars
<1> QED
  BY <1>5, <1>6, <1>7, <1>8, <1>9 DEF Next

\* A step of one caller.
LEMMA CallerStep ==
    ASSUME IInv, OpenInv, StaysShut, NEW c \in Clients,
           \A b \in Clients \ {c} : pc'[b] = pc[b] /\ mine'[b] = mine[b] /\ stale'[b] = stale[b],
           \A b \in Clients \ {c} : pc[b] \in Opening => ~ready'[mine[b]],
           \A s \in Sessions \ Created' : ~ready'[s],
           pc'[c] \in Opening =>
               /\ ~ready'[mine'[c]]
               /\ \A b \in Clients \ {c} : pc[b] \in Opening => mine[b] # mine'[c],
           pc'[c] = "stale" => shut'[stale'[c]] # "no",
           pc'[c] \in {"failing", "closing"} => shut'[mine'[c]] # "no"
    PROVE  OpenInv'
<1>1. \A b \in Clients : pc[b] # "idle" => mine[b] \in Sessions
  BY CreatedSessions DEF IInv, HandsInv
<1>2. \A b \in Clients : pc[b] = "stale" => stale[b] \in Sessions
  BY CreatedSessions DEF IInv, HandsInv
<1>3. \A b \in Clients : pc'[b] \in Opening => ~ready'[mine'[b]]
  OBVIOUS
<1>4. \A a, b \in Clients : pc'[a] \in Opening /\ pc'[b] \in Opening /\ a # b => mine'[a] # mine'[b]
  BY DEF OpenInv
<1>5. \A b \in Clients : pc'[b] = "stale" => shut'[stale'[b]] # "no"
  BY <1>2 DEF OpenInv, StaysShut
<1>6. \A b \in Clients : pc'[b] \in {"failing", "closing"} => shut'[mine'[b]] # "no"
  BY <1>1 DEF OpenInv, StaysShut
<1> QED
  BY <1>3, <1>4, <1>5, <1>6 DEF OpenInv

\* A call that returns leaves the sessions as they are.
LEMMA ReturnsStep ==
    ASSUME IInv, OpenInv, StaysShut, NEW c \in Clients, Returns(c), UNCHANGED <<ready, created>>
    PROVE  OpenInv'
<1>1. pc'[c] = "idle"
  BY DEF Returns, IInv, TypeOK
<1>2. \A b \in Clients \ {c} : pc'[b] = pc[b] /\ mine'[b] = mine[b] /\ stale'[b] = stale[b]
  BY DEF Returns, IInv, TypeOK
<1>3. /\ \A b \in Clients \ {c} : pc[b] \in Opening => ~ready'[mine[b]]
      /\ \A s \in Sessions \ Created' : ~ready'[s]
  BY DEF OpenInv, Created
<1> QED
  BY <1>1, <1>2, <1>3, CallerStep DEF Opening

\* A call that goes on, with the session it had.
LEMMA ContinuesStep ==
    ASSUME IInv, OpenInv, StaysShut, NEW c \in Clients,
           NEW step \in {"connect", "channel", "reading", "failing"},
           pc[c] \in Opening \/ (pc[c] = "reading" /\ step = "failing"),
           Continues(c, step), UNCHANGED <<ready, created>>,
           step = "failing" => shut'[mine[c]] # "no"
    PROVE  OpenInv'
<1>1. pc'[c] = step /\ mine' = mine /\ stale' = stale
  BY DEF Continues, IInv, TypeOK
<1>2. \A b \in Clients \ {c} : pc'[b] = pc[b] /\ mine'[b] = mine[b] /\ stale'[b] = stale[b]
  BY DEF Continues, IInv, TypeOK
<1>3. /\ \A b \in Clients : pc[b] \in Opening => ~ready'[mine[b]]
      /\ \A s \in Sessions \ Created' : ~ready'[s]
      /\ pc[c] \in Opening => \A b \in Clients \ {c} : pc[b] \in Opening => mine[b] # mine[c]
  BY DEF OpenInv, Created
<1> QED
  BY <1>1, <1>2, <1>3, CallerStep DEF Opening

LEMMA OpenNewOpens ==
    ASSUME IInv, OpenInv, StaysShut, NEW c \in Clients, NEW d \in Devices, OpenNew(c, d)
    PROVE  OpenInv'
<1>1. /\ created + 1 \in Sessions \ Created /\ Created \subseteq Created'
      /\ ready' = ready
  BY BoundsAssumption DEF OpenNew, IInv, TypeOK, Sessions, Created
<1>2. \A b \in Clients \ {c} : pc'[b] = pc[b] /\ mine'[b] = mine[b] /\ stale'[b] = stale[b]
  BY DEF OpenNew, IInv, TypeOK
<1>3. mine'[c] = created + 1 /\ pc'[c] \in {"connect", "stale"}
  BY DEF OpenNew, IInv, TypeOK
<1>4. \A b \in Clients \ {c} : pc[b] \in Opening => mine[b] \in Created /\ ~ready[mine[b]]
  BY DEF OpenInv, IInv, HandsInv, Opening
<1>5. ~ready[created + 1] /\ \A s \in Sessions \ Created' : ~ready'[s]
  BY <1>1 DEF OpenInv
<1>6. pc'[c] = "stale" => shut'[stale'[c]] # "no"
  <2> SUFFICES ASSUME pc'[c] = "stale" PROVE shut'[stale'[c]] # "no"
    OBVIOUS
  <2>1. Close1(reg[d]) /\ stale'[c] = reg[d] /\ reg[d] # None
    BY DEF OpenNew, IInv, TypeOK
  <2>2. reg[d] \in Sessions
    BY <2>1 DEF IInv, TypeOK
  <2>3. shut'[reg[d]] \in {"closing", "closed"}
    BY <2>1, <2>2, Close1Effect DEF IInv
  <2> QED
    BY <2>1, <2>3
<1> QED
  BY <1>1, <1>2, <1>3, <1>4, <1>5, <1>6, CallerStep

LEMMA CloseCallOpens ==
    ASSUME IInv, OpenInv, StaysShut, NEW c \in Clients, NEW d \in Devices, CloseCall(c, d)
    PROVE  OpenInv'
<1>1. ready' = ready /\ Created' = Created /\ Close1(reg[d]) /\ pc[c] = "idle"
  BY DEF CloseCall, Created
<1>2. \A b \in Clients \ {c} : pc'[b] = pc[b] /\ mine'[b] = mine[b] /\ stale'[b] = stale[b]
  BY DEF CloseCall, IInv, TypeOK
<1>3. reg[d] \in Sessions
  BY DEF CloseCall, IInv, TypeOK
<1>4. shut'[reg[d]] \in {"closing", "closed"}
  BY <1>1, <1>3, Close1Effect DEF IInv
<1>5. pc'[c] = "idle" \/ (pc'[c] = "closing" /\ mine'[c] = reg[d])
  BY DEF CloseCall, IInv, TypeOK
<1>6. /\ \A b \in Clients \ {c} : pc[b] \in Opening => ~ready'[mine[b]]
      /\ \A s \in Sessions \ Created' : ~ready'[s]
  BY <1>1 DEF OpenInv
<1> QED
  BY <1>2, <1>4, <1>5, <1>6, CallerStep DEF Opening

LEMMA ChannelUpOpens ==
    ASSUME IInv, OpenInv, StaysShut, NEW c \in Clients, ChannelUp(c)
    PROVE  OpenInv'
<1>1. Created' = Created /\ ready' = [ready EXCEPT ![mine[c]] = TRUE] /\ pc[c] = "channel"
  BY DEF ChannelUp, Created
<1>2. \A b \in Clients \ {c} : pc'[b] = pc[b] /\ mine'[b] = mine[b] /\ stale'[b] = stale[b]
  BY DEF ChannelUp, Fails, Returns, Continues, IInv, TypeOK
<1>3. pc'[c] \in {"idle", "reading", "failing"}
  BY DEF ChannelUp, Fails, Returns, Continues, IInv, TypeOK
<1>4. mine[c] \in Created /\ Created \subseteq Sessions
  BY <1>1, CreatedSessions DEF IInv, HandsInv
<1>5. \A b \in Clients \ {c} : pc[b] \in Opening => ~ready'[mine[b]]
  <2> SUFFICES ASSUME NEW b \in Clients \ {c}, pc[b] \in Opening PROVE ~ready'[mine[b]]
    OBVIOUS
  <2>1. mine[b] # mine[c] /\ ~ready[mine[b]]
    BY <1>1 DEF OpenInv, Opening
  <2>2. mine[b] \in Sessions
    BY CreatedSessions DEF IInv, HandsInv, Opening
  <2> QED
    BY <1>1, <2>1, <2>2 DEF IInv, TypeOK
<1>6. \A s \in Sessions \ Created' : ~ready'[s]
  BY <1>1, <1>4 DEF OpenInv, IInv, TypeOK
<1>7. pc'[c] = "failing" => shut'[mine'[c]] # "no"
  <2>1. pc'[c] = "failing" => Close1(mine[c]) /\ mine' = mine
    BY <1>1 DEF ChannelUp, Fails, Returns, Continues, IInv, TypeOK
  <2> QED
    BY <1>4, <2>1, Close1Effect DEF IInv
<1> QED
  BY <1>2, <1>3, <1>5, <1>6, <1>7, CallerStep DEF Opening

LEMMA NextOpenInv == IInv /\ OpenInv /\ [Next]_vars => OpenInv'
<1> SUFFICES ASSUME IInv, OpenInv, [Next]_vars PROVE OpenInv'
  OBVIOUS
<1>1. StaysShut
  BY ShutForGood DEF IInv
<1>2. ASSUME UNCHANGED <<ready, created, pc, mine, stale>> PROVE OpenInv'
  <2>1. /\ \A b \in Clients : pc[b] # "idle" => mine[b] \in Sessions
        /\ \A b \in Clients : pc[b] = "stale" => stale[b] \in Sessions
    BY CreatedSessions DEF IInv, HandsInv
  <2> QED
    BY <1>1, <1>2, <2>1 DEF OpenInv, StaysShut, Created
<1>3. ASSUME NEW c \in Clients, NEW d \in Devices,
             OpenReuses(c, d) \/ OpenRefused(c, d) \/ OpenNew(c, d) \/ CloseCall(c, d)
      PROVE  OpenInv'
  <2>1. CASE OpenReuses(c, d) \/ OpenRefused(c, d)
    BY <1>2, <2>1 DEF OpenReuses, OpenRefused, clientVars, sessionVars
  <2> QED
    BY <1>1, <1>3, <2>1, OpenNewOpens, CloseCallOpens
<1>4. ASSUME NEW c \in Clients, FailureClosed(c) \/ OpenDone(c) \/ Cancel(c) \/ CloseDone(c)
      PROVE  OpenInv'
  BY <1>1, <1>4, ReturnsStep DEF FailureClosed, OpenDone, Cancel, CloseDone, sessionVars
<1>5. ASSUME NEW c \in Clients, StaleClosed(c) \/ ConnectUp(c) PROVE OpenInv'
  BY <1>1, <1>5, ContinuesStep DEF StaleClosed, ConnectUp, Opening
<1>6. ASSUME NEW c \in Clients, OpenFails(c) PROVE OpenInv'
  <2>1. /\ pc[c] \in Opening \cup {"reading"} /\ Close1(mine[c])
        /\ UNCHANGED <<ready, created>>
    BY <1>6 DEF OpenFails, Fails, Opening
  <2>2. mine[c] \in Sessions
    BY <2>1, CreatedSessions DEF IInv, HandsInv, Opening
  <2>3. shut'[mine[c]] \in {"closing", "closed"}
    BY <2>1, <2>2, Close1Effect DEF IInv
  <2>4. Returns(c) \/ Continues(c, "failing")
    BY <1>6 DEF OpenFails, Fails
  <2> QED
    BY <1>1, <2>1, <2>3, <2>4, ReturnsStep, ContinuesStep
<1>7. ASSUME NEW s \in Sessions, Lost(s) \/ Aging(s) \/ Activity(s) PROVE OpenInv'
  BY <1>2, <1>7 DEF Lost, Aging, Activity, clientVars
<1>8. CASE ReaperTick \/ ReaperResumes \/ CloseAll \/ CloseAllResumes
  BY <1>2, <1>8 DEF ReaperTick, ReaperResumes, CloseAll, CloseAllResumes, Reap, CloseList,
     clientVars
<1>9. CASE UNCHANGED vars
  BY <1>2, <1>9 DEF vars, clientVars, sessionVars
<1> QED
  BY <1>1, <1>3, <1>4, <1>5, <1>6, <1>7, <1>8, <1>9, ChannelUpOpens DEF Next

\* Opening a device closes no connected session but the one this very call
\* opened, when its first read raises (ssh_terminal.py 540-552).
THEOREM ConnectedSpared == Spec => OpenSparesConnected
<1>1. Init => OpenInv
  BY DEF Init, OpenInv, Opening
<1>2. IInv /\ OpenInv /\ [Next]_vars =>
        [\A s \in Sessions :
           Connected(s) /\ shut'[s] # "no" =>
              \/ \E c \in Clients : mine[c] = s /\ pc[c] = "reading" /\ OpenFails(c)
              \/ \E c \in Clients, d \in Devices : CloseCall(c, d)
              \/ ReaperTick \/ ReaperResumes \/ CloseAll \/ CloseAllResumes]_vars
  <2> SUFFICES ASSUME IInv, OpenInv, Next, NEW s \in Sessions, Connected(s), shut'[s] # "no",
                      ~\E c \in Clients : mine[c] = s /\ pc[c] = "reading" /\ OpenFails(c),
                      ~\E c \in Clients, d \in Devices : CloseCall(c, d),
                      ~(ReaperTick \/ ReaperResumes \/ CloseAll \/ CloseAllResumes)
               PROVE  FALSE
    OBVIOUS
  <2>1. shut[s] = "no" /\ ready[s] /\ shut' # shut
    BY DEF Connected
  <2>2. ASSUME NEW t \in Sessions, Close1(t) \/ CloseEnds(t) PROVE s = t
    BY <2>1, <2>2 DEF Close1, CloseEnds, ShutAfter, IInv, TypeOK
  <2>3. ASSUME NEW c \in Clients, NEW d \in Devices, OpenNew(c, d) PROVE FALSE
    <3>1. Close1(reg[d]) /\ ~Connected(reg[d]) /\ reg[d] \in Sessions
      BY <2>1, <2>3 DEF OpenNew, MustReplace, IInv, TypeOK
    <3> QED
      BY <2>2, <3>1
  <2>4. ASSUME NEW c \in Clients, StaleClosed(c) PROVE FALSE
    <3>1. CloseEnds(stale[c]) /\ shut[stale[c]] # "no" /\ stale[c] \in Sessions
      BY <2>4, CreatedSessions DEF StaleClosed, OpenInv, IInv, HandsInv
    <3> QED
      BY <2>1, <2>2, <3>1
  <2>5. ASSUME NEW c \in Clients, ChannelUp(c) \/ OpenFails(c) PROVE FALSE
    <3>1. mine[c] \in Sessions
      BY <2>5, CreatedSessions DEF ChannelUp, OpenFails, IInv, HandsInv
    <3>2. Close1(mine[c])
      BY <2>1, <2>5 DEF ChannelUp, OpenFails, Fails
    <3>3. CASE pc[c] = "reading"
      BY <2>2, <2>5, <3>1, <3>2, <3>3 DEF ChannelUp
    <3>4. CASE pc[c] \in {"connect", "channel"}
      BY <2>1, <2>2, <3>1, <3>2, <3>4 DEF OpenInv, Opening
    <3> QED
      BY <2>5, <3>3, <3>4 DEF ChannelUp, OpenFails
  <2>6. ASSUME NEW c \in Clients, FailureClosed(c) \/ CloseDone(c) PROVE FALSE
    <3>1. CloseEnds(mine[c]) /\ shut[mine[c]] # "no" /\ mine[c] \in Sessions
      BY <2>6, CreatedSessions DEF FailureClosed, CloseDone, OpenInv, IInv, HandsInv
    <3> QED
      BY <2>1, <2>2, <3>1
  <2> QED
    BY <2>1, <2>3, <2>4, <2>5, <2>6
    DEF Next, OpenReuses, OpenRefused, ConnectUp, OpenDone, Cancel, Lost, Aging, Activity,
        sessionVars
<1> QED
  BY <1>1, <1>2, AlwaysIInv, NextOpenInv, PTL DEF Spec, OpenSparesConnected

-----------------------------------------------------------------------------
(* How a connected session leaves the registry                             *)

\* The registered session of a device is the newest one of that device.
NewestInv ==
    \A d \in Devices : reg[d] # None => \A t \in Created : dev[t] = d => t <= reg[d]

\* A connected session that this step does not close leaves the registry only
\* by close_all, or because an older session of the same device is closed: the
\* close, the failure or the reaper of that one pops whichever is there.
LeavesToAnOlder ==
    \A d \in Devices, s \in Sessions :
        reg[d] = s /\ Connected(s) /\ reg'[d] # s =>
            \/ CloseAll
            \/ shut'[s] # "no"
            \/ \E t \in Created : t < s /\ dev[t] = d /\ shut'[t] # "no"

LeavesOnlyToAnOlder == [][LeavesToAnOlder]_vars

\* A device is popped where a session of it is closed.
Pops(d) == reg'[d] = None /\ \E t \in Created : dev[t] = d /\ shut'[t] # "no"

\* Where an operation pops the device of one session.
LEMMA PopsOne ==
    ASSUME IInv, NEW t \in Created, reg' = Pop(t), shut'[t] # "no"
    PROVE  \A d \in Devices : reg'[d] = reg[d] \/ Pops(d)
BY DEF IInv, TypeOK, Pop, Pops

\* The reaper pops those it has closed.
LEMMA ReapPops ==
    ASSUME IInv, NEW D \in SUBSET Created, NEW F \in SUBSET Created, Reap(D, F)
    PROVE  \A d \in Devices : reg'[d] = reg[d] \/ Pops(d)
<1>1. PICK P \in SUBSET D, X \in {{}} \cup {{s} : s \in D} :
        /\ shut' = ShutAfter(F, P, X)
        /\ reg' = [d \in Devices |-> IF \E s \in F \cup P : dev[s] = d THEN None ELSE reg[d]]
  BY DEF Reap
<1>2. \A s \in F \cup P : s \in Created /\ s \in Sessions
  BY CreatedSessions DEF IInv
<1>3. \A s \in F \cup P : shut'[s] # "no"
  BY <1>1, <1>2 DEF ShutAfter
<1> QED
  BY <1>1, <1>2, <1>3 DEF Pops

\* All that happens to the registry.
LEMMA RegistrySteps ==
    ASSUME IInv, [Next]_vars
    PROVE  \/ \E c \in Clients, d \in Devices : OpenNew(c, d)
           \/ CloseAll
           \/ /\ UNCHANGED <<created, dev>>
              /\ \A d \in Devices :
                   \/ reg'[d] = reg[d]
                   \/ Pops(d)
                   \/ reg'[d] = None /\ MustReplace(reg[d])
<1> DEFINE Good == /\ UNCHANGED <<created, dev>>
                   /\ \A d \in Devices : \/ reg'[d] = reg[d]
                                         \/ Pops(d)
                                         \/ reg'[d] = None /\ MustReplace(reg[d])
<1> SUFFICES ASSUME ~CloseAll, ~\E c \in Clients, d \in Devices : OpenNew(c, d)
             PROVE  Good
  OBVIOUS
<1>1. UNCHANGED <<reg, created, dev>> => Good
  OBVIOUS
<1>2. /\ \A c \in Clients : pc[c] # "idle" => mine[c] \in Created /\ mine[c] \in Sessions
      /\ Created \subseteq Sessions /\ doomed \subseteq Created /\ reaping \subseteq Created
  BY CreatedSessions DEF IInv, HandsInv
<1>3. ASSUME NEW c \in Clients, NEW d \in Devices, OpenRefused(c, d) PROVE Good
  BY <1>3 DEF OpenRefused, IInv, TypeOK, sessionVars
<1>4. ASSUME NEW c \in Clients, NEW d \in Devices, CloseCall(c, d) PROVE Good
  <2>1. UNCHANGED <<created, dev>> /\ Close1(reg[d]) /\ reg[d] \in Created
    BY <1>4 DEF CloseCall, IInv, RegistryInv
  <2>2. shut'[reg[d]] # "no"
    BY <1>2, <2>1, Close1Effect DEF IInv
  <2>3. reg' = Pop(reg[d]) \/ reg' = reg
    BY <1>4 DEF CloseCall
  <2> DEFINE s == reg[d]
  <2>4. s \in Created /\ shut'[s] # "no" /\ (reg' = Pop(s) \/ reg' = reg)
    BY <2>1, <2>2, <2>3
  <2> HIDE DEF s
  <2> QED
    BY <2>1, <2>4, PopsOne
<1>5. ASSUME NEW c \in Clients, pc[c] # "idle", Fails(c), UNCHANGED <<created, dev>> PROVE Good
  <2>1. mine[c] \in Created /\ Close1(mine[c])
    BY <1>2, <1>5 DEF Fails
  <2>2. shut'[mine[c]] # "no"
    BY <1>2, <2>1, Close1Effect DEF IInv
  <2>3. reg' = reg \/ reg' = Pop(mine[c])
    BY <1>5 DEF Fails
  <2> QED
    BY <1>5, <2>1, <2>2, <2>3, PopsOne
<1>6. ASSUME NEW c \in Clients, ChannelUp(c) \/ OpenFails(c) PROVE Good
  <2>1. pc[c] # "idle" /\ UNCHANGED <<created, dev>>
    BY <1>6 DEF ChannelUp, OpenFails
  <2>2. Fails(c) \/ UNCHANGED reg
    BY <1>6 DEF ChannelUp, OpenFails
  <2> QED
    BY <1>1, <1>5, <2>1, <2>2
<1>7. ASSUME NEW c \in Clients, FailureClosed(c) \/ CloseDone(c) PROVE Good
  <2>1. /\ UNCHANGED <<created, dev>> /\ mine[c] \in Created /\ CloseEnds(mine[c])
        /\ reg' = Pop(mine[c])
    BY <1>2, <1>7 DEF FailureClosed, CloseDone
  <2>2. shut'[mine[c]] # "no"
    BY <1>2, <2>1 DEF CloseEnds, ShutAfter
  <2> QED
    BY <2>1, <2>2, PopsOne
<1>8. ASSUME NEW D \in SUBSET Created, NEW F \in SUBSET Created, Reap(D, F) PROVE Good
  <2>1. UNCHANGED <<created, dev>>
    BY <1>8 DEF Reap
  <2> QED
    BY <1>8, <2>1, ReapPops
<1>9. CASE ReaperTick \/ ReaperResumes
  <2>1. Doomed \in SUBSET Created /\ {} \in SUBSET Created
    BY RegisteredCreated DEF Doomed
  <2> QED
    BY <1>2, <1>8, <1>9, <2>1 DEF ReaperTick, ReaperResumes
<1>10. ASSUME NEW c \in Clients, StaleClosed(c) \/ ConnectUp(c) \/ OpenDone(c) \/ Cancel(c)
       PROVE  Good
  BY <1>1, <1>10 DEF StaleClosed, ConnectUp, OpenDone, Cancel, sessionVars
<1>11. ASSUME NEW s \in Sessions, Lost(s) \/ Aging(s) \/ Activity(s) PROVE Good
  BY <1>1, <1>11 DEF Lost, Aging, Activity
<1>12. ASSUME NEW c \in Clients, NEW d \in Devices, OpenReuses(c, d) PROVE Good
  BY <1>1, <1>12 DEF OpenReuses
<1>13. CASE CloseAllResumes \/ UNCHANGED vars
  BY <1>1, <1>13 DEF CloseAllResumes, CloseList, vars, sessionVars
<1> HIDE DEF Good
<1> QED
  BY <1>3, <1>4, <1>6, <1>7, <1>9, <1>10, <1>11, <1>12, <1>13 DEF Next

\* A new session is newer than all of them.
LEMMA NewestStep ==
    ASSUME IInv, NewestInv, [Next]_vars PROVE NewestInv' /\ LeavesToAnOlder
<1>1. Created \subseteq Sessions
  BY CreatedSessions DEF IInv
<1>2. ASSUME NEW c \in Clients, NEW d \in Devices, OpenNew(c, d)
      PROVE  NewestInv' /\ LeavesToAnOlder
  <2> DEFINE n == created + 1
  <2>1. /\ n \in Sessions /\ Created' = Created \cup {n} /\ n # None /\ n \notin Created
        /\ \A t \in Created : t <= n
    BY <1>2, BoundsAssumption, NoneAssumption DEF OpenNew, IInv, TypeOK, Created, Sessions
  <2>2. /\ reg' = [reg EXCEPT ![d] = n] /\ dev' = [dev EXCEPT ![n] = d]
        /\ MustReplace(reg[d])
    BY <1>2 DEF OpenNew
  <2>3. n <= n
    BY <2>1 DEF Sessions
  <2> HIDE DEF n
  <2>4. ASSUME NEW e \in Devices, reg'[e] # None, NEW t \in Created', dev'[t] = e
        PROVE  t <= reg'[e]
    <3>1. CASE e = d
      BY <2>1, <2>2, <2>3, <3>1 DEF IInv, TypeOK
    <3>2. CASE e # d
      <4>1. reg'[e] = reg[e] /\ t # n /\ t \in Created /\ dev[t] = e
        BY <1>1, <2>1, <2>2, <2>4, <3>2 DEF IInv, TypeOK
      <4> QED
        BY <2>4, <4>1 DEF NewestInv
    <3> QED
      BY <3>1, <3>2
  <2>5. NewestInv'
    BY <2>4 DEF NewestInv
  <2>6. LeavesToAnOlder
    BY <2>2, NoneAssumption DEF LeavesToAnOlder, MustReplace, IInv, TypeOK, Sessions
  <2> QED
    BY <2>5, <2>6
<1>3. CASE CloseAll
  <2>1. \A d \in Devices : reg'[d] = None
    BY <1>3 DEF CloseAll
  <2> QED
    BY <1>3, <2>1 DEF NewestInv, LeavesToAnOlder
<1>4. CASE /\ UNCHANGED <<created, dev>>
           /\ \A d \in Devices : \/ reg'[d] = reg[d]
                                 \/ Pops(d)
                                 \/ reg'[d] = None /\ MustReplace(reg[d])
  <2>1. NewestInv'
    BY <1>4 DEF NewestInv, Created, Pops
  <2>2. ASSUME NEW d \in Devices, NEW s \in Sessions, reg[d] = s, Connected(s), reg'[d] # s,
               shut'[s] = "no"
        PROVE  \E t \in Created : t < s /\ dev[t] = d /\ shut'[t] # "no"
    <3>1. s # None
      BY NoneAssumption DEF Sessions
    <3>2. PICK t \in Created : dev[t] = d /\ shut'[t] # "no"
      BY <1>4, <2>2, <3>1 DEF Pops, MustReplace
    <3>3. t <= s /\ t # s
      BY <2>2, <3>1, <3>2 DEF NewestInv
    <3>4. t \in Nat /\ s \in Nat
      BY <1>1 DEF Sessions
    <3> QED
      BY <3>2, <3>3, <3>4
  <2>3. LeavesToAnOlder
    BY <2>2 DEF LeavesToAnOlder
  <2> QED
    BY <2>1, <2>3
<1> QED
  BY <1>2, <1>3, <1>4, RegistrySteps

\* What is lost of a connected session is lost to the close of an older one:
\* where no device is opened again while an earlier session of it closes, every
\* connected session stays registered until it is closed.
THEOREM ConnectedLeavesToAnOlder == Spec => LeavesOnlyToAnOlder
<1>1. Init => NewestInv
  BY DEF Init, NewestInv
<1>2. ASSUME IInv, NewestInv, [Next]_vars PROVE NewestInv' /\ [LeavesToAnOlder]_vars
  BY <1>2, NewestStep
<1> QED
  BY <1>1, <1>2, AlwaysIInv, PTL DEF Spec, LeavesOnlyToAnOlder

-----------------------------------------------------------------------------
(* close_all *)

\* A session close_all has taken: it is on the list, or its close() began.
Taken(s) == ending # "no" /\ (shut[s] # "no" \/ s \in left \cup closing)

\* What is registered when close_all begins is taken from then on, whatever
\* else goes on, and when close_all is done its close() was called.
Takes ==
    \A s \in Sessions :
        /\ Taken(s) \/ (CloseAll /\ s \in Registered) => Taken(s)'
        /\ (Taken(s) \/ (CloseAll /\ s \in Registered)) /\ ending' = "done" => shut'[s] # "no"

ShutdownClosesAll == [][Takes]_vars

\* There is a list only while close_all goes on.
EndInv == ending # "closing" => left \cup closing = {}

\* It closes its list in order and keeps the rest of it.
LEMMA CloseListTakes ==
    ASSUME NEW D \in SUBSET Sessions, NEW F \in SUBSET Sessions, CloseList(D, F)
    PROVE  /\ \A s \in D \cup F : shut'[s] # "no" \/ s \in left' \cup closing'
           /\ ending' # "no"
           /\ ending' # "closing" => left' \cup closing' = {}
<1>1. PICK P \in SUBSET D, X \in {{}} \cup {{s} : s \in D} :
        /\ Advances(D, P, X)
        /\ shut' = ShutAfter(F, P, X)
        /\ left' = D \ (P \cup X) /\ closing' = X
        /\ X = {} => ending' = "done"
        /\ X # {} => ending' = "closing"
  BY DEF CloseList
<1>2. X = {} => P = D
  BY <1>1 DEF Advances
<1>3. \A s \in P \cup F : shut'[s] # "no"
  BY <1>1 DEF ShutAfter
<1> QED
  BY <1>1, <1>2, <1>3

\* Nothing else touches the list.
LEMMA EndVarsKept ==
    ASSUME [Next]_vars PROVE CloseAll \/ CloseAllResumes \/ UNCHANGED endVars
BY DEF Next, vars, OpenReuses, OpenRefused, OpenNew, CloseCall, StaleClosed, ConnectUp,
       ChannelUp, OpenFails, FailureClosed, OpenDone, Cancel, CloseDone, Lost, Aging, Activity,
       ReaperTick, ReaperResumes, Reap

\* No step takes from close_all what it has taken.
LEMMA EndStep ==
    ASSUME IInv, EndInv, [Next]_vars PROVE EndInv' /\ Takes
<1>1. StaysShut
  BY ShutForGood DEF IInv
<1>2. UNCHANGED endVars /\ ~CloseAll => EndInv' /\ Takes
  BY <1>1 DEF EndInv, Takes, Taken, StaysShut, endVars
<1>3. CASE CloseAll
  <2>1. Registered \in SUBSET Sessions /\ {} \in SUBSET Sessions
    BY RegisteredCreated, CreatedSessions DEF IInv
  <2>2. CloseList(Registered, {}) /\ ending = "no"
    BY <1>3 DEF CloseAll
  <2>3. /\ \A s \in Registered : shut'[s] # "no" \/ s \in left' \cup closing'
        /\ ending' # "no"
        /\ ending' # "closing" => left' \cup closing' = {}
    BY <2>1, <2>2, CloseListTakes
  <2>4. EndInv'
    BY <2>3 DEF EndInv
  <2>5. Takes
    BY <2>2, <2>3 DEF Takes, Taken
  <2> QED
    BY <2>4, <2>5
<1>4. CASE CloseAllResumes
  <2>1. left \in SUBSET Sessions /\ closing \in SUBSET Sessions
    BY DEF IInv, TypeOK
  <2>2. CloseList(left, closing) /\ ending = "closing" /\ ~CloseAll
    BY <1>4 DEF CloseAllResumes, CloseAll
  <2>3. /\ \A s \in left \cup closing : shut'[s] # "no" \/ s \in left' \cup closing'
        /\ ending' # "no"
        /\ ending' # "closing" => left' \cup closing' = {}
    BY <2>1, <2>2, CloseListTakes
  <2>4. EndInv'
    BY <2>3 DEF EndInv
  <2>5. Takes
    BY <1>1, <2>2, <2>3 DEF Takes, Taken, StaysShut
  <2> QED
    BY <2>4, <2>5
<1>5. CASE UNCHANGED endVars /\ ~CloseAll
  BY <1>2, <1>5
<1> QED
  BY <1>3, <1>4, <1>5, EndVarsKept

\* close_all: every session registered when it begins is closed, or has its
\* close() under way, when it is done: also one that a caller or the reaper
\* is closing, and although it cancels the reaper.
THEOREM ShutdownTakesAll == Spec => ShutdownClosesAll
<1>1. Init => EndInv
  BY DEF Init, EndInv
<1>2. ASSUME IInv, EndInv, [Next]_vars PROVE EndInv' /\ [Takes]_vars
  BY <1>2, EndStep
<1> QED
  BY <1>1, <1>2, AlwaysIInv, PTL DEF Spec, ShutdownClosesAll

-----------------------------------------------------------------------------
(* When every connected session is tracked                                 *)

\* What leaves the registry is closed by that very step, or earlier, or taken
\* by close_all: no pop takes another session than its own.
PopsItsOwn ==
    \A d \in Devices :
        reg[d] # None /\ reg'[d] # reg[d] => CloseAll \/ shut'[reg[d]] # "no"

\* A session nobody closes is registered, or on the list of close_all.
TrackInv == \A s \in Created : shut[s] = "no" => s \in Registered \cup left \cup closing

LEMMA TrackStep ==
    ASSUME IInv, EndInv, TrackInv, [Next]_vars, PopsItsOwn PROVE TrackInv'
<1>1. StaysShut /\ Created \subseteq Sessions
  BY ShutForGood, CreatedSessions DEF IInv
<1>2. ASSUME NEW s \in Created, shut'[s] = "no" PROVE (s \in Registered \cup left \cup closing)'
  <2>1. s \in Registered \cup left \cup closing /\ s \in Sessions
    BY <1>1, <1>2 DEF StaysShut, TrackInv
  <2>2. CASE s \in left \cup closing
    <3>1. CASE UNCHANGED endVars
      BY <2>2, <3>1 DEF endVars
    <3>2. CASE CloseAllResumes
      <4>1. left \in SUBSET Sessions /\ closing \in SUBSET Sessions /\ CloseList(left, closing)
        BY <3>2 DEF IInv, TypeOK, CloseAllResumes
      <4> QED
        BY <1>2, <2>2, <4>1, CloseListTakes
    <3>3. CASE CloseAll
      BY <2>2, <3>3 DEF CloseAll, EndInv
    <3> QED
      BY <3>1, <3>2, <3>3, EndVarsKept
  <2>3. CASE s \in Registered
    <3>1. PICK d \in Devices : reg[d] = s /\ s # None
      BY <2>3 DEF Registered
    <3>2. CASE reg'[d] = s
      BY <3>1, <3>2 DEF Registered
    <3>3. CASE reg'[d] # s
      <4>1. CloseAll
        BY <1>2, <3>1, <3>3 DEF PopsItsOwn
      <4>2. Registered \in SUBSET Sessions /\ {} \in SUBSET Sessions /\ CloseList(Registered, {})
        BY <1>1, <4>1, RegisteredCreated DEF CloseAll
      <4> QED
        BY <1>2, <2>3, <4>2, CloseListTakes
    <3> QED
      BY <3>2, <3>3
  <2> QED
    BY <2>1, <2>2, <2>3
<1>3. ASSUME NEW s \in Created', s \notin Created PROVE s \in Registered'
  <2>1. PICK c \in Clients, d \in Devices : OpenNew(c, d)
    BY <1>3, RegistrySteps DEF Created, CloseAll, CloseList
  <2>2. created' = created + 1 /\ reg' = [reg EXCEPT ![d] = created + 1] /\ created \in Nat
    BY <2>1, BoundsAssumption DEF OpenNew, IInv, TypeOK
  <2>3. s = created + 1
    BY <1>3, <2>2 DEF Created
  <2>4. reg'[d] = s /\ s # None
    BY <2>2, <2>3, NoneAssumption DEF IInv, TypeOK
  <2> QED
    BY <2>4 DEF Registered
<1> QED
  BY <1>2, <1>3 DEF TrackInv

\* Where every pop takes the session it is for, each connected session is in
\* the registry or on its way out of it: with ConnectedLeavesToAnOlder, the
\* pop by name after the close of an older session is all that loses one.
THEOREM TrackedWherePopsMatch == Spec /\ [][PopsItsOwn]_vars => []ConnectedIsTracked
<1>1. Init => EndInv /\ TrackInv /\ OpenInv
  BY BoundsAssumption DEF Init, EndInv, TrackInv, Created, OpenInv, Opening
<1>2. ASSUME IInv, EndInv, TrackInv, [Next]_vars, [PopsItsOwn]_vars PROVE EndInv' /\ TrackInv'
  <2>1. CASE PopsItsOwn
    BY <1>2, <2>1, EndStep, TrackStep
  <2>2. CASE UNCHANGED vars
    BY <1>2, <2>2 DEF vars, sessionVars, endVars, EndInv, TrackInv, Created, Registered
  <2> QED
    BY <1>2, <2>1, <2>2
<1>3. TrackInv /\ OpenInv => ConnectedIsTracked
  BY DEF TrackInv, OpenInv, Connected, ConnectedIsTracked
<1> QED
  BY <1>1, <1>2, <1>3, AlwaysIInv, NextOpenInv, PTL DEF Spec
=============================================================================
