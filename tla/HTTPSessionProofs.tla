-------------------------- MODULE HTTPSessionProofs --------------------------
(***************************************************************************)
(* Proofs about HTTPSession, for any number of callers and of sessions of  *)
(* the device, whatever cookies its answers set: whoever logs in holds the *)
(* lock, alone, what counts as authenticated has the token its vendor      *)
(* wants, and a request carries what the session has when it is sent, and  *)
(* is resent once.                                                         *)
(***************************************************************************)
EXTENDS HTTPSession, TLAPS

\* Where a caller is.
Places == {"idle", "locked", "logout", "login", "posted", "entry", "page", "sending", "ended"}

\* Where it holds the lock; in the last four the old login is dropped.
Phases == {"logout", "login", "posted", "entry", "page"}
Replacing == {"login", "posted", "entry", "page"}

\* The login of the one caller that has the lock.
LoginInv ==
    /\ \A b, c \in Clients : pc[b] \in Phases /\ pc[c] \in Phases => b = c
    /\ \A c \in Clients : pc[c] \in Phases => profile # "none"
    /\ \A c \in Clients : pc[c] \in Replacing => ~auth
    /\ \A c \in Clients : pc[c] = "posted" => sent[c].cookie # None
    /\ \A c \in Clients : pc[c] = "entry" => profile = "zte-be7200" /\ token # None
    /\ \A c \in Clients : pc[c] = "page" => profile = "tplink"

\* A call begins with a first try.
FirstTry == \A c \in Clients : pc[c] = "idle" => ~force[c]

IInv == TypeOK /\ LockHeldByLogin /\ LoginInv /\ FirstTry /\ RequestsAreComplete

\* A caller that begins to log in does so on a session nobody logged in, or
\* after the logout.
LogoutFirst ==
    \A c \in Clients : pc[c] # "login" /\ pc'[c] = "login" => ~auth \/ pc[c] = "logout"

\* What a step may do to a request: it is sent with what the session has at
\* that moment, while the client is open; it is sent again only as a retry,
\* which there is one of; and once it ended it stays ended.
Resends ==
    \A c \in Clients :
        /\ force[c] => force'[c]
        /\ pc[c] = "ended" => pc'[c] = "ended"
        /\ pc[c] = "sending" =>
             \/ pc'[c] = "ended"
             \/ UNCHANGED <<pc[c], sent[c], force[c]>>
             \/ ~force[c] /\ force'[c]
        /\ pc'[c] = "sending" =>
             \/ UNCHANGED <<pc[c], sent[c], force[c]>>
             \/ /\ closing # "closed" /\ auth'
                /\ sent'[c] = [cookie |-> cookie', token |-> token']

ResendsOnce == [][Resends]_vars

\* What a step has to keep.
Kept == IInv' /\ LogoutFirst /\ Resends

-----------------------------------------------------------------------------
\* Nobody calls yet.
THEOREM InitIInv == Init => IInv
<1> SUFFICES ASSUME Init PROVE IInv
  OBVIOUS
<1>1. None \in Credential /\ issued \in 0 .. WebBound
  BY BoundAssumption DEF Init, Credential
<1>2. TypeOK
  BY <1>1 DEF Init, TypeOK
<1>3. LockHeldByLogin /\ RequestsAreComplete /\ FirstTry
  BY DEF Init, LockHeldByLogin, RequestsAreComplete, FirstTry
<1>4. LoginInv
  BY DEF Init, LoginInv, Phases, Replacing
<1> QED
  BY <1>2, <1>3, <1>4 DEF IInv

\* A session has a number.
LEMMA WebsAreCredentials ==
    /\ None \in Credential /\ Webs \subseteq Credential
    /\ \A k \in Webs : k # None
BY BoundAssumption DEF Credential, Webs, None

\* The device creates a session.
LEMMA CreatesEffect ==
    ASSUME TypeOK, NEW state \in {"anon", "live"}, Creates(state)
    PROVE  /\ issued' \in 0 .. WebBound /\ web' \in [Webs -> {"none", "anon", "live", "over"}]
           /\ issued + 1 \in Webs /\ issued' = issued + 1
<1>1. issued + 1 \in 1 .. WebBound /\ issued + 1 \in 0 .. WebBound
  BY BoundAssumption DEF TypeOK, Creates
<1> QED
  BY <1>1 DEF TypeOK, Creates, Webs

\* An answer that is looked at takes no token away.
LEMMA ObservedEffect ==
    ASSUME TypeOK, NEW c \in Clients, NEW t \in Observed(c)
    PROVE  t \in Credential /\ (token # None => t # None)
BY WebsAreCredentials DEF Observed, TypeOK

-----------------------------------------------------------------------------
(* What a caller's step does *)

\* To the device, the client and the retries of the others.
Around(c) ==
    /\ profile' = profile
    /\ closing' \in {"no", "logout", "closed"} /\ issued' \in 0 .. WebBound
    /\ web' \in [Webs -> {"none", "anon", "live", "over"}]
    /\ force' \in [Clients -> BOOLEAN] /\ \A b \in Clients \ {c} : force'[b] = force[b]

\* To its own call: where it goes, and what its exchange carries.
Turns(c, step, k, t) ==
    /\ step \in Places \ {"idle"} /\ k \in Credential /\ t \in Credential
    /\ Goes(c, step) /\ Carries(c, k, t)
    /\ pc[c] # "ended"
    /\ force[c] => force'[c]
    /\ pc[c] = "sending" => step = "ended" \/ (~force[c] /\ force'[c])
    /\ step = "sending" =>
         /\ closing # "closed" /\ auth' /\ k = cookie' /\ t = token'
         /\ force'[c] /\ profile \in {"tplink", "mellanox"} => k # None
    /\ step = "posted" => k # None

\* To the lock and the login: with the lock, or leaving both as they are.
Locks(c, step) ==
    /\ auth' \in BOOLEAN /\ cookie' \in Credential /\ token' \in Credential
    /\ auth' /\ profile \in TokenProfiles => token' # None
    /\ \/ /\ pc[c] \in Phases \/ holder = {}
          /\ holder' = IF step \in Phases THEN {c} ELSE {}
       \/ /\ pc[c] \notin Phases /\ step \notin Phases /\ holder' = holder
          /\ auth' = auth /\ (token # None => token' # None)
    /\ step \in Phases => profile # "none"
    /\ step \in Replacing => ~auth'
    /\ step = "login" => ~auth \/ pc[c] = "logout"
    /\ step = "entry" => profile = "zte-be7200" /\ token' # None
    /\ step = "page" => profile = "tplink"

\* A step of that kind keeps all that a step has to.
LEMMA CallerStep ==
    ASSUME IInv, NEW c \in Clients, Around(c),
           NEW step, NEW k, NEW t, Turns(c, step, k, t), Locks(c, step)
    PROVE  Kept
<1>1. /\ pc' = [pc EXCEPT ![c] = step] /\ pc \in [Clients -> Places] /\ step \in Places
      /\ sent' = [sent EXCEPT ![c] = [cookie |-> k, token |-> t]]
      /\ sent \in [Clients -> [cookie : Credential, token : Credential]]
      /\ [cookie |-> k, token |-> t] \in [cookie : Credential, token : Credential]
  BY DEF Turns, Goes, Carries, IInv, TypeOK, Places
<1>2. /\ pc'[c] = step /\ sent'[c] = [cookie |-> k, token |-> t]
      /\ \A b \in Clients \ {c} : pc'[b] = pc[b] /\ sent'[b] = sent[b] /\ force'[b] = force[b]
      /\ pc' \in [Clients -> Places]
      /\ sent' \in [Clients -> [cookie : Credential, token : Credential]]
  BY <1>1 DEF Around
<1>3. \A b \in Clients : pc[b] \in Phases <=> b \in holder
  BY DEF IInv, LockHeldByLogin, Phases
<1>4. holder' \subseteq Clients /\ \A b \in Clients : pc'[b] \in Phases <=> b \in holder'
  <2>1. CASE pc[c] \in Phases \/ holder = {}
    <3>1. \A b \in Clients \ {c} : pc[b] \notin Phases
      BY <1>3, <2>1 DEF IInv, LoginInv
    <3>2. holder' = IF step \in Phases THEN {c} ELSE {}
      <4>1. pc[c] \notin Phases /\ holder' = holder /\ step \notin Phases =>
               holder' = IF step \in Phases THEN {c} ELSE {}
        BY <1>3, <2>1 DEF IInv, TypeOK
      <4> QED
        BY <4>1 DEF Locks
    <3> QED
      BY <1>2, <3>1, <3>2
  <2>2. CASE ~(pc[c] \in Phases \/ holder = {})
    <3>1. holder' = holder /\ step \notin Phases /\ pc[c] \notin Phases
      BY <2>2 DEF Locks
    <3> QED
      BY <1>2, <1>3, <3>1 DEF IInv, TypeOK
  <2> QED
    BY <2>1, <2>2
<1>5. LockHeldByLogin'
  BY <1>4 DEF LockHeldByLogin, Phases
<1>6. TypeOK'
  <2>1. holder' \subseteq Clients /\ auth' \in BOOLEAN /\ cookie' \in Credential /\ token' \in Credential
    BY <1>4 DEF Locks
  <2>2. profile' \in Profiles /\ force' \in [Clients -> BOOLEAN]
    BY DEF Around, IInv, TypeOK
  <2> QED
    BY <1>2, <2>1, <2>2 DEF Around, TypeOK, Places
<1>7. ASSUME NEW b \in Clients \ {c}, pc[b] \in Phases
      PROVE  step \notin Phases /\ auth' = auth /\ (token # None => token' # None)
  <2>1. pc[c] \notin Phases /\ holder # {}
    BY <1>3, <1>7 DEF IInv, LoginInv
  <2> QED
    BY <2>1 DEF Locks
<1>8. LoginInv'
  <2>1. \A a, b \in Clients : pc'[a] \in Phases /\ pc'[b] \in Phases => a = b
    BY <1>2, <1>7 DEF IInv, LoginInv
  <2>2. \A b \in Clients : pc'[b] \in Phases => profile' # "none"
    BY <1>2 DEF Around, Locks, IInv, LoginInv
  <2>3. \A b \in Clients : pc'[b] \in Replacing => ~auth'
    <3>1. \A b \in Clients \ {c} : pc[b] \in Replacing => pc[b] \in Phases
      BY DEF Phases, Replacing
    <3> QED
      BY <1>2, <1>7, <3>1 DEF Locks, IInv, LoginInv
  <2>4. \A b \in Clients : pc'[b] = "posted" => sent'[b].cookie # None
    BY <1>2 DEF Turns, IInv, LoginInv
  <2>5. \A b \in Clients : pc'[b] = "entry" => profile' = "zte-be7200" /\ token' # None
    <3>1. \A b \in Clients \ {c} : pc[b] = "entry" => pc[b] \in Phases
      BY DEF Phases
    <3> QED
      BY <1>2, <1>7, <3>1 DEF Around, Locks, IInv, LoginInv
  <2>6. \A b \in Clients : pc'[b] = "page" => profile' = "tplink"
    BY <1>2 DEF Around, Locks, IInv, LoginInv
  <2> QED
    BY <2>1, <2>2, <2>3, <2>4, <2>5, <2>6 DEF LoginInv
<1>9. FirstTry'
  BY <1>2 DEF Turns, IInv, FirstTry
<1>10. RequestsAreComplete'
  <2>1. auth' /\ profile' \in TokenProfiles => token' # None
    BY DEF Locks, Around
  <2>2. ASSUME NEW b \in Clients, pc'[b] = "sending"
        PROVE  /\ profile' \in TokenProfiles => sent'[b].token # None
               /\ force'[b] /\ profile' \in {"tplink", "mellanox"} => sent'[b].cookie # None
    <3>1. CASE b = c
      BY <1>2, <2>1, <2>2, <3>1 DEF Turns, Around
    <3>2. CASE b # c
      BY <1>2, <2>2, <3>2 DEF IInv, RequestsAreComplete, Around
    <3> QED
      BY <3>1, <3>2
  <2> QED
    BY <2>1, <2>2 DEF RequestsAreComplete
<1>11. LogoutFirst
  BY <1>2 DEF LogoutFirst, Locks
<1>12. Resends
  BY <1>2 DEF Resends, Turns
<1> QED
  BY <1>5, <1>6, <1>8, <1>9, <1>10, <1>11, <1>12 DEF Kept, IInv

\* A caller's step that keeps out of the login and its lock.
LEMMA OutsideLocks ==
    ASSUME IInv, NEW c \in Clients, NEW step, pc[c] \notin Phases, step \notin Phases,
           UNCHANGED <<auth, holder>>, cookie' \in Credential, token' \in Credential,
           token # None => token' # None
    PROVE  Locks(c, step)
<1>1. auth \in BOOLEAN /\ (auth /\ profile \in TokenProfiles => token # None)
  BY DEF IInv, TypeOK, RequestsAreComplete
<1> QED
  BY <1>1 DEF Locks, Phases, Replacing

\* A call that ends.
LEMMA EndsTurns ==
    ASSUME NEW c \in Clients, Ends(c), pc[c] # "ended", force[c] => force'[c]
    PROVE  Turns(c, "ended", None, None)
BY WebsAreCredentials DEF Ends, Turns, Places

-----------------------------------------------------------------------------
(* The parts of a step *)

\* A request goes out with what the session has, or the client is closed.
LEMMA SendsTurns ==
    ASSUME IInv, NEW c \in Clients, NEW t \in Credential, Sends(c, cookie, t),
           cookie' = cookie, token' = t, auth', pc[c] # "ended", force[c] => force'[c],
           pc[c] = "sending" => ~force[c] /\ force'[c],
           force'[c] /\ profile \in {"tplink", "mellanox"} => cookie # None
    PROVE  \E step \in {"sending", "ended"}, k \in Credential, x \in Credential :
               Turns(c, step, k, x)
<1>1. cookie \in Credential /\ None \in Credential
  BY WebsAreCredentials DEF IInv, TypeOK
<1>2. CASE closing = "closed"
  BY <1>1, <1>2, EndsTurns DEF Sends
<1>3. CASE closing # "closed"
  <2>1. Turns(c, "sending", cookie, t)
    BY <1>1, <1>3 DEF Sends, Turns, Places
  <2> QED
    BY <1>1, <2>1
<1> QED
  BY <1>2, <1>3

\* The caller has the lock, and its request goes out.
LEMMA GoesOutStep ==
    ASSUME IInv, NEW c \in Clients, Around(c), NEW t \in Credential, GoesOut(c, t),
           auth' = TRUE, pc[c] \in Phases \/ holder = {},
           pc[c] # "ended", force[c] => force'[c],
           pc[c] = "sending" => ~force[c] /\ force'[c],
           profile \in TokenProfiles => t # None,
           force'[c] /\ profile \in {"tplink", "mellanox"} => cookie # None
    PROVE  Kept
<1>1. Sends(c, cookie, t) /\ cookie' = cookie /\ token' = t /\ holder' = {}
  BY DEF GoesOut
<1>2. PICK step \in {"sending", "ended"}, k \in Credential, x \in Credential : Turns(c, step, k, x)
  BY <1>1, SendsTurns
<1>3. Locks(c, step)
  BY <1>1 DEF Locks, Phases, Replacing, IInv, TypeOK
<1> QED
  BY <1>2, <1>3, CallerStep

\* The old login is dropped and the new one begins.
LEMMA LogsInStep ==
    ASSUME IInv, NEW c \in Clients, Around(c), LogsIn(c), auth' = FALSE, profile # "none",
           pc[c] = "logout" \/ (holder = {} /\ ~auth),
           pc[c] # "ended", force[c] => force'[c],
           pc[c] = "sending" => ~force[c] /\ force'[c]
    PROVE  Kept
<1>1. PICK step \in {"login", "ended"} :
        Turns(c, step, None, None) /\ holder' = IF step \in Phases THEN {c} ELSE {}
  <2>1. CASE closing = "closed"
    BY <2>1, EndsTurns DEF LogsIn, Phases
  <2>2. CASE closing # "closed"
    BY <2>2, WebsAreCredentials DEF LogsIn, Turns, Places, Phases
  <2> QED
    BY <2>1, <2>2
<1>2. Locks(c, step)
  BY <1>1, WebsAreCredentials DEF LogsIn, Locks, Phases, Replacing
<1> QED
  BY <1>1, <1>2, CallerStep

\* It goes out of the session it has.
LEMMA LogsOutStep ==
    ASSUME IInv, NEW c \in Clients, Around(c), NEW t \in Credential, LogsOut(c, t), auth,
           profile # "none", holder = {}, token # None => t # None,
           pc[c] # "ended", force[c] => force'[c],
           pc[c] = "sending" => ~force[c] /\ force'[c]
    PROVE  Kept
<1>1. cookie \in Credential /\ None \in Credential
  BY WebsAreCredentials DEF IInv, TypeOK
<1>2. PICK step \in {"logout", "ended"}, k \in Credential, x \in Credential :
        Turns(c, step, k, x) /\ holder' = IF step \in Phases THEN {c} ELSE {}
  <2>1. CASE closing = "closed"
    BY <1>1, <2>1, EndsTurns DEF LogsOut, Phases
  <2>2. CASE closing # "closed"
    <3>1. Turns(c, "logout", cookie, t) /\ holder' = {c}
      BY <1>1, <2>2 DEF LogsOut, Turns, Places
    <3> QED
      BY <1>1, <3>1 DEF Phases
  <2> QED
    BY <2>1, <2>2
<1>3. Locks(c, step)
  BY <1>1, <1>2 DEF LogsOut, Locks, Phases, Replacing, IInv, TypeOK, RequestsAreComplete
<1> QED
  BY <1>2, <1>3, CallerStep

\* With the lock free, ensure_authenticated() logs out, logs in, or sends.
LEMMA LockedStep ==
    ASSUME IInv, NEW c \in Clients, Around(c), NEW t \in Credential, token # None => t # None,
           holder = {}, Locked(c, force'[c], t),
           pc[c] # "ended", force[c] => force'[c],
           pc[c] = "sending" => ~force[c] /\ force'[c]
    PROVE  Kept
<1>1. auth \in BOOLEAN /\ (auth /\ profile \in TokenProfiles => t # None)
  BY DEF IInv, TypeOK, RequestsAreComplete
<1>2. CASE (auth /\ ~force'[c]) /\ GoesOut(c, t) /\ UNCHANGED auth
  BY <1>1, <1>2, GoesOutStep
<1>3. CASE profile = "none" /\ GoesOut(c, t) /\ auth' = TRUE
  BY <1>3, GoesOutStep DEF TokenProfiles
<1>4. CASE (auth /\ force'[c]) /\ profile # "none" /\ LogsOut(c, t)
  BY <1>4, LogsOutStep
<1>5. CASE ~auth /\ profile # "none" /\ LogsIn(c) /\ UNCHANGED auth
  BY <1>1, <1>5, LogsInStep
<1> QED
  BY <1>2, <1>3, <1>4, <1>5 DEF Locked

\* It queues for the lock where it is not free.
LEMMA AcquiresStep ==
    ASSUME IInv, NEW c \in Clients, Around(c), NEW again \in BOOLEAN,
           NEW t \in Credential, token # None => t # None,
           Acquires(c, again, t), pc[c] \in {"idle", "sending"},
           force[c] => again, pc[c] = "sending" => ~force[c] /\ again
    PROVE  Kept
<1>1. force'[c] = again /\ pc[c] \notin Phases /\ pc[c] # "ended"
  BY DEF Acquires, IInv, TypeOK, Phases
<1>2. CASE holder = {} /\ Locked(c, again, t)
  BY <1>1, <1>2, LockedStep
<1>3. CASE /\ Goes(c, "locked") /\ Carries(c, None, None) /\ token' = t
           /\ UNCHANGED <<auth, cookie, holder>>
  <2>1. Turns(c, "locked", None, None)
    BY <1>1, <1>3, WebsAreCredentials DEF Turns, Places
  <2>2. Locks(c, "locked")
    <3>1. "locked" \notin Phases /\ cookie \in Credential
      BY DEF Phases, IInv, TypeOK
    <3> QED
      BY <1>1, <1>3, <3>1, OutsideLocks
  <2> QED
    BY <2>1, <2>2, CallerStep
<1> QED
  BY <1>2, <1>3 DEF Acquires

\* The caller that logs in got it, and its request goes out.
LEMMA LoggedInStep ==
    ASSUME IInv, NEW c \in Clients, Around(c), pc[c] \in Phases, NEW t \in Credential,
           LoggedIn(c, t), profile \in TokenProfiles => t # None,
           profile \in {"tplink", "mellanox"} => cookie # None
    PROVE  Kept
<1>1. GoesOut(c, t) /\ auth' = TRUE /\ force' = force /\ pc[c] \notin {"ended", "sending"}
  BY DEF LoggedIn, Phases
<1> QED
  BY <1>1, GoesOutStep

\* It failed, whatever is left of it.
LEMMA LoginRaisesStep ==
    ASSUME IInv, NEW c \in Clients, Around(c), pc[c] \in Phases, LoginRaises(c),
           token' \in Credential
    PROVE  Kept
<1>1. /\ Ends(c) /\ force' = force /\ pc[c] # "ended" /\ holder' = {} /\ auth' = FALSE
      /\ cookie' \in Credential
  BY DEF LoginRaises, Phases, IInv, TypeOK
<1>2. Turns(c, "ended", None, None)
  BY <1>1, EndsTurns
<1>3. Locks(c, "ended")
  BY <1>1 DEF Locks, Phases, Replacing
<1> QED
  BY <1>2, <1>3, CallerStep

\* It depends on a cookie in the jar.
LEMMA WithCookieStep ==
    ASSUME IInv, NEW c \in Clients, Around(c), pc[c] \in Phases, NEW t \in Credential,
           WithCookie(c, t), profile \in TokenProfiles => t # None
    PROVE  Kept
<1>1. CASE cookie # None
  BY <1>1, LoggedInStep DEF WithCookie
<1>2. CASE cookie = None
  BY <1>2, LoginRaisesStep DEF WithCookie
<1> QED
  BY <1>1, <1>2

\* A call that ends outside the login.
LEMMA EndsOutsideStep ==
    ASSUME IInv, NEW c \in Clients, Around(c), pc[c] \notin Phases, pc[c] # "ended", Ends(c),
           UNCHANGED <<auth, cookie, holder, force>>, token' \in Credential,
           token # None => token' # None
    PROVE  Kept
<1>1. Turns(c, "ended", None, None)
  BY EndsTurns
<1>2. Locks(c, "ended")
  <2>1. "ended" \notin Phases /\ cookie \in Credential
    BY DEF Phases, IInv, TypeOK
  <2> QED
    BY <2>1, OutsideLocks
<1> QED
  BY <1>1, <1>2, CallerStep

-----------------------------------------------------------------------------
(* The actions *)

\* The device and the client stay as they are.
LEMMA SameAround ==
    ASSUME TypeOK, NEW c \in Clients, UNCHANGED <<profile, closing, webVars>>,
           force' = force \/ \E again \in BOOLEAN : force' = [force EXCEPT ![c] = again]
    PROVE  Around(c)
BY DEF TypeOK, webVars, Around

\* A request goes out, or asks for a login.
LEMMA RequestStep ==
    ASSUME IInv, NEW c \in Clients, Request(c) PROVE Kept
<1>1. TypeOK /\ pc[c] = "idle" /\ pc[c] \notin Phases /\ ~force[c] /\ token \in Credential
  BY DEF Request, IInv, FirstTry, Phases, TypeOK
<1>2. CASE auth
  <2>1. /\ Sends(c, cookie, token) /\ UNCHANGED <<auth, cookie, token, holder, force>>
        /\ UNCHANGED <<profile, closing, webVars>>
    BY <1>2 DEF Request, loginVars
  <2>2. Around(c) /\ cookie \in Credential
    BY <1>1, <2>1, SameAround DEF TypeOK
  <2>3. PICK step \in {"sending", "ended"}, k \in Credential, x \in Credential :
          Turns(c, step, k, x)
    BY <1>1, <1>2, <2>1, SendsTurns
  <2>4. Locks(c, step)
    BY <1>1, <2>1, <2>2, OutsideLocks DEF Phases
  <2> QED
    BY <2>2, <2>3, <2>4, CallerStep
<1>3. CASE ~auth
  <2>1. Acquires(c, FALSE, token) /\ UNCHANGED <<profile, closing, webVars>>
    BY <1>3 DEF Request
  <2>2. Around(c)
    BY <1>1, <2>1, SameAround DEF Acquires
  <2> QED
    BY <1>1, <2>1, <2>2, AcquiresStep
<1> QED
  BY <1>2, <1>3

\* The lock is taken.
LEMMA LockTakenStep ==
    ASSUME IInv, NEW c \in Clients, LockTaken(c) PROVE Kept
<1>1. /\ UNCHANGED <<profile, closing, webVars>> /\ force' = force /\ force'[c] = force[c]
      /\ pc[c] = "locked" /\ holder = {} /\ Locked(c, force'[c], token)
  BY DEF LockTaken
<1>2. Around(c) /\ token \in Credential
  BY <1>1, SameAround DEF IInv, TypeOK
<1> QED
  BY <1>1, <1>2, LockedStep

\* The logout before a login ended.
LEMMA LogoutDoneStep ==
    ASSUME IInv, NEW c \in Clients, LogoutDone(c) PROVE Kept
<1>1. /\ UNCHANGED <<profile, closing, webVars>> /\ force' = force
      /\ pc[c] = "logout" /\ profile # "none" /\ auth' = FALSE /\ LogsIn(c)
  BY DEF LogoutDone, Phases, IInv, LoginInv
<1>2. Around(c)
  BY <1>1, SameAround DEF IInv
<1> QED
  BY <1>1, <1>2, LogsInStep

\* The device opens a session for a login.
LEMMA LetInStep ==
    ASSUME IInv, NEW c \in Clients, LetIn(c) PROVE Kept
<1> DEFINE k == issued + 1
<1>1. /\ pc[c] = "login" /\ profile # "none" /\ ~auth /\ holder = {c}
      /\ cookie' = k /\ Goes(c, "posted") /\ Carries(c, k, None)
      /\ UNCHANGED <<profile, closing, auth, token, holder, force>>
  BY DEF LetIn, IInv, LoginInv, LockHeldByLogin, Phases, Replacing
<1>2. PICK state \in {"anon", "live"} : Creates(state)
  BY DEF LetIn
<1>3. /\ issued' \in 0 .. WebBound /\ web' \in [Webs -> {"none", "anon", "live", "over"}]
      /\ k \in Credential /\ k # None /\ None \in Credential
  BY <1>2, CreatesEffect, WebsAreCredentials DEF IInv
<1> HIDE DEF k
<1>4. Around(c)
  BY <1>1, <1>3 DEF Around, IInv, TypeOK
<1>5. Turns(c, "posted", k, None)
  BY <1>1, <1>3 DEF Turns, Places
<1>6. Locks(c, "posted")
  BY <1>1, <1>3 DEF Locks, Phases, Replacing, IInv, TypeOK
<1> QED
  BY <1>4, <1>5, <1>6, CallerStep

\* tplink: the login was posted.
LEMMA TplinkPostedStep ==
    ASSUME IInv, NEW c \in Clients, TplinkPosted(c) PROVE Kept
<1>1. /\ UNCHANGED <<profile, closing, webVars>> /\ profile = "tplink"
      /\ pc[c] \in Phases /\ pc[c] \notin {"ended", "sending"} /\ ~auth /\ holder = {c}
      /\ auth \in BOOLEAN /\ cookie \in Credential
  BY DEF TplinkPosted, IInv, TypeOK, LoginInv, LockHeldByLogin, Phases, Replacing
<1>2. PICK t \in Observed(c) :
        \/ t # None /\ WithCookie(c, t)
        \/ /\ t = None
           /\ Goes(c, "page") /\ Carries(c, cookie, None)
           /\ UNCHANGED <<loginVars, force>>
  BY DEF TplinkPosted
<1>3. t \in Credential /\ None \in Credential
  BY ObservedEffect, WebsAreCredentials DEF IInv
<1>4. force' = force
  BY <1>2 DEF WithCookie, LoggedIn, LoginRaises
<1>5. Around(c)
  BY <1>1, <1>4, SameAround DEF IInv
<1>6. CASE t # None
  BY <1>1, <1>2, <1>3, <1>5, <1>6, WithCookieStep
<1>7. CASE t = None
  <2>1. /\ Goes(c, "page") /\ Carries(c, cookie, None)
        /\ UNCHANGED <<auth, cookie, token, holder, force>>
    BY <1>2, <1>7 DEF loginVars
  <2>2. Turns(c, "page", cookie, None)
    BY <1>1, <1>3, <2>1 DEF Turns, Places
  <2>3. Locks(c, "page")
    BY <1>1, <2>1 DEF Locks, Phases, Replacing, IInv, TypeOK
  <2> QED
    BY <1>5, <2>2, <2>3, CallerStep
<1> QED
  BY <1>6, <1>7

\* tplink: the page after the login was read.
LEMMA TplinkPageStep ==
    ASSUME IInv, NEW c \in Clients, TplinkPage(c) PROVE Kept
<1>1. UNCHANGED <<profile, closing, webVars>> /\ pc[c] \in Phases
  BY DEF TplinkPage, Phases
<1>2. PICK t \in Observed(c) :
        \/ t # None /\ WithCookie(c, t)
        \/ t = None /\ LoginRaises(c) /\ UNCHANGED token
  BY DEF TplinkPage
<1>3. t \in Credential /\ token \in Credential
  BY ObservedEffect DEF IInv, TypeOK
<1>4. force' = force
  BY <1>2 DEF WithCookie, LoggedIn, LoginRaises
<1>5. Around(c)
  BY <1>1, <1>4, SameAround DEF IInv
<1> QED
  BY <1>1, <1>2, <1>3, <1>5, WithCookieStep, LoginRaisesStep

\* zte-be7200: the session's token arrived.
LEMMA ZteTokenStep ==
    ASSUME IInv, NEW c \in Clients, ZteToken(c) PROVE Kept
<1> DEFINE x == sent[c].cookie
<1>1. /\ UNCHANGED <<profile, closing, webVars>> /\ profile = "zte-be7200"
      /\ pc[c] = "posted" /\ ~auth /\ holder = {c} /\ auth \in BOOLEAN
      /\ cookie \in Credential /\ x \in Credential /\ x # None
      /\ token' = x /\ Goes(c, "entry") /\ Carries(c, cookie, x)
      /\ UNCHANGED <<auth, cookie, holder, force>>
  BY DEF ZteToken, IInv, TypeOK, LoginInv, LockHeldByLogin, Phases, Replacing
<1> HIDE DEF x
<1>2. Around(c)
  BY <1>1, SameAround DEF IInv
<1>3. Turns(c, "entry", cookie, x)
  BY <1>1 DEF Turns, Places
<1>4. Locks(c, "entry")
  BY <1>1 DEF Locks, Phases, Replacing
<1> QED
  BY <1>2, <1>3, <1>4, CallerStep

\* zte-be7200: the login itself.
LEMMA ZteEntryStep ==
    ASSUME IInv, NEW c \in Clients, ZteEntry(c) PROVE Kept
<1>1. /\ UNCHANGED <<profile, closing, issued>> /\ pc[c] \in Phases
      /\ profile = "zte-be7200" /\ token # None
      /\ web' \in [Webs -> {"none", "anon", "live", "over"}]
  BY DEF ZteEntry, Phases, IInv, LoginInv, TypeOK
<1>2. PICK t \in Observed(c) : LoggedIn(c, t)
  BY DEF ZteEntry
<1>3. t \in Credential /\ t # None
  BY <1>1, ObservedEffect DEF IInv
<1>4. Around(c)
  BY <1>1, <1>2 DEF Around, LoggedIn, IInv, TypeOK
<1> QED
  BY <1>1, <1>2, <1>3, <1>4, LoggedInStep

\* mellanox: the login.
LEMMA MellanoxPostedStep ==
    ASSUME IInv, NEW c \in Clients, MellanoxPosted(c) PROVE Kept
<1>1. /\ UNCHANGED <<profile, closing, webVars>> /\ pc[c] \in Phases /\ WithCookie(c, token)
      /\ profile \notin TokenProfiles /\ token \in Credential
  BY DEF MellanoxPosted, Phases, TokenProfiles, IInv, TypeOK
<1>2. Around(c)
  BY <1>1, SameAround DEF WithCookie, LoggedIn, LoginRaises, IInv
<1> QED
  BY <1>1, <1>2, WithCookieStep

\* A login fails.
LEMMA LoginFailsStep ==
    ASSUME IInv, NEW c \in Clients, LoginFails(c) PROVE Kept
<1>1. UNCHANGED <<profile, closing, webVars>> /\ pc[c] \in Phases /\ LoginRaises(c)
  BY DEF LoginFails, Phases
<1>2. Around(c) /\ token' \in Credential
  BY <1>1, SameAround, ObservedEffect DEF LoginFails, LoginRaises, IInv
<1> QED
  BY <1>1, <1>2, LoginRaisesStep

\* A request is answered, fails, or is cancelled outside the login.
LEMMA SendingEndsStep ==
    ASSUME IInv, NEW c \in Clients,
           Served(c) \/ SendFails(c) \/ (Cancel(c) /\ pc[c] \notin Phases)
    PROVE  Kept
<1>1. /\ UNCHANGED <<profile, closing, webVars>> /\ pc[c] \notin Phases /\ pc[c] # "ended"
      /\ Ends(c) /\ UNCHANGED <<auth, cookie, force>>
  BY DEF Served, SendFails, Cancel, Phases, loginVars
<1>2. Around(c)
  BY <1>1, SameAround DEF IInv
<1>3. holder' = holder
  BY <1>1 DEF Served, SendFails, Cancel, loginVars, IInv, LockHeldByLogin, Phases
<1>4. token' \in Credential /\ (token # None => token' # None)
  BY ObservedEffect DEF Served, SendFails, Cancel, loginVars, IInv, TypeOK
<1> QED
  BY <1>1, <1>2, <1>3, <1>4, EndsOutsideStep

\* A cancelled caller gives back the lock it has.
LEMMA CancelStep ==
    ASSUME IInv, NEW c \in Clients, Cancel(c) PROVE Kept
<1>1. CASE pc[c] \in Phases
  <2>1. /\ UNCHANGED <<profile, closing, webVars, auth, cookie, token, force>>
        /\ holder' = holder \ {c} /\ Ends(c) /\ pc[c] # "ended" /\ holder = {c}
    BY <1>1 DEF Cancel, IInv, LockHeldByLogin, LoginInv, Phases
  <2>2. Around(c)
    BY <2>1, SameAround DEF IInv
  <2>3. Turns(c, "ended", None, None)
    BY <2>1, EndsTurns
  <2>4. Locks(c, "ended")
    BY <1>1, <2>1 DEF Locks, Phases, Replacing, IInv, TypeOK, RequestsAreComplete
  <2> QED
    BY <2>2, <2>3, <2>4, CallerStep
<1> QED
  BY <1>1, SendingEndsStep

\* A request is denied: once, log in again.
LEMMA DeniedStep ==
    ASSUME IInv, NEW c \in Clients, Denied(c) PROVE Kept
<1>1. /\ UNCHANGED <<profile, closing, webVars>> /\ pc[c] = "sending" /\ pc[c] \notin Phases
  BY DEF Denied, Phases
<1>2. PICK t \in Observed(c) :
        IF force[c]
        THEN Ends(c) /\ token' = t /\ UNCHANGED <<auth, cookie, holder, force>>
        ELSE Acquires(c, TRUE, t)
  BY DEF Denied
<1>3. t \in Credential /\ (token # None => t # None) /\ TypeOK
  BY ObservedEffect DEF IInv
<1>4. Around(c)
  BY <1>1, <1>2, <1>3, SameAround DEF Acquires
<1>5. CASE force[c]
  BY <1>1, <1>2, <1>3, <1>4, <1>5, EndsOutsideStep
<1>6. CASE ~force[c]
  BY <1>1, <1>2, <1>3, <1>4, <1>6, AcquiresStep
<1> QED
  BY <1>5, <1>6

\* What the device and close() do keeps the calls in progress: the jar may
\* change at any time.
LEMMA AroundStep ==
    ASSUME IInv, UNCHANGED <<profile, token, holder, clientVars>>,
           auth' = auth \/ auth' = FALSE, cookie' \in Credential,
           closing' \in {"no", "logout", "closed"}, issued' \in 0 .. WebBound,
           web' \in [Webs -> {"none", "anon", "live", "over"}]
    PROVE  Kept
<1>1. TypeOK'
  BY DEF IInv, TypeOK, clientVars
<1>2. LockHeldByLogin' /\ FirstTry'
  BY DEF IInv, LockHeldByLogin, FirstTry, clientVars
<1>3. LoginInv'
  BY DEF IInv, LoginInv, clientVars
<1>4. RequestsAreComplete'
  BY DEF IInv, RequestsAreComplete, clientVars
<1>5. LogoutFirst /\ Resends
  BY DEF LogoutFirst, Resends, clientVars
<1> QED
  BY <1>1, <1>2, <1>3, <1>4, <1>5 DEF IInv, Kept

\* The device ends a session.
LEMMA WebOverStep ==
    ASSUME IInv, NEW k \in Webs, WebOver(k) PROVE Kept
<1>1. UNCHANGED <<profile, auth, cookie, token, holder, closing, issued, clientVars>>
  BY DEF WebOver, loginVars
<1>2. /\ closing \in {"no", "logout", "closed"} /\ cookie \in Credential /\ issued \in 0 .. WebBound
      /\ web' \in [Webs -> {"none", "anon", "live", "over"}]
  BY DEF WebOver, IInv, TypeOK
<1> QED
  BY <1>1, <1>2, AroundStep

\* An answer sets a cookie.
LEMMA SetCookieStep ==
    ASSUME IInv, SetCookie PROVE Kept
<1>1. UNCHANGED <<profile, auth, token, holder, closing, clientVars>>
  BY DEF SetCookie
<1>2. closing \in {"no", "logout", "closed"} /\ None \in Credential
  BY WebsAreCredentials DEF IInv, TypeOK
<1>3. CASE cookie' \in {None} \cup {sent[c].cookie : c \in Exchanging} /\ UNCHANGED webVars
  <2>1. \A c \in Exchanging : sent[c].cookie \in Credential
    BY DEF Exchanging, IInv, TypeOK
  <2>2. /\ cookie' \in Credential /\ issued' \in 0 .. WebBound
        /\ web' \in [Webs -> {"none", "anon", "live", "over"}]
    BY <1>2, <1>3, <2>1 DEF IInv, TypeOK, webVars
  <2> QED
    BY <1>1, <1>2, <2>2, AroundStep
<1>4. CASE Creates("anon") /\ cookie' = issued + 1
  <2>1. /\ cookie' \in Credential /\ issued' \in 0 .. WebBound
        /\ web' \in [Webs -> {"none", "anon", "live", "over"}]
    BY <1>4, CreatesEffect, WebsAreCredentials DEF IInv
  <2> QED
    BY <1>1, <1>2, <2>1, AroundStep
<1> QED
  BY <1>3, <1>4 DEF SetCookie

\* close() begins, or ends.
LEMMA CloseStep ==
    ASSUME IInv, Close \/ CloseEnds \/ CloseCancelled PROVE Kept
<1>1. /\ UNCHANGED <<profile, cookie, token, holder, issued, web, clientVars>>
      /\ closing' \in {"no", "logout", "closed"}
  BY DEF Close, CloseEnds, CloseCancelled, loginVars, webVars
<1>2. auth' = auth \/ auth' = FALSE
  BY DEF Close, CloseEnds, CloseCancelled, loginVars, IInv, TypeOK
<1>3. /\ cookie \in Credential /\ issued \in 0 .. WebBound
      /\ web \in [Webs -> {"none", "anon", "live", "over"}]
  BY DEF IInv, TypeOK
<1> QED
  BY <1>1, <1>2, <1>3, AroundStep

-----------------------------------------------------------------------------
(* The theorems *)

\* Every step keeps the invariant, no login goes before the logout, and a
\* request is resent once.
THEOREM StepKept == ASSUME IInv, [Next]_vars PROVE Kept
<1>1. ASSUME NEW c \in Clients,
             \/ Request(c) \/ LockTaken(c) \/ LogoutDone(c)
             \/ LetIn(c) \/ TplinkPosted(c) \/ TplinkPage(c) \/ ZteToken(c) \/ ZteEntry(c)
             \/ MellanoxPosted(c) \/ LoginFails(c)
             \/ Served(c) \/ Denied(c) \/ SendFails(c) \/ Cancel(c)
      PROVE  Kept
  BY <1>1, RequestStep, LockTakenStep, LogoutDoneStep, LetInStep, TplinkPostedStep,
     TplinkPageStep, ZteTokenStep, ZteEntryStep, MellanoxPostedStep, LoginFailsStep,
     SendingEndsStep, DeniedStep, CancelStep
<1>2. CASE UNCHANGED vars
  <2>1. UNCHANGED <<profile, auth, cookie, token, holder, closing, issued, web, clientVars>>
    BY <1>2 DEF vars, loginVars, webVars
  <2>2. /\ closing \in {"no", "logout", "closed"} /\ cookie \in Credential
        /\ issued \in 0 .. WebBound /\ web \in [Webs -> {"none", "anon", "live", "over"}]
    BY DEF IInv, TypeOK
  <2> QED
    BY <2>1, <2>2, AroundStep
<1> QED
  BY <1>1, <1>2, WebOverStep, SetCookieStep, CloseStep DEF Next

\* The invariant always holds.
THEOREM AlwaysIInv == Spec => []IInv
<1>1. ASSUME IInv, [Next]_vars PROVE IInv'
  BY <1>1, StepKept DEF Kept
<1> QED
  BY <1>1, InitIInv, PTL DEF Spec

\* TypeOK: the session, its login and its callers keep their type.
THEOREM TypeCorrect == Spec => []TypeOK
<1>1. IInv => TypeOK
  BY DEF IInv
<1> QED
  BY <1>1, AlwaysIInv, PTL

\* An authenticated session has the token its vendor wants, no request goes out
\* without one, and a retry goes out with the cookie its login checked: not
\* more, since any answer may change the cookie under an authenticated session.
THEOREM RequestsCarryALogin == Spec => []RequestsAreComplete
<1>1. IInv => RequestsAreComplete
  BY DEF IInv
<1> QED
  BY <1>1, AlwaysIInv, PTL

\* The lock is held by the caller that logs in or out.
THEOREM LockIsLogin == Spec => []LockHeldByLogin
<1>1. IInv => LockHeldByLogin
  BY DEF IInv
<1> QED
  BY <1>1, AlwaysIInv, PTL

\* A session is logged out before it is logged in again.
THEOREM LogoutComesFirst == Spec => LogoutBeforeLogin
<1>1. ASSUME IInv, [Next]_vars
      PROVE  [\A c \in Clients :
                pc[c] # "login" /\ pc'[c] = "login" => ~auth \/ pc[c] = "logout"]_vars
  BY <1>1, StepKept DEF Kept, LogoutFirst
<1> QED
  BY <1>1, AlwaysIInv, PTL DEF Spec, LogoutBeforeLogin

\* A request carries what the session has when it is sent, is sent while the
\* client is open and the session counts as authenticated, and once more at most.
THEOREM RequestsAreResentOnce == Spec => ResendsOnce
<1>1. ASSUME IInv, [Next]_vars PROVE [Resends]_vars
  BY <1>1, StepKept DEF Kept
<1> QED
  BY <1>1, AlwaysIInv, PTL DEF Spec, ResendsOnce
=============================================================================
