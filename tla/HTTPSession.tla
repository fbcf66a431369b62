----------------------------- MODULE HTTPSession -----------------------------
(***************************************************************************)
(* One WebUI session: class HTTPSession of src/opkit/protocols/http.py     *)
(* with the login, logout and token handling of its AuthProfile, used by   *)
(* callers that make one request each.                                     *)
(*                                                                         *)
(* A step is the code between two suspension points.  The device numbers   *)
(* its sessions; a cookie, and the token the vendor wants beside it, is    *)
(* the number of the session it belongs to.  The jar is reduced to the     *)
(* cookie of the session.  The client stores what an answer sets when its  *)
(* headers arrive; the code goes on when its body did.                     *)
(***************************************************************************)
EXTENDS Naturals

CONSTANTS
    Clients,   \* callers of request()
    Profiles,  \* the AuthProfiles to consider
    WebBound   \* bound: sessions the device creates

None == 0
Webs == 1 .. WebBound

ASSUME ProfilesAssumption ==
    Profiles \subseteq {"none", "tplink", "zte-be7200", "mellanox"}
ASSUME BoundAssumption == WebBound \in Nat

VARIABLES
    profile,  \* profile.name
    auth,     \* authenticated
    cookie,   \* client.cookies: the session it has the cookie of
    token,    \* tokens
    holder,   \* the caller that holds _auth_lock, as a set
    closing,  \* "no"; "logout": _closed, the logout in flight; "closed"
    issued,   \* how many sessions the device created
    web,      \* "none"; "anon": not logged in; "live"; "over"
    pc,       \* what each caller is suspended in
    force,    \* its request is being retried
    sent      \* the cookie and the token of the exchange it waits for

loginVars == <<auth, cookie, token, holder>>
webVars == <<issued, web>>
clientVars == <<pc, force, sent>>
vars == <<profile, loginVars, closing, webVars, clientVars>>

Credential == Webs \cup {None}

TypeOK ==
    /\ profile \in Profiles
    /\ auth \in BOOLEAN
    /\ cookie \in Credential /\ token \in Credential
    /\ holder \subseteq Clients
    /\ closing \in {"no", "logout", "closed"}
    /\ issued \in 0 .. WebBound
    /\ web \in [Webs -> {"none", "anon", "live", "over"}]
    /\ pc \in [Clients -> {"idle", "locked", "logout", "login", "posted", "entry",
                           "page", "sending", "ended"}]
    /\ force \in [Clients -> BOOLEAN]
    /\ sent \in [Clients -> [cookie : Credential, token : Credential]]

Init ==
    /\ profile \in Profiles
    /\ auth = FALSE /\ cookie = None /\ token = None /\ holder = {}
    /\ closing = "no"
    /\ issued = 0 /\ web = [k \in Webs |-> "none"]
    /\ pc = [c \in Clients |-> "idle"]
    /\ force = [c \in Clients |-> FALSE]
    /\ sent = [c \in Clients |-> [cookie |-> None, token |-> None]]

-----------------------------------------------------------------------------
(* Parts of a step *)

Goes(c, step) == pc' = [pc EXCEPT ![c] = step]

Carries(c, k, t) == sent' = [sent EXCEPT ![c] = [cookie |-> k, token |-> t]]

\* The call returned or raised.
Ends(c) == Goes(c, "ended") /\ Carries(c, None, None)

SendsCookieOnly(c, k, t) ==
    IF closing = "closed"
    THEN Ends(c)
    ELSE Goes(c, "sending") /\ sent' = [sent EXCEPT ![c] = [cookie |-> k]]

\* _send with these credentials; a closed client raises.
Sends(c, k, t) ==
    IF closing = "closed"
    THEN Ends(c)
    ELSE Goes(c, "sending") /\ Carries(c, k, t)

\* profile.login() up to its first request: what the session had is dropped.
LogsIn(c) ==
    /\ cookie' = None /\ token' = None
    /\ IF closing = "closed"
       THEN Ends(c) /\ holder' = {}
       ELSE Goes(c, "login") /\ holder' = {c} /\ Carries(c, None, None)

\* profile.logout(), with the token t; on a closed client it raises.
LogsOut(c, t) ==
    /\ token' = t /\ UNCHANGED <<auth, cookie>>
    /\ IF closing = "closed"
       THEN Ends(c) /\ holder' = {}
       ELSE Goes(c, "logout") /\ holder' = {c} /\ Carries(c, cookie, t)

\* The request goes out with what the session has.
GoesOut(c, t) ==
    /\ Sends(c, cookie, t) /\ token' = t
    /\ holder' = {} /\ UNCHANGED cookie

LockedNoLogout(c, again, t) ==
    \/ (auth /\ ~again) /\ GoesOut(c, t) /\ UNCHANGED auth
    \/ ~(auth /\ ~again) /\ profile = "none" /\ GoesOut(c, t) /\ auth' = TRUE
    \/ ~(auth /\ ~again) /\ profile # "none" /\ LogsIn(c) /\ UNCHANGED auth

\* ensure_authenticated(force=again) with the lock held, and the token t.
\* AuthProfile.login() and logout() do not talk to the device.
Locked(c, again, t) ==
    \/ (auth /\ ~again) /\ GoesOut(c, t) /\ UNCHANGED auth
    \/ ~(auth /\ ~again) /\ profile = "none" /\ GoesOut(c, t) /\ auth' = TRUE
    \/ (auth /\ again) /\ profile # "none" /\ LogsOut(c, t)
    \/ ~auth /\ profile # "none" /\ LogsIn(c) /\ UNCHANGED auth

\* The lock is taken at once if it is free and nobody waits for it.
Acquires(c, again, t) ==
    /\ force' = [force EXCEPT ![c] = again]
    /\ IF holder = {} /\ \A b \in Clients \ {c} : pc[b] # "locked"
       THEN Locked(c, again, t)
       ELSE /\ Goes(c, "locked") /\ Carries(c, None, None) /\ token' = t
            /\ UNCHANGED <<auth, cookie, holder>>

\* The login did not succeed: the lock is released and the request raises.
LoginRaisesLocked(c) ==
    /\ Ends(c) /\ auth' = FALSE
    /\ UNCHANGED <<cookie, holder, force>>

LoginRaises(c) ==
    /\ Ends(c) /\ holder' = {} /\ auth' = FALSE
    /\ UNCHANGED <<cookie, force>>

\* The login succeeded, and left the token t.
LoggedIn(c, t) == GoesOut(c, t) /\ auth' = TRUE /\ UNCHANGED force

\* It is checked that there is a session cookie, whichever it is.
WithCookie(c, t) ==
    IF cookie # None THEN LoggedIn(c, t) ELSE LoginRaises(c) /\ token' = t

\* The device creates a session.
Creates(state) ==
    /\ issued < WebBound
    /\ issued' = issued + 1
    /\ web' = [web EXCEPT ![issued + 1] = state]

TokenProfiles == {"tplink", "zte-be7200"}

\* observe: the token after the answer to this exchange was looked at.  It may
\* show the one of the session it belongs to.
Observed(c) ==
    {token} \cup (IF profile \in TokenProfiles THEN {sent[c].cookie} \ {None} ELSE {})

-----------------------------------------------------------------------------
(* Requests *)

Request(c) ==
    /\ pc[c] = "idle"
    /\ IF auth
       THEN Sends(c, cookie, token) /\ UNCHANGED <<loginVars, force>>
       ELSE Acquires(c, FALSE, token)
    /\ UNCHANGED <<profile, closing, webVars>>

LockTaken(c) ==
    /\ pc[c] = "locked" /\ holder = {}
    /\ Locked(c, force[c], token)
    /\ UNCHANGED <<profile, closing, webVars, force>>

LogoutDoneFlagKept(c) ==
    /\ pc[c] = "logout"
    /\ UNCHANGED auth
    /\ LogsIn(c)
    /\ UNCHANGED <<profile, closing, webVars, force>>

\* Whatever came of the logout, the session is no longer authenticated.
LogoutDone(c) ==
    /\ pc[c] = "logout"
    /\ auth' = FALSE
    /\ LogsIn(c)
    /\ UNCHANGED <<profile, closing, webVars, force>>

\* The device answers the first request of a login with a session, whose cookie
\* is stored before the code goes on.  A request that was still connecting when
\* the client was closed is answered like any other.
LetIn(c) ==
    /\ pc[c] = "login"
    /\ Creates(IF profile = "zte-be7200" THEN "anon" ELSE "live")
    /\ cookie' = issued + 1
    /\ Goes(c, "posted") /\ Carries(c, issued + 1, None)
    /\ UNCHANGED <<profile, closing, auth, token, holder, force>>

\* tplink: the page may show the token; without one, from it or from the
\* answer to somebody else's request, the session asks for "/".
TplinkPosted(c) ==
    /\ profile = "tplink" /\ pc[c] \in {"login", "posted"}
    /\ \E t \in Observed(c) :
         \/ t # None /\ WithCookie(c, t)
         \/ /\ t = None
            /\ Goes(c, "page") /\ Carries(c, cookie, None)
            /\ UNCHANGED <<loginVars, force>>
    /\ UNCHANGED <<profile, closing, webVars>>

TplinkPage(c) ==
    /\ pc[c] = "page"
    /\ \E t \in Observed(c) :
         \/ t # None /\ WithCookie(c, t)
         \/ t = None /\ LoginRaises(c) /\ UNCHANGED token
    /\ UNCHANGED <<profile, closing, webVars>>

\* zte-be7200: a session and its token come before the login itself.
ZteToken(c) ==
    /\ profile = "zte-be7200" /\ pc[c] = "posted"
    /\ token' = sent[c].cookie
    /\ Goes(c, "entry") /\ Carries(c, cookie, sent[c].cookie)
    /\ UNCHANGED <<profile, closing, auth, cookie, holder, force, webVars>>

\* What the device takes a login for: the session and its token belong together.
ZteEntry(c) ==
    /\ pc[c] = "entry"
    /\ sent[c].cookie = sent[c].token /\ web[sent[c].cookie] = "anon"
    /\ web' = [web EXCEPT ![sent[c].cookie] = "live"]
    /\ \E t \in Observed(c) : LoggedIn(c, t)
    /\ UNCHANGED <<profile, closing, issued>>

MellanoxPosted(c) ==
    /\ profile = "mellanox" /\ pc[c] = "posted"
    /\ WithCookie(c, token)
    /\ UNCHANGED <<profile, closing, webVars>>

LoginFails(c) ==
    /\ pc[c] \in {"login", "posted", "entry", "page"}
    /\ LoginRaises(c)
    /\ token' \in Observed(c)
    /\ UNCHANGED <<profile, closing, webVars>>

\* The device serves the request, maybe before the session ended; a token seen
\* in the answer is kept, whatever the session's login is by now.
Served(c) ==
    /\ pc[c] = "sending"
    /\ Ends(c)
    /\ token' \in Observed(c)
    /\ UNCHANGED <<profile, closing, auth, cookie, holder, webVars, force>>

\* What the device accepts.
Valid(s) ==
    /\ s.cookie # None /\ web[s.cookie] = "live"
    /\ profile \in TokenProfiles => s.token = s.cookie

\* is_auth_failure, once the answer was looked at: log in again and retry, once.
Denied(c) ==
    /\ pc[c] = "sending" /\ ~Valid(sent[c])
    /\ \E t \in Observed(c) :
         IF force[c]
         THEN Ends(c) /\ token' = t /\ UNCHANGED <<auth, cookie, holder, force>>
         ELSE Acquires(c, TRUE, t)
    /\ UNCHANGED <<profile, closing, webVars>>

SendFails(c) ==
    /\ pc[c] = "sending"
    /\ Ends(c)
    /\ UNCHANGED <<profile, loginVars, closing, webVars, force>>

Cancel(c) ==
    /\ pc[c] \notin {"idle", "ended"}
    /\ Ends(c)
    /\ holder' = holder \ {c}
    /\ UNCHANGED <<profile, auth, cookie, token, closing, webVars, force>>

\* The device ends a session: logged out, expired, or replaced.
WebOver(k) ==
    /\ web[k] \in {"anon", "live"}
    /\ web' = [web EXCEPT ![k] = "over"]
    /\ UNCHANGED <<profile, loginVars, closing, issued, clientVars>>

\* Who waits for the device.
Exchanging == {c \in Clients : pc[c] \in {"logout", "login", "posted", "entry", "page", "sending"}}

\* The client stores the Set-Cookie of every answer, as its headers arrive: the
\* session its request was made in, none, or a new one that is not logged in.
SetCookie ==
    /\ Exchanging # {} \/ closing = "logout"
    /\ \/ cookie' \in {None} \cup {sent[c].cookie : c \in Exchanging} /\ UNCHANGED webVars
       \/ Creates("anon") /\ cookie' = issued + 1
    /\ UNCHANGED <<profile, auth, token, holder, closing, clientVars>>

-----------------------------------------------------------------------------
(* close *)

\* close() does not take the lock.
Close ==
    /\ closing = "no"
    /\ closing' = IF auth /\ profile # "none" THEN "logout" ELSE "closed"
    /\ auth' = (auth /\ profile # "none")
    /\ UNCHANGED <<profile, cookie, token, holder, webVars, clientVars>>

CloseEnds ==
    /\ closing = "logout"
    /\ closing' = "closed" /\ auth' = FALSE
    /\ UNCHANGED <<profile, cookie, token, holder, webVars, clientVars>>

\* The caller of close() is cancelled: the client is closed, nothing else.
CloseCancelled ==
    /\ closing = "logout"
    /\ closing' = "closed"
    /\ UNCHANGED <<profile, loginVars, webVars, clientVars>>

Next ==
    \/ \E c \in Clients :
         \/ Request(c) \/ LockTaken(c) \/ LogoutDone(c)
         \/ LetIn(c) \/ TplinkPosted(c) \/ TplinkPage(c) \/ ZteToken(c) \/ ZteEntry(c)
         \/ MellanoxPosted(c) \/ LoginFails(c)
         \/ Served(c) \/ Denied(c) \/ SendFails(c) \/ Cancel(c)
    \/ \E k \in Webs : WebOver(k)
    \/ SetCookie
    \/ Close \/ CloseEnds \/ CloseCancelled

Spec == Init /\ [][Next]_vars

\* Every exchange with the device has a timeout, and the lock is handed on.
Fairness ==
    \A c \in Clients :
        /\ WF_vars(LockTaken(c)) /\ WF_vars(LogoutDone(c))
        /\ WF_vars(LoginFails(c)) /\ WF_vars(SendFails(c))

FairSpec == Spec /\ Fairness

-----------------------------------------------------------------------------
(* Properties *)

\* While the session counts as authenticated it has the token its vendor wants:
\* another caller's re-login, which drops it, first takes the flag away.  No
\* request goes out without one, and a retry goes out with the cookie its login
\* checked, although any other answer may empty the jar.
RequestsAreComplete ==
    /\ auth /\ profile \in TokenProfiles => token # None
    /\ \A c \in Clients : pc[c] = "sending" =>
         /\ profile \in TokenProfiles => sent[c].token # None
         /\ force[c] /\ profile \in {"tplink", "mellanox"} => sent[c].cookie # None

\* The lock is held by exactly the caller that logs in or out, and by nobody
\* once that caller failed or was cancelled.
LockHeldByLogin ==
    holder = {c \in Clients : pc[c] \in {"logout", "login", "posted", "entry", "page"}}

\* A session that counts as authenticated is logged out before anything of it
\* is dropped for a new login.
LogoutBeforeLogin ==
    [][\A c \in Clients :
         pc[c] # "login" /\ pc'[c] = "login" => ~auth \/ pc[c] = "logout"]_vars

\* No request waits for ever, for the device or for the lock: a failed,
\* cancelled or closed-down login leaves the lock to the next caller.
EveryRequestEnds ==
    \A c \in Clients : pc[c] # "idle" ~> pc[c] = "ended"
=============================================================================
