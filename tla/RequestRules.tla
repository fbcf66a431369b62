---------------------------- MODULE RequestRules ----------------------------
(***************************************************************************)
(* What the requests of src/opkit/protocols/http.py and redfish.py refuse  *)
(* of a tool call's arguments, and what they put on the wire beside them:  *)
(* the checks at the head of request(), and what _send and the profiles    *)
(* add.                                                                    *)
(*                                                                         *)
(* A header, a query, a form and a url-encoded body are functions from     *)
(* their names to who chose the value: the "caller" or the "session".  A   *)
(* header name is a word, in lower case or not, with spaces around it or   *)
(* not.                                                                    *)
(***************************************************************************)
EXTENDS Naturals, FiniteSets

Methods == {"GET", "POST", "PUT", "PATCH", "DELETE", "HEAD", "OPTIONS"}

\* MANAGED_REQUEST_HEADERS, and MANAGED_HEADERS of redfish.
ManagedBy(profile) ==
    {"authorization", "cookie", "host", "proxy-authorization"}
        \cup (IF profile = "redfish" THEN {"x-auth-token"} ELSE {})

\* No body, form or query.
Nothing == [k \in {} |-> "caller"]

CallerFields(names) == [k \in names |-> "caller"]

-----------------------------------------------------------------------------
(* What is refused *)

\* validate_relative_path: neither elsewhere nor a fragment.
PathAccepted(path) == path \in {"page", "page.cgi"}

\* validate_request_headers: the managed names, however written, and those
\* with a space are refused.
HeaderAccepted(h, profile) == h.word \notin ManagedBy(profile) /\ ~h.padded

\* Of body, body_base64, form and json_body, at most one; base64 must decode.
BodiesAccepted(r) == Cardinality(r.bodies) <= 1 /\ ("base64" \in r.bodies => r.decodes)

RequestAccepted(r, profile) ==
    /\ r.method \in Methods
    /\ PathAccepted(r.path)
    /\ BodiesAccepted(r)
    /\ \A h \in r.headers : HeaderAccepted(h, profile)

-----------------------------------------------------------------------------
(* What is sent *)

InjectedIfMissing(fields, name) ==
    [k \in DOMAIN fields \cup {name} |-> IF k \in DOMAIN fields THEN fields[k] ELSE "session"]

\* The profile's own value replaces one the caller gave.
Injected(fields, name) ==
    [k \in DOMAIN fields \cup {name} |-> IF k = name THEN "session" ELSE fields[k]]

\* inject_query: TP-Link wants its token in the query of every .cgi page.
Query(r, profile) ==
    IF profile = "tplink" /\ r.path = "page.cgi"
    THEN Injected(CallerFields(r.query), "token")
    ELSE CallerFields(r.query)

\* inject_form.
Form(r, profile) ==
    IF "form" \notin r.bodies
    THEN Nothing
    ELSE IF profile = "tplink" /\ r.path = "page.cgi"
    THEN Injected(CallerFields(r.fields), "token")
    ELSE IF profile = "zte-be7200" /\ r.method = "POST"
    THEN Injected(CallerFields(r.fields), "_sessionTOKEN")
    ELSE CallerFields(r.fields)

\* inject_content: ZTE wants its token in a posted url-encoded body too.  The
\* other profiles send a body as the caller wrote it: what it says beside the
\* query of a TP-Link page, the device has to weigh.
Content(r, profile) ==
    IF r.bodies \cap {"body", "base64", "json"} = {}
    THEN Nothing
    ELSE IF profile = "zte-be7200" /\ r.method = "POST" /\ r.urlencoded
    THEN Injected(CallerFields(r.fields), "_sessionTOKEN")
    ELSE CallerFields(r.fields)

\* The headers request() passes on, with what the client and _send add.
Headers(r, profile) ==
    LET caller == CallerFields({h.word : h \in r.headers})
        own == IF profile = "redfish" THEN {"x-auth-token"} ELSE {"cookie"}
    IN  [k \in DOMAIN caller \cup own |-> IF k \in DOMAIN caller THEN caller[k] ELSE "session"]

-----------------------------------------------------------------------------
(* What holds of an accepted request *)

\* No managed header is the caller's and a BMC gets the session's token.  The
\* token a page wants beside the cookie is the session's, also if the caller
\* wrote a field of that name, in every place where the profile puts it: the
\* query and the form of a TP-Link .cgi page, the form and the url-encoded body
\* of what is POSTed to a ZTE.  A field of that name anywhere else is the
\* caller's, in the raw body of a TP-Link page for one.
CarriesOwnLogin(r, profile) ==
    /\ \A k \in DOMAIN Headers(r, profile) \cap ManagedBy(profile) :
         Headers(r, profile)[k] = "session"
    /\ profile = "redfish" => Headers(r, profile)["x-auth-token"] = "session"
    /\ profile = "tplink" /\ r.path = "page.cgi" =>
         /\ Query(r, profile)["token"] = "session"
         /\ "form" \in r.bodies => Form(r, profile)["token"] = "session"
    /\ profile = "zte-be7200" /\ r.method = "POST" =>
         /\ "form" \in r.bodies => Form(r, profile)["_sessionTOKEN"] = "session"
         /\ r.bodies \cap {"body", "base64"} # {} /\ r.urlencoded =>
              Content(r, profile)["_sessionTOKEN"] = "session"
=============================================================================
