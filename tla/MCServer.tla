------------------------------ MODULE MCServer ------------------------------
(* Instances of Server for TLC. *)
EXTENDS Server, TLC

SomeTexts == LoginProfiles \cup {"none", "origin", "lab", "ghost", "d1", "d2"}

-----------------------------------------------------------------------------
(* Documents *)

Account(n, u, w) ==
    [mapping |-> TRUE, unknown |-> FALSE, name |-> n, username |-> u, password |-> w]

Entry(e, au, ac, u) ==
    [mapping |-> TRUE, unknown |-> FALSE, endpoint |-> e, auth |-> au, account |-> ac,
     username |-> u, port |-> Absent, encoding |-> Absent]

Device(n, protocols) ==
    [mapping |-> TRUE, name |-> n, description |-> Absent, protocols |-> protocols]

Document(accounts, devices) == [lists |-> TRUE, accounts |-> accounts, devices |-> devices]

Lab == Account("lab", "lab", "lab")
One(p, e) == <<Device("d1", p :> e)>>

\* One account and one protocol: every value of every credential.
CredentialDocuments ==
    {Document(<<Account("lab", u, w)>>, One(p, Entry(e, au, ac, v))) :
        u \in {Absent, "", "lab", "number"}, w \in {Absent, "null", "", "lab", "list"},
        p \in Protocols, e \in {Absent, "origin"}, au \in {Absent, "none", "tplink", "ghost"},
        ac \in {Absent, "lab", "ghost"}, v \in {Absent, "", "ghost", "number"}}

\* What else a document may get wrong.
Plain == Entry("origin", Absent, "lab", Absent)
Broken ==
    {Document(<<Lab, Lab>>, One("http", Plain)),
     Document(<<[Lab EXCEPT !.unknown = TRUE]>>, One("http", Plain)),
     Document(<<Lab>>, <<>>),
     Document(<<Lab>>, <<Device("d1", "http" :> Plain), Device("d1", "redfish" :> Plain)>>),
     Document(<<Lab>>, <<Device("d1", "ghost" :> Plain)>>),
     Document(<<Lab>>, <<[Device("d1", "http" :> Plain) EXCEPT !.description = "null"]>>),
     Document(<<Lab>>, One("ssh-exec", [Plain EXCEPT !.port = "false"])),
     Document(<<Lab>>, One("ssh-terminal", [Plain EXCEPT !.encoding = "null"])),
     [Document(<<Lab>>, One("http", Plain)) EXCEPT !.lists = FALSE]}

\* What is served: two protocols of a device, every profile, and a device
\* that needs no account.
Served ==
    {Document(<<Lab>>, <<Device("d1", "ssh-terminal" :> Plain @@ "ssh-exec" :> Plain)>>),
     Document(<<Lab>>,
         <<Device("d1", "http" :> [Plain EXCEPT !.auth = "tplink"] @@ "redfish" :> Plain)>>),
     Document(<<Lab>>,
         <<Device("d1", "http" :> [Plain EXCEPT !.auth = "zte-be7200"]),
           Device("d2", "ssh-exec" :> Plain)>>),
     Document(<<>>, One("http", Entry("origin", Absent, Absent, Absent)))}

SomeLaunches ==
    [command : {"validate-config"}, transport : {"stdio"}, doc : CredentialDocuments \cup Broken]
        \cup [command : {"serve"}, transport : Transports, doc : Served]
        \cup [command : {"probe", "list-devices"}, transport : {"stdio"}, doc : Served]

-----------------------------------------------------------------------------
(* Requests *)

Header(w, lower, padded) == [word |-> w, lower |-> lower, padded |-> padded]

Call(m, page, headers, bodies) ==
    [method |-> m, path |-> page, headers |-> headers, bodies |-> bodies, decodes |-> TRUE,
     query |-> {}, fields |-> {}, urlencoded |-> FALSE]

\* A caller that writes the token itself: in the query, in a form, in a body
\* (which a TP-Link page gets with the caller's token).
Tokens == {"token", "_sessionTOKEN"}

Accepts ==
    {Call("GET", "page", {Header("accept", FALSE, FALSE)}, {}),
     [Call("GET", "page.cgi", {}, {}) EXCEPT !.query = Tokens],
     [Call("POST", "page.cgi", {}, {"form"}) EXCEPT !.fields = Tokens],
     [Call("POST", "page", {}, {"base64"}) EXCEPT !.fields = Tokens, !.urlencoded = TRUE],
     [Call("POST", "page.cgi", {}, {"base64"}) EXCEPT !.fields = Tokens, !.urlencoded = TRUE],
     Call("PATCH", "page", {}, {"json"})}

Refused ==
    {Call("TRACE", "page", {}, {}),
     Call("GET", "elsewhere", {}, {}),
     Call("POST", "page", {}, {"body", "form"}),
     [Call("POST", "page", {}, {"base64"}) EXCEPT !.decodes = FALSE]}
        \cup {Call("GET", "page", {Header(w, l, pad)}, {}) :
                 w \in {"cookie", "x-auth-token"}, l \in BOOLEAN, pad \in BOOLEAN}

SomeRequests == Accepts \cup Refused
=============================================================================
