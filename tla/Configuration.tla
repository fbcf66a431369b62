---------------------------- MODULE Configuration ----------------------------
(***************************************************************************)
(* What load_config() of src/opkit/config.py makes of a YAML document,     *)
(* with the parse_config() of the four protocols, and how a tool call      *)
(* finds its protocol.                                                     *)
(*                                                                         *)
(* A scalar is a text, or one of the values below; "list" stands for any   *)
(* value that is neither a string nor hashable.  A document that is not    *)
(* accepted is refused, whichever check it fails first and however: some   *)
(* malformed ones end in an exception that is no ConfigError.              *)
(***************************************************************************)
EXTENDS Naturals, Sequences

CONSTANT Texts  \* the non-empty strings of a document

\* PARSERS and AUTH_PROFILES.
SSHProtocols == {"ssh-terminal", "ssh-exec"}
Protocols == SSHProtocols \cup {"http", "redfish"}
LoginProfiles == {"tplink", "zte-be7200", "mellanox"}

Absent == "absent"  \* no such key
NonTexts == {Absent, "null", "", "false", "number", "list"}

ASSUME TextsAssumption ==
    LoginProfiles \cup {"none", "origin"} \subseteq Texts /\ Texts \cap NonTexts = {}

IsText(v) == v \in Texts
IsString(v) == v \in Texts \cup {""}
Truthy(v) == v \in Texts \cup {"number", "list"}

\* What dict.get() answers with None.
IsNone(v) == v \in {Absent, "null"}

\* What split_endpoint accepts: scheme, host and port, and nothing else.
IsOrigin(v) == v = "origin"

NoAccount == [name |-> Absent, username |-> Absent, password |-> Absent]

-----------------------------------------------------------------------------
(* accounts *)

\* ssh_private_key and its passphrase are checked like these.
AccountFields == {"username", "password"}

\* An entry of `accounts'.
AccountAccepted(e) ==
    /\ e.mapping /\ IsText(e.name) /\ ~e.unknown
    /\ \A k \in AccountFields : IsNone(e[k]) \/ IsString(e[k])

\* _load_accounts raises for none of the entries.
AccountsAccepted(entries) ==
    /\ \A i \in DOMAIN entries : AccountAccepted(entries[i])
    /\ \A i, j \in DOMAIN entries : entries[i].name = entries[j].name => i = j

\* The dict it returns.
AccountsOf(entries) ==
    [n \in {entries[i].name : i \in DOMAIN entries} |->
        LET e == entries[CHOOSE i \in DOMAIN entries : entries[i].name = n]
        IN  [name |-> n, username |-> e.username, password |-> e.password]]

\* accounts.get(...).
AccountOf(v, accounts) == IF v \in DOMAIN accounts THEN accounts[v] ELSE NoAccount

-----------------------------------------------------------------------------
(* The protocols' parse_config *)

\* The account's user name stands in for one the protocol does not give.
Username(e, accounts) ==
    IF Truthy(e.username) THEN e.username ELSE AccountOf(e.account, accounts).username

SSHAccepted(e, accounts) ==
    /\ IsText(e.endpoint)
    /\ e.account \in DOMAIN accounts
    /\ e.port \in {Absent, "number"}
    /\ e.encoding = Absent \/ IsString(e.encoding)
    /\ IsText(Username(e, accounts))

RedfishAccepted(e, accounts) ==
    /\ IsOrigin(e.endpoint)
    /\ e.account \in DOMAIN accounts
    /\ IsText(Username(e, accounts))
    /\ ~IsNone(accounts[e.account].password)

HTTPAcceptedAnyAccount(e, accounts) ==
    /\ IsOrigin(e.endpoint)
    /\ e.auth \in LoginProfiles \cup {Absent, "none"}
    /\ IsNone(e.account) \/ e.account \in DOMAIN accounts
    /\ e.auth \in LoginProfiles => ~IsNone(e.account) /\ IsText(Username(e, accounts))

\* Without a login any user name is let through.
HTTPAccepted(e, accounts) ==
    /\ IsOrigin(e.endpoint)
    /\ e.auth \in LoginProfiles \cup {Absent, "none"}
    /\ IsNone(e.account) \/ e.account \in DOMAIN accounts
    /\ e.auth \in LoginProfiles =>
         /\ ~IsNone(e.account) /\ ~IsNone(accounts[e.account].password)
         /\ IsText(Username(e, accounts))

ProtocolAccepted(p, e, accounts) ==
    /\ e.mapping /\ ~e.unknown
    /\ CASE p \in SSHProtocols -> SSHAccepted(e, accounts)
         [] p = "http" -> HTTPAccepted(e, accounts)
         [] p = "redfish" -> RedfishAccepted(e, accounts)

\* What a session gets of its entry.
Resolved(p, e, accounts) ==
    [auth |-> IF p = "http" /\ e.auth # Absent THEN e.auth ELSE "none",
     account |-> AccountOf(e.account, accounts),
     username |-> IF p = "http" /\ e.auth \notin LoginProfiles THEN e.username
                  ELSE Username(e, accounts)]

-----------------------------------------------------------------------------
(* devices *)

DeviceAccepted(e, accounts) ==
    /\ e.mapping /\ IsText(e.name)
    /\ e.description = Absent \/ IsString(e.description)
    /\ DOMAIN e.protocols # {} /\ DOMAIN e.protocols \subseteq Protocols
    /\ \A p \in DOMAIN e.protocols : ProtocolAccepted(p, e.protocols[p], accounts)

DevicesAccepted(entries, accounts) ==
    /\ entries # <<>>
    /\ \A i \in DOMAIN entries : DeviceAccepted(entries[i], accounts)
    /\ \A i, j \in DOMAIN entries : entries[i].name = entries[j].name => i = j

DevicesOf(entries, accounts) ==
    [n \in {entries[i].name : i \in DOMAIN entries} |->
        LET e == entries[CHOOSE i \in DOMAIN entries : entries[i].name = n]
        IN  [p \in DOMAIN e.protocols |-> Resolved(p, e.protocols[p], accounts)]]

\* load_config: the file is read, and is a mapping whose accounts and devices
\* are lists.
Accepted(doc) ==
    /\ doc.lists
    /\ AccountsAccepted(doc.accounts)
    /\ DevicesAccepted(doc.devices, AccountsOf(doc.accounts))

NoConfig == [n \in {} |-> Absent]

Loaded(doc) ==
    IF Accepted(doc) THEN DevicesOf(doc.devices, AccountsOf(doc.accounts)) ELSE NoConfig

-----------------------------------------------------------------------------
(* Tool calls *)

ResolveByDefault(config, device, requested) ==
    IF device \notin DOMAIN config THEN {}
    ELSE IF requested # Absent THEN {requested} \cap DOMAIN config[device]
    ELSE {IF DOMAIN config[device] = {p} THEN p ELSE "ssh-terminal" : p \in DOMAIN config[device]}

\* resolve_protocol: the protocols a call that names `requested', or none, may
\* mean, as a set of at most one.
Resolve(config, device, requested) ==
    IF device \notin DOMAIN config THEN {}
    ELSE IF requested # Absent THEN {requested} \cap DOMAIN config[device]
    ELSE {p \in DOMAIN config[device] : DOMAIN config[device] = {p}}

-----------------------------------------------------------------------------
(* What the sessions ask of their configuration *)

\* HTTPSession.credentials() asserts an account and wants a user name and a
\* password; the login of a BMC sends both; an SSH connection wants a user.
Usable(p, entry) ==
    /\ (p = "redfish" \/ entry.auth # "none") =>
         entry.account # NoAccount /\ IsText(entry.username) /\ IsString(entry.account.password)
    /\ p \in SSHProtocols => entry.account # NoAccount /\ IsText(entry.username)
=============================================================================
