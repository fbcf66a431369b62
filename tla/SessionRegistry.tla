--------------------------- MODULE SessionRegistry ---------------------------
(***************************************************************************)
(* What the managers of src/opkit/protocols promise of `_sessions' to the  *)
(* tools built on them: one session per device, made for that device, put  *)
(* there only where no session is alive, and never revived.  The managers  *)
(* of ssh_exec.py, http.py and redfish.py implement it.                    *)
(***************************************************************************)
CONSTANTS Devices, Sessions, None

VARIABLES
    reg,    \* _sessions
    made,   \* the sessions constructed so far
    ended   \* those that are not alive any more

vars == <<reg, made, ended>>

TypeOK ==
    /\ reg \in [Devices -> Sessions \cup {None}]
    /\ made \subseteq Sessions /\ ended \subseteq made

Init == reg = [d \in Devices |-> None] /\ made = {} /\ ended = {}

\* A call finds no living session and makes one.
Register(d, s) ==
    /\ reg[d] \in ended \cup {None} /\ s \in Sessions \ made
    /\ reg' = [reg EXCEPT ![d] = s]
    /\ made' = made \cup {s}
    /\ ended' = ended

\* Sessions end, for good, and devices are left without one.
Release ==
    /\ reg' \in [Devices -> Sessions \cup {None}]
    /\ \A d \in Devices : reg'[d] \in {reg[d], None}
    /\ made' = made
    /\ ended \subseteq ended' /\ ended' \subseteq made

Next == Release \/ \E d \in Devices, s \in Sessions : Register(d, s)

Spec == Init /\ [][Next]_vars
=============================================================================
