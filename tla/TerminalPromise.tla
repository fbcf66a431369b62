--------------------------- MODULE TerminalPromise ---------------------------
(***************************************************************************)
(* What a terminal session promises its callers, whatever its tasks do: a  *)
(* log of writes in which a request appears at most once and in which an   *)
(* entry made with an expected sequence number is the entry right after    *)
(* that number; a transcript that only grows; an end of the session after  *)
(* which nothing is written, and an end of the transcript after which      *)
(* nothing is appended.                                                    *)
(***************************************************************************)
EXTENDS Integers, Sequences

CONSTANTS Requests, None

VARIABLES
    log,     \* the writes: [req |-> request, expect |-> what its caller knew]
    length,  \* bytes of the transcript
    shut,    \* nothing is written any more
    ended    \* nothing is appended any more

vars == <<log, length, shut, ended>>

Init == log = <<>> /\ length = 0 /\ shut = FALSE /\ ended = FALSE

\* e is what the caller expected the length of the log to be, if it said.
Write(r, e) ==
    /\ ~shut
    /\ \A i \in 1 .. Len(log) : log[i].req # r
    /\ log' = Append(log, [req |-> r, expect |-> e])
    /\ UNCHANGED <<length, shut, ended>>

Output ==
    /\ ~ended
    /\ length' > length
    /\ UNCHANGED <<log, shut, ended>>

Shut ==
    /\ ~shut
    /\ shut' = TRUE
    /\ ended' \in {ended, TRUE}
    /\ UNCHANGED <<log, length>>

End ==
    /\ shut /\ ~ended
    /\ ended' = TRUE
    /\ UNCHANGED <<log, length, shut>>

Next ==
    \/ \E r \in Requests, e \in {None, Len(log)} : Write(r, e)
    \/ Output \/ Shut \/ End

Spec == Init /\ [][Next]_vars
=============================================================================
