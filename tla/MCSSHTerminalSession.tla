------------------------ MODULE MCSSHTerminalSession ------------------------
(* Instances of SSHTerminalSession for TLC. *)
EXTENDS SSHTerminalSession

Input(k, f, l, e) == [kind |-> k, from |-> f, limit |-> l, expect |-> e]

\* Writers racing for the lock: every kind of input, with and without an
\* expected sequence number, a cursor that is ahead and one that is negative.
RacingInputs ==
    {Input("ordinary", 0, 5, None), Input("ordinary", 1, 1, 0),
     Input("force", 0, 1, 0), Input("interrupt", 0, 0, 1),
     Input("ordinary", -1, 5, None), Input("unknown", 0, 5, None)}

\* Plain reads: from the start and from later on, small, zero and negative limits.
SomeQueries ==
    {Input("read", 0, 5, None), Input("read", 1, 1, None),
     Input("read", 0, -1, None), Input("read", -1, 5, None)}

\* Only deadlines and quiet streams end these reads.
LongInputs == {Input("ordinary", 0, 5, None)}
LongQueries == {Input("read", 0, 5, None)}
=============================================================================
