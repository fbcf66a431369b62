------------------------- MODULE SSHTerminalSession -------------------------
(***************************************************************************)
(* One interactive SSH terminal session: class SSHTerminalSession of       *)
(* src/opkit/protocols/ssh_terminal.py.                                    *)
(*                                                                         *)
(* The program runs on one asyncio event loop, so a step of this module is *)
(* the code between two suspension points.  An operation is either an      *)
(* exchange, run by the task its request id names (_requests), or a plain  *)
(* read.  Clocks are not kept: wherever the code compares times, both      *)
(* answers are possible.  The transcript is its length, `cursor'.          *)
(***************************************************************************)
EXTENDS Integers, Sequences

CONSTANTS
    Requests,   \* request ids, each naming at most one exchange task
    Reads,      \* read-only calls
    Inputs,     \* the arguments exchanges are called with
    Queries,    \* the arguments reads are called with
    Chunks,     \* sizes of the chunks the remote side sends
    MaxOutput,  \* bound: bytes the remote side sends at most
    None        \* a missing expected_outbound_seq; no task

Ops == Requests \cup Reads

\* "ordinary": line, text or a key; "force": the same with force_write;
\* "interrupt": CTRL_C; "unknown": a key the KEYS table does not have;
\* "read": no input at all.
Kinds == {"ordinary", "force", "interrupt", "unknown", "read"}

Arguments == [kind : Kinds, from : Int, limit : Int, expect : Nat \cup {None}]

NoArgument == [kind |-> "read", from |-> 0, limit |-> 0, expect |-> None]

ASSUME OpsAssumption == Requests \cap Reads = {} /\ None \notin Requests
ASSUME NoneAssumption == None \notin Nat
ASSUME InputsAssumption == Inputs \subseteq Arguments /\ Queries \subseteq Arguments
ASSUME ChunksAssumption == Chunks \subseteq Nat \ {0} /\ MaxOutput \in Nat

VARIABLES
    stage,      \* how far connect() got
    link,       \* the SSH connection: "none" is connection = None
    reader,     \* _reader_task
    close,      \* "no"; "closing": _closed, close() suspended; "closed": returned
    eof,        \* _eof
    cursor,     \* _cursor
    unsettled,  \* unsettled
    seq,        \* outbound_seq
    writer,     \* the task inside _write_lock
    pc,         \* where each operation is
    woken,      \* waiting operations whose condition future is set
    arg,        \* arguments of each operation
    myseq,      \* ExchangeResult.outbound_seq, 0 before the write
    wcursor,    \* ExchangeResult.write_cursor
    next,       \* ReadResult.next_cursor
    why,        \* ReadResult.read_stop_reason, "none" before
    log,        \* history: the request that took each outbound_seq
    settledAt,  \* history: outbound_seq when a read last found the stream settled
    owed        \* history: where the last deadline/limit read stopped, -1 once
                \* a later read went beyond it

connVars == <<stage, link, reader, close>>
writeVars == <<seq, myseq, wcursor, log>>
readVars == <<unsettled, next, why, settledAt, owed>>
vars == <<connVars, eof, cursor, writer, pc, woken, arg, writeVars, readVars>>

TypeOK ==
    /\ stage \in {"connecting", "channel", "ready", "failed", "abandoned"}
    /\ link \in {"none", "up", "lost"}
    /\ reader \in {"none", "running", "done"}
    /\ close \in {"no", "closing", "closed"}
    /\ eof \in BOOLEAN /\ unsettled \in BOOLEAN
    /\ cursor \in Nat /\ seq \in Nat /\ settledAt \in Nat
    /\ owed \in Int
    /\ writer \in Requests \cup {None}
    /\ pc \in [Ops -> {"idle", "queued", "draining", "waiting", "done", "failed"}]
    /\ woken \subseteq Ops
    /\ arg \in [Ops -> Arguments]
    /\ myseq \in [Requests -> Nat]
    /\ wcursor \in [Requests -> Nat]
    /\ next \in [Ops -> Nat]
    /\ why \in [Ops -> {"none", "quiet", "deadline", "response_limit", "eof"}]
    /\ log \in Seq(Requests)

Init ==
    /\ stage = "connecting" /\ link = "none" /\ reader = "none" /\ close = "no"
    /\ eof = FALSE /\ cursor = 0 /\ unsettled = FALSE /\ seq = 0
    /\ writer = None
    /\ pc = [o \in Ops |-> "idle"]
    /\ woken = {}
    /\ arg = [o \in Ops |-> NoArgument]
    /\ myseq = [r \in Requests |-> 0]
    /\ wcursor = [r \in Requests |-> 0]
    /\ next = [o \in Ops |-> 0]
    /\ why = [o \in Ops |-> "none"]
    /\ log = <<>>
    /\ settledAt = 0 /\ owed = -1

Waiting == {o \in Ops : pc[o] = "waiting"}

NotifyOne == {o \in Waiting : o = CHOOSE first \in Waiting : TRUE}

\* Condition.notify_all.
NotifyAll == Waiting

ConnectedUnlessClosed == close = "no" /\ stage = "ready"

\* The property `connected'.
Connected == close = "no" /\ ~eof /\ stage = "ready"

-----------------------------------------------------------------------------
(* Connecting, losing and closing the connection *)

\* asyncssh.connect returned, whatever happened to the session meanwhile.
ConnectionUp ==
    /\ stage = "connecting"
    /\ stage' = "channel" /\ link' = "up"
    /\ UNCHANGED <<reader, close, eof, cursor, writer, pc, woken, arg, writeVars, readVars>>

\* create_process returned; the reader task starts.
ChannelUp ==
    /\ stage = "channel"
    /\ stage' = "ready" /\ reader' = "running"
    /\ UNCHANGED <<link, close, eof, cursor, writer, pc, woken, arg, writeVars, readVars>>

\* close() up to its first suspension: without a connection it has none and
\* runs to its end.
BeginClose ==
    IF link = "none"
    THEN close' = "closed" /\ eof' = TRUE /\ woken' = NotifyAll /\ UNCHANGED link
    ELSE close' = "closing" /\ link' = "lost" /\ UNCHANGED <<eof, woken>>

\* A failed connect closes its session, unless someone already did.
ConnectFails ==
    /\ stage \in {"connecting", "channel"}
    /\ stage' = "failed"
    /\ IF close = "no" THEN BeginClose ELSE UNCHANGED <<link, close, eof, woken>>
    /\ UNCHANGED <<reader, cursor, writer, pc, arg, writeVars, readVars>>

\* The opener was cancelled: CancelledError passes every except clause.
ConnectCancelled ==
    /\ stage \in {"connecting", "channel"}
    /\ stage' = "abandoned"
    /\ UNCHANGED <<link, reader, close, eof, cursor, writer, pc, woken, arg, writeVars, readVars>>

\* The remote end, or the keepalive, ends the connection.
LinkLost ==
    /\ link = "up"
    /\ link' = "lost"
    /\ UNCHANGED <<stage, reader, close, eof, cursor, writer, pc, woken, arg, writeVars, readVars>>

Close ==
    /\ close = "no"
    /\ BeginClose
    /\ UNCHANGED <<stage, reader, cursor, writer, pc, arg, writeVars, readVars>>

\* close() after wait_closed and gather.  The event loop runs callbacks in
\* the order they were set, so the reads the ending reader woke have run.
CloseFinish ==
    /\ close = "closing"
    /\ reader # "running"
    /\ reader = "done" => Waiting = {}
    /\ close' = "closed" /\ eof' = TRUE /\ woken' = NotifyAll
    /\ UNCHANGED <<stage, link, reader, cursor, writer, pc, arg, writeVars, readVars>>

-----------------------------------------------------------------------------
(* The reader task *)

\* A chunk is appended to the transcript.  Data already received is still
\* delivered after the connection is lost.
ReaderOutput ==
    /\ reader = "running" /\ close # "closed"
    /\ \E n \in Chunks : cursor + n <= MaxOutput /\ cursor' = cursor + n
    /\ woken' = NotifyAll
    /\ UNCHANGED <<connVars, eof, writer, pc, arg, writeVars, readVars>>

\* The reader leaves its loop (an empty chunk, also of a channel the device ends
\* on a connection that stays up; cancelled by close(); or its transcript is
\* closed) and its finally clause runs.
ReaderEnd ==
    /\ reader = "running"
    /\ reader' = "done" /\ eof' = TRUE /\ woken' = NotifyAll
    /\ UNCHANGED <<stage, link, close, cursor, writer, pc, arg, writeVars, readVars>>

-----------------------------------------------------------------------------
(* The read loop *)

LimitReached(a) == cursor - a.from >= a.limit

StopReasonsEofFirst(a) ==
    IF eof THEN {"eof"}
    ELSE IF LimitReached(a) THEN {"response_limit"}
    ELSE {"deadline"} \cup (IF cursor > a.from THEN {"quiet"} ELSE {})

\* Why one turn of the loop may stop; quiet and deadline depend on the clock.
StopReasons(a) ==
    IF LimitReached(a) THEN {"response_limit"}
    ELSE IF eof THEN {"eof"}
    ELSE {"deadline"} \cup (IF cursor > a.from THEN {"quiet"} ELSE {})

\* min(self._cursor, cursor + limit)
ReadEnd(a) == IF cursor < a.from + a.limit THEN cursor ELSE a.from + a.limit

Settles(reason) == reason \in {"quiet", "eof"}

PreadRaisesWhenClosed(a) == close = "closed"

\* pread raises on a closed transcript and on a negative length.
PreadRaises(a) == close = "closed" \/ ReadEnd(a) < a.from

\* The rest of read() once the loop stopped.
Return(o, a, reason) ==
    IF PreadRaises(a)
    THEN /\ pc' = [pc EXCEPT ![o] = "failed"]
         /\ UNCHANGED readVars
    ELSE /\ pc' = [pc EXCEPT ![o] = "done"]
         /\ next' = [next EXCEPT ![o] = ReadEnd(a)]
         /\ why' = [why EXCEPT ![o] = reason]
         /\ unsettled' = ~Settles(reason)
         /\ settledAt' = IF reason \in {"quiet", "eof"} THEN seq ELSE settledAt
         /\ owed' = IF reason \in {"deadline", "response_limit"} THEN ReadEnd(a)
                    ELSE IF ReadEnd(a) > owed THEN -1 ELSE owed

\* One turn of the loop: it returns, or waits for the condition.
Turn(o, a) ==
    /\ woken' = woken \ {o}
    /\ \/ \E reason \in StopReasons(a) : Return(o, a, reason)
       \/ /\ ~LimitReached(a) /\ ~eof
          /\ pc' = [pc EXCEPT ![o] = "waiting"]
          /\ UNCHANGED readVars

Read(o) ==
    /\ pc[o] = "idle"
    /\ \E a \in Queries :
         /\ arg' = [arg EXCEPT ![o] = a]
         /\ IF a.from < 0 \/ a.from > cursor
            THEN pc' = [pc EXCEPT ![o] = "failed"] /\ UNCHANGED <<woken, readVars>>
            ELSE Turn(o, a)
    /\ UNCHANGED <<connVars, eof, cursor, writer, writeVars>>

\* The condition was notified.
Wake(o) ==
    /\ pc[o] = "waiting" /\ o \in woken
    /\ Turn(o, arg[o])
    /\ UNCHANGED <<connVars, eof, cursor, writer, arg, writeVars>>

\* wait_for timed out and the clock now passes one of the two limits.
Timeout(o) ==
    /\ pc[o] = "waiting"
    /\ woken' = woken \ {o}
    /\ \E reason \in StopReasons(arg[o]) : Return(o, arg[o], reason)
    /\ UNCHANGED <<connVars, eof, cursor, writer, arg, writeVars>>

\* The caller of a plain read goes away; an exchange is shielded from that.
CancelRead(o) ==
    /\ pc[o] = "waiting"
    /\ pc' = [pc EXCEPT ![o] = "failed"]
    /\ woken' = woken \ {o}
    /\ UNCHANGED <<connVars, eof, cursor, writer, arg, writeVars, readVars>>

-----------------------------------------------------------------------------
(* Exchanges *)

KnownUnlessFinished(r) == pc[r] \notin {"idle", "done", "failed"}

\* The request id has a task in _requests; the map is never cleaned, and a
\* call that reuses the id only awaits that task.
Known(r) == pc[r] # "idle"

Exchange(r) ==
    /\ ~Known(r)
    /\ \E a \in Inputs : arg' = [arg EXCEPT ![r] = a]
    /\ pc' = [pc EXCEPT ![r] = "queued"]
    /\ UNCHANGED <<connVars, eof, cursor, writer, woken, writeVars, readVars>>

ExpectedSeqUnchecked(a) == TRUE

ExpectedSeq(a) == a.expect = None \/ a.expect = seq

GateOpenWhenQuiet(a) == TRUE

\* The unsettled gate, which force_write and CTRL_C pass.
Gate(a) == unsettled => a.kind \in {"force", "interrupt"}

\* The checks made under the write lock.
Accepts(a) ==
    /\ Connected
    /\ ExpectedSeq(a)
    /\ Gate(a)
    /\ a.from <= cursor

\* The key is unknown: raised before the lock is taken.
RejectKey(r) ==
    /\ pc[r] = "queued" /\ arg[r].kind = "unknown"
    /\ pc' = [pc EXCEPT ![r] = "failed"]
    /\ UNCHANGED <<connVars, eof, cursor, writer, woken, arg, writeVars, readVars>>

Reject(r) ==
    /\ pc[r] = "queued" /\ arg[r].kind # "unknown"
    /\ writer = None
    /\ ~Accepts(arg[r])
    /\ pc' = [pc EXCEPT ![r] = "failed"]
    /\ UNCHANGED <<connVars, eof, cursor, writer, woken, arg, writeVars, readVars>>

WriteMarkOfCaller(a) == a.from

\* write_cursor: the end of the transcript when the input is written.
WriteMark(a) == cursor

\* The write, up to the await of drain().  On a connection or a channel whose
\* end the session has not yet seen, stdin.write raises after outbound_seq was
\* taken.
Write(r) ==
    /\ pc[r] = "queued" /\ arg[r].kind # "unknown"
    /\ writer = None
    /\ Accepts(arg[r])
    /\ seq' = seq + 1
    /\ myseq' = [myseq EXCEPT ![r] = seq + 1]
    /\ wcursor' = [wcursor EXCEPT ![r] = WriteMark(arg[r])]
    /\ log' = Append(log, r)
    /\ unsettled' = TRUE
    /\ \/ writer' = r /\ pc' = [pc EXCEPT ![r] = "draining"]
       \/ pc' = [pc EXCEPT ![r] = "failed"] /\ UNCHANGED writer
    /\ UNCHANGED <<connVars, eof, cursor, woken, arg, next, why, settledAt, owed>>

\* drain() returned: the lock is released and read() makes its first turn.
DrainEnd(r) ==
    /\ pc[r] = "draining"
    /\ writer' = None
    /\ IF arg[r].from < 0
       THEN pc' = [pc EXCEPT ![r] = "failed"] /\ UNCHANGED <<woken, readVars>>
       ELSE Turn(r, arg[r])
    /\ UNCHANGED <<connVars, eof, cursor, arg, writeVars>>

\* drain() raised because the connection, or its channel, is gone.
DrainFails(r) ==
    /\ pc[r] = "draining"
    /\ writer' = None
    /\ pc' = [pc EXCEPT ![r] = "failed"]
    /\ UNCHANGED <<connVars, eof, cursor, woken, arg, writeVars, readVars>>

Next ==
    \/ ConnectionUp \/ ChannelUp \/ ConnectFails \/ ConnectCancelled
    \/ LinkLost \/ Close \/ CloseFinish
    \/ ReaderOutput \/ ReaderEnd
    \/ \E o \in Reads : Read(o) \/ CancelRead(o)
    \/ \E o \in Ops : Wake(o) \/ Timeout(o)
    \/ \E r \in Requests :
         Exchange(r) \/ RejectKey(r) \/ Reject(r) \/ Write(r) \/ DrainEnd(r) \/ DrainFails(r)

Spec == Init /\ [][Next]_vars

\* The event loop runs every callback that is ready.  Nothing is assumed of
\* timers, of the remote side, or of drain() while the connection is up.
Fairness ==
    /\ WF_vars((link = "lost" \/ close = "closed") /\ ReaderEnd)
    /\ \A o \in Ops : WF_vars(Wake(o))
    /\ \A r \in Requests :
         /\ WF_vars(RejectKey(r)) /\ WF_vars(Reject(r)) /\ WF_vars(Write(r))
         /\ WF_vars(link = "lost" /\ (DrainEnd(r) \/ DrainFails(r)))

FairSpec == Spec /\ Fairness

-----------------------------------------------------------------------------
(* Properties *)

\* What the session promises its callers.
Promise == INSTANCE TerminalPromise WITH
    log <- [i \in 1 .. Len(log) |-> [req |-> log[i], expect |-> arg[log[i]].expect]],
    length <- cursor,
    shut <- eof \/ close # "no",
    ended <- eof

\* The session implements that promise: nothing is written to a session that
\* was closed or has seen eof, no request is written twice, an expected
\* sequence number is honoured, and the transcript ends with eof.
ImplementsPromise == Promise!Spec

Took(r) == myseq[r] # 0

\* Reusing a request id never writes twice: each request takes at most one
\* outbound_seq, and the one its result reports is its own place in the order
\* of the writes (_exchange_once, 412-414; the tool's promise in mcp_server).
WrittenAtMostOnce ==
    /\ Len(log) = seq
    /\ \A i, j \in 1 .. Len(log) : log[i] = log[j] => i = j
    /\ \A r \in Requests : Took(r) => myseq[r] <= seq /\ log[myseq[r]] = r

\* Of the exchanges racing with the same expected_outbound_seq at most one
\* writes, and it is the one right after the write its caller knew of.
ExpectedSeqWinsOnce ==
    /\ \A r, s \in Requests :
         Took(r) /\ Took(s) /\ arg[r].expect = arg[s].expect /\ arg[r].expect # None
           => r = s
    /\ \A r \in Requests :
         Took(r) /\ arg[r].expect # None => myseq[r] = arg[r].expect + 1

\* write_cursor marks where a write occurred: a later write never has an
\* earlier mark, and no mark is beyond the transcript.
WriteCursorsOrdered ==
    /\ \A r \in Requests : Took(r) => wcursor[r] <= cursor
    /\ \A r, s \in Requests :
         Took(r) /\ Took(s) /\ myseq[r] < myseq[s] => wcursor[r] <= wcursor[s]

\* A result is a slice of the transcript no longer than the limit; when it
\* says eof it reaches the end, and no output is ever appended after it.
EofIsFinal ==
    \A o \in Ops : pc[o] = "done" =>
        /\ arg[o].from <= next[o] /\ next[o] <= cursor
        /\ next[o] - arg[o].from <= arg[o].limit
        /\ why[o] = "eof" => next[o] = cursor

\* An ordinary input is written only when some read found the stream settled
\* after the previous write (the unsettled gate, 402-406).
OrdinaryAfterSettled ==
    [][\A r \in Requests :
         myseq'[r] # myseq[r] /\ arg[r].kind = "ordinary" => settledAt = seq]_vars

\* Once the connection of a started session is gone, every call in progress
\* ends without the help of any timer: the reads, the writer held up in flow
\* control, and the writers queued behind it.
LossReleasesEveryone ==
    \A o \in Ops :
        (link = "lost" /\ reader # "none" /\ pc[o] \in {"queued", "draining", "waiting"})
            ~> pc[o] \in {"done", "failed"}

\* mcp_server.py 469-471: a deadline or response limit "blocks ordinary
\* writes until more output is read".
BlockedUntilMoreOutput ==
    [][\A r \in Requests :
         myseq'[r] # myseq[r] /\ arg[r].kind = "ordinary" => owed = -1]_vars
=============================================================================
