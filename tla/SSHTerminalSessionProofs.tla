---------------------- MODULE SSHTerminalSessionProofs ----------------------
(***************************************************************************)
(* Proofs about SSHTerminalSession, for every set of requests, reads and   *)
(* arguments: type correctness, the at-most-once and optimistic writes,    *)
(* the order of the write cursors, the finality of eof and of results, the *)
(* wake-up of readers, when the gate holds back ordinary writes, and the   *)
(* implementation of TerminalPromise.                                      *)
(***************************************************************************)
EXTENDS SSHTerminalSession, TLAPS

\* The write lock is held by the task that drains.
LockInv == \A r \in Requests : pc[r] = "draining" <=> writer = r

\* The log and the numbers the requests took mirror each other.
LogInv ==
    /\ Len(log) = seq
    /\ \A r \in Requests : myseq[r] <= seq
    /\ \A r \in Requests : Took(r) => log[myseq[r]] = r
    /\ \A i \in 1 .. seq : myseq[log[i]] = i
    /\ \A r \in Requests : pc[r] \in {"idle", "queued"} => ~Took(r)
    /\ \A r \in Requests :
         Took(r) /\ arg[r].expect # None => myseq[r] = arg[r].expect + 1

\* Where eof comes from, and why output cannot follow it.
EofInv ==
    /\ eof => reader = "done" \/ close = "closed"
    /\ close = "closed" => eof
    /\ stage \in {"connecting", "channel"} => reader = "none"
    /\ \A o \in Ops : pc[o] = "done" /\ why[o] = "eof" => eof

\* A read in progress starts inside the transcript.
StartInv ==
    /\ \A o \in Ops : pc[o] = "waiting" => 0 <= arg[o].from /\ arg[o].from <= cursor
    /\ \A r \in Requests : pc[r] = "draining" => arg[r].from <= cursor

IInv ==
    TypeOK /\ LockInv /\ LogInv /\ EofInv /\ StartInv /\ WriteCursorsOrdered /\ EofIsFinal

-----------------------------------------------------------------------------
\* What a turn of the read loop leaves behind for an operation o called with
\* the arguments a: it waits, fails, or returns the slice it claims to be.
ReadEffect(o, a) ==
    /\ pc' \in [Ops -> {"idle", "queued", "draining", "waiting", "done", "failed"}]
    /\ next' \in [Ops -> Nat]
    /\ why' \in [Ops -> {"none", "quiet", "deadline", "response_limit", "eof"}]
    /\ unsettled' \in BOOLEAN /\ settledAt' \in Nat /\ owed' \in Int
    /\ \A p \in Ops \ {o} : pc'[p] = pc[p] /\ next'[p] = next[p] /\ why'[p] = why[p]
    /\ pc'[o] \in {"waiting", "done", "failed"}
    /\ pc'[o] = "done" =>
         /\ a.from <= next'[o] /\ next'[o] <= cursor
         /\ next'[o] - a.from <= a.limit
         /\ why'[o] = "eof" => next'[o] = cursor /\ eof

\* read() after its loop stopped (ssh_terminal.py 327-339).
LEMMA ReturnEffect ==
    ASSUME TypeOK, NEW o \in Ops, NEW a \in Arguments, 0 <= a.from, a.from <= cursor,
           NEW reason \in StopReasons(a), Return(o, a, reason)
    PROVE  ReadEffect(o, a)
<1>1. a.from \in Int /\ a.limit \in Int /\ cursor \in Nat /\ ReadEnd(a) \in Int
  BY DEF TypeOK, Arguments, ReadEnd
<1>2. reason \in {"quiet", "deadline", "response_limit", "eof"}
  BY DEF StopReasons
<1>3. ReadEnd(a) <= cursor /\ ReadEnd(a) - a.from <= a.limit
  BY <1>1 DEF ReadEnd
<1>4. reason = "eof" => ReadEnd(a) = cursor /\ eof
  BY <1>1 DEF StopReasons, LimitReached, ReadEnd
<1>5. CASE PreadRaises(a)
  BY <1>5 DEF Return, TypeOK, readVars, ReadEffect
<1>6. CASE ~PreadRaises(a)
  <2>1. a.from <= ReadEnd(a) /\ ReadEnd(a) \in Nat
    BY <1>1, <1>6 DEF PreadRaises
  <2>2. /\ pc' = [pc EXCEPT ![o] = "done"]
        /\ next' = [next EXCEPT ![o] = ReadEnd(a)]
        /\ why' = [why EXCEPT ![o] = reason]
    BY <1>6 DEF Return
  <2>3. unsettled' \in BOOLEAN /\ settledAt' \in Nat /\ owed' \in Int
    BY <1>1, <1>6 DEF Return, Settles, TypeOK
  <2> QED
    BY <1>1, <1>2, <1>3, <1>4, <2>1, <2>2, <2>3 DEF TypeOK, ReadEffect
<1> QED
  BY <1>5, <1>6

\* One turn of the loop, which may also wait (ssh_terminal.py 298-325).
LEMMA TurnEffect ==
    ASSUME TypeOK, NEW o \in Ops, NEW a \in Arguments, 0 <= a.from, a.from <= cursor,
           Turn(o, a)
    PROVE  woken' \subseteq Ops /\ ReadEffect(o, a)
<1>1. woken' \subseteq Ops
  BY DEF Turn, TypeOK
<1>2. CASE \E reason \in StopReasons(a) : Return(o, a, reason)
  BY <1>1, <1>2, ReturnEffect
<1>3. CASE pc' = [pc EXCEPT ![o] = "waiting"] /\ UNCHANGED readVars
  BY <1>1, <1>3 DEF TypeOK, readVars, ReadEffect
<1> QED
  BY <1>2, <1>3 DEF Turn

\* A step of a read, whichever action makes it, preserves the invariant.
LEMMA ReadStep ==
    ASSUME IInv, NEW o \in Ops, NEW a \in Arguments, 0 <= a.from, a.from <= cursor,
           ReadEffect(o, a), woken' \subseteq Ops,
           arg' = [arg EXCEPT ![o] = a],
           o \in Requests => a = arg[o] /\ pc[o] \in {"waiting", "draining"},
           writer' = IF o \in Requests /\ pc[o] = "draining" THEN None ELSE writer,
           UNCHANGED <<connVars, eof, cursor, writeVars>>
    PROVE  IInv'
<1> USE DEF IInv, ReadEffect, connVars, writeVars, Took
<1>1. TypeOK'
  BY DEF TypeOK
<1>2. LockInv'
  BY OpsAssumption DEF LockInv, TypeOK, Ops
<1>3. LogInv'
  BY DEF LogInv, TypeOK, Ops
<1>4. EofInv'
  BY DEF EofInv, TypeOK
<1>5. StartInv'
  BY DEF StartInv, TypeOK, Ops
<1>6. WriteCursorsOrdered'
  BY DEF WriteCursorsOrdered
<1>7. EofIsFinal'
  BY DEF EofIsFinal, TypeOK
<1> QED
  BY <1>1, <1>2, <1>3, <1>4, <1>5, <1>6, <1>7

\* A step of the connection or of the reader task leaves the operations alone;
\* the transcript may grow, but not after eof.
LEMMA ConnectionStep ==
    ASSUME IInv, UNCHANGED <<writer, pc, arg, writeVars, readVars>>,
           cursor' \in Nat, cursor <= cursor', eof => eof' /\ cursor' = cursor,
           TypeOK', EofInv'
    PROVE  IInv'
<1> USE DEF IInv, writeVars, readVars
<1>1. LockInv' /\ LogInv'
  BY DEF LockInv, LogInv, Took
<1>2. StartInv'
  BY DEF StartInv, TypeOK, Arguments, Ops
<1>3. WriteCursorsOrdered'
  BY DEF WriteCursorsOrdered, TypeOK, Took
<1>4. EofIsFinal'
  BY DEF EofIsFinal, EofInv, TypeOK
<1> QED
  BY <1>1, <1>2, <1>3, <1>4

\* An operation that fails leaves no result, and releases the lock it holds.
LEMMA FailStep ==
    ASSUME IInv, NEW o \in Ops, pc' = [pc EXCEPT ![o] = "failed"], woken' \subseteq Ops,
           writer' = IF o \in Requests /\ pc[o] = "draining" THEN None ELSE writer,
           UNCHANGED <<connVars, eof, cursor, arg, writeVars, readVars>>
    PROVE  IInv'
<1> USE DEF IInv, connVars, writeVars, readVars, Took
<1>1. TypeOK'
  BY DEF TypeOK
<1>2. LockInv'
  BY OpsAssumption DEF LockInv, TypeOK, Ops
<1>3. LogInv' /\ EofInv' /\ StartInv' /\ WriteCursorsOrdered'
  BY DEF LogInv, EofInv, StartInv, WriteCursorsOrdered, TypeOK, Ops
<1>4. EofIsFinal'
  BY DEF EofIsFinal, TypeOK
<1> QED
  BY <1>1, <1>2, <1>3, <1>4

\* The initial state, before connect(), satisfies the invariant.
THEOREM InitIInv == Init => IInv
<1> SUFFICES ASSUME Init PROVE IInv
  OBVIOUS
<1>1. NoArgument \in Arguments
  BY DEF NoArgument, Arguments, Kinds
<1>2. TypeOK
  <2>1. arg \in [Ops -> Arguments]
    BY <1>1 DEF Init
  <2>2. log \in Seq(Requests)
    BY DEF Init
  <2>3. owed \in Int
    BY DEF Init
  <2>4. unsettled \in BOOLEAN /\ eof \in BOOLEAN
    BY DEF Init
  <2> QED
    BY <2>1, <2>2, <2>3, <2>4 DEF Init, TypeOK
<1>3. LockInv /\ LogInv /\ EofInv /\ StartInv /\ WriteCursorsOrdered /\ EofIsFinal
  BY OpsAssumption
  DEF Init, LockInv, LogInv, EofInv, StartInv, WriteCursorsOrdered, EofIsFinal, Took, Ops
<1> QED
  BY <1>2, <1>3 DEF IInv

-----------------------------------------------------------------------------
\* The write takes the next number for a request that has none
\* (ssh_terminal.py 412-418).
LEMMA WriteStep ==
    ASSUME IInv, NEW r \in Requests, Write(r)
    PROVE  IInv'
<1> USE DEF IInv, Write, connVars, Took
<1>1. seq \in Nat /\ cursor \in Nat /\ log \in Seq(Requests) /\ Len(log) = seq
  BY DEF TypeOK, LogInv
<1>2. log' \in Seq(Requests) /\ Len(log') = seq + 1 /\ log'[seq + 1] = r
  BY <1>1
<1>3. \A i \in 1 .. seq : log'[i] = log[i] /\ log[i] \in Requests
  BY <1>1
<1>4. /\ myseq' = [myseq EXCEPT ![r] = seq + 1]
      /\ wcursor' = [wcursor EXCEPT ![r] = cursor]
      /\ r \in Ops /\ myseq[r] = 0
  BY DEF WriteMark, LogInv, Ops
<1>5. \A s \in Requests : pc'[s] # pc[s] => s = r /\ pc'[s] \in {"draining", "failed"}
  BY DEF TypeOK, Ops
<1>6. TypeOK'
  <2>1. /\ pc' \in [Ops -> {"idle", "queued", "draining", "waiting", "done", "failed"}]
        /\ writer' \in Requests \cup {None}
    BY <1>4 DEF TypeOK
  <2>2. seq' \in Nat /\ myseq' \in [Requests -> Nat] /\ wcursor' \in [Requests -> Nat]
    BY <1>1, <1>4 DEF TypeOK
  <2> QED
    BY <1>2, <2>1, <2>2 DEF TypeOK
<1>7. LockInv'
  BY <1>4, OpsAssumption DEF LockInv, TypeOK, Ops
<1>8. LogInv'
  <2>1. \A s \in Requests : myseq'[s] <= seq'
    BY <1>1, <1>4 DEF TypeOK, LogInv
  <2>2. \A s \in Requests : Took(s)' => log'[myseq'[s]] = s
    BY <1>1, <1>2, <1>3, <1>4 DEF TypeOK, LogInv
  <2>3. \A i \in 1 .. seq' : myseq'[log'[i]] = i
    <3> SUFFICES ASSUME NEW i \in 1 .. seq + 1 PROVE myseq'[log'[i]] = i
      OBVIOUS
    <3>1. CASE i = seq + 1
      BY <3>1, <1>2, <1>4 DEF TypeOK
    <3>2. CASE i # seq + 1
      <4>1. i \in 1 .. seq
        BY <3>2, <1>1
      <4>2. log[i] # r
        BY <4>1, <1>1, <1>4 DEF LogInv
      <4> QED
        BY <4>1, <4>2, <1>3, <1>4 DEF TypeOK, LogInv
    <3> QED
      BY <3>1, <3>2
  <2>4. \A s \in Requests : pc'[s] \in {"idle", "queued"} => ~Took(s)'
    BY <1>4, <1>5 DEF TypeOK, LogInv, Ops
  <2>5. \A s \in Requests :
          Took(s)' /\ arg'[s].expect # None => myseq'[s] = arg'[s].expect + 1
    BY <1>1, <1>4 DEF TypeOK, LogInv, Accepts, ExpectedSeq
  <2> QED
    BY <1>2, <2>1, <2>2, <2>3, <2>4, <2>5 DEF LogInv
<1>9. EofInv'
  BY <1>4 DEF EofInv, TypeOK
<1>10. StartInv'
  BY <1>4 DEF StartInv, TypeOK, Accepts, Ops
<1>11. WriteCursorsOrdered'
  BY <1>1, <1>4 DEF WriteCursorsOrdered, TypeOK, LogInv
<1>12. EofIsFinal'
  BY <1>4 DEF EofIsFinal, TypeOK
<1> QED
  BY <1>6, <1>7, <1>8, <1>9, <1>10, <1>11, <1>12

\* Every step of the session preserves the invariant.
THEOREM NextIInv == IInv /\ [Next]_vars => IInv'
<1> SUFFICES ASSUME IInv, [Next]_vars PROVE IInv'
  OBVIOUS
<1> USE DEF IInv
<1>1. CASE ConnectionUp
  BY <1>1, ConnectionStep DEF ConnectionUp, TypeOK, EofInv, writeVars, readVars
<1>2. CASE ChannelUp
  BY <1>2, ConnectionStep DEF ChannelUp, TypeOK, EofInv, writeVars, readVars
<1>3. CASE ConnectFails
  <2>1. TypeOK'
    BY <1>3 DEF ConnectFails, BeginClose, NotifyAll, Waiting, TypeOK, writeVars, readVars
  <2>2. EofInv'
    BY <1>3 DEF ConnectFails, BeginClose, NotifyAll, Waiting, TypeOK, EofInv, readVars
  <2> QED
    BY <1>3, <2>1, <2>2, ConnectionStep DEF ConnectFails, BeginClose, NotifyAll, Waiting, TypeOK, writeVars, readVars
<1>4. CASE ConnectCancelled
  BY <1>4, ConnectionStep DEF ConnectCancelled, TypeOK, EofInv, writeVars, readVars
<1>5. CASE LinkLost
  BY <1>5, ConnectionStep DEF LinkLost, TypeOK, EofInv, writeVars, readVars
<1>6. CASE Close
  <2>1. TypeOK'
    BY <1>6 DEF Close, BeginClose, NotifyAll, Waiting, TypeOK, writeVars, readVars
  <2>2. EofInv'
    BY <1>6 DEF Close, BeginClose, NotifyAll, Waiting, TypeOK, EofInv, readVars
  <2> QED
    BY <1>6, <2>1, <2>2, ConnectionStep DEF Close, BeginClose, NotifyAll, Waiting, TypeOK, writeVars, readVars
<1>7. CASE CloseFinish
  BY <1>7, ConnectionStep
  DEF CloseFinish, NotifyAll, Waiting, TypeOK, EofInv, writeVars, readVars
<1>8. CASE ReaderOutput
  <2>1. PICK n \in Chunks : cursor' = cursor + n
    BY <1>8 DEF ReaderOutput
  <2>2. cursor' \in Nat /\ cursor <= cursor' /\ ~eof
    BY <1>8, <2>1, ChunksAssumption DEF ReaderOutput, TypeOK, EofInv
  <2>3. TypeOK' /\ EofInv'
    BY <1>8, <2>2
    DEF ReaderOutput, NotifyAll, Waiting, TypeOK, EofInv, connVars, writeVars, readVars
  <2> QED
    BY <1>8, <2>2, <2>3, ConnectionStep DEF ReaderOutput, writeVars, readVars
<1>9. CASE ReaderEnd
  <2>1. TypeOK'
    BY <1>9 DEF ReaderEnd, NotifyAll, Waiting, TypeOK, writeVars, readVars
  <2>2. EofInv'
    BY <1>9 DEF ReaderEnd, NotifyAll, Waiting, TypeOK, EofInv, readVars
  <2> QED
    BY <1>9, <2>1, <2>2, ConnectionStep DEF ReaderEnd, NotifyAll, Waiting, TypeOK, writeVars, readVars
<1>10. ASSUME NEW o \in Reads, Read(o) PROVE IInv'
  <2>1. PICK a \in Queries : arg' = [arg EXCEPT ![o] = a] /\
          IF a.from < 0 \/ a.from > cursor
          THEN pc' = [pc EXCEPT ![o] = "failed"] /\ UNCHANGED <<woken, readVars>>
          ELSE Turn(o, a)
    BY <1>10 DEF Read
  <2>2. a \in Arguments /\ o \in Ops /\ o \notin Requests /\ pc[o] = "idle"
    BY <1>10, InputsAssumption, OpsAssumption DEF Read, Ops
  <2>3. a.from \in Int /\ cursor \in Nat
    BY <2>2 DEF Arguments, TypeOK
  <2>4. CASE a.from < 0 \/ a.from > cursor
    <3>1. /\ pc' = [pc EXCEPT ![o] = "failed"] /\ arg' = [arg EXCEPT ![o] = a]
          /\ UNCHANGED <<connVars, eof, cursor, writer, writeVars, woken, readVars>>
      BY <2>1, <2>4, <1>10 DEF Read
    <3> QED
      BY <3>1, <2>2
      DEF TypeOK, LockInv, LogInv, EofInv, StartInv, WriteCursorsOrdered, EofIsFinal,
          connVars, writeVars, readVars, Took, Ops
  <2>5. CASE ~(a.from < 0 \/ a.from > cursor)
    <3>1. 0 <= a.from /\ a.from <= cursor /\ Turn(o, a)
      BY <2>1, <2>3, <2>5
    <3>2. woken' \subseteq Ops /\ ReadEffect(o, a)
      BY <2>2, <3>1, TurnEffect
    <3> QED
      BY <1>10, <2>1, <2>2, <3>1, <3>2, ReadStep DEF Read
  <2> QED
    BY <2>4, <2>5
<1>11. ASSUME NEW o \in Reads, CancelRead(o) PROVE IInv'
  BY <1>11, FailStep, OpsAssumption DEF CancelRead, TypeOK, Ops
<1>12. ASSUME NEW o \in Ops, Wake(o) \/ Timeout(o) PROVE IInv'
  <2>1. /\ pc[o] = "waiting" /\ arg[o] \in Arguments
        /\ 0 <= arg[o].from /\ arg[o].from <= cursor
        /\ UNCHANGED <<connVars, eof, cursor, writer, arg, writeVars>>
        /\ arg' = [arg EXCEPT ![o] = arg[o]]
    BY <1>12 DEF Wake, Timeout, StartInv, TypeOK
  <2>2. woken' \subseteq Ops /\ ReadEffect(o, arg[o])
    <3>1. CASE Wake(o)
      BY <3>1, <2>1, TurnEffect DEF Wake
    <3>2. CASE Timeout(o)
      BY <3>2, <2>1, ReturnEffect DEF Timeout, TypeOK
    <3> QED
      BY <1>12, <3>1, <3>2
  <2> QED
    BY <2>1, <2>2, ReadStep
<1>13. ASSUME NEW r \in Requests, Exchange(r) PROVE IInv'
  <2>1. PICK a \in Arguments : arg' = [arg EXCEPT ![r] = a]
    BY <1>13, InputsAssumption DEF Exchange
  <2>2. pc[r] = "idle" /\ pc' = [pc EXCEPT ![r] = "queued"] /\ r \in Ops
    BY <1>13 DEF Exchange, Known, Ops
  <2> QED
    BY <1>13, <2>1, <2>2
    DEF Exchange, TypeOK, LockInv, LogInv, EofInv, StartInv, WriteCursorsOrdered,
        EofIsFinal, connVars, writeVars, readVars, Took, Ops
<1>14. ASSUME NEW r \in Requests, RejectKey(r) \/ Reject(r) PROVE IInv'
  BY <1>14, FailStep DEF RejectKey, Reject, TypeOK, Ops
<1>15. ASSUME NEW r \in Requests, Write(r) PROVE IInv'
  BY <1>15, WriteStep
<1>16. ASSUME NEW r \in Requests, DrainEnd(r) PROVE IInv'
  <2>1. /\ pc[r] = "draining" /\ writer' = None /\ arg[r] \in Arguments /\ r \in Ops
        /\ arg[r].from \in Int /\ arg[r].from <= cursor
        /\ UNCHANGED <<connVars, eof, cursor, arg, writeVars>>
        /\ arg' = [arg EXCEPT ![r] = arg[r]]
    BY <1>16 DEF DrainEnd, StartInv, TypeOK, Arguments, Ops
  <2>2. CASE arg[r].from < 0
    BY <1>16, <2>1, <2>2, FailStep DEF DrainEnd, TypeOK
  <2>3. CASE ~(arg[r].from < 0)
    <3>1. 0 <= arg[r].from /\ Turn(r, arg[r])
      BY <1>16, <2>1, <2>3 DEF DrainEnd
    <3>2. woken' \subseteq Ops /\ ReadEffect(r, arg[r])
      BY <2>1, <3>1, TurnEffect
    <3> QED
      BY <2>1, <3>1, <3>2, ReadStep
  <2> QED
    BY <2>2, <2>3
<1>17. ASSUME NEW r \in Requests, DrainFails(r) PROVE IInv'
  BY <1>17, FailStep DEF DrainFails, TypeOK, Ops
<1>18. CASE UNCHANGED vars
  BY <1>18
  DEF vars, TypeOK, LockInv, LogInv, EofInv, StartInv, WriteCursorsOrdered,
      EofIsFinal, connVars, writeVars, readVars, Took, Ops
<1> QED
  BY <1>1, <1>2, <1>3, <1>4, <1>5, <1>6, <1>7, <1>8, <1>9, <1>10, <1>11, <1>12, <1>13,
     <1>14, <1>15, <1>16, <1>17, <1>18 DEF Next

\* The invariant holds in every reachable state.
THEOREM AlwaysIInv == Spec => []IInv
<1> QED
  BY InitIInv, NextIInv, PTL DEF Spec

-----------------------------------------------------------------------------
(* The properties the runs check *)

\* The session's variables keep their types.
THEOREM TypeCorrect == Spec => []TypeOK
<1>1. IInv => TypeOK
  BY DEF IInv
<1> QED
  BY <1>1, AlwaysIInv, PTL

\* Reusing a request id never writes twice (ssh_terminal.py 354-371, 412-414).
THEOREM WritesAtMostOnce == Spec => []WrittenAtMostOnce
<1>1. IInv => WrittenAtMostOnce
  BY DEF IInv, LogInv, WrittenAtMostOnce
<1> QED
  BY <1>1, AlwaysIInv, PTL

\* Exchanges racing with one expected_outbound_seq: at most one writes
\* (ssh_terminal.py 394-401).
THEOREM ExpectedSeqExclusive == Spec => []ExpectedSeqWinsOnce
<1>1. IInv => ExpectedSeqWinsOnce
  BY DEF IInv, LogInv, ExpectedSeqWinsOnce
<1> QED
  BY <1>1, AlwaysIInv, PTL

\* write_cursor is monotone in outbound_seq (ssh_terminal.py 412-414).
THEOREM WriteCursorsMonotone == Spec => []WriteCursorsOrdered
<1>1. IInv => WriteCursorsOrdered
  BY DEF IInv
<1> QED
  BY <1>1, AlwaysIInv, PTL

\* A result that says eof holds the end of the transcript for ever
\* (ssh_terminal.py 260-263, 303-328, 474-477).
THEOREM EofFinal == Spec => []EofIsFinal
<1>1. IInv => EofIsFinal
  BY DEF IInv
<1> QED
  BY <1>1, AlwaysIInv, PTL

\* When the gate is open, a read settled the stream after the last write.
SettledInv == TypeOK /\ (~unsettled => settledAt = seq)

\* A read that returns with the unsettled flag cleared found the stream quiet
\* or ended, and records after how many writes.
LEMMA ReturnSettled ==
    ASSUME SettledInv, NEW o \in Ops, NEW a, NEW reason, Return(o, a, reason)
    PROVE  ~unsettled' => settledAt' = seq
BY DEF SettledInv, Return, Settles, readVars

\* So does any turn of the read loop: it clears the unsettled flag only after
\* it found the stream settled with every write made.
LEMMA TurnSettled ==
    ASSUME SettledInv, NEW o \in Ops, NEW a, Turn(o, a)
    PROVE  ~unsettled' => settledAt' = seq
<1>1. CASE \E reason \in StopReasons(a) : Return(o, a, reason)
  BY <1>1, ReturnSettled
<1>2. CASE UNCHANGED readVars
  BY <1>2 DEF SettledInv, readVars
<1> QED
  BY <1>1, <1>2 DEF Turn

\* An ordinary input is written only after a read that settled what the
\* previous write set off (ssh_terminal.py 331, 402-406, 415).
THEOREM OrdinaryWritesSettled == Spec => OrdinaryAfterSettled
<1>1. Init => SettledInv
  BY InitIInv DEF Init, SettledInv, IInv
<1>2. SettledInv /\ TypeOK' /\ [Next]_vars => SettledInv'
  <2> SUFFICES ASSUME SettledInv, TypeOK', [Next]_vars PROVE ~unsettled' => settledAt' = seq'
    BY DEF SettledInv
  <2>1. ASSUME NEW o \in Reads, Read(o) PROVE ~unsettled' => settledAt' = seq'
    <3>1. PICK a \in Queries :
            IF a.from < 0 \/ a.from > cursor THEN UNCHANGED readVars ELSE Turn(o, a)
      BY <2>1 DEF Read
    <3>2. seq' = seq /\ o \in Ops
      BY <2>1 DEF Read, writeVars, Ops
    <3> QED
      BY <3>1, <3>2, TurnSettled DEF SettledInv, readVars
  <2>2. ASSUME NEW o \in Ops, Wake(o) \/ Timeout(o) PROVE ~unsettled' => settledAt' = seq'
    BY <2>2, TurnSettled, ReturnSettled DEF Wake, Timeout, writeVars
  <2>3. ASSUME NEW r \in Requests, Write(r) PROVE ~unsettled' => settledAt' = seq'
    BY <2>3 DEF Write
  <2>4. ASSUME NEW r \in Requests, DrainEnd(r) PROVE ~unsettled' => settledAt' = seq'
    <3>1. seq' = seq /\ r \in Ops
      BY <2>4 DEF DrainEnd, writeVars, Ops
    <3>2. UNCHANGED readVars \/ Turn(r, arg[r])
      BY <2>4 DEF DrainEnd
    <3> QED
      BY <3>1, <3>2, TurnSettled DEF SettledInv, readVars
  <2>5. UNCHANGED <<writeVars, readVars>> => (~unsettled' => settledAt' = seq')
    BY DEF SettledInv, writeVars, readVars
  <2> QED
    BY <2>1, <2>2, <2>3, <2>4, <2>5
    DEF Next, vars, ConnectionUp, ChannelUp, ConnectFails, ConnectCancelled, LinkLost, Close,
        CloseFinish, ReaderOutput, ReaderEnd, CancelRead, Exchange, RejectKey, Reject,
        DrainFails
<1>3. SettledInv /\ [Next]_vars =>
        [\A r \in Requests :
           myseq'[r] # myseq[r] /\ arg[r].kind = "ordinary" => settledAt = seq]_vars
  <2> SUFFICES ASSUME SettledInv, [Next]_vars, NEW r \in Requests,
                      myseq'[r] # myseq[r], arg[r].kind = "ordinary"
               PROVE  settledAt = seq
    OBVIOUS
  <2>1. PICK s \in Requests : Write(s)
    BY DEF Next, vars, writeVars, ConnectionUp, ChannelUp, ConnectFails, ConnectCancelled,
           LinkLost, Close, CloseFinish, ReaderOutput, ReaderEnd, Read, CancelRead, Wake,
           Timeout, Exchange, RejectKey, Reject, DrainEnd, DrainFails
  <2>2. s = r
    BY <2>1 DEF Write, SettledInv, TypeOK
  <2> QED
    BY <2>1, <2>2 DEF Write, Accepts, Gate, SettledInv
<1> QED
  BY <1>1, <1>2, <1>3, TypeCorrect, PTL DEF Spec, OrdinaryAfterSettled

-----------------------------------------------------------------------------
(* The session implements TerminalPromise *)

PLog == [i \in 1 .. Len(log) |-> [req |-> log[i], expect |-> arg[log[i]].expect]]

\* A step that neither writes, nor moves the transcript, nor ends anything.
LEMMA SilentStep ==
    ASSUME IInv, UNCHANGED <<log, cursor, eof, close>>,
           \A r \in Requests : Took(r) => arg'[r] = arg[r]
    PROVE  UNCHANGED Promise!vars
<1>1. \A i \in 1 .. Len(log) : log[i] \in Requests /\ Took(log[i])
  <2>1. log \in Seq(Requests) /\ Len(log) = seq
    BY DEF IInv, LogInv, TypeOK
  <2> QED
    BY <2>1 DEF IInv, LogInv, Took
<1>2. PLog' = PLog
  BY <1>1 DEF PLog
<1> QED
  BY <1>2 DEF Promise!vars, PLog

\* The write of an exchange, lock taken and checks passed, is a write of the
\* promised session.
LEMMA WritePromise ==
    ASSUME IInv, NEW r \in Requests, Write(r)
    PROVE  Promise!Next
<1>1. /\ log \in Seq(Requests) /\ Len(log) = seq /\ seq \in Nat
      /\ log' = Append(log, r) /\ arg' = arg /\ UNCHANGED <<cursor, eof, close>>
      /\ ~eof /\ close = "no"
      /\ arg[r].expect \in {None, Len(log)}
  BY DEF IInv, TypeOK, LogInv, Write, Accepts, Connected, ExpectedSeq, connVars
<1>2. \A i \in 1 .. Len(log) : log[i] # r
  BY <1>1 DEF IInv, LogInv, Write, Took
<1>3. Len(PLog) = Len(log) /\ \A i \in 1 .. Len(PLog) : PLog[i].req # r
  BY <1>1, <1>2 DEF PLog
<1>4. PLog' = Append(PLog, [req |-> r, expect |-> arg[r].expect])
  <2>1. Len(log') = Len(log) + 1 /\ log'[Len(log) + 1] = r
    BY <1>1
  <2>2. \A i \in 1 .. Len(log) : log'[i] = log[i]
    BY <1>1
  <2> QED
    BY <1>1, <1>3, <2>1, <2>2 DEF PLog
<1>5. PICK e \in {None, Len(PLog)} : e = arg[r].expect
  BY <1>1, <1>3
<1>6. Promise!Write(r, e)
  BY <1>1, <1>3, <1>4, <1>5 DEF Promise!Write, PLog
<1> QED
  BY <1>6 DEF Promise!Next, PLog

\* Every behaviour of a session is one its promise allows: at most one write
\* per request, optimistic writes in place, nothing written after close or
\* eof, nothing appended after eof.
THEOREM SessionKeepsPromise == Spec => ImplementsPromise
<1>1. Init => Promise!Init
  BY DEF Init, Promise!Init
<1>2. IInv /\ [Next]_vars => [Promise!Next]_(Promise!vars)
  <2> SUFFICES ASSUME IInv, [Next]_vars PROVE Promise!Next \/ UNCHANGED Promise!vars
    OBVIOUS
  <2>1. ASSUME NEW r \in Requests, Write(r) PROVE Promise!Next
    BY <2>1, WritePromise
  <2>2. CASE ReaderOutput
    <3>1. PICK n \in Chunks : cursor' = cursor + n
      BY <2>2 DEF ReaderOutput
    <3>2. cursor' > cursor
      BY <3>1, ChunksAssumption DEF IInv, TypeOK
    <3>3. ~eof
      BY <2>2 DEF ReaderOutput, IInv, EofInv
    <3> QED
      BY <2>2, <3>2, <3>3
      DEF ReaderOutput, Promise!Next, Promise!Output, connVars, writeVars
  <2>3. ASSUME UNCHANGED <<log, cursor, arg>>, eof => eof', close # "no" => close' # "no"
        PROVE  Promise!Next \/ UNCHANGED Promise!vars
    <3>1. eof \in BOOLEAN /\ eof' \in BOOLEAN
      BY NextIInv DEF IInv, TypeOK
    <3> QED
      BY <2>3, <3>1 DEF Promise!Next, Promise!Shut, Promise!End, Promise!vars
  <2>4. CASE ConnectionUp \/ ChannelUp \/ ConnectFails \/ ConnectCancelled \/ LinkLost \/ Close
               \/ CloseFinish \/ ReaderEnd
    <3>1. UNCHANGED <<log, cursor, arg>> /\ (eof => eof') /\ (close # "no" => close' # "no")
      BY <2>4
      DEF ConnectionUp, ChannelUp, ConnectFails, ConnectCancelled, LinkLost, Close,
          CloseFinish, ReaderEnd, BeginClose, connVars, writeVars
    <3> QED
      BY <2>3, <3>1
  <2>5. ASSUME NEW o \in Reads, Read(o) \/ CancelRead(o) PROVE UNCHANGED Promise!vars
    <3>1. o \notin Requests
      BY OpsAssumption
    <3>2. arg' = arg \/ \E a \in Queries : arg' = [arg EXCEPT ![o] = a]
      BY <2>5 DEF Read, CancelRead
    <3>3. \A r \in Requests : arg'[r] = arg[r]
      BY <3>1, <3>2 DEF IInv, TypeOK, Ops
    <3> QED
      BY <2>5, <3>3, SilentStep DEF Read, CancelRead, connVars, writeVars
  <2>6. ASSUME NEW o \in Ops, Wake(o) \/ Timeout(o) PROVE UNCHANGED Promise!vars
    BY <2>6, SilentStep DEF Wake, Timeout, connVars, writeVars
  <2>7. ASSUME NEW r \in Requests, Exchange(r) PROVE UNCHANGED Promise!vars
    <3>1. ~Took(r)
      BY <2>7 DEF Exchange, Known, IInv, LogInv
    <3>2. \A q \in Requests : Took(q) => arg'[q] = arg[q]
      BY <2>7, <3>1 DEF Exchange, IInv, TypeOK
    <3> QED
      BY <2>7, <3>2, SilentStep DEF Exchange, connVars, writeVars
  <2>8. ASSUME NEW r \in Requests,
               RejectKey(r) \/ Reject(r) \/ DrainEnd(r) \/ DrainFails(r)
        PROVE  UNCHANGED Promise!vars
    BY <2>8, SilentStep DEF RejectKey, Reject, DrainEnd, DrainFails, connVars, writeVars
  <2>9. CASE UNCHANGED vars
    BY <2>9, SilentStep DEF vars, connVars, writeVars
  <2> QED
    BY <2>1, <2>2, <2>4, <2>5, <2>6, <2>7, <2>8, <2>9 DEF Next
<1> QED
  BY <1>1, <1>2, AlwaysIInv, PTL DEF Spec, ImplementsPromise, Promise!Spec

-----------------------------------------------------------------------------
(* Waiting, and results                                                    *)

\* A read that sleeps has nothing to return: whenever there is enough output
\* for it, or the end of the transcript, its condition future is set.
NoLostWakeup ==
    \A o \in Ops : pc[o] = "waiting" /\ (eof \/ LimitReached(arg[o])) => o \in woken

\* A call that ended stays ended, with the result it has: a retry that names
\* the same request gets that result, and nothing else touches it.
ResultsStand ==
    /\ \A o \in Ops : pc[o] \in {"done", "failed"} =>
         UNCHANGED <<pc[o], arg[o], next[o], why[o]>>
    /\ \A r \in Requests : pc[r] \in {"done", "failed"} => UNCHANGED <<myseq[r], wcursor[r]>>

ResultsAreFinal == [][ResultsStand]_vars

\* How a step of one operation leaves the others.
OneMoves(o) ==
    /\ pc[o] \notin {"done", "failed"}
    /\ \A p \in Ops \ {o} :
         pc'[p] = pc[p] /\ arg'[p] = arg[p] /\ next'[p] = next[p] /\ why'[p] = why[p]
    /\ \A r \in Requests \ {o} : myseq'[r] = myseq[r] /\ wcursor'[r] = wcursor[r]
    /\ \A p \in Ops \ {o} : p \in woken => p \in woken'
    /\ UNCHANGED <<eof, cursor>>
    /\ pc'[o] = "waiting" => ~LimitReached(arg'[o]) /\ ~eof

\* Such a step leaves no read asleep, and no result changed.
LEMMA OneMovesKeeps ==
    ASSUME NoLostWakeup, NEW o \in Ops, OneMoves(o)
    PROVE  NoLostWakeup' /\ ResultsStand
<1>1. NoLostWakeup'
  BY DEF OneMoves, NoLostWakeup, LimitReached
<1>2. \A p \in Ops : pc[p] \in {"done", "failed"} => p # o
  BY DEF OneMoves
<1>3. \A r \in Requests : r \in Ops
  BY DEF Ops
<1>4. ResultsStand
  BY <1>2, <1>3 DEF OneMoves, ResultsStand
<1> QED
  BY <1>1, <1>4

\* The rest of read() once the loop stopped.
LEMMA ReturnMoves ==
    ASSUME TypeOK, NEW o \in Ops, NEW a, NEW reason, Return(o, a, reason)
    PROVE  /\ \A p \in Ops \ {o} : pc'[p] = pc[p] /\ next'[p] = next[p] /\ why'[p] = why[p]
           /\ pc'[o] \in {"done", "failed"}
BY DEF Return, TypeOK, readVars

\* A turn of the read loop, in whichever operation.
LEMMA TurnMoves ==
    ASSUME TypeOK, NEW o \in Ops, pc[o] \notin {"done", "failed"}, NEW a, Turn(o, a),
           arg' = [arg EXCEPT ![o] = a], UNCHANGED <<eof, cursor, writeVars>>
    PROVE  OneMoves(o)
<1>1. /\ \A p \in Ops \ {o} : arg'[p] = arg[p] /\ (p \in woken => p \in woken')
      /\ arg'[o] = a /\ myseq' = myseq /\ wcursor' = wcursor
  BY DEF Turn, TypeOK, writeVars
<1>2. CASE \E reason \in StopReasons(a) : Return(o, a, reason)
  BY <1>1, <1>2, ReturnMoves DEF OneMoves
<1>3. CASE ~LimitReached(a) /\ ~eof /\ pc' = [pc EXCEPT ![o] = "waiting"] /\ UNCHANGED readVars
  BY <1>1, <1>3 DEF OneMoves, TypeOK, readVars
<1> QED
  BY <1>2, <1>3 DEF Turn

\* Every step wakes those it concerns, and leaves the results as they are.
LEMMA WakeStep ==
    ASSUME IInv, NoLostWakeup, [Next]_vars PROVE NoLostWakeup' /\ ResultsStand
<1> USE DEF IInv
<1>1. ASSUME UNCHANGED <<pc, arg, next, why, myseq, wcursor>>,
             woken' = Waiting \/ UNCHANGED <<woken, eof, cursor>>
      PROVE  NoLostWakeup' /\ ResultsStand
  BY <1>1 DEF NoLostWakeup, ResultsStand, Waiting, LimitReached
<1>2. ASSUME NEW o \in Ops, pc[o] \notin {"done", "failed"},
             NEW step \in {"queued", "draining", "failed"}, pc' = [pc EXCEPT ![o] = step],
             arg' = arg \/ \E a \in Arguments : arg' = [arg EXCEPT ![o] = a],
             woken \ {o} \subseteq woken',
             \A r \in Requests \ {o} : myseq'[r] = myseq[r] /\ wcursor'[r] = wcursor[r],
             UNCHANGED <<eof, cursor, next, why>>
      PROVE  NoLostWakeup' /\ ResultsStand
  <2>1. \A p \in Ops \ {o} : arg'[p] = arg[p]
    BY <1>2 DEF TypeOK
  <2>2. OneMoves(o)
    BY <1>2, <2>1 DEF OneMoves, TypeOK
  <2> QED
    BY <2>2, OneMovesKeeps
<1>3. CASE ConnectionUp \/ ChannelUp \/ ConnectCancelled \/ LinkLost
  BY <1>1, <1>3
  DEF ConnectionUp, ChannelUp, ConnectCancelled, LinkLost, writeVars, readVars
<1>4. CASE ConnectFails \/ Close \/ CloseFinish
  <2>1. woken' = Waiting \/ UNCHANGED <<woken, eof>>
    BY <1>4 DEF ConnectFails, Close, CloseFinish, BeginClose, NotifyAll
  <2>2. UNCHANGED <<cursor, pc, arg, next, why, myseq, wcursor>>
    BY <1>4 DEF ConnectFails, Close, CloseFinish, writeVars, readVars
  <2> QED
    BY <1>1, <2>1, <2>2
<1>5. CASE ReaderOutput \/ ReaderEnd
  BY <1>1, <1>5 DEF ReaderOutput, ReaderEnd, NotifyAll, writeVars, readVars
<1>6. ASSUME NEW o \in Reads, Read(o) PROVE NoLostWakeup' /\ ResultsStand
  <2>1. PICK a \in Queries :
          /\ arg' = [arg EXCEPT ![o] = a]
          /\ IF a.from < 0 \/ a.from > cursor
             THEN pc' = [pc EXCEPT ![o] = "failed"] /\ UNCHANGED <<woken, readVars>>
             ELSE Turn(o, a)
    BY <1>6 DEF Read
  <2>2. /\ a \in Arguments /\ o \in Ops /\ pc[o] \notin {"done", "failed"}
        /\ UNCHANGED <<eof, cursor, writeVars>>
    BY <1>6, InputsAssumption DEF Read, Ops
  <2>3. CASE Turn(o, a)
    BY <2>1, <2>2, <2>3, TurnMoves, OneMovesKeeps
  <2>4. CASE pc' = [pc EXCEPT ![o] = "failed"] /\ UNCHANGED <<woken, readVars>>
    BY <1>2, <2>1, <2>2, <2>4 DEF writeVars, readVars
  <2> QED
    BY <2>1, <2>3, <2>4
<1>7. ASSUME NEW o \in Reads, CancelRead(o) PROVE NoLostWakeup' /\ ResultsStand
  BY <1>2, <1>7 DEF CancelRead, Ops, writeVars, readVars
<1>8. ASSUME NEW o \in Ops, Wake(o) PROVE NoLostWakeup' /\ ResultsStand
  <2>1. /\ pc[o] \notin {"done", "failed"} /\ Turn(o, arg[o])
        /\ arg' = [arg EXCEPT ![o] = arg[o]] /\ UNCHANGED <<eof, cursor, writeVars>>
    BY <1>8 DEF Wake, TypeOK
  <2> QED
    BY <2>1, TurnMoves, OneMovesKeeps
<1>9. ASSUME NEW o \in Ops, Timeout(o) PROVE NoLostWakeup' /\ ResultsStand
  <2>1. /\ pc[o] = "waiting" /\ woken' = woken \ {o} /\ UNCHANGED <<eof, cursor, arg, writeVars>>
        /\ \E reason \in StopReasons(arg[o]) : Return(o, arg[o], reason)
    BY <1>9 DEF Timeout
  <2>2. OneMoves(o)
    BY <2>1, ReturnMoves DEF OneMoves, writeVars
  <2> QED
    BY <2>2, OneMovesKeeps
<1>10. ASSUME NEW r \in Requests, Exchange(r) PROVE NoLostWakeup' /\ ResultsStand
  BY <1>2, <1>10, InputsAssumption DEF Exchange, Known, Ops, writeVars, readVars
<1>11. ASSUME NEW r \in Requests, RejectKey(r) \/ Reject(r) \/ DrainFails(r)
       PROVE  NoLostWakeup' /\ ResultsStand
  BY <1>2, <1>11 DEF RejectKey, Reject, DrainFails, Ops, writeVars, readVars
<1>12. ASSUME NEW r \in Requests, Write(r) PROVE NoLostWakeup' /\ ResultsStand
  <2>1. /\ r \in Ops /\ pc[r] \notin {"done", "failed"}
        /\ \E step \in {"draining", "failed"} : pc' = [pc EXCEPT ![r] = step]
        /\ UNCHANGED <<eof, cursor, next, why, arg, woken>>
    BY <1>12 DEF Write, Ops
  <2>2. \A q \in Requests \ {r} : myseq'[q] = myseq[q] /\ wcursor'[q] = wcursor[q]
    BY <1>12 DEF Write, TypeOK
  <2> QED
    BY <1>2, <2>1, <2>2
<1>13. ASSUME NEW r \in Requests, DrainEnd(r) PROVE NoLostWakeup' /\ ResultsStand
  <2>1. /\ r \in Ops /\ pc[r] \notin {"done", "failed"} /\ arg' = arg
        /\ arg' = [arg EXCEPT ![r] = arg[r]] /\ UNCHANGED <<eof, cursor, writeVars>>
    BY <1>13 DEF DrainEnd, TypeOK, Ops
  <2>2. CASE Turn(r, arg[r])
    BY <2>1, <2>2, TurnMoves, OneMovesKeeps
  <2>3. CASE pc' = [pc EXCEPT ![r] = "failed"] /\ UNCHANGED <<woken, readVars>>
    BY <1>2, <2>1, <2>3 DEF writeVars, readVars
  <2> QED
    BY <1>13, <2>2, <2>3 DEF DrainEnd
<1>14. CASE UNCHANGED vars
  BY <1>1, <1>14 DEF vars, writeVars, readVars
<1> QED
  BY <1>3, <1>4, <1>5, <1>6, <1>7, <1>8, <1>9, <1>10, <1>11, <1>12, <1>13, <1>14 DEF Next

\* No read sleeps on output it could return, or past the end: every append, the
\* reader's end and close() notify it, and it looks again before it sleeps.
THEOREM ReadersAreWoken == Spec => []NoLostWakeup
<1>1. Init => NoLostWakeup
  BY DEF Init, NoLostWakeup
<1> QED
  BY <1>1, AlwaysIInv, WakeStep, PTL DEF Spec

\* The result of a request is the result of each retry of it.
THEOREM RetriesGetTheResult == Spec => ResultsAreFinal
<1>1. Init => NoLostWakeup
  BY DEF Init, NoLostWakeup
<1>2. ASSUME IInv, NoLostWakeup, [Next]_vars PROVE NoLostWakeup' /\ [ResultsStand]_vars
  BY <1>2, WakeStep
<1> QED
  BY <1>1, <1>2, AlwaysIInv, PTL DEF Spec, ResultsAreFinal

-----------------------------------------------------------------------------
(* When the gate does hold back ordinary writes *)

\* A read that returns began at, or after, the place where the last read that
\* a deadline or the limit cut short had stopped.
ReadsGoOn == \A o \in Ops : pc'[o] = "done" /\ pc[o] # "done" => arg'[o].from >= owed

\* With the gate open nothing is owed, or the transcript ended.
OwedInv == unsettled \/ owed = -1 \/ eof

\* A read that goes on owes nothing once it finds the stream quiet.
LEMMA ReturnOwes ==
    ASSUME TypeOK, OwedInv, NEW o \in Ops, NEW a \in Arguments, NEW reason \in StopReasons(a),
           Return(o, a, reason), pc'[o] = "done" => a.from >= owed
    PROVE  unsettled' \/ owed' = -1 \/ eof
<1>1. CASE PreadRaises(a)
  BY <1>1 DEF Return, OwedInv, readVars
<1>2. CASE ~PreadRaises(a)
  <2>1. /\ unsettled' = ~Settles(reason)
        /\ owed' = IF reason \in {"deadline", "response_limit"} THEN ReadEnd(a)
                   ELSE IF ReadEnd(a) > owed THEN -1 ELSE owed
        /\ a.from >= owed
    BY <1>2 DEF Return, TypeOK
  <2>2. a.from \in Int /\ a.limit \in Int /\ cursor \in Nat /\ owed \in Int
    BY DEF Arguments, TypeOK
  <2>3. CASE reason = "quiet"
    <3>1. ~LimitReached(a) /\ cursor > a.from
      BY <2>3 DEF StopReasons
    <3>2. ReadEnd(a) = cursor
      BY <2>2, <3>1 DEF LimitReached, ReadEnd
    <3> QED
      BY <2>1, <2>2, <2>3, <3>1, <3>2
  <2>4. CASE reason = "eof"
    BY <2>4 DEF StopReasons
  <2>5. CASE reason \in {"deadline", "response_limit"}
    BY <2>1, <2>5 DEF Settles
  <2> QED
    BY <2>3, <2>4, <2>5 DEF StopReasons
<1> QED
  BY <1>1, <1>2

LEMMA TurnOwes ==
    ASSUME TypeOK, OwedInv, NEW o \in Ops, NEW a \in Arguments, Turn(o, a),
           pc'[o] = "done" => a.from >= owed
    PROVE  unsettled' \/ owed' = -1 \/ eof
BY ReturnOwes DEF Turn, OwedInv, readVars

LEMMA OwedStep ==
    ASSUME IInv, OwedInv, [Next]_vars, ReadsGoOn \/ UNCHANGED vars PROVE OwedInv'
<1> USE DEF IInv
<1>1. UNCHANGED readVars /\ (eof => eof') => OwedInv'
  BY DEF OwedInv, readVars
<1>2. ASSUME NEW o \in Reads, Read(o) PROVE OwedInv'
  <2>1. PICK a \in Queries :
          /\ arg' = [arg EXCEPT ![o] = a]
          /\ IF a.from < 0 \/ a.from > cursor THEN UNCHANGED readVars ELSE Turn(o, a)
    BY <1>2 DEF Read
  <2>2. /\ a \in Arguments /\ o \in Ops /\ pc[o] = "idle" /\ arg'[o] = a /\ eof' = eof
    BY <1>2, <2>1, InputsAssumption DEF Read, Ops, TypeOK
  <2>3. CASE UNCHANGED readVars
    BY <1>1, <2>2, <2>3
  <2>4. CASE Turn(o, a)
    <3>1. pc'[o] = "done" => a.from >= owed
      BY <1>2, <2>2 DEF ReadsGoOn, vars
    <3> QED
      BY <2>2, <2>4, <3>1, TurnOwes DEF OwedInv
  <2> QED
    BY <2>1, <2>3, <2>4
<1>3. ASSUME NEW o \in Ops, Wake(o) \/ Timeout(o) PROVE OwedInv'
  <2>1. pc[o] = "waiting" /\ arg' = arg /\ arg[o] \in Arguments /\ eof' = eof
    BY <1>3 DEF Wake, Timeout, TypeOK
  <2>2. pc'[o] = "done" => arg[o].from >= owed
    BY <2>1 DEF ReadsGoOn, vars
  <2>3. Turn(o, arg[o]) \/ \E reason \in StopReasons(arg[o]) : Return(o, arg[o], reason)
    BY <1>3 DEF Wake, Timeout
  <2> QED
    BY <2>1, <2>2, <2>3, TurnOwes, ReturnOwes DEF OwedInv
<1>4. ASSUME NEW r \in Requests, Write(r) PROVE OwedInv'
  BY <1>4 DEF Write, OwedInv
<1>5. ASSUME NEW r \in Requests, DrainEnd(r) PROVE OwedInv'
  <2>1. r \in Ops /\ pc[r] = "draining" /\ arg' = arg /\ arg[r] \in Arguments /\ eof' = eof
    BY <1>5 DEF DrainEnd, TypeOK, Ops
  <2>2. pc'[r] = "done" => arg[r].from >= owed
    BY <2>1 DEF ReadsGoOn, vars
  <2>3. Turn(r, arg[r]) \/ UNCHANGED readVars
    BY <1>5 DEF DrainEnd
  <2> QED
    BY <1>1, <2>1, <2>2, <2>3, TurnOwes DEF OwedInv
<1>6. CASE ConnectionUp \/ ChannelUp \/ ConnectFails \/ ConnectCancelled \/ LinkLost \/ Close
             \/ CloseFinish \/ ReaderOutput \/ ReaderEnd
  BY <1>1, <1>6
  DEF ConnectionUp, ChannelUp, ConnectFails, ConnectCancelled, LinkLost, Close, CloseFinish,
      ReaderOutput, ReaderEnd, BeginClose
<1>7. ASSUME NEW o \in Reads, CancelRead(o) PROVE OwedInv'
  BY <1>1, <1>7 DEF CancelRead
<1>8. ASSUME NEW r \in Requests, Exchange(r) \/ RejectKey(r) \/ Reject(r) \/ DrainFails(r)
      PROVE  OwedInv'
  BY <1>1, <1>8 DEF Exchange, RejectKey, Reject, DrainFails
<1>9. CASE UNCHANGED vars
  BY <1>1, <1>9 DEF vars
<1> QED
  BY <1>2, <1>3, <1>4, <1>5, <1>6, <1>7, <1>8, <1>9 DEF Next

\* Where every read goes on from where the last one cut short had stopped, a
\* deadline or a full response blocks ordinary writes until more output is
\* read, as mcp_server.py 469-471 says; a second look at old output unblocks.
THEOREM GoingOnIsBlocked == Spec /\ [][ReadsGoOn]_vars => BlockedUntilMoreOutput
<1>1. Init => OwedInv
  BY DEF Init, OwedInv
<1>2. ASSUME IInv, OwedInv, [Next]_vars, [ReadsGoOn]_vars
      PROVE  /\ OwedInv'
             /\ [\A r \in Requests :
                   myseq'[r] # myseq[r] /\ arg[r].kind = "ordinary" => owed = -1]_vars
  <2>1. OwedInv'
    BY <1>2, OwedStep
  <2>2. ASSUME NEW r \in Requests, myseq'[r] # myseq[r], arg[r].kind = "ordinary"
        PROVE  owed = -1
    <3>1. PICK s \in Requests : Write(s)
      BY <1>2, <2>2
      DEF Next, vars, writeVars, ConnectionUp, ChannelUp, ConnectFails, ConnectCancelled,
          LinkLost, Close, CloseFinish, ReaderOutput, ReaderEnd, Read, CancelRead, Wake,
          Timeout, Exchange, RejectKey, Reject, DrainEnd, DrainFails
    <3>2. s = r
      BY <1>2, <2>2, <3>1 DEF Write, IInv, TypeOK
    <3> QED
      BY <1>2, <2>2, <3>1, <3>2 DEF Write, Accepts, Gate, Connected, OwedInv
  <2> QED
    BY <2>1, <2>2
<1> QED
  BY <1>1, <1>2, AlwaysIInv, PTL DEF Spec, BlockedUntilMoreOutput
=============================================================================
