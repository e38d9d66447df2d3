---- MODULE UringBackend ----
(***************************************************************************)
(* The io_uring backend of the file sink, src/src/sinks/                   *)
(* ij_file_sink_uring.c: one write takes a submission entry, submits, and  *)
(* waits for ONE completion, whichever it is.  The kernel executes a       *)
(* submitted operation at any later time.  The payload an operation points *)
(* to is a buffer on the stack of ij_logger_log, gone once the call        *)
(* returns.                                                                *)
(*                                                                         *)
(* A definition named Mut... is a deliberately wrong variant of the one    *)
(* below it, used to test that a property can fail.                        *)
(***************************************************************************)
EXTENDS Integers, Sequences, FiniteSets

CONSTANTS Depth,       \* entries of the submission queue (8 in the code)
          Lengths,     \* payload lengths
          MaxWrites    \* bound

ASSUME UringConstants ==
    /\ Depth \in Nat \ {0} /\ MaxWrites \in Nat
    /\ Lengths \subseteq Nat \ {0}

VARIABLES
    fd,         \* sink->fd >= 0 and sink->uring # NULL
    sq,         \* prepared operations that were not submitted, oldest first
    inflight,   \* operations the kernel has
    cq,         \* completions nobody has seen: [op, res]
    file,       \* what each executed operation appended, in order:
                \* [op, whole: all of the line, fresh: from a live payload]
    pc,         \* the call in progress: "idle", "submit", "wait"
    op,         \* its operation: [id, len]
    writes,     \* how many calls there have been
    results,    \* history: what call i returned
    interrupted \* history: the calls on this queue that failed to submit or wait

vars == <<fd, sq, inflight, cq, file, pc, op, writes, results, interrupted>>
queues == <<sq, inflight, cq>>

NoOp == [id |-> 0, len |-> 0]

Init ==
    /\ fd = FALSE
    /\ sq = << >> /\ inflight = {} /\ cq = << >>
    /\ file = << >>
    /\ pc = "idle" /\ op = NoOp
    /\ writes = 0 /\ results = << >> /\ interrupted = {}

\* ij_file_sink_uring_open: a new queue on the (possibly old) file.  A failed
\* open gives everything back and changes nothing.
Open ==
    /\ ~fd
    /\ fd' = TRUE
    /\ UNCHANGED <<queues, file, pc, op, writes, results, interrupted>>

Returns(status) == pc' = "idle" /\ results' = Append(results, status)

----------------------------------------------------------------------------
(* ij_file_sink_uring_write *)

MutSqFullNever == FALSE
SqFull == Len(sq) = Depth

\* io_uring_get_sqe and io_uring_prep_write.
Prepare(len) ==
    /\ fd /\ pc = "idle" /\ writes < MaxWrites
    /\ ~SqFull
    /\ writes' = writes + 1
    /\ op' = [id |-> writes + 1, len |-> len]
    /\ sq' = Append(sq, op')
    /\ pc' = "submit"
    /\ UNCHANGED <<fd, inflight, cq, file, results, interrupted>>

\* No free entry: SINK_ERROR.
PrepareFails(len) ==
    /\ fd /\ pc = "idle" /\ writes < MaxWrites
    /\ SqFull
    /\ writes' = writes + 1
    /\ op' = [id |-> writes + 1, len |-> len]
    /\ Returns("SINK_ERROR")
    /\ UNCHANGED <<fd, queues, file, interrupted>>

\* io_uring_submit_and_wait hands everything prepared to the kernel.
MutSubmittedNothing == {}
Submitted == {sq[i] : i \in 1 .. Len(sq)}
MutLeftPreparedAll == sq
LeftPrepared == << >>

Submit ==
    /\ pc = "submit"
    /\ inflight' = inflight \cup Submitted
    /\ sq' = LeftPrepared
    /\ pc' = "wait"
    /\ UNCHANGED <<fd, cq, file, op, writes, results, interrupted>>

\* It fails, and the prepared entry stays in the queue.
SubmitFails ==
    /\ pc = "submit"
    /\ Returns("SINK_ERROR")
    /\ interrupted' = interrupted \cup {op.id}
    /\ UNCHANGED <<fd, queues, file, op, writes>>

MutCompleteShort(res) == res >= 0
CompleteLine(res) == res = op.len
MutSeenNot == cq
Seen == Tail(cq)

\* io_uring_wait_cqe gives the oldest completion; its result is compared with
\* the length of THIS payload.
Drain ==
    /\ pc = "wait"
    /\ cq # << >>
    /\ cq' = Seen
    /\ Returns(IF CompleteLine(Head(cq).res) THEN "OK" ELSE "SINK_ERROR")
    /\ UNCHANGED <<fd, sq, inflight, file, op, writes, interrupted>>

\* The wait is interrupted: the operation stays with the kernel.
DrainFails ==
    /\ pc = "wait"
    /\ Returns("SINK_ERROR")
    /\ interrupted' = interrupted \cup {op.id}
    /\ UNCHANGED <<fd, queues, file, op, writes>>

\* The kernel executes an operation: all, part or nothing of it is appended.
\* The bytes are those of the payload only while the call is in progress.
Complete(o) ==
    /\ o \in inflight
    /\ inflight' = inflight \ {o}
    /\ \E res \in -1 .. o.len :
         /\ cq' = Append(cq, [op |-> o.id, res |-> res])
         /\ file' = IF res > 0
                    THEN Append(file, [op |-> o.id, whole |-> res = o.len,
                                       fresh |-> pc # "idle" /\ op.id = o.id])
                    ELSE file
    /\ UNCHANGED <<fd, sq, pc, op, writes, results, interrupted>>

\* ij_file_sink_uring_close: io_uring_queue_exit cancels what is pending; a
\* write the kernel had already begun is a Complete before this step.
Close ==
    /\ fd /\ pc = "idle"
    /\ fd' = FALSE
    /\ sq' = << >> /\ inflight' = {} /\ cq' = << >>
    /\ interrupted' = {}
    /\ UNCHANGED <<file, pc, op, writes, results>>

Next ==
    \/ Open \/ Close
    \/ \E len \in Lengths : Prepare(len) \/ PrepareFails(len)
    \/ Submit \/ SubmitFails \/ Drain \/ DrainFails
    \/ \E o \in inflight : Complete(o)

Spec == Init /\ [][Next]_vars

\* The kernel completes what it was given, and the caller goes on.
Fairness == /\ WF_vars(Submit) /\ WF_vars(Drain)
            /\ WF_vars(\E o \in inflight : Complete(o))
FairSpec == Spec /\ Fairness

----------------------------------------------------------------------------
(* Properties *)

\* The variables have their types; the queues never outgrow the ring.
TypeOK ==
    /\ fd \in BOOLEAN
    /\ Len(sq) <= Depth
    /\ pc \in {"idle", "submit", "wait"}
    /\ writes \in 0 .. MaxWrites
    /\ Len(results) = writes - (IF pc = "idle" THEN 0 ELSE 1)

\* All of the line of call i is in the file, read from a payload that was still
\* there.
LineWritten(i) ==
    \E k \in 1 .. Len(file) : file[k].op = i /\ file[k].whole /\ file[k].fresh

\* What the documentation says of an accepted event: its line was written
\* completely when ij_file_sink_uring_write returns OK.
OkMeansLineWritten ==
    \A i \in 1 .. Len(results) : results[i] = "OK" => LineWritten(i)

\* That holds of every call on a queue on which none was interrupted yet, also
\* after short writes, and again once the sink was closed and reopened.
OkUntilInterrupted ==
    [][pc = "wait" /\ results' = Append(results, "OK") /\ interrupted = {} =>
          LineWritten(op.id)]_vars

\* Whatever is interrupted, no line is appended twice: an entry left behind by
\* a call that failed may still be executed, but only once.
WrittenOnce ==
    \A j, k \in 1 .. Len(file) : file[j].op = file[k].op => j = k

\* Between calls exactly one entry, operation or completion is left behind for
\* each call that was interrupted on this queue: none is lost, none is taken
\* twice, and without interruptions nothing is left that would still read the
\* dead payload or answer the next call.
LeftBehindExact ==
    pc = "idle" => Len(sq) + Cardinality(inflight) + Len(cq) = Cardinality(interrupted)

\* Every call of ij_file_sink_uring_write returns, although it waits without a
\* timeout: some completion is always on its way.
CallReturns == (pc # "idle") ~> (pc = "idle")
====
