---- MODULE FileSink ----
(***************************************************************************)
(* The rotating file sink: src/src/sinks/ij_file_sink.c over the stdio     *)
(* backend (ij_file_sink_sync.c) and the io_uring backend                  *)
(* (ij_file_sink_uring.c), used by one logger, opened and closed any       *)
(* number of times on the same path, on a file system and a clock that     *)
(* outlive it.                                                             *)
(*                                                                         *)
(* A file is a sequence of cells (bytes); the last cell of a record is its *)
(* LF.  Every call is one action, and each of its error returns is an      *)
(* action of its own; the system calls that may fail are named in Faults.  *)
(*                                                                         *)
(* A call of the io_uring backend that is interrupted leaves its operation *)
(* behind (module UringBackend has its steps one by one): later calls      *)
(* submit it, the kernel executes it at any time (Straggle), and its       *)
(* completion answers another call.                                        *)
(*                                                                         *)
(* A definition named Mut... is a deliberately wrong variant of the one    *)
(* below it, used to test that a property can fail.                        *)
(***************************************************************************)
EXTENDS Integers, Sequences, FiniteSets

CONSTANTS RotateBytes,     \* rotate_bytes, 0: no size rotation
          RotateInterval,  \* rotate_interval_seconds, 0: no interval rotation
          Retention,       \* retention_files, 0: keep every rotated file
          Requests,        \* the file_backend values callers configure
          Sizes,           \* lengths of the records callers write
          Faults,          \* the system calls that may fail
          Depth,           \* entries of a submission queue (8 in the code)
          MaxWrites, MaxClock, MaxSessions   \* bounds

FaultKinds == {"open", "uring", "write", "flush", "path", "rename", "record",
               "unlink", "clock", "interrupt"}

ASSUME FileSinkConstants ==
    /\ RotateBytes \in Nat /\ RotateInterval \in Nat /\ Retention \in Nat
    /\ Requests \subseteq {"AUTO", "SYNC", "IO_URING"}
    /\ Sizes \subseteq Nat \ {0}
    /\ Faults \subseteq FaultKinds
    /\ Depth \in Nat \ {0}
    /\ MaxWrites \in Nat /\ MaxClock \in Nat /\ MaxSessions \in Nat

VARIABLES
    opened,               \* the sink was opened and not closed
    active_backend,
    handle,               \* stream # NULL, or fd >= 0
    ring,                 \* uring, what calls left in it: entries not yet
                          \* submitted, operations the kernel has, results
                          \* nobody has seen
    bytes_written, rotation_sequence, last_rotation_epoch,
    rotated_paths,        \* names rotated in this session, oldest first
    files,                \* file system: name -> cells
    buffer,               \* cells stdio holds back from the active file
    clock,                \* time(NULL)
    status,               \* what the last ij_file_sink_write returned
    writes, sessions,     \* counters for the bounds
    stream,               \* history: the cells of all acknowledged records
    cuts,                 \* history: length of stream at each rename ...
    renamed,              \* ... and the name the active file got
    mishaps               \* history: "short" (a write took part of a line),
                          \* "stuck" (an unlink failed), "lost" (a close did),
                          \* "interrupted" (an io_uring submit or wait failed)

sink == <<opened, active_backend, handle, ring, bytes_written, rotation_sequence,
          last_rotation_epoch, rotated_paths>>
history == <<stream, cuts, renamed, mishaps>>
vars == <<sink, files, buffer, clock, status, writes, sessions, history>>

Active == << >>                 \* sink->path
Line(n, len) == [k \in 1 .. len |-> [rec |-> n, at |-> k, of |-> len]]
MayFail(call) == call \in Faults
Mishap(what, happened) == IF happened THEN {what} ELSE {}
\* A queue after io_uring_queue_init.  io_uring_queue_exit, which every close of
\* the backend ends with, is taken to cancel what is pending.
NewRing == [sq |-> << >>, inflight |-> {}, cq |-> << >>]

Init ==
    /\ opened = FALSE /\ active_backend = "SYNC" /\ handle = FALSE
    /\ ring = NewRing
    /\ bytes_written = 0 /\ rotation_sequence = 0 /\ last_rotation_epoch = 0
    /\ rotated_paths = << >>
    /\ files = << >>            \* the empty function: no file exists
    /\ buffer = << >>
    /\ clock = 0
    /\ status = "none"
    /\ writes = 0 /\ sessions = 0
    /\ stream = << >> /\ cuts = << >> /\ renamed = << >> /\ mishaps = {}

----------------------------------------------------------------------------
(* Backends *)

\* How much of len bytes a write takes.
Amounts(len) == IF MayFail("write") THEN 0 .. len ELSE {len}
Short(line, k) == Mishap("short", k \in 1 .. Len(line) - 1)

\* The outcomes of fwrite behind content (in the file) and buf (in stdio): it
\* takes any prefix of the line when it fails, and may push any prefix of what
\* stdio then holds to the file.
SyncWrite(content, buf, line) ==
    LET held(k) == buf \o SubSeq(line, 1, k)
    IN  UNION {{[content |-> content \o SubSeq(held(k), 1, n),
                 buf |-> SubSeq(held(k), n + 1, Len(held(k))), ring |-> NewRing,
                 ok |-> k = Len(line), mishaps |-> Short(line, k)] :
                   n \in 0 .. Len(held(k))} : k \in Amounts(Len(line))}

\* An operation that is executed after its call returned reads a payload that is
\* gone.  This cell stands for the bytes, if any, that it appends.
Stray == [rec |-> 0, at |-> 0, of |-> 0]

\* The kernel executes some of the operations ops, in any order.
Done(ops) == UNION {{[op |-> o, res |-> res] : res \in Amounts(o.len)} : o \in ops}
Executions(ops) ==
    {done \in UNION {[1 .. n -> Done(ops)] : n \in 0 .. Cardinality(ops)} :
        \A i, j \in DOMAIN done : done[i].op = done[j].op => i = j}

OpOf(line) == [rec |-> line[1].rec, len |-> Len(line)]

\* The operations a submit finds in r besides its own.
Left(r) == r.inflight \cup {r.sq[i] : i \in 1 .. Len(r.sq)}

\* What the kernel executes while a call waits: first some of the operations
\* that were left, then perhaps the one of the call.  (One executed after that is
\* a step Straggle.)  The wait ends with a result, or interrupted.
Results(r, e) == (r.cq \o [i \in 1 .. Len(e.done) |-> e.done[i].res]) \o e.own
Waits(r, len) ==
    {e \in [done : Executions(Left(r)),
            own : {<< >>} \cup {<<k>> : k \in Amounts(len)},
            interrupted : IF MayFail("interrupt") THEN BOOLEAN ELSE {FALSE}] :
        e.interrupted \/ Results(r, e) # << >>}

\* How much of its line the call has written by then, and what it leaves.
OwnResult(e) == IF e.own = << >> THEN 0 ELSE e.own[1]
LeftAfter(r, op, e) ==
    [sq |-> << >>,
     inflight |-> (Left(r) \ {e.done[i].op : i \in 1 .. Len(e.done)})
                     \cup (IF e.own = << >> THEN {op} ELSE {}),
     cq |-> IF e.interrupted THEN Results(r, e) ELSE Tail(Results(r, e))]

\* The oldest result, whose ever it is, answers the call.
Waited(content, r, line, e) ==
    [content |-> (content \o [i \in 1 .. Len(e.done) |-> Stray])
                    \o SubSeq(line, 1, OwnResult(e)),
     buf |-> << >>,
     ring |-> LeftAfter(r, OpOf(line), e),
     ok |-> ~e.interrupted /\ Head(Results(r, e)) = Len(line),
     mishaps |-> Short(line, OwnResult(e)) \cup Mishap("interrupted", e.interrupted)]

\* A call that wrote nothing: the queue is full, or the submit fails and leaves
\* the entry in it.
Refused(content, r, why) ==
    [content |-> content, buf |-> << >>, ring |-> r, ok |-> FALSE, mishaps |-> why]

\* The outcomes of ij_file_sink_uring_write behind content, when earlier calls
\* left r.
UringWrite(content, r, line) ==
    IF Len(r.sq) = Depth THEN {Refused(content, r, {})}
    ELSE {Waited(content, r, line, e) : e \in Waits(r, Len(line))}
            \cup (IF MayFail("interrupt")
                  THEN {Refused(content, [r EXCEPT !.sq = Append(@, OpOf(line))],
                                {"interrupted"})}
                  ELSE {})

\* ops->write of the active backend.
BackendWrite(content, buf, r, line) ==
    IF active_backend = "SYNC" THEN SyncWrite(content, buf, line)
                               ELSE UringWrite(content, r, line)

\* fflush (and the flush inside fclose): how many buffered cells reach the file.
Flushed ==
    IF active_backend = "SYNC" /\ MayFail("flush") THEN 0 .. Len(buffer)
                                                   ELSE {Len(buffer)}

\* What stdio still holds after n cells reached the file.
MutUnflushedAll(n) == buffer
Unflushed(n) == SubSeq(buffer, n + 1, Len(buffer))

\* fopen "ab" and open O_CREAT|O_APPEND: an existing file keeps its content.
Created(fs) == IF Active \in DOMAIN fs THEN fs
               ELSE [n \in DOMAIN fs \cup {Active} |->
                        IF n = Active THEN << >> ELSE fs[n]]

----------------------------------------------------------------------------
(* ij_file_sink_open *)

\* io_uring is tried when it was asked for; any failure of it falls back to
\* stdio.
BackendChoices(request) ==
    IF request # "IO_URING" THEN {"SYNC"}
    ELSE IF MayFail("uring") THEN {"IO_URING", "SYNC"} ELSE {"IO_URING"}

Open(request) ==
    /\ ~opened
    /\ sessions < MaxSessions
    /\ sessions' = sessions + 1
    /\ active_backend' \in BackendChoices(request)
    /\ opened' = TRUE /\ handle' = TRUE
    /\ ring' = NewRing
    /\ files' = Created(files)
    /\ bytes_written' = 0 /\ rotation_sequence' = 0
    /\ last_rotation_epoch' = clock
    /\ rotated_paths' = << >>
    /\ UNCHANGED <<buffer, clock, status, writes, history>>

\* Neither backend opens the path: the sink is closed again.
OpenFails ==
    /\ MayFail("open")
    /\ ~opened
    /\ sessions < MaxSessions
    /\ sessions' = sessions + 1
    /\ active_backend' = "SYNC"
    /\ handle' = FALSE /\ ring' = NewRing
    /\ bytes_written' = 0 /\ rotation_sequence' = 0 /\ last_rotation_epoch' = 0
    /\ rotated_paths' = << >>
    /\ UNCHANGED <<opened, files, buffer, clock, status, writes, history>>

----------------------------------------------------------------------------
(* ij_file_sink_write *)

HasContent == bytes_written > 0

MutSizeDueWithoutLine(len) == RotateBytes > 0 /\ bytes_written > RotateBytes
SizeDue(len) == RotateBytes > 0 /\ bytes_written + len > RotateBytes

IntervalDue == /\ RotateInterval > 0
               /\ clock > last_rotation_epoch
               /\ clock - last_rotation_epoch >= RotateInterval

rotation_due(len) == handle /\ HasContent /\ (SizeDue(len) \/ IntervalDue)

\* The caller writes its next record.
Calls == opened /\ writes < MaxWrites /\ writes' = writes + 1
NewLine(len) == Line(writes + 1, len)

MutCountedNoReset(already, len) == bytes_written + len
Counted(already, len) == already + len

\* What is left of the call once the line was offered to the backend.
Answer(line, ok, already) ==
    IF ok THEN /\ status' = "OK"
               /\ bytes_written' = Counted(already, Len(line))
               /\ stream' = stream \o line
          ELSE /\ status' = "SINK_ERROR"
               /\ bytes_written' = already
               /\ UNCHANGED stream

WriteInPlace(len) ==
    /\ Calls
    /\ handle
    /\ ~rotation_due(len)
    /\ \E w \in BackendWrite(files[Active], buffer, ring, NewLine(len)) :
         /\ files' = [files EXCEPT ![Active] = w.content]
         /\ buffer' = w.buf /\ ring' = w.ring
         /\ Answer(NewLine(len), w.ok, bytes_written)
         /\ mishaps' = mishaps \cup w.mishaps
    /\ UNCHANGED <<opened, active_backend, handle, rotation_sequence,
                   last_rotation_epoch, rotated_paths, clock, sessions,
                   cuts, renamed>>

\* An earlier rotation left the sink without a stream: the backend refuses.
WriteNoHandle(len) ==
    /\ Calls
    /\ ~handle
    /\ status' = "INVALID_ARGUMENT"
    /\ UNCHANGED <<sink, files, buffer, clock, sessions, history>>

\* make_rotation_path: the UTC second and the next number of this session.
MutTargetSecondOnly == <<clock, 1>>
Target == <<clock, rotation_sequence + 1>>

\* make_rotation_path fails (gmtime_r, or a name that is too long).
RotatePathFails(len) ==
    /\ Calls
    /\ rotation_due(len)
    /\ MayFail("path")
    /\ status' = "SINK_ERROR"
    /\ UNCHANGED <<sink, files, buffer, clock, sessions, history>>

\* The flush before the rotation fails part of the way; stdio keeps the rest.
RotateFlushFails(len) ==
    /\ Calls
    /\ rotation_due(len)
    /\ MayFail("flush") /\ active_backend = "SYNC"
    /\ \E n \in 0 .. Len(buffer) - 1 :
         /\ files' = [files EXCEPT ![Active] = @ \o SubSeq(buffer, 1, n)]
         /\ buffer' = Unflushed(n)
    /\ status' = "SINK_ERROR"
    /\ UNCHANGED <<sink, clock, sessions, history>>

\* The active file was flushed and closed, and stays where it is.
RotateRenameFails(len) ==
    /\ Calls
    /\ rotation_due(len)
    /\ MayFail("rename")
    /\ files' = [files EXCEPT ![Active] = @ \o buffer]
    /\ buffer' = << >>
    /\ handle' = FALSE /\ ring' = NewRing
    /\ status' = "SINK_ERROR"
    /\ UNCHANGED <<opened, active_backend, bytes_written, rotation_sequence,
                   last_rotation_epoch, rotated_paths, clock, sessions, history>>

\* The active file after ops->flush.
MutFlushedFileNot == files[Active]
FlushedFile == files[Active] \o buffer

\* The files once the active one was renamed, over whatever had that name.
Moved == [n \in (DOMAIN files \ {Active}) \cup {Target} |->
             IF n = Target THEN FlushedFile ELSE files[n]]

Rename == /\ cuts' = Append(cuts, Len(stream))
          /\ renamed' = Append(renamed, Target)

\* record_rotation runs out of memory: renamed, but not remembered.
RotateRecordFails(len) ==
    /\ Calls
    /\ rotation_due(len)
    /\ MayFail("record")
    /\ Rename
    /\ files' = Moved
    /\ buffer' = << >>
    /\ handle' = FALSE /\ ring' = NewRing
    /\ status' = "INTERNAL_ERROR"
    /\ UNCHANGED <<opened, active_backend, bytes_written, rotation_sequence,
                   last_rotation_epoch, rotated_paths, clock, sessions, stream, mishaps>>

\* apply_retention: the names dropped from the front of rotated_paths.  An
\* unlink that fails is ignored.
Recorded == Append(rotated_paths, Target)
MutExcessLate == IF Retention > 0 /\ Len(rotated_paths) > Retention
                 THEN Len(rotated_paths) - Retention ELSE 0
Excess == IF Retention > 0 /\ Len(Recorded) > Retention
          THEN Len(Recorded) - Retention ELSE 0
Obsolete == {Recorded[i] : i \in 1 .. Excess}
StuckChoices == IF MayFail("unlink") THEN SUBSET Obsolete ELSE {{}}

\* What remains after retention, when the names in stuck could not be unlinked.
Retained(stuck) == [n \in DOMAIN Moved \ (Obsolete \ stuck) |-> Moved[n]]

RotationDone ==
    /\ Rename
    /\ rotation_sequence' = rotation_sequence + 1
    /\ last_rotation_epoch' = clock
    /\ rotated_paths' = SubSeq(Recorded, Excess + 1, Len(Recorded))

\* The new active file cannot be opened; an io_uring sink does not fall back
\* to stdio here, and fails also when the new ring cannot be set up.
RotateReopenFails(len) ==
    /\ Calls
    /\ rotation_due(len)
    /\ \/ MayFail("open") /\ status' = "SINK_ERROR"
       \/ /\ active_backend = "IO_URING" /\ MayFail("uring")
          /\ status' \in {"SINK_ERROR", "INTERNAL_ERROR"}
    /\ RotationDone
    /\ \E stuck \in StuckChoices :
         /\ files' = Retained(stuck)
         /\ mishaps' = mishaps \cup Mishap("stuck", stuck # {})
    /\ buffer' = << >>
    /\ bytes_written' = 0
    /\ handle' = FALSE /\ ring' = NewRing
    /\ UNCHANGED <<opened, active_backend, clock, sessions, stream>>

RotateAndWrite(len) ==
    /\ Calls
    /\ rotation_due(len)
    /\ RotationDone
    /\ \E stuck \in StuckChoices, w \in BackendWrite(<< >>, << >>, NewRing, NewLine(len)) :
         /\ files' = [Created(Retained(stuck)) EXCEPT ![Active] = w.content]
         /\ buffer' = w.buf /\ ring' = w.ring
         /\ Answer(NewLine(len), w.ok, 0)
         /\ mishaps' = (mishaps \cup w.mishaps) \cup Mishap("stuck", stuck # {})
    /\ UNCHANGED <<opened, active_backend, handle, clock, sessions>>

----------------------------------------------------------------------------
(* ij_file_sink_flush and ij_file_sink_close *)

Flush ==
    /\ opened
    /\ handle
    /\ \E n \in Flushed :
         /\ files' = [files EXCEPT ![Active] = @ \o SubSeq(buffer, 1, n)]
         /\ buffer' = Unflushed(n)
    /\ UNCHANGED <<sink, clock, status, writes, sessions, history>>

\* fclose drops what it cannot flush.
Close ==
    /\ opened
    /\ IF handle
       THEN \E n \in Flushed :
              /\ files' = [files EXCEPT ![Active] = @ \o SubSeq(buffer, 1, n)]
              /\ mishaps' = mishaps \cup Mishap("lost", n < Len(buffer))
       ELSE UNCHANGED <<files, mishaps>>
    /\ buffer' = << >>
    /\ opened' = FALSE /\ handle' = FALSE /\ ring' = NewRing
    /\ rotated_paths' = << >>
    /\ UNCHANGED <<active_backend, bytes_written, rotation_sequence,
                   last_rotation_epoch, clock, status, writes, sessions,
                   stream, cuts, renamed>>

----------------------------------------------------------------------------
(* The kernel and the wall clock *)

\* An operation is executed after the call that submitted it returned.
Straggle ==
    \E o \in ring.inflight : \E res \in Amounts(o.len) :
        /\ ring' = [sq |-> ring.sq, inflight |-> ring.inflight \ {o},
                    cq |-> Append(ring.cq, res)]
        /\ files' = [files EXCEPT ![Active] = Append(@, Stray)]
        /\ UNCHANGED <<opened, active_backend, handle, bytes_written,
                       rotation_sequence, last_rotation_epoch, rotated_paths, buffer,
                       clock, status, writes, sessions, history>>

Tick == /\ clock < MaxClock
        /\ clock' = clock + 1
        /\ UNCHANGED <<sink, files, buffer, status, writes, sessions, history>>

\* The clock is set back.
ClockBack == /\ MayFail("clock")
             /\ clock > 0
             /\ clock' = clock - 1
             /\ UNCHANGED <<sink, files, buffer, status, writes, sessions, history>>

Write(len) ==
    \/ WriteInPlace(len) \/ WriteNoHandle(len)
    \/ RotatePathFails(len) \/ RotateFlushFails(len) \/ RotateRenameFails(len)
    \/ RotateRecordFails(len) \/ RotateReopenFails(len) \/ RotateAndWrite(len)

Next ==
    \/ \E request \in Requests : Open(request)
    \/ OpenFails
    \/ \E len \in Sizes : Write(len)
    \/ Flush \/ Close
    \/ Straggle \/ Tick \/ ClockBack

Spec == Init /\ [][Next]_vars

----------------------------------------------------------------------------
(* Properties *)

Rotated == DOMAIN files \ {Active}

\* The active file as a reader would find it once stdio has flushed.
ActiveCells ==
    IF Active \in DOMAIN files THEN files[Active] \o buffer ELSE buffer

CutBefore(i) == IF i = 1 THEN 0 ELSE cuts[i - 1]

\* No name was given to two rotated files.
NamesDiffer == \A i, j \in 1 .. Len(renamed) : renamed[i] = renamed[j] => i = j

\* Through every rotation, every rotation that fails half-way and every new
\* session, the rotated files in the order of their renames, then the active
\* file, then what stdio holds, are the acknowledged records in order: none
\* lost (except with a whole file that retention deleted), repeated, reordered,
\* split across two files or mixed with bytes of a record that was refused.
\* This holds until a write leaves a partial line, an io_uring call is
\* interrupted (what it left may be appended later, or answer for a line that is
\* not written), a close loses what stdio held, or a second session reuses a
\* name.
LogIsCut ==
    opened /\ mishaps \subseteq {"stuck"} /\ NamesDiffer =>
        /\ \A i \in 1 .. Len(renamed) :
              renamed[i] \in DOMAIN files =>
                  files[renamed[i]] = SubSeq(stream, CutBefore(i) + 1, cuts[i])
        /\ ActiveCells = SubSeq(stream, CutBefore(Len(cuts) + 1) + 1, Len(stream))

\* Every write so far took all of its line or nothing, and was answered by its
\* own result: none was short and no io_uring call was interrupted.
WholeLines == mishaps \cap {"short", "interrupted"} = {}

\* As long as lines are whole, bytes_written, the counter the size test uses, is
\* the size of the active file of a first session: it is reset by exactly the
\* rotations that replaced the file.
BytesWrittenExact ==
    handle /\ sessions = 1 /\ WholeLines => bytes_written = Len(ActiveCells)

\* In a first session, as long as lines are whole, no file outgrows rotate_bytes
\* unless a single record does.
SizeBound ==
    RotateBytes > 0 /\ sessions = 1 /\ WholeLines =>
        \A n \in DOMAIN files \cup {Active} :
            LET cells == IF n = Active THEN ActiveCells ELSE files[n]
            IN  \/ Len(cells) <= RotateBytes
                \/ \A i \in 1 .. Len(cells) : cells[i].rec = cells[1].rec

\* After a write of a first session that reports success, the newest
\* retention_files rotated files are on disk and no older one, unless a file
\* could not be deleted; all of them when retention is off.
RetentionExact ==
    status = "OK" /\ sessions = 1 /\ "stuck" \notin mishaps =>
        LET kept == IF Retention > 0 /\ Len(renamed) > Retention
                    THEN Retention ELSE Len(renamed)
        IN  Rotated = {renamed[i] : i \in Len(renamed) - kept + 1 .. Len(renamed)}

\* What the documentation says of rotated files: none is ever overwritten, by a
\* later write, rotation or session.
NeverOverwritten ==
    [][\A n \in Rotated : n \in DOMAIN files' => files'[n] = files[n]]_vars

\* Within a session that holds whatever the clock does.
RotatedImmutable ==
    [][sessions' = 1 =>
          \A n \in Rotated : n \in DOMAIN files' => files'[n] = files[n]]_vars

\* Whatever fails, and across sessions, the bytes that calls write reach a file
\* in the order the records were offered, and no byte twice.  What io_uring
\* executes once its call has returned (a stray) is no part of this: it appends
\* what is then in a dead payload, at any time.
BytesInOrder ==
    \A n \in DOMAIN files : \A i, j \in 1 .. Len(files[n]) :
        i < j /\ files[n][i].rec # 0 /\ files[n][j].rec # 0 =>
                 LET a == files[n][i]  b == files[n][j]
                 IN  a.rec < b.rec \/ (a.rec = b.rec /\ a.at < b.at)
====
