---- MODULE Logger ----
(***************************************************************************)
(* The public API of src/src/core/ij_logger.c: ij_logger_init,             *)
(* ij_logger_log, ij_logger_flush and ij_logger_shutdown, for several      *)
(* loggers of one process and the threads that use them.  The module is    *)
(* about resources: what each call allocates, opens, frees and closes, in  *)
(* the heap and in the descriptor table all loggers share.  The sinks are  *)
(* modules of their own; here a sink write succeeds or fails.              *)
(*                                                                         *)
(* A definition named Mut... is a deliberately wrong variant of the one    *)
(* below it, used to test that a property can fail.                        *)
(***************************************************************************)
EXTENDS Integers, Sequences, FiniteSets

CONSTANTS Loggers,    \* logger instances, each initialised at most once
          Threads,    \* threads that call ij_logger_log
          Kinds,      \* the sink kinds callers configure
          MaxFd,      \* bound: highest descriptor number
          MaxLogs,    \* bound: ij_logger_log calls in all
          App, Closed, NoLogger

ASSUME LoggerConstants ==
    /\ Kinds \subseteq {"CONSOLE", "FILE", "SYSLOG"}
    /\ MaxFd \in Nat /\ MaxFd >= 2 /\ MaxLogs \in Nat
    /\ App \notin Loggers /\ Closed \notin Loggers /\ App # Closed
    /\ NoLogger \notin Loggers
    /\ Loggers \cap Threads = {}

VARIABLES
    life,       \* "none", "live", "marked", "closed", "freed", "failed"
    kind,       \* config.sink_kind
    file_fd,    \* descriptor behind file_sink, -1 for none
    syslog_fd,  \* syslog_sink.fd
    heap,       \* live allocations: <<logger or thread, what>>
    fds,        \* the descriptor table: who opened each number
    pc, arg, event,   \* each thread: where it is, its logger, its event
    target,     \* each thread: the descriptor it is about to write to
    logs,       \* how many events there have been
    ret,        \* what each thread's last call returned
    written     \* history: the events that reached a sink, by which logger,
                \* through whose descriptor, and the logger's life by then

vars == <<life, kind, file_fd, syslog_fd, heap, fds, pc, arg, event, target,
          logs, ret, written>>
resources == <<life, kind, file_fd, syslog_fd, heap, fds>>
callers == <<pc, arg, event, target, logs>>
outcome == <<ret, written>>

Fds == 0 .. MaxFd
Strings == {"logger_name", "syslog_host"}

Init ==
    /\ life = [l \in Loggers |-> "none"]
    /\ kind = [l \in Loggers |-> "CONSOLE"]
    /\ file_fd = [l \in Loggers |-> -1]
    /\ syslog_fd = [l \in Loggers |-> 0]
    /\ heap = {}
    /\ fds = [n \in Fds |-> IF n <= 2 THEN App ELSE Closed]
    /\ pc = [t \in Threads |-> "idle"]
    /\ arg = [t \in Threads |-> NoLogger]
    /\ event = [t \in Threads |-> 0]
    /\ target = [t \in Threads |-> -1]
    /\ logs = 0
    /\ ret = [t \in Threads |-> "none"]
    /\ written = << >>

----------------------------------------------------------------------------
(* ij_logger_init *)

\* The kernel hands out the lowest free number.
FreeFds == {n \in Fds : fds[n] = Closed}
LowestFree == CHOOSE n \in FreeFds : \A m \in FreeFds : n <= m

Allocate(l) == {<<l, "logger">>, <<l, "ring">>} \cup {<<l, s>> : s \in Strings}

\* A file sink without a stream.
MutNoStreamZero == 0
NoStream == -1

\* calloc zeroes the logger, so syslog_sink.fd is 0 unless a syslog sink is
\* opened, and file_sink has no stream unless a file sink is.
InitOk(l, k) ==
    /\ life[l] = "none"
    /\ k \in {"FILE", "SYSLOG"} => FreeFds # {}
    /\ life' = [life EXCEPT ![l] = "live"]
    /\ kind' = [kind EXCEPT ![l] = k]
    /\ heap' = heap \cup Allocate(l)
    /\ fds' = IF k = "CONSOLE" THEN fds ELSE [fds EXCEPT ![LowestFree] = l]
    /\ file_fd' = [file_fd EXCEPT ![l] = IF k = "FILE" THEN LowestFree ELSE NoStream]
    /\ syslog_fd' = [syslog_fd EXCEPT ![l] = IF k = "SYSLOG" THEN LowestFree ELSE 0]
    /\ UNCHANGED <<callers, outcome>>

\* The configuration is rejected, or the logger or one of the two strings cannot
\* be allocated: all is given back.
InitNoMemory(l) ==
    /\ life[l] = "none"
    /\ life' = [life EXCEPT ![l] = "failed"]
    /\ UNCHANGED <<kind, file_fd, syslog_fd, heap, fds, callers, outcome>>

\* The ring cannot be set up, or the sink cannot be opened: ring and logger are
\* freed, the two strings are not.
InitLateFailure(l) ==
    /\ life[l] = "none"
    /\ life' = [life EXCEPT ![l] = "failed"]
    /\ heap' = heap \cup {<<l, s>> : s \in Strings}
    /\ UNCHANGED <<kind, file_fd, syslog_fd, fds, callers, outcome>>

----------------------------------------------------------------------------
(* ij_logger_log *)

LogCall(t, l) ==
    /\ pc[t] = "idle"
    /\ life[l] = "live"
    /\ logs < MaxLogs
    /\ logs' = logs + 1
    /\ pc' = [pc EXCEPT ![t] = "check"]
    /\ arg' = [arg EXCEPT ![t] = l]
    /\ event' = [event EXCEPT ![t] = logs + 1]
    /\ UNCHANGED <<resources, target, outcome>>

Returns(t, status) == /\ ret' = [ret EXCEPT ![t] = status]
                      /\ pc' = [pc EXCEPT ![t] = "idle"]

\* What the test of logger->active may see.  The flag of a logger that was
\* freed in the meantime reads as anything.
SeesActive(l) == life[l] \in {"live", "freed"}
SeesInactive(l) == life[l] # "live"

\* logger->active was cleared in the meantime.
LogInactive(t) ==
    /\ pc[t] = "check"
    /\ SeesInactive(arg[t])
    /\ Returns(t, "INVALID_STATE")
    /\ UNCHANGED <<resources, arg, event, target, logs, written>>

\* Below min_level: OK, and nothing more happens.
LogFiltered(t) ==
    /\ pc[t] = "check"
    /\ SeesActive(arg[t])
    /\ Returns(t, "OK")
    /\ UNCHANGED <<resources, arg, event, target, logs, written>>

\* ij_event_copy_from_input rejects the event or runs out of memory, and has
\* released what it had allocated.
LogCopyFails(t) ==
    /\ pc[t] = "check"
    /\ SeesActive(arg[t])
    /\ \/ Returns(t, "INVALID_ARGUMENT")
       \/ Returns(t, "INTERNAL_ERROR")
    /\ UNCHANGED <<resources, arg, event, target, logs, written>>

LogCopy(t) ==
    /\ pc[t] = "check"
    /\ SeesActive(arg[t])
    /\ heap' = heap \cup {<<t, "text_arena">>}
    /\ pc' = [pc EXCEPT ![t] = "sink"]
    /\ UNCHANGED <<life, kind, file_fd, syslog_fd, fds, arg, event, target, logs,
                   outcome>>

MutSinkFdFixed(l) == 3

\* The descriptor the sink of l writes to (STDOUT_FILENO for the console).
SinkFd(l) == CASE kind[l] = "CONSOLE" -> 1
               [] kind[l] = "FILE" -> file_fd[l]
               [] kind[l] = "SYSLOG" -> syslog_fd[l]

\* What the call reads as its descriptor.  Kind and descriptor of a logger that
\* was freed in the meantime read as anything.
SinkFds(l) == IF life[l] = "freed" THEN Fds \cup {-1} ELSE {SinkFd(l)}

\* The event is encoded and the sink entered: its descriptor is read.
LogEncode(t) ==
    /\ pc[t] = "sink"
    /\ \E n \in SinkFds(arg[t]) : target' = [target EXCEPT ![t] = n]
    /\ pc' = [pc EXCEPT ![t] = "write"]
    /\ UNCHANGED <<resources, arg, event, logs, outcome>>

\* The system call takes the payload; then the copy is disposed of.
LogWritten(t) ==
    /\ pc[t] = "write"
    /\ target[t] \in Fds /\ fds[target[t]] # Closed
    /\ written' = Append(written, [event |-> event[t], by |-> arg[t],
                                   to |-> fds[target[t]], life |-> life[arg[t]]])
    /\ Returns(t, "OK")
    /\ heap' = heap \ {<<t, "text_arena">>}
    /\ UNCHANGED <<life, kind, file_fd, syslog_fd, fds, arg, event, target, logs>>

Failures == {"ENCODE_ERROR", "SINK_ERROR", "INVALID_ARGUMENT", "INVALID_STATE",
             "INTERNAL_ERROR"}

\* The payload does not fit, or the sink refuses it.
LogFails(t) ==
    /\ pc[t] \in {"sink", "write"}
    /\ \E status \in Failures : Returns(t, status)
    /\ heap' = heap \ {<<t, "text_arena">>}
    /\ UNCHANGED <<life, kind, file_fd, syslog_fd, fds, arg, event, target, logs,
                   written>>

----------------------------------------------------------------------------
(* ij_logger_flush: only a file sink has anything to flush *)

Flush(t, l) ==
    /\ pc[t] = "idle"
    /\ life[l] \in {"live", "marked", "closed"}
    /\ \E status \in IF life[l] # "live" THEN {"INVALID_STATE"}
                     ELSE IF kind[l] = "FILE"
                     THEN {"OK", "SINK_ERROR", "INVALID_ARGUMENT"}
                     ELSE {"OK"} :
         ret' = [ret EXCEPT ![t] = status]
    /\ UNCHANGED <<resources, callers, written>>

----------------------------------------------------------------------------
(* ij_logger_shutdown, statement by statement *)

\* active = false.
ShutdownMark(l) ==
    /\ life[l] = "live"
    /\ life' = [life EXCEPT ![l] = "marked"]
    /\ UNCHANGED <<kind, file_fd, syslog_fd, heap, fds, callers, outcome>>

Close(table, n) == IF n \in Fds THEN [table EXCEPT ![n] = Closed] ELSE table

\* ij_file_sink_close closes its stream if it has one; ij_syslog_sink_close
\* closes syslog_sink.fd whenever it is not negative.
ShutdownClose(l) ==
    /\ life[l] = "marked"
    /\ life' = [life EXCEPT ![l] = "closed"]
    /\ fds' = Close(Close(fds, file_fd[l]), syslog_fd[l])
    /\ file_fd' = [file_fd EXCEPT ![l] = -1]
    /\ syslog_fd' = [syslog_fd EXCEPT ![l] = -1]
    /\ UNCHANGED <<kind, heap, callers, outcome>>

MutReleasedNotStrings(l) == {<<l, "logger">>, <<l, "ring">>}
Released(l) == Allocate(l)

\* ij_ring_destroy, the two strings, the logger.
ShutdownFree(l) ==
    /\ life[l] = "closed"
    /\ life' = [life EXCEPT ![l] = "freed"]
    /\ heap' = heap \ Released(l)
    /\ UNCHANGED <<kind, file_fd, syslog_fd, fds, callers, outcome>>

Next ==
    \/ \E l \in Loggers :
         \/ \E k \in Kinds : InitOk(l, k)
         \/ InitNoMemory(l) \/ InitLateFailure(l)
         \/ ShutdownMark(l) \/ ShutdownClose(l) \/ ShutdownFree(l)
    \/ \E t \in Threads :
         \/ \E l \in Loggers : LogCall(t, l) \/ Flush(t, l)
         \/ LogInactive(t) \/ LogFiltered(t) \/ LogCopyFails(t) \/ LogCopy(t)
         \/ LogEncode(t) \/ LogWritten(t) \/ LogFails(t)

Spec == Init /\ [][Next]_vars

----------------------------------------------------------------------------
(* Properties *)

\* Once shutdown returns, nothing of the logger is left: no allocation and no
\* descriptor; and no call of any thread leaves a copied event behind.
ShutdownReleasesAll ==
    /\ \A l \in Loggers : life[l] = "freed" =>
          /\ \A a \in heap : a[1] # l
          /\ \A n \in Fds : fds[n] # l
    /\ \A t \in Threads : pc[t] \notin {"sink", "write"} =>
          <<t, "text_arena">> \notin heap

\* What the header says of ij_logger_shutdown: it releases logger-owned resources.
\* A descriptor that is closed belonged to the logger being shut down.
OnlyOwnDescriptors ==
    [][\A n \in Fds : fds[n] # Closed /\ fds'[n] = Closed =>
          fds[n] \in Loggers /\ life[fds[n]] = "marked"]_vars

\* Every logger that was shut down is a syslog logger.
SyslogShutdownsOnly ==
    \A l \in Loggers : life[l] \in {"closed", "freed"} => kind[l] = "SYSLOG"

\* As long as only syslog loggers are shut down, the one being shut down closes
\* its own descriptor and no other, whatever numbers the kernel reuses.
SyslogClosesOwn ==
    [][SyslogShutdownsOnly' =>
          \A n \in Fds : fds[n] # Closed /\ fds'[n] = Closed =>
              fds[n] \in Loggers /\ life[fds[n]] = "marked"]_vars

\* As long as only syslog loggers are shut down, what a live logger writes goes to
\* the descriptor it opened (the application's standard output for the
\* console), never to one that belongs to somebody else.
WritesReachOwnSink ==
    SyslogShutdownsOnly =>
        \A i \in 1 .. Len(written) : LET w == written[i] IN
            w.life = "live" => w.to = IF kind[w.by] = "CONSOLE" THEN App ELSE w.by
====
