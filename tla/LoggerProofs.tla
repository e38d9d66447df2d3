---- MODULE LoggerProofs ----
(***************************************************************************)
(* Proofs about ij_logger.c: for any number of loggers, threads, calls and *)
(* descriptors, shutdown leaves nothing of its logger, and, while only     *)
(* syslog loggers are shut down, descriptors are closed by their owner and *)
(* every live logger writes to its own.                                    *)
(*                                                                         *)
(* The invariant says who owns each allocation and each descriptor, and    *)
(* that a thread about to write to a live logger has that logger's         *)
(* descriptor, which no other logger's shutdown has closed and no other    *)
(* logger's init was given.                                                *)
(***************************************************************************)
EXTENDS Logger, WellFoundedInduction, TLAPS

Lives == {"none", "live", "marked", "closed", "freed", "failed"}
Places == {"idle", "check", "sink", "write"}

ResourceTypes ==
    /\ life \in [Loggers -> Lives]
    /\ kind \in [Loggers -> {"CONSOLE", "FILE", "SYSLOG"}]
    /\ file_fd \in [Loggers -> Fds \cup {-1}]
    /\ syslog_fd \in [Loggers -> Fds \cup {-1}]
    /\ fds \in [Fds -> Loggers \cup {App, Closed}]

CallerTypes ==
    /\ pc \in [Threads -> Places]
    /\ arg \in [Threads -> Loggers \cup {NoLogger}]
    /\ target \in [Threads -> Fds \cup {-1}]
    /\ event \in [Threads -> Nat] /\ logs \in Nat
    /\ \A t \in Threads : pc[t] # "idle" => arg[t] \in Loggers /\ life[arg[t]] # "none"

\* Whose each allocation is: a logger that has been set up and not freed, one
\* that failed to be, or a thread between copy and disposal.
Holding == {"live", "marked", "closed", "failed"}
OfLogger(a) == \E l \in Loggers : life[l] \in Holding /\ a \in Allocate(l)
OfThread(a) == \E t \in Threads : pc[t] \in {"sink", "write"} /\ a = <<t, "text_arena">>
HeapOwned == \A a \in heap : OfLogger(a) \/ OfThread(a)

\* A descriptor that belongs to a logger is the one the logger has, and the
\* logger has not been closed.
FdsOwned ==
    \A n \in Fds, l \in Loggers : fds[n] = l =>
        life[l] \in {"live", "marked"} /\ (n = file_fd[l] \/ n = syslog_fd[l])

\* While only syslog loggers are shut down: standard output is the
\* application's, and what a logger has is its own.
AppKept == fds[1] = App
OwnKept ==
    \A l \in Loggers : life[l] \in {"live", "marked"} =>
        /\ kind[l] = "FILE" => file_fd[l] \in Fds /\ fds[file_fd[l]] = l
        /\ kind[l] = "SYSLOG" => /\ syslog_fd[l] \in Fds /\ fds[syslog_fd[l]] = l
                                 /\ file_fd[l] = -1

\* A thread about to write to a live logger has the logger's descriptor.
Targeted ==
    \A t \in Threads : pc[t] = "write" /\ life[arg[t]] = "live" =>
        target[t] = SinkFd(arg[t])

\* What was written was written by a logger that had been set up.
Records == [event : Nat, by : Loggers, to : Loggers \cup {App}, life : Lives]
WrittenBy ==
    /\ written \in Seq(Records)
    /\ \A i \in 1 .. Len(written) : life[written[i].by] # "none"

Kept == SyslogShutdownsOnly => AppKept /\ OwnKept

LoggerInv == /\ ResourceTypes /\ CallerTypes /\ HeapOwned /\ FdsOwned /\ Kept /\ Targeted
             /\ WrittenBy /\ WritesReachOwnSink

----------------------------------------------------------------------------
(* Lemmas *)

(* Every set of numbers that is not empty has a least one. *)
LEMMA LeastExists ==
    ASSUME NEW S, S \subseteq Nat, S # {}
    PROVE  \E n \in S : \A m \in S : n <= m
<1> DEFINE R == {p \in Nat \X Nat : p[1] < p[2]}
<1>1. IsWellFoundedOn(R, Nat)
  BY NatLessThanWellFounded DEF OpToRel
<1>2. \A x, y \in Nat : x < y => <<x, y>> \in R
  OBVIOUS
<1> HIDE DEF R
<1>3. PICK n \in S : \A m \in S : ~ (<<m, n>> \in R)
  BY <1>1, WFMin
<1>4. \A m \in S : ~(m < n)
  BY <1>2, <1>3
<1> QED BY <1>4

(* The kernel hands out a number nobody has. *)
LEMMA LowestIsFree ==
    ASSUME FreeFds # {}
    PROVE  LowestFree \in Fds /\ fds[LowestFree] = Closed
<1>1. FreeFds \subseteq Nat
  BY DEF FreeFds, Fds
<1>2. \E n \in FreeFds : \A m \in FreeFds : n <= m
  BY <1>1, LeastExists
<1>3. LowestFree \in FreeFds
  BY <1>2 DEF LowestFree
<1> QED BY <1>3 DEF FreeFds

(* What a step of a thread leaves alone. *)
LEMMA ThreadStep ==
    ASSUME NEW t \in Threads,
           \/ \E l \in Loggers : LogCall(t, l) \/ Flush(t, l)
           \/ LogInactive(t) \/ LogFiltered(t) \/ LogCopyFails(t) \/ LogCopy(t)
           \/ LogEncode(t) \/ LogWritten(t) \/ LogFails(t)
    PROVE  UNCHANGED <<life, kind, file_fd, syslog_fd, fds>>
BY DEF LogCall, Flush, LogInactive, LogFiltered, LogCopyFails, LogCopy, LogEncode, LogWritten,
       LogFails, resources

(* What a step of a logger leaves alone. *)
LEMMA LoggerStep ==
    ASSUME NEW l \in Loggers,
           \/ \E k \in Kinds : InitOk(l, k)
           \/ InitNoMemory(l) \/ InitLateFailure(l)
           \/ ShutdownMark(l) \/ ShutdownClose(l) \/ ShutdownFree(l)
    PROVE  UNCHANGED <<pc, arg, event, target, logs, ret, written>>
BY DEF InitOk, InitNoMemory, InitLateFailure, ShutdownMark, ShutdownClose, ShutdownFree,
       callers, outcome

(* The life of a logger goes one way, and its kind is set once. *)
LEMMA LifeStep ==
    ASSUME ResourceTypes, [Next]_vars, NEW m \in Loggers
    PROVE  /\ life'[m] = "none" => life[m] = "none"
           /\ life'[m] = "live" /\ life[m] # "none" => life[m] = "live"
           /\ life[m] # "none" => kind'[m] = kind[m]
           /\ life[m] \in {"closed", "freed"} => life'[m] \in {"closed", "freed"}
<1>0. life \in [Loggers -> Lives] /\ kind \in [Loggers -> {"CONSOLE", "FILE", "SYSLOG"}]
  BY DEF ResourceTypes
<1>1. CASE UNCHANGED <<life, kind>>
  BY <1>1
<1>2. ASSUME NEW l \in Loggers, NEW k \in Kinds, InitOk(l, k)
      PROVE  /\ life[l] = "none" /\ life' = [life EXCEPT ![l] = "live"]
             /\ kind' = [kind EXCEPT ![l] = k]
  BY <1>2 DEF InitOk
<1>3. ASSUME NEW l \in Loggers, InitNoMemory(l) \/ InitLateFailure(l)
      PROVE  life[l] = "none" /\ life' = [life EXCEPT ![l] = "failed"] /\ kind' = kind
  BY <1>3 DEF InitNoMemory, InitLateFailure
<1>4. ASSUME NEW l \in Loggers, ShutdownMark(l)
      PROVE  life[l] = "live" /\ life' = [life EXCEPT ![l] = "marked"] /\ kind' = kind
  BY <1>4 DEF ShutdownMark
<1>5. ASSUME NEW l \in Loggers, ShutdownClose(l)
      PROVE  life[l] = "marked" /\ life' = [life EXCEPT ![l] = "closed"] /\ kind' = kind
  BY <1>5 DEF ShutdownClose
<1>6. ASSUME NEW l \in Loggers, ShutdownFree(l)
      PROVE  life[l] = "closed" /\ life' = [life EXCEPT ![l] = "freed"] /\ kind' = kind
  BY <1>6 DEF ShutdownFree
<1>7. ASSUME NEW l \in Loggers, NEW k \in Kinds, InitOk(l, k)
      PROVE  m # l => life'[m] = life[m] /\ kind'[m] = kind[m]
  BY <1>0, <1>2, <1>7
<1>8. CASE UNCHANGED vars
  BY <1>8 DEF vars
<1> QED BY <1>0, <1>1, <1>2, <1>3, <1>4, <1>5, <1>6, <1>7, <1>8, ThreadStep DEF Next

(* Once another logger was shut down, that stays so. *)
LEMMA OnlyStep ==
    ASSUME ResourceTypes, [Next]_vars, SyslogShutdownsOnly'
    PROVE  SyslogShutdownsOnly
BY LifeStep DEF SyslogShutdownsOnly

(* Standard output is a descriptor, and so is what a sink has. *)
LEMMA SinkIsFd ==
    ASSUME ResourceTypes, NEW l \in Loggers
    PROVE  1 \in Fds /\ SinkFds(l) \subseteq Fds \cup {-1}
<1>1. 1 \in Fds
  BY LoggerConstants DEF Fds
<1>2. kind[l] \in {"CONSOLE", "FILE", "SYSLOG"} /\ file_fd[l] \in Fds \cup {-1}
      /\ syslog_fd[l] \in Fds \cup {-1}
  BY DEF ResourceTypes
<1>3. SinkFd(l) \in Fds \cup {-1}
  BY <1>1, <1>2 DEF SinkFd
<1> QED BY <1>1, <1>3 DEF SinkFds

----------------------------------------------------------------------------
(* The invariant, one conjunct at a time *)

\* Every step keeps the tables of the loggers of the right type.
LEMMA ResourceTypesStep == LoggerInv /\ [Next]_vars => ResourceTypes'
<1> SUFFICES ASSUME LoggerInv, [Next]_vars PROVE ResourceTypes'
  OBVIOUS
<1>t. ResourceTypes
  BY DEF LoggerInv
<1>1. CASE UNCHANGED <<life, kind, file_fd, syslog_fd, fds>>
  BY <1>t, <1>1 DEF ResourceTypes
<1>2. ASSUME NEW l \in Loggers, NEW k \in Kinds, InitOk(l, k) PROVE ResourceTypes'
  <2>0. k \in {"CONSOLE", "FILE", "SYSLOG"} /\ 0 \in Fds
    BY LoggerConstants DEF Fds
  <2>1. k # "CONSOLE" => LowestFree \in Fds
    BY <1>2, <2>0, LowestIsFree DEF InitOk
  <2>2. life' \in [Loggers -> Lives] /\ kind' \in [Loggers -> {"CONSOLE", "FILE", "SYSLOG"}]
    BY <1>t, <1>2, <2>0 DEF InitOk, ResourceTypes, Lives
  <2>3. fds' \in [Fds -> Loggers \cup {App, Closed}]
    BY <1>t, <1>2, <2>1 DEF InitOk, ResourceTypes
  <2>4. file_fd' \in [Loggers -> Fds \cup {-1}]
    BY <1>t, <1>2, <2>0, <2>1 DEF InitOk, NoStream, ResourceTypes
  <2>5. syslog_fd' \in [Loggers -> Fds \cup {-1}]
    BY <1>t, <1>2, <2>0, <2>1 DEF InitOk, ResourceTypes
  <2> QED BY <2>2, <2>3, <2>4, <2>5 DEF ResourceTypes
<1>3. ASSUME NEW l \in Loggers,
             InitNoMemory(l) \/ InitLateFailure(l) \/ ShutdownMark(l) \/ ShutdownFree(l)
      PROVE  ResourceTypes'
  BY <1>t, <1>3 DEF InitNoMemory, InitLateFailure, ShutdownMark, ShutdownFree, ResourceTypes,
                    Lives
<1>4. ASSUME NEW l \in Loggers, ShutdownClose(l) PROVE ResourceTypes'
  <2>1. fds' \in [Fds -> Loggers \cup {App, Closed}]
    <3>1. \A table \in [Fds -> Loggers \cup {App, Closed}] : \A n :
             Close(table, n) \in [Fds -> Loggers \cup {App, Closed}]
      BY DEF Close
    <3> QED BY <1>t, <1>4, <3>1 DEF ShutdownClose, ResourceTypes
  <2> QED BY <1>t, <1>4, <2>1 DEF ShutdownClose, ResourceTypes, Lives
<1>5. CASE UNCHANGED vars
  BY <1>1, <1>5 DEF vars
<1> QED BY <1>1, <1>2, <1>3, <1>4, <1>5, ThreadStep DEF Next

\* Every step keeps the threads with a logger that was set up.
LEMMA CallerTypesStep == LoggerInv /\ [Next]_vars => CallerTypes'
<1> SUFFICES ASSUME LoggerInv, [Next]_vars PROVE CallerTypes'
  OBVIOUS
<1>t. ResourceTypes /\ CallerTypes
  BY DEF LoggerInv
<1> DEFINE Engaged == \A t \in Threads : pc[t] # "idle" =>
                         arg[t] \in Loggers /\ life[arg[t]] # "none"
<1>e. Engaged
  BY <1>t DEF CallerTypes
<1>m. \A l \in Loggers : life'[l] = "none" => life[l] = "none"
  BY <1>t, LifeStep
<1>1. CASE UNCHANGED <<pc, arg, event, target, logs>>
  <2>1. Engaged'
    BY <1>e, <1>m, <1>1
  <2> QED BY <1>t, <1>1, <2>1 DEF CallerTypes
<1>2. ASSUME NEW t \in Threads, NEW l \in Loggers, LogCall(t, l) PROVE CallerTypes'
  <2>1. /\ pc' = [pc EXCEPT ![t] = "check"] /\ arg' = [arg EXCEPT ![t] = l]
        /\ event' = [event EXCEPT ![t] = logs + 1] /\ logs' = logs + 1
        /\ UNCHANGED <<target, life>> /\ life[l] = "live"
    BY <1>2 DEF LogCall, resources
  <2>2. Engaged'
    BY <1>t, <1>e, <2>1 DEF CallerTypes
  <2> QED BY <1>t, <2>1, <2>2 DEF CallerTypes, Places
<1>3. ASSUME NEW t \in Threads, NEW place \in Places,
             pc' = [pc EXCEPT ![t] = place], pc[t] # "idle",
             UNCHANGED <<arg, event, target, logs>>
      PROVE  CallerTypes'
  <2>1. Engaged'
    BY <1>t, <1>e, <1>m, <1>3 DEF CallerTypes
  <2> QED BY <1>t, <1>3, <2>1 DEF CallerTypes
<1>4. ASSUME NEW t \in Threads,
             \/ LogInactive(t) \/ LogFiltered(t) \/ LogCopyFails(t) \/ LogCopy(t)
             \/ LogWritten(t) \/ LogFails(t)
      PROVE  CallerTypes'
  <2>1. /\ \E place \in Places : pc' = [pc EXCEPT ![t] = place]
        /\ pc[t] # "idle" /\ UNCHANGED <<arg, event, target, logs>>
    BY <1>4 DEF LogInactive, LogFiltered, LogCopyFails, LogCopy, LogWritten, LogFails, Returns,
                Places
  <2> QED BY <1>3, <2>1
<1>5. ASSUME NEW t \in Threads, LogEncode(t) PROVE CallerTypes'
  <2>1. arg[t] \in Loggers
    BY <1>e, <1>5 DEF LogEncode
  <2>2. PICK n \in SinkFds(arg[t]) : target' = [target EXCEPT ![t] = n]
    BY <1>5 DEF LogEncode
  <2>3. n \in Fds \cup {-1}
    BY <1>t, <2>1, <2>2, SinkIsFd
  <2>4. target' \in [Threads -> Fds \cup {-1}]
    BY <1>t, <2>2, <2>3 DEF CallerTypes
  <2>5. pc' = [pc EXCEPT ![t] = "write"] /\ UNCHANGED <<arg, event, logs, life>> /\ pc[t] # "idle"
    BY <1>5 DEF LogEncode, resources
  <2>6. Engaged'
    BY <1>t, <1>e, <2>5 DEF CallerTypes
  <2> QED BY <1>t, <2>4, <2>5, <2>6 DEF CallerTypes, Places
<1>6. ASSUME NEW t \in Threads, NEW l \in Loggers, Flush(t, l) PROVE CallerTypes'
  BY <1>1, <1>6 DEF Flush, callers
<1>7. CASE UNCHANGED vars
  BY <1>1, <1>7 DEF vars
<1> QED BY <1>1, <1>2, <1>4, <1>5, <1>6, <1>7, LoggerStep DEF Next

(* The parts of a logger and the events of the threads are different. *)
LEMMA Parts ==
    ASSUME NEW l \in Loggers, NEW a \in Allocate(l)
    PROVE  /\ \A m \in Loggers : a \in Allocate(m) => m = l
           /\ \A t \in Threads : a # <<t, "text_arena">>
           /\ a[1] = l
BY LoggerConstants DEF Allocate, Strings

\* Every allocation keeps an owner.
LEMMA HeapOwnedStep == LoggerInv /\ [Next]_vars => HeapOwned'
<1> SUFFICES ASSUME LoggerInv, [Next]_vars, NEW a \in heap' PROVE OfLogger(a)' \/ OfThread(a)'
  BY DEF HeapOwned
<1>t. life \in [Loggers -> Lives] /\ pc \in [Threads -> Places] /\ HeapOwned
  BY DEF LoggerInv, ResourceTypes, CallerTypes
<1>1. CASE UNCHANGED <<life, heap, pc>>
  BY <1>t, <1>1 DEF HeapOwned, OfLogger, OfThread
<1>2. ASSUME NEW l \in Loggers, NEW to \in Holding, NEW new \in SUBSET Allocate(l),
             life' = [life EXCEPT ![l] = to], heap' \subseteq heap \cup new, UNCHANGED pc
      PROVE  OfLogger(a)' \/ OfThread(a)'
  <2>1. \A m \in Loggers : life[m] \in Holding => life'[m] \in Holding
    BY <1>t, <1>2
  <2>2. life'[l] \in Holding
    BY <1>t, <1>2
  <2>3. CASE a \in new
    BY <2>2, <2>3 DEF OfLogger
  <2>4. CASE a \in heap /\ OfLogger(a)
    BY <2>1, <2>4 DEF OfLogger
  <2>5. CASE a \in heap /\ OfThread(a)
    BY <1>2, <2>5 DEF OfThread
  <2> QED BY <1>t, <1>2, <2>3, <2>4, <2>5 DEF HeapOwned
<1>3. ASSUME NEW l \in Loggers, NEW k \in Kinds, InitOk(l, k) PROVE OfLogger(a)' \/ OfThread(a)'
  BY <1>2, <1>3 DEF InitOk, callers, Holding
<1>4. ASSUME NEW l \in Loggers,
             \/ InitNoMemory(l) \/ InitLateFailure(l) \/ ShutdownMark(l) \/ ShutdownClose(l)
      PROVE  OfLogger(a)' \/ OfThread(a)'
  <2>1. {<<l, s>> : s \in Strings} \subseteq Allocate(l) /\ {} \subseteq Allocate(l)
    BY DEF Allocate
  <2>2. /\ \E to \in Holding : life' = [life EXCEPT ![l] = to]
        /\ heap' \subseteq heap \cup {<<l, s>> : s \in Strings} /\ UNCHANGED pc
    BY <1>4 DEF InitNoMemory, InitLateFailure, ShutdownMark, ShutdownClose, callers, Holding
  <2> QED BY <1>2, <2>1, <2>2
<1>5. ASSUME NEW l \in Loggers, ShutdownFree(l) PROVE OfLogger(a)' \/ OfThread(a)'
  <2>1. /\ life' = [life EXCEPT ![l] = "freed"] /\ a \in heap /\ a \notin Allocate(l)
        /\ UNCHANGED pc
    BY <1>5 DEF ShutdownFree, Released, callers
  <2>2. CASE OfLogger(a)
    <3>1. PICK m \in Loggers : life[m] \in Holding /\ a \in Allocate(m)
      BY <2>2 DEF OfLogger
    <3>2. m # l /\ life'[m] = life[m]
      BY <1>t, <2>1, <3>1
    <3> QED BY <3>1, <3>2 DEF OfLogger
  <2>3. CASE OfThread(a)
    BY <2>1, <2>3 DEF OfThread
  <2> QED BY <1>t, <2>1, <2>2, <2>3 DEF HeapOwned
<1>6. ASSUME NEW t \in Threads,
             \/ \E l \in Loggers : LogCall(t, l)
             \/ LogInactive(t) \/ LogFiltered(t) \/ LogCopyFails(t) \/ LogCopy(t)
             \/ LogEncode(t) \/ LogWritten(t) \/ LogFails(t)
      PROVE  OfLogger(a)' \/ OfThread(a)'
  <2>1. /\ \A u \in Threads : u # t => pc'[u] = pc[u]
        /\ life' = life
    BY <1>t, <1>6, ThreadStep
      DEF LogCall, LogInactive, LogFiltered, LogCopyFails, LogCopy, LogEncode, LogWritten,
          LogFails, Returns
  <2>2. ASSUME a = <<t, "text_arena">> PROVE pc'[t] \in {"sink", "write"}
    <3>1. CASE LogCopy(t) \/ LogEncode(t)
      BY <1>t, <3>1 DEF LogCopy, LogEncode
    <3>2. CASE LogWritten(t) \/ LogFails(t)
      BY <2>2, <3>2 DEF LogWritten, LogFails
    <3>3. CASE \/ \E l \in Loggers : LogCall(t, l)
               \/ LogInactive(t) \/ LogFiltered(t) \/ LogCopyFails(t)
      <4>1. a \in heap /\ pc[t] \notin {"sink", "write"}
        BY <3>3 DEF LogCall, LogInactive, LogFiltered, LogCopyFails, resources
      <4>2. ~OfThread(a)
        BY <2>2, <4>1 DEF OfThread
      <4>3. ~OfLogger(a)
        BY <2>2, Parts DEF OfLogger
      <4> QED BY <1>t, <4>1, <4>2, <4>3 DEF HeapOwned
    <3> QED BY <1>6, <3>1, <3>2, <3>3
  <2>3. CASE a = <<t, "text_arena">>
    BY <2>2, <2>3 DEF OfThread
  <2>4. CASE a # <<t, "text_arena">>
    <3>1. a \in heap
      BY <1>6, <2>4 DEF LogCall, LogInactive, LogFiltered, LogCopyFails, LogCopy, LogEncode,
                        LogWritten, LogFails, resources
    <3> QED BY <1>t, <2>1, <2>4, <3>1 DEF HeapOwned, OfLogger, OfThread
  <2> QED BY <2>3, <2>4
<1>7. ASSUME NEW t \in Threads, NEW l \in Loggers, Flush(t, l)
      PROVE  OfLogger(a)' \/ OfThread(a)'
  BY <1>1, <1>7 DEF Flush, resources, callers
<1>8. CASE UNCHANGED vars
  BY <1>1, <1>8 DEF vars
<1> QED BY <1>3, <1>4, <1>5, <1>6, <1>7, <1>8 DEF Next

\* Every step keeps the descriptors of a logger with it.
LEMMA FdsOwnedStep == LoggerInv /\ [Next]_vars => FdsOwned'
<1> SUFFICES ASSUME LoggerInv, [Next]_vars PROVE FdsOwned'
  OBVIOUS
<1>t. ResourceTypes /\ FdsOwned /\ Closed \notin Loggers
  BY LoggerConstants DEF LoggerInv
<1>f. /\ life \in [Loggers -> Lives] /\ fds \in [Fds -> Loggers \cup {App, Closed}]
      /\ file_fd \in [Loggers -> Fds \cup {-1}] /\ syslog_fd \in [Loggers -> Fds \cup {-1}]
  BY <1>t DEF ResourceTypes
<1>1. CASE UNCHANGED <<life, file_fd, syslog_fd, fds>>
  BY <1>t, <1>1 DEF FdsOwned
<1>2. ASSUME NEW l \in Loggers, NEW k \in Kinds, InitOk(l, k) PROVE FdsOwned'
  <2>1. /\ life[l] = "none" /\ life' = [life EXCEPT ![l] = "live"]
        /\ file_fd' = [file_fd EXCEPT ![l] = IF k = "FILE" THEN LowestFree ELSE NoStream]
        /\ syslog_fd' = [syslog_fd EXCEPT ![l] = IF k = "SYSLOG" THEN LowestFree ELSE 0]
        /\ fds' = IF k = "CONSOLE" THEN fds ELSE [fds EXCEPT ![LowestFree] = l]
        /\ k \in {"CONSOLE", "FILE", "SYSLOG"}
    BY <1>2, LoggerConstants DEF InitOk
  <2>2. \A n \in Fds : fds[n] # l
    BY <1>t, <2>1 DEF FdsOwned
  <2>3. \A n \in Fds : fds'[n] = fds[n] \/ (k # "CONSOLE" /\ n = LowestFree /\ fds'[n] = l)
    BY <1>f, <2>1
  <2>4. k # "CONSOLE" => LowestFree \in {file_fd'[l], syslog_fd'[l]}
    BY <1>f, <2>1
  <2>5. ASSUME NEW n \in Fds, NEW m \in Loggers, fds'[n] = m
        PROVE  life'[m] \in {"live", "marked"} /\ (n = file_fd'[m] \/ n = syslog_fd'[m])
    <3>1. CASE m = l
      <4>1. k # "CONSOLE" /\ n = LowestFree
        BY <2>2, <2>3, <2>5, <3>1
      <4> QED BY <1>f, <2>1, <2>4, <3>1, <4>1
    <3>2. CASE m # l
      <4>1. fds[n] = m
        BY <2>3, <2>5, <3>2
      <4> QED BY <1>t, <1>f, <2>1, <3>2, <4>1 DEF FdsOwned
    <3> QED BY <3>1, <3>2
  <2> QED BY <2>5 DEF FdsOwned
<1>3. ASSUME NEW l \in Loggers,
             InitNoMemory(l) \/ InitLateFailure(l) \/ ShutdownMark(l) \/ ShutdownFree(l)
      PROVE  FdsOwned'
  <2>1. UNCHANGED <<fds, file_fd, syslog_fd>>
    BY <1>3 DEF InitNoMemory, InitLateFailure, ShutdownMark, ShutdownFree
  <2>2. \A m \in Loggers : life[m] \in {"live", "marked"} => life'[m] \in {"live", "marked"}
    BY <1>f, <1>3 DEF InitNoMemory, InitLateFailure, ShutdownMark, ShutdownFree
  <2> QED BY <1>t, <2>1, <2>2 DEF FdsOwned
<1>4. ASSUME NEW l \in Loggers, ShutdownClose(l) PROVE FdsOwned'
  <2>1. /\ fds' = Close(Close(fds, file_fd[l]), syslog_fd[l])
        /\ life' = [life EXCEPT ![l] = "closed"]
        /\ \A m \in Loggers : m # l => file_fd'[m] = file_fd[m] /\ syslog_fd'[m] = syslog_fd[m]
    BY <1>f, <1>4 DEF ShutdownClose
  <2>2. \A n \in Fds : fds'[n] = IF n = file_fd[l] \/ n = syslog_fd[l] THEN Closed ELSE fds[n]
    BY <1>f, <2>1 DEF Close
  <2>3. \A n \in Fds : fds'[n] # l
    BY <1>t, <2>2 DEF FdsOwned
  <2>4. ASSUME NEW n \in Fds, NEW m \in Loggers, fds'[n] = m
        PROVE  life'[m] \in {"live", "marked"} /\ (n = file_fd'[m] \/ n = syslog_fd'[m])
    <3>1. m # l /\ fds[n] = m
      BY <1>t, <2>2, <2>3, <2>4
    <3> QED BY <1>t, <1>f, <2>1, <3>1 DEF FdsOwned
  <2> QED BY <2>4 DEF FdsOwned
<1>5. CASE UNCHANGED vars
  BY <1>1, <1>5 DEF vars
<1> QED BY <1>1, <1>2, <1>3, <1>4, <1>5, ThreadStep DEF Next

(* While only syslog loggers are shut down, closing takes one's own. *)
LEMMA CloseOwn ==
    ASSUME LoggerInv, SyslogShutdownsOnly, NEW l \in Loggers, ShutdownClose(l),
           SyslogShutdownsOnly'
    PROVE  /\ life[l] = "marked" /\ syslog_fd[l] \in Fds /\ fds[syslog_fd[l]] = l
           /\ \A n \in Fds : n # syslog_fd[l] => fds'[n] = fds[n]
<1>1. ResourceTypes /\ OwnKept
  BY DEF LoggerInv, Kept
<1>f. /\ life \in [Loggers -> Lives] /\ fds \in [Fds -> Loggers \cup {App, Closed}]
  BY <1>1 DEF ResourceTypes
<1>2. life[l] = "marked" /\ life'[l] = "closed" /\ kind' = kind
  BY <1>f DEF ShutdownClose
<1>3. kind[l] = "SYSLOG"
  BY <1>2 DEF SyslogShutdownsOnly
<1>4. syslog_fd[l] \in Fds /\ fds[syslog_fd[l]] = l /\ file_fd[l] = -1
  BY <1>1, <1>2, <1>3 DEF OwnKept
<1>5. -1 \notin Fds
  BY DEF Fds
<1>6. fds' = [fds EXCEPT ![syslog_fd[l]] = Closed]
  BY <1>4, <1>5 DEF ShutdownClose, Close
<1> QED BY <1>f, <1>2, <1>4, <1>6

\* While only syslog loggers are shut down nobody loses a descriptor.
LEMMA KeptStep == LoggerInv /\ [Next]_vars => Kept'
<1> SUFFICES ASSUME LoggerInv, [Next]_vars, SyslogShutdownsOnly' PROVE AppKept' /\ OwnKept'
  BY DEF Kept
<1>t. ResourceTypes /\ App # Closed /\ App \notin Loggers /\ Closed \notin Loggers /\ 1 \in Fds
  BY LoggerConstants DEF LoggerInv, Fds
<1>f. /\ life \in [Loggers -> Lives] /\ fds \in [Fds -> Loggers \cup {App, Closed}]
      /\ kind \in [Loggers -> {"CONSOLE", "FILE", "SYSLOG"}]
      /\ file_fd \in [Loggers -> Fds \cup {-1}] /\ syslog_fd \in [Loggers -> Fds \cup {-1}]
  BY <1>t DEF ResourceTypes
<1>k. SyslogShutdownsOnly /\ AppKept /\ OwnKept
  BY <1>t, OnlyStep DEF LoggerInv, Kept
<1>1. CASE UNCHANGED <<life, kind, file_fd, syslog_fd, fds>>
  BY <1>k, <1>1 DEF AppKept, OwnKept
<1>2. ASSUME NEW l \in Loggers, NEW k \in Kinds, InitOk(l, k) PROVE AppKept' /\ OwnKept'
  <2>1. /\ life[l] = "none" /\ life' = [life EXCEPT ![l] = "live"]
        /\ kind' = [kind EXCEPT ![l] = k]
        /\ file_fd' = [file_fd EXCEPT ![l] = IF k = "FILE" THEN LowestFree ELSE -1]
        /\ syslog_fd' = [syslog_fd EXCEPT ![l] = IF k = "SYSLOG" THEN LowestFree ELSE 0]
        /\ fds' = IF k = "CONSOLE" THEN fds ELSE [fds EXCEPT ![LowestFree] = l]
        /\ k \in {"CONSOLE", "FILE", "SYSLOG"}
    BY <1>2, LoggerConstants DEF InitOk, NoStream
  <2>2. k # "CONSOLE" => LowestFree \in Fds /\ fds[LowestFree] = Closed
    BY <1>2, <2>1, LowestIsFree DEF InitOk
  <2>3. \A n \in Fds : fds[n] # Closed => fds'[n] = fds[n]
    BY <1>f, <2>1, <2>2
  <2>4. ASSUME NEW m \in Loggers, life'[m] \in {"live", "marked"}
        PROVE  /\ kind'[m] = "FILE" => file_fd'[m] \in Fds /\ fds'[file_fd'[m]] = m
               /\ kind'[m] = "SYSLOG" => /\ syslog_fd'[m] \in Fds /\ fds'[syslog_fd'[m]] = m
                                         /\ file_fd'[m] = -1
    <3>1. CASE m = l
      <4>1. kind'[m] = k /\ file_fd'[m] = (IF k = "FILE" THEN LowestFree ELSE -1)
            /\ syslog_fd'[m] = (IF k = "SYSLOG" THEN LowestFree ELSE 0)
        BY <1>f, <2>1, <3>1
      <4>2. k # "CONSOLE" => LowestFree \in Fds /\ fds'[LowestFree] = m
        BY <1>f, <2>1, <2>2, <3>1
      <4> QED BY <4>1, <4>2
    <3>2. CASE m # l
      <4>1. /\ life'[m] = life[m] /\ kind'[m] = kind[m]
            /\ file_fd'[m] = file_fd[m] /\ syslog_fd'[m] = syslog_fd[m]
        BY <1>f, <2>1, <3>2
      <4> QED BY <1>t, <1>k, <2>3, <2>4, <4>1 DEF OwnKept
    <3> QED BY <3>1, <3>2
  <2>5. AppKept'
    BY <1>t, <1>k, <2>3 DEF AppKept
  <2> QED BY <2>4, <2>5 DEF OwnKept
<1>3. ASSUME NEW l \in Loggers,
             InitNoMemory(l) \/ InitLateFailure(l) \/ ShutdownMark(l) \/ ShutdownFree(l)
      PROVE  AppKept' /\ OwnKept'
  <2>1. UNCHANGED <<fds, file_fd, syslog_fd, kind>>
    BY <1>3 DEF InitNoMemory, InitLateFailure, ShutdownMark, ShutdownFree
  <2>2. \A m \in Loggers : life'[m] \in {"live", "marked"} => life[m] \in {"live", "marked"}
    BY <1>f, <1>3 DEF InitNoMemory, InitLateFailure, ShutdownMark, ShutdownFree
  <2> QED BY <1>k, <2>1, <2>2 DEF AppKept, OwnKept
<1>4. ASSUME NEW l \in Loggers, ShutdownClose(l) PROVE AppKept' /\ OwnKept'
  <2>1. /\ fds[syslog_fd[l]] = l
        /\ \A n \in Fds : n # syslog_fd[l] => fds'[n] = fds[n]
    BY <1>k, <1>4, CloseOwn
  <2>2. /\ life'[l] = "closed" /\ kind' = kind
        /\ \A m \in Loggers : m # l => /\ file_fd'[m] = file_fd[m] /\ syslog_fd'[m] = syslog_fd[m]
                                       /\ life'[m] = life[m]
    BY <1>f, <1>4 DEF ShutdownClose
  <2>3. AppKept'
    BY <1>t, <1>k, <2>1 DEF AppKept
  <2>4. ASSUME NEW m \in Loggers, life'[m] \in {"live", "marked"}
        PROVE  /\ kind'[m] = "FILE" => file_fd'[m] \in Fds /\ fds'[file_fd'[m]] = m
               /\ kind'[m] = "SYSLOG" => /\ syslog_fd'[m] \in Fds /\ fds'[syslog_fd'[m]] = m
                                         /\ file_fd'[m] = -1
    <3>1. m # l
      BY <2>2, <2>4
    <3> QED BY <1>k, <2>1, <2>2, <2>4, <3>1 DEF OwnKept
  <2> QED BY <2>3, <2>4 DEF OwnKept
<1>5. CASE UNCHANGED vars
  BY <1>1, <1>5 DEF vars
<1> QED BY <1>1, <1>2, <1>3, <1>4, <1>5, ThreadStep DEF Next

(* A live logger keeps its sink. *)
LEMMA SinkStep ==
    ASSUME ResourceTypes, [Next]_vars, NEW m \in Loggers, life[m] # "none", life'[m] = "live"
    PROVE  life[m] = "live" /\ SinkFd(m)' = SinkFd(m)
<1>f. /\ life \in [Loggers -> Lives]
      /\ kind \in [Loggers -> {"CONSOLE", "FILE", "SYSLOG"}]
      /\ file_fd \in [Loggers -> Fds \cup {-1}] /\ syslog_fd \in [Loggers -> Fds \cup {-1}]
  BY DEF ResourceTypes
<1>1. life[m] = "live" /\ kind'[m] = kind[m]
  BY LifeStep
<1>2. file_fd'[m] = file_fd[m] /\ syslog_fd'[m] = syslog_fd[m]
  <2>1. CASE UNCHANGED <<file_fd, syslog_fd>>
    BY <2>1
  <2>2. ASSUME NEW l \in Loggers, NEW k \in Kinds, InitOk(l, k)
        PROVE  file_fd'[m] = file_fd[m] /\ syslog_fd'[m] = syslog_fd[m]
    <3>1. m # l
      BY <2>2 DEF InitOk
    <3> QED BY <1>f, <2>2, <3>1 DEF InitOk
  <2>3. ASSUME NEW l \in Loggers, ShutdownClose(l)
        PROVE  file_fd'[m] = file_fd[m] /\ syslog_fd'[m] = syslog_fd[m]
    <3>1. m # l
      BY <1>1, <2>3 DEF ShutdownClose
    <3> QED BY <1>f, <2>3, <3>1 DEF ShutdownClose
  <2>4. ASSUME NEW l \in Loggers,
               InitNoMemory(l) \/ InitLateFailure(l) \/ ShutdownMark(l) \/ ShutdownFree(l)
        PROVE  UNCHANGED <<file_fd, syslog_fd>>
    BY <2>4 DEF InitNoMemory, InitLateFailure, ShutdownMark, ShutdownFree
  <2>5. CASE UNCHANGED vars
    BY <2>1, <2>5 DEF vars
  <2> QED BY <2>1, <2>2, <2>3, <2>4, <2>5, ThreadStep DEF Next
<1> QED BY <1>1, <1>2 DEF SinkFd

\* Every thread about to write to a live logger keeps that logger's descriptor.
LEMMA TargetedStep == LoggerInv /\ [Next]_vars => Targeted'
<1> SUFFICES ASSUME LoggerInv, [Next]_vars, NEW u \in Threads,
                    pc'[u] = "write", life'[arg'[u]] = "live"
             PROVE  target'[u] = SinkFd(arg[u])'
  BY Zenon DEF Targeted
<1>t. ResourceTypes /\ CallerTypes /\ Targeted
  BY DEF LoggerInv
<1>f. /\ pc \in [Threads -> Places] /\ arg \in [Threads -> Loggers \cup {NoLogger}]
      /\ target \in [Threads -> Fds \cup {-1}]
      /\ \A t \in Threads : pc[t] # "idle" => arg[t] \in Loggers /\ life[arg[t]] # "none"
  BY <1>t DEF CallerTypes
<1>1. ASSUME pc[u] = "write", arg'[u] = arg[u], target'[u] = target[u]
      PROVE  target'[u] = SinkFd(arg[u])'
  <2>1. arg[u] \in Loggers /\ life[arg[u]] # "none"
    BY <1>f, <1>1
  <2>2. PICK m \in Loggers : /\ m = arg[u] /\ m = arg'[u] /\ life[m] = "live"
                             /\ SinkFd(m)' = SinkFd(m)
    BY <1>t, <1>1, <2>1, SinkStep
  <2>3. SinkFd(arg[u])' = SinkFd(arg[u])
    BY <1>1, <2>2 DEF SinkFd
  <2> QED BY <1>t, <1>1, <2>2, <2>3 DEF Targeted
<1>2. CASE UNCHANGED <<pc, arg, target>>
  BY <1>1, <1>2
<1>3. ASSUME NEW t \in Threads, LogEncode(t) PROVE target'[u] = SinkFd(arg[u])'
  <2>1. CASE t # u
    <3>1. pc[u] = "write" /\ arg'[u] = arg[u] /\ target'[u] = target[u]
      BY <1>f, <1>3, <2>1 DEF LogEncode
    <3> QED BY <1>1, <3>1
  <2>2. CASE t = u
    <3>1. PICK n \in SinkFds(arg[t]) : target' = [target EXCEPT ![t] = n]
      BY <1>3 DEF LogEncode
    <3>2. UNCHANGED <<life, kind, file_fd, syslog_fd, arg>>
      BY <1>3 DEF LogEncode, resources
    <3>3. n = SinkFd(arg[u])
      BY <2>2, <3>1, <3>2 DEF SinkFds
    <3> QED BY <1>f, <2>2, <3>1, <3>2, <3>3 DEF SinkFd
  <2> QED BY <2>1, <2>2
<1>4. ASSUME NEW t \in Threads,
             \/ \E l \in Loggers : LogCall(t, l)
             \/ LogInactive(t) \/ LogFiltered(t) \/ LogCopyFails(t) \/ LogCopy(t)
             \/ LogWritten(t) \/ LogFails(t)
      PROVE  target'[u] = SinkFd(arg[u])'
  <2>1. /\ \E place \in Places : place # "write" /\ pc' = [pc EXCEPT ![t] = place]
        /\ UNCHANGED target
    BY <1>4 DEF LogCall, LogInactive, LogFiltered, LogCopyFails, LogCopy, LogWritten, LogFails,
                Returns, Places
  <2>2. u # t /\ pc[u] = "write"
    BY <1>f, <2>1
  <2>3. arg'[u] = arg[u]
    BY <1>f, <1>4, <2>2 DEF LogCall, LogInactive, LogFiltered, LogCopyFails, LogCopy, LogWritten,
                            LogFails
  <2> QED BY <1>1, <2>1, <2>2, <2>3
<1>5. ASSUME NEW t \in Threads, NEW l \in Loggers, Flush(t, l)
      PROVE  target'[u] = SinkFd(arg[u])'
  BY <1>2, <1>5 DEF Flush, callers
<1>6. CASE UNCHANGED vars
  BY <1>2, <1>6 DEF vars
<1> QED BY <1>2, <1>3, <1>4, <1>5, <1>6, LoggerStep DEF Next

(* What a step adds to the history. *)
LEMMA WrittenStep ==
    ASSUME LoggerInv, [Next]_vars
    PROVE  \/ written' = written
           \/ \E t \in Threads :
                 /\ LogWritten(t)
                 /\ written' = Append(written, [event |-> event[t], by |-> arg[t],
                                   to |-> fds[target[t]], life |-> life[arg[t]]])
                 /\ [event |-> event[t], by |-> arg[t], to |-> fds[target[t]],
                     life |-> life[arg[t]]] \in Records
                 /\ UNCHANGED <<life, kind>>
<1>t. ResourceTypes /\ CallerTypes
  BY DEF LoggerInv
<1>1. ASSUME NEW t \in Threads, LogWritten(t)
      PROVE  /\ written' = Append(written, [event |-> event[t], by |-> arg[t],
                                   to |-> fds[target[t]], life |-> life[arg[t]]])
             /\ [event |-> event[t], by |-> arg[t], to |-> fds[target[t]],
                 life |-> life[arg[t]]] \in Records
             /\ UNCHANGED <<life, kind>>
  <2>1. event[t] \in Nat /\ arg[t] \in Loggers
    BY <1>t, <1>1 DEF CallerTypes, LogWritten
  <2>2. fds[target[t]] \in Loggers \cup {App} /\ life[arg[t]] \in Lives
    BY <1>t, <1>1, <2>1 DEF ResourceTypes, LogWritten
  <2> QED BY <1>1, <2>1, <2>2 DEF LogWritten, Records
<1>2. ASSUME NEW t \in Threads,
             \/ \E l \in Loggers : LogCall(t, l) \/ Flush(t, l)
             \/ LogInactive(t) \/ LogFiltered(t) \/ LogCopyFails(t) \/ LogCopy(t)
             \/ LogEncode(t) \/ LogFails(t)
      PROVE  written' = written
  BY <1>2 DEF LogCall, Flush, LogInactive, LogFiltered, LogCopyFails, LogCopy, LogEncode,
              LogFails, outcome
<1>3. CASE UNCHANGED vars
  BY <1>3 DEF vars
<1> QED BY <1>1, <1>2, <1>3, LoggerStep DEF Next

\* Every record of the history is by a logger that was set up.
LEMMA WrittenByStep == LoggerInv /\ [Next]_vars => WrittenBy'
<1> SUFFICES ASSUME LoggerInv, [Next]_vars PROVE WrittenBy'
  OBVIOUS
<1>t. ResourceTypes /\ CallerTypes /\ WrittenBy
  BY DEF LoggerInv
<1>s. written \in Seq(Records) /\ \A i \in 1 .. Len(written) : life[written[i].by] # "none"
  BY <1>t DEF WrittenBy
<1>m. \A l \in Loggers : life[l] # "none" => life'[l] # "none"
  BY <1>t, LifeStep
<1>b. \A i \in 1 .. Len(written) : written[i].by \in Loggers
  <2>1. \A w \in Records : w.by \in Loggers
    BY DEF Records
  <2> QED BY <1>s, <2>1
<1>1. CASE written' = written
  BY <1>s, <1>m, <1>b, <1>1 DEF WrittenBy
<1>2. ASSUME NEW t \in Threads, LogWritten(t), NEW w \in Records,
             written' = Append(written, w), w.by = arg[t]
      PROVE  WrittenBy'
  <2>1. life[w.by] # "none" /\ w.by \in Loggers
    BY <1>t, <1>2 DEF LogWritten, CallerTypes
  <2>2. /\ written' \in Seq(Records) /\ Len(written') = Len(written) + 1
        /\ \A i \in 1 .. Len(written) : written'[i] = written[i]
        /\ written'[Len(written) + 1] = w
    BY <1>s, <1>2
  <2>3. ASSUME NEW i \in 1 .. Len(written') PROVE life'[written'[i].by] # "none"
    <3>1. i \in 1 .. Len(written) \/ i = Len(written) + 1
      BY <1>s, <2>2
    <3> QED BY <1>s, <1>m, <1>b, <2>1, <2>2, <3>1
  <2> QED BY <2>2, <2>3 DEF WrittenBy
<1> QED BY <1>1, <1>2, WrittenStep

\* While only syslog loggers are shut down, a live logger writes to its own.
LEMMA WritesReachStep == LoggerInv /\ [Next]_vars => WritesReachOwnSink'
<1> DEFINE Own(w, k) == w.life = "live" => w.to = IF k[w.by] = "CONSOLE" THEN App ELSE w.by
<1> SUFFICES ASSUME LoggerInv, [Next]_vars, SyslogShutdownsOnly',
                    NEW i \in 1 .. Len(written')
             PROVE  Own(written'[i], kind')
  BY DEF WritesReachOwnSink
<1>t. ResourceTypes /\ CallerTypes /\ WrittenBy /\ Targeted
  BY DEF LoggerInv
<1>k. SyslogShutdownsOnly /\ AppKept /\ OwnKept
  BY <1>t, OnlyStep DEF LoggerInv, Kept
<1>o. \A j \in 1 .. Len(written) : Own(written[j], kind)
  BY <1>k DEF LoggerInv, WritesReachOwnSink
<1>s. written \in Seq(Records) /\ \A j \in 1 .. Len(written) : life[written[j].by] # "none"
  BY <1>t DEF WrittenBy
<1>m. \A j \in 1 .. Len(written) : kind'[written[j].by] = kind[written[j].by]
  <2>1. \A j \in 1 .. Len(written) : written[j].by \in Loggers
    <3>1. \A w \in Records : w.by \in Loggers
      BY DEF Records
    <3> QED BY <1>s, <3>1
  <2> QED BY <1>t, <1>s, <2>1, LifeStep
<1>1. CASE written' = written
  BY <1>o, <1>m, <1>1
<1>2. ASSUME NEW t \in Threads, LogWritten(t), NEW w \in Records,
             written' = Append(written, w), w.by = arg[t], w.to = fds[target[t]],
             w.life = life[arg[t]], kind' = kind
      PROVE  Own(written'[i], kind')
  <2>1. /\ Len(written') = Len(written) + 1
        /\ \A j \in 1 .. Len(written) : written'[j] = written[j]
        /\ written'[Len(written) + 1] = w
    BY <1>s, <1>2
  <2>2. Own(w, kind)
    <3>1. SUFFICES ASSUME life[arg[t]] = "live"
                   PROVE  fds[target[t]] = IF kind[arg[t]] = "CONSOLE" THEN App ELSE arg[t]
      BY <1>2
    <3>2. target[t] = SinkFd(arg[t])
      BY <1>t, <1>2, <3>1 DEF Targeted, LogWritten
    <3>3. arg[t] \in Loggers
      BY <1>2 DEF Records
    <3>4. kind[arg[t]] \in {"CONSOLE", "FILE", "SYSLOG"}
      BY <1>t, <3>3 DEF ResourceTypes
    <3>5. CASE kind[arg[t]] = "CONSOLE"
      BY <1>k, <3>2, <3>5 DEF SinkFd, AppKept
    <3>6. CASE kind[arg[t]] = "FILE"
      BY <1>k, <3>1, <3>2, <3>3, <3>6 DEF SinkFd, OwnKept
    <3>7. CASE kind[arg[t]] = "SYSLOG"
      BY <1>k, <3>1, <3>2, <3>3, <3>7 DEF SinkFd, OwnKept
    <3> QED BY <3>4, <3>5, <3>6, <3>7
  <2>3. i \in 1 .. Len(written) \/ i = Len(written) + 1
    BY <1>s, <2>1
  <2>4. CASE i \in 1 .. Len(written)
    BY <1>o, <1>2, <2>1, <2>4
  <2>5. CASE i = Len(written) + 1
    BY <1>2, <2>1, <2>2, <2>5
  <2> QED BY <2>3, <2>4, <2>5
<1> QED BY <1>1, <1>2, WrittenStep

----------------------------------------------------------------------------
(* Theorems *)

(* Who owns each allocation and each descriptor, and where each thread     *)
(* that logs will write, for any number of loggers and threads.            *)
THEOREM LoggerInvariant == Spec => []LoggerInv
<1>1. Init => LoggerInv
  <2> SUFFICES ASSUME Init PROVE LoggerInv
    OBVIOUS
  <2>0. 0 \in Fds /\ 1 \in Fds /\ App # Closed /\ App \notin Loggers /\ Closed \notin Loggers
    BY LoggerConstants DEF Fds
  <2>1. ResourceTypes
    BY <2>0 DEF Init, ResourceTypes, Lives
  <2>2. CallerTypes
    BY DEF Init, CallerTypes, Places
  <2>3. HeapOwned
    BY DEF Init, HeapOwned
  <2>4. FdsOwned
    BY <2>0 DEF Init, FdsOwned
  <2>5. Kept
    BY <2>0 DEF Init, Kept, AppKept, OwnKept
  <2>6. Targeted
    BY DEF Init, Targeted
  <2>7. WrittenBy /\ WritesReachOwnSink
    <3>1. written = << >>
      BY DEF Init
    <3> QED BY <3>1 DEF WrittenBy, WritesReachOwnSink
  <2> QED BY <2>1, <2>2, <2>3, <2>4, <2>5, <2>6, <2>7 DEF LoggerInv
<1>2. LoggerInv /\ [Next]_vars => LoggerInv'
  BY ResourceTypesStep, CallerTypesStep, HeapOwnedStep, FdsOwnedStep, KeptStep, TargetedStep,
     WrittenByStep, WritesReachStep DEF LoggerInv
<1> QED BY <1>1, <1>2, PTL DEF Spec

(* Once ij_logger_shutdown has freed a logger, neither an allocation nor a *)
(* descriptor of it is left, and no call of ij_logger_log leaves a copied  *)
(* event behind.                                                           *)
THEOREM LoggerShutdownReleasesAll == Spec => []ShutdownReleasesAll
<1>1. LoggerInv => ShutdownReleasesAll
  <2> SUFFICES ASSUME LoggerInv PROVE ShutdownReleasesAll
    OBVIOUS
  <2>1. HeapOwned /\ FdsOwned
    BY DEF LoggerInv
  <2>2. ASSUME NEW l \in Loggers, life[l] = "freed", NEW a \in heap PROVE a[1] # l
    <3>1. CASE OfLogger(a)
      <4>1. PICK m \in Loggers : life[m] \in Holding /\ a \in Allocate(m)
        BY <3>1 DEF OfLogger
      <4>2. a[1] = m /\ m # l
        BY <2>2, <4>1, Parts DEF Holding
      <4> QED BY <4>2
    <3>2. CASE OfThread(a)
      <4>1. PICK t \in Threads : a = <<t, "text_arena">>
        BY <3>2 DEF OfThread
      <4> QED BY <4>1, LoggerConstants
    <3> QED BY <2>1, <3>1, <3>2 DEF HeapOwned
  <2>3. ASSUME NEW l \in Loggers, life[l] = "freed", NEW n \in Fds PROVE fds[n] # l
    BY <2>1, <2>3 DEF FdsOwned
  <2>4. ASSUME NEW t \in Threads, pc[t] \notin {"sink", "write"}, <<t, "text_arena">> \in heap
        PROVE  FALSE
    <3>1. ~OfLogger(<<t, "text_arena">>)
      BY Parts DEF OfLogger
    <3>2. ~OfThread(<<t, "text_arena">>)
      BY <2>4 DEF OfThread
    <3> QED BY <2>1, <2>4, <3>1, <3>2 DEF HeapOwned
  <2> QED BY <2>2, <2>3, <2>4 DEF ShutdownReleasesAll
<1> QED BY <1>1, LoggerInvariant, PTL

(* As long as only syslog loggers are shut down, what a live logger writes *)
(* goes to the descriptor it opened, or to the application's standard      *)
(* output for the console.                                                 *)
THEOREM LoggerWritesReachOwnSink == Spec => []WritesReachOwnSink
<1>1. LoggerInv => WritesReachOwnSink
  BY DEF LoggerInv
<1> QED BY <1>1, LoggerInvariant, PTL

(* As long as only syslog loggers are shut down, the shutdown of one       *)
(* closes its own descriptor and no other.                                 *)
THEOREM LoggerSyslogClosesOwn == Spec => SyslogClosesOwn
<1> DEFINE ClosesOwn == SyslogShutdownsOnly' =>
               \A n \in Fds : fds[n] # Closed /\ fds'[n] = Closed =>
                   fds[n] \in Loggers /\ life[fds[n]] = "marked"
<1>1. LoggerInv /\ [Next]_vars => [ClosesOwn]_vars
  <2> SUFFICES ASSUME LoggerInv, [Next]_vars, SyslogShutdownsOnly', NEW n \in Fds,
                      fds[n] # Closed, fds'[n] = Closed
               PROVE  fds[n] \in Loggers /\ life[fds[n]] = "marked"
    OBVIOUS
  <2>t. ResourceTypes /\ fds \in [Fds -> Loggers \cup {App, Closed}] /\ Closed \notin Loggers
    BY LoggerConstants DEF LoggerInv, ResourceTypes
  <2>o. SyslogShutdownsOnly
    BY <2>t, OnlyStep
  <2>1. ASSUME NEW l \in Loggers, ShutdownClose(l)
        PROVE  fds[n] \in Loggers /\ life[fds[n]] = "marked"
    BY <2>o, <2>1, CloseOwn
  <2>2. ASSUME NEW l \in Loggers, NEW k \in Kinds, InitOk(l, k) PROVE FALSE
    BY <2>t, <2>2 DEF InitOk
  <2>3. ASSUME NEW l \in Loggers,
               InitNoMemory(l) \/ InitLateFailure(l) \/ ShutdownMark(l) \/ ShutdownFree(l)
        PROVE  fds' = fds
    BY <2>3 DEF InitNoMemory, InitLateFailure, ShutdownMark, ShutdownFree
  <2>4. CASE UNCHANGED vars
    BY <2>4 DEF vars
  <2> QED BY <2>1, <2>2, <2>3, <2>4, ThreadStep DEF Next
<1> QED BY <1>1, LoggerInvariant, PTL DEF Spec, SyslogClosesOwn
====
