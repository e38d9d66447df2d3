# TLA+ models of iojournal

iojournal is a C library for structured logging. An application creates a
logger, hands it events from any thread, and each event is validated, copied
(secrets redacted), encoded and written to one sink: standard output, a rotating
file (stdio or io_uring) or syslog over UDP or TCP. A bounded ring for events is
part of every logger.

These modules model the library: the parts that keep state as state machines, and
the encoders, validators and matchers as operators on byte strings. TLC checks
them on small instances; TLAPS proves most of the properties for every number of
threads, every capacity and every event. Source paths below are relative to the
repository root (`src/core/ij_queue.c` and so on).

## 1. Inventory

| component | source | state | operations | module |
|---|---|---|---|---|
| event ring | `src/core/ij_queue.c` | slots, occupied flags, head, tail, count, three metrics, a mutex | init, enqueue, try_dequeue, destroy | `Ring`, `BoundedFifo`, `RingProofs` |
| file sink | `src/sinks/ij_file_sink.c`, `ij_file_sink_sync.c`, `ij_file_sink_uring.c` | backend, stream or io_uring queue, bytes_written, rotation sequence and epoch, names of rotated files | open, write (with rotation and retention), flush, close | `FileSink`, `FileSinkProofs` |
| io_uring backend | `src/sinks/ij_file_sink_uring.c` | submission and completion queue, descriptor | open, write, close (flush does nothing) | `UringBackend`, `UringProofs` |
| syslog sink | `src/sinks/ij_syslog_tcp.c`, `ij_syslog_udp.c` | socket, address | open, write, close | `Syslog`, `LogPathProofs` |
| console sink | `src/sinks/ij_console_sink.c` | none; the loop's offset and remainder | write | `ConsoleSink`, `LogPathProofs` |
| event copy | `src/core/ij_event.c` | arena, cursor, attribute array | copy_from_input, dispose, validate | `EventCopy`, `EventCopyProofs` |
| logger API | `src/core/ij_logger.c`, `src/filters/ij_level_filter.c` | allocations, descriptors, active flag | init, log, flush, shutdown | `Logger`, `LoggerProofs`, `EventPath`, `LogPath` |
| redaction keys | `src/filters/ij_redact*.c` | none | key matching, replacing a value | `Redact`, `TextProofs` |
| UTF-8 validation | `src/core/ij_utf8_*.c` | none | validation | `Utf8`, `TextProofs` |
| JSON and NDJSON encoders | `src/encoders/ij_json_*.c`, `ij_ndjson.c` | a bounded builder | escape scan, encode | `JsonEscape`, `JsonEncoder`, `TextProofs`, `EventCopyProofs` |
| RFC 5424 encoder | `src/encoders/ij_rfc5424.c` | none | encode | `Rfc5424`, `TextProofs`, `EventCopyProofs` |
| SIMD dispatch | `src/encoders/ij_simd_dispatch.h`, `*_x86_avx2.c`, `*_arm_neon.c` | a cached answer | choice of a variant | `Simd` and the module of the function |

How they interact. `ij_logger_log` runs in the caller's thread from the first
check to the sink write: it calls the level filter, `ij_event_copy_from_input`,
one encoder and one sink, and disposes of the copy. Nothing in it takes a lock,
so the sinks are entered by as many threads as log. The ring is created and
destroyed with the logger; no call of `ij_logger_log` uses it, and it is
exercised by the tests and by direct users of the internal interface. Shutdown
runs in one thread and does not wait for the others. All loggers of a process
share the descriptor table and the file system.

What is hard here:

* concurrency: enqueue and dequeue with separate stores to atomics that outside
  readers load; concurrent log calls on an unlocked sink; log against shutdown;
* failure half-way: a rotation is seven steps of which six can fail; sends,
  writes and flushes take part of what they are given; an interrupted io_uring
  wait leaves an operation behind; the second of two allocations fails;
* wrap-around and limits: cursors that run through 2^w, a full ring, a rotation
  threshold met exactly, a string at its limit, a datagram at its limit;
* text: every byte value and every boundary of UTF-8 and JSON, at every place in a
  block of the vector code, in a buffer that ends anywhere; facts found in one pass
  (length, escape flag, redaction) and trusted in the next;
* sequences of legal calls: reopening a path, two rotations in one second, a
  clock that is set back, descriptor numbers that are reused.

What makes each component correct is stated in its module under "Properties";
section 3 lists them by run. `PROJECT.json` lists the hazards with the
properties that would catch them.

## 2. Modules

Conventions. Variables, operators and status names keep the names of the source.
An action is one operation, or one step of it where other threads or the kernel
can act in between; error returns are actions of their own. *History* variables
record what happened and influence nothing. A definition named `Mut...` is a
deliberately wrong variant of the definition below it (a dropped guard, an
off-by-one, a missing reset); no specification uses it. Replacing the right
definition by the variant must make a named property fail, which shows that the
property can.

**Ring.** Threads are split into producers and consumers. A call runs
`idle -> e_lock -> e_check -> e_tail -> e_count -> e_stat -> e_hwm -> unlock` or
`idle -> d_lock -> d_check -> d_head -> d_count -> unlock`. Every store to an
atomic is one step, because `ij_ring_*` metrics can be loaded without the mutex;
the plain stores to a slot, its flag and the caller's event are one step. Events
are pairs of producer and call number. `Word` is 2^w, so that head and tail wrap
in the model. `MutexFaults` lets `mtx_lock` and `mtx_unlock` fail, after which
`ij_ring_try_dequeue` reports false although it moved an event, as the code does.
`Destroy` disposes by occupied flags and wipes the ring; it is taken when no call
is in progress, as the interface requires. The memory order of the atomics is not
modelled: every access that matters is inside the mutex.

**BoundedFifo** is the promise without slots, cursors or threads: a queue of at
most `Capacity` events that refuses the new event when full. `Ring` implements
it with the refinement mapping `queue <- Contents` (what the slots between the
cursors hold, corrected for a store in progress), `refused <- dropped_events`,
`open <- alive`.

**FileSink.** A file is a sequence of cells, one per byte, each naming its
record and position; the file system is a function from names to contents, and
the sink's own path is `Active`. A rotated name is the pair of second and
sequence number that `make_rotation_path` prints. stdio holds back `buffer`;
`fwrite` and `fflush` move any prefix of it. One action is one call of
`ij_file_sink_write`, and each of its exits is a separate action:
in place, without a stream, and a rotation that fails at the path, the flush,
the rename, the record or the reopening, or succeeds. `Faults` names the system
calls that may fail. The file outlives the sink, so sessions can be repeated on
one path.

With the io_uring backend a write is the whole of `ij_file_sink_uring_write` as one
step (`UringWrite`). `ring` is what earlier calls left in the queue: entries not yet
submitted, operations the kernel has, completions nobody has seen. A call is
refused by a full queue; or its submit fails and leaves the entry; or it
submits all entries, the kernel executes any of the operations left, in any order,
and perhaps its own (`Waits`), and the call either is interrupted or answers with
the oldest completion, whose ever it is. An operation that its call did not see
executed may be executed at any later time (`Straggle`). Its payload, on the stack of
`ij_logger_log`, is then gone, so whatever it appends is one cell `Stray` that belongs
to no record. Closing the backend ends with `io_uring_queue_exit`, which is taken to
cancel what is pending, here and in `UringBackend`.

The history variable `mishaps` records that a write took part of a line
("short"), an unlink failed ("stuck"), a close lost what stdio held ("lost") or a
submit or wait failed ("interrupted"); the properties say up to which of them they
hold. Two simplifications: the clock readings inside one call are one
reading (they differ only when the second changes during the call), and callers
come one after the other, because two threads in `ij_file_sink_write` race on a
`FILE *`, which has no useful set of outcomes.

**UringBackend** has the same backend step by step, with the kernel between the steps
of a call: prepared entries, operations in the kernel,
completions nobody has seen. A write waits for *one* completion. The payload is
a buffer on the stack of `ij_logger_log`; `fresh` records whether the kernel read
it while the call was still in progress, and `interrupted` which calls on the
present queue failed to submit or to wait. `io_uring_queue_exit` cancels what is
pending.

**Syslog.** Each opening configures one `transport`. Opening walks over the addresses with a socket in hand. A TCP frame is
its decimal length, a space and the payload, sent by two `send_all` loops whose
`send` takes any part or fails; a UDP write is one `sendto`. Byte contents are
message and position. A getaddrinfo failure has the outcome of an empty address
list. SIGPIPE is not modelled.

**ConsoleSink.** The `writev` loop of each caller on a shared standard output;
`partial` records that a `writev` took less than it was given.

**LogPath** composes the sinks behind `ij_logger_log`: threads log through one
logger whose kind is CONSOLE or SYSLOG, with either transport. It extends `Syslog`
and instantiates `ConsoleSink`. The threads take turns on a TCP logger
(`TurnsOnTcp`): without turns frames interleave, which the run
`syslog_tcp_concurrent` shows. Datagrams and console lines need no turns.

**Bytes, Simd.** Text is a sequence of byte codes. `Simd` has the choice of a
variant by processor and the shape all vector loops share: whole blocks while
`i + width <= len`, then the scalar function on the rest. A vector instruction is
what it does to each byte (`_mm256_subs_epu8` saturates, `_mm256_cmpgt_epi8` is
signed). The dispatch cache is an atomic that every thread fills with the same
value, so it is a function of the processor.

**Utf8** is `ij_utf8_scalar_validate` byte pattern by byte pattern, with the two
variants that skip leading ASCII blocks. Its reference, `WellFormed`, decodes code
points: shortest form, no surrogate, at most U+10FFFF.

**JsonEscape** is the scan for the first byte to escape, in three variants;
`MustEscape` is the reference from RFC 8259.

**Redact** has the buckets by length and first letter, the suffixes of dotted
names and `ij_redact_owned_attr_value_n`. The vector comparisons are modelled too,
although no log call reaches them (`ij_redact_case_equal` and `ij_redact_has_dot` call
the scalar variants, and `ij_simd_redact_match_kind` is constant): what is said of them
is about code that is only compiled and tested. `tolower` takes the
locale. The reference is the denylist of `docs/rfc/REDACTION_POLICY.md`.

**JsonEncoder** is the bounded builder and the JSON and NDJSON encoders on it; the
first append that does not fit ends the call. The path for strings that need no
escape, which appends quotes, text and colon at once, is separate as in the code.
Integers have `Word` values, so the smallest one has no positive counterpart.
Digits of a double are what `snprintf` prints: the model is given the text of the
C locale and puts in the decimal separator of the locale. `gmtime_r` is an input.

**Rfc5424** is the syslog message: PRI, timestamp, APP-NAME cut and cleaned, and
`snprintf` into a bounded buffer.

**EventCopy.** One call of `ij_event_copy_from_input` on byte strings: the
measuring pass, the two allocations, the copying pass with a cursor, redaction,
and disposal. `validate_event`, the public validator, is the reference the copying
pass is compared with.

**EventPath** composes `EventCopy` with the encoders as `ij_logger_log` does: copy,
encode for the kind of sink into a buffer, dispose. An encoder call is two steps of
one thread: `Compose` reads the copy and lists what the encoder appends, `Encode`
fits that list into the buffer, where the first append that fails ends the call.
The buffer size is not the fixed 8192 but varies around what the payload needs
(`Around`). A lexer for JSON reads payloads back.

**Logger.** What init, log, flush and shutdown allocate, open, close and free, for
several loggers and threads on one descriptor table, where the kernel hands out
the lowest free number. A log call first encodes, then writes to `target`, the
descriptor of its sink, so that shutdown can fall in between.
`ij_logger_shutdown` is three steps. Once a logger is
freed, a call still in progress reads its flag, kind and descriptor from freed
memory: any outcome. Sink writes succeed or fail; a file logger keeps the descriptor it was
opened with (rotation, which replaces it, is in `FileSink`), and the descriptor of
an io_uring instance is not counted apart from its file.

The MC modules give constants their small values.

## 3. Runs

Passing runs:

| run | what it checks |
|---|---|
| `ring_safety` | two producers with three calls each, one consumer, two slots, cursors modulo 4, and a mutex that may fail at any call: the contents are the exact FIFO at every step (`FifoExact`), cursors, count and flags agree (`CursorsAgree`, `OccupiedIsWindow`), each event has one owner (`SingleOwner`), metrics are exact (`MetricsExact`), and the ring refines `BoundedFifo`, so that a full ring refuses the new event and nothing else (`ImplementsFifo`) |
| `ring_liveness` | two producers and two consumers, a mutex that works: `MutualExclusion`, nothing accepted disappears (`NoLeak`), the mutex is always released (`LockReleased`), a non-empty ring is emptied (`Drained`) |
| `file_rotation` | two sessions, size and interval rotation, retention 1, either backend, a clock that goes back, every system call failing and io_uring calls interrupted, with what they leave executed at any later time: the files are the acknowledged records in order, cut at record boundaries, until a short write, an interrupted call, a close that loses bytes or a name used twice (`LogIsCut`); the size counter and the size bound, until a short write or an interrupted call (`BytesWrittenExact`, `SizeBound`); retention keeps the newest and only those (`RetentionExact`); a session leaves its rotated files alone (`RotatedImmutable`); whatever fails, the bytes that calls write reach a file in order and once, with strays of interrupted calls anywhere between them (`BytesInOrder`) |
| `uring_writes` | submitting and waiting may fail: no line is appended twice (`WrittenOnce`), exactly one entry is left behind per interrupted call (`LeftBehindExact`), OK means the line is in the file as long as nothing was interrupted (`OkUntilInterrupted`), every call returns (`CallReturns`) |
| `log_path` | two threads on a logger of either kind and transport, two openings, partial and failing writes: no socket leaks (`NoSocketLeak`), TCP is framed until a send fails (`FramedUntilFailure`), acknowledged frames are always whole (`AckedWhole`), UDP datagrams are the acknowledged messages (`DatagramPerMessage`); every console line in order, once, with one LF (`LineExact`), and lines of different threads do not mix as long as `writev` takes all (`LinesApart`) |
| `event_path` | 10,363 calls of `ij_logger_log`: the copy stays in its arena and fills it exactly (`ArenaSafe`), agrees with the validator (`VerdictAgrees`), releases on failure (`FailureReleases`); UTF-8 validation accepts exactly well-formed text on every processor (`Utf8Exact`); the escape flag is exact (`EscapeFlagExact`); keys are redacted exactly as the denylist says, by every implementation (`RedactExact`); payloads stay in the buffer and are accepted exactly when all of them fits (`FitsExact`); a JSON payload reads back as exactly the members the encoder emits (timestamp, level, event_name, message, logger, attributes), with every string, number and redacted value in them (`JsonReadsBack`), a syslog payload has seven header words and the message (`SyslogHeader`) |
| `logger_lifecycle` | two loggers of all kinds, shutdown at any time: nothing of a logger is left once shutdown returned (`ShutdownReleasesAll`); as long as only syslog loggers are shut down, a log call whose logger is still live writes to the descriptor that logger opened (`WritesReachOwnSink`; it says nothing of a call whose logger was freed meanwhile) and shutdown closes only its own descriptor (`SyslogClosesOwn`) |

Runs that end in a counterexample. Each states what a document or header of the
repository says, and TLC shows a behaviour of the code that differs:

| run | statement | what the code does |
|---|---|---|
| `file_overwrite` | rotated files are never overwritten (`NeverOverwritten`) | the sequence restarts with every session, so two sessions in one second use one name and `rename` replaces the file |
| `uring_stale_completion` | one complete line per accepted event (`OkMeansLineWritten`) | an interrupted wait leaves a completion the next write takes for its own |
| `syslog_tcp_concurrent` | octet counting, many producers (`Framed`) | prefix and payload of two threads interleave |
| `numeric_secret` | the value under a listed key is replaced (`DenylistedReplaced`) | only strings are redacted: a number under `Token` is emitted |
| `logger_descriptors` | shutdown releases logger-owned resources (`OnlyOwnDescriptors`) | console and file loggers close descriptor 0 |

Other differences between code and documents that the models contain, without a
run of their own:

* a record has no members for the source location and the trace context: the copy
  holds them and no encoder emits them, while `docs/en/01-file-sink.md` lists
  "`trace_id`, `span_id`, `trace_flags` when present" and "`source_file`,
  `source_line`, `source_function` when present" among the members of a file record
  (`JsonReadsBack` and its theorem say that a record has exactly the other members;
  `event_path` has file records of events with a source location);
* an existing file is opened with `bytes_written = 0`, so it can outgrow
  `rotate_bytes` by what it already held (hence "first session" in `SizeBound`);
* a short `fwrite` or io_uring write leaves a partial line (hence "short" in
  `LogIsCut`);
* after an interrupted io_uring call the bytes of a refused line can be appended
  later, uncounted, and OK can be reported for a line that is not written (hence
  "interrupted" in `LogIsCut`, `BytesWrittenExact` and `SizeBound`; the run
  `uring_stale_completion` shows the second);
* the result of `unlink` is dropped, so a file that cannot be deleted is
  forgotten without a status (hence "stuck" in `RetentionExact`);
* after a failed rename later writes report INVALID_ARGUMENT, not SINK_ERROR
  (`WriteNoHandle`);
* a TCP connection is used again after a send failed inside a frame
  (`SendFails`; hence `FramedUntilFailure`);
* key matching uses `tolower`: in a locale where the lower case of I is not i, upper
  case keys with an I are missed, and in one with a decimal comma a double is not
  JSON (hence `locale = "C"` in `RedactExact` and `JsonReadsBack`; `event_path` has
  calls in both locales);
* an accepted event may need more than the 8192 bytes of the payload buffer and is
  then refused with ENCODE_ERROR (`FitsExact` says: as a whole);
* a log call that passed its first check can go on, and succeed, on a logger that
  was shut down and freed.

### Bounds

* Ring: two slots and a word of 4 make slots and cursors wrap, at different
  times, within the six enqueue calls; the ring fills and empties several times.
  Only producers are interchangeable in `ring_safety` (symmetry); two consumers
  compete in `ring_liveness`, which uses no symmetry.
  The proofs cover every other size.
* FileSink: records of 1 and 2 bytes against a limit of 3 meet the limit exactly,
  exceed it by one and stay below it. Four writes give up to three rotations,
  two more than retention keeps; two sessions let names repeat. A submission queue of
  two entries fills with two failed submits, and the other two writes then meet a full
  queue, or leave a third operation. 4.0 million states.
* Syslog: payloads of 2 and 10 bytes have prefixes of different length; the UDP
  limit of 9 lies between them, one below the longer. Two addresses let the
  first fail.
* UringBackend: a queue of two entries fills, with two failed submissions.
* ConsoleSink: payloads of one and three bytes, so that a partial write can end
  in the payload, at its end and before the LF.
* LogPath: two threads, three messages or lines and two openings; threads are
  interchangeable (symmetry).
* EventPath: the calls are families, each varying one part of the input: fields
  missing, empty, at and above their limits; one and two attributes around the
  limits of key, value and total text; byte sequences of one to four bytes from
  both sides of every boundary of UTF-8, and of four to six bytes across blocks of
  four (AVX2) and two (NEON) bytes; every ASCII byte; every key of the denylist in
  both cases, shortened, lengthened, prefixed and dotted; values at the limits of
  an eight bit word; times at the limits of the format; names and facilities.
  Minimum lengths for the vector variants are 4, so both sides of them occur. The
  text limit of 36 is met exactly and exceeded by one. Buffers are one byte larger
  than needed, exact, up to 12 bytes and much smaller, which cuts the payload in
  keys, escapes, numbers and before the LF.
* Logger: two loggers, two log calls and descriptors 3 and 4 force numbers to be
  reused.

Deadlock is checked for the ring (its consumers poll for ever). The other models
stop when their bounds are used up, and say `CHECK_DEADLOCK FALSE`.

### Fairness

* Ring: a thread that is inside a call keeps running, a consumer keeps polling,
  and a thread waiting for a mutex that nobody takes any more gets it: weak
  fairness per thread. Nothing is assumed about who wins a contended mutex, nor
  that producers go on. With the mutex failing there is no liveness to claim.
* UringBackend: the caller continues, and the kernel completes what it was given.
  The code waits without a timeout, so it relies on the same.

## 4. Proofs

Eight modules hold proofs: one per component, `TextProofs` for the operators on byte
strings, and `ArithmeticAndSequences` for the facts all of them share. Constants are
arbitrary: the bounds of the runs (`MaxCalls`, `MaxWrites`, `MaxOpens` and so on) are
any natural numbers, sets of threads, loggers and lengths are any sets. What is
assumed of a constant is the named `ASSUME` of the module that declares it, and TLC
evaluates it in the runs. Most only give types. The others:

* `Ring`: the capacity is positive and divides the range of the cursors (the code asks
  for a power of two); producers, consumers and the two markers are distinct;
* `Logger`: `App`, `Closed` and `NoLogger` are no loggers, and no thread is one;
* `Syslog`: a message is shorter than 10^9 bytes (the payload buffer of
  `ij_logger_log` has 8192), so that nine digits hold its length;
* `Bytes`, `EventCopy`: `Null` is neither a byte string nor a copied string
  (`ij_owned_string_t`); an event has five strings or null pointers and a sequence of
  attributes, and the redaction literal is a byte string that needs no escape;
* `EventPath`: what the types of C and the library functions guarantee of the rest an
  encoder reads: the fields of `struct tm` are in the ranges `gmtime_r` gives them, an
  integer is one of its type (`Word`), `bool` is 0 or 1, the text `snprintf` makes of a
  double is not empty and has only the bytes of a number, the sink is one of the three
  kinds;
* `Redact` (`RedactLiterals`), `JsonEncoder` (`JsonLiterals`, `TimeLiterals`,
  `JsonSpelling`), `Rfc5424` (`Rfc5424Literals`): how the literals of the source are
  spelled, in the first with length, first letter and lower case, in `JsonSpelling` the
  words in quotes and the marks around them. The provers know nothing of the characters
  of a string; TLC does, and evaluates the assumptions.

Two kinds of theorem have a hypothesis besides: `RingNoLeak` assumes a mutex that
works (after a failed unlock `ij_ring_try_dequeue` does report false for an event it
moved), and the two theorems on TCP framing assume `TurnsOnTcp` (without turns
they are false, as `syslog_tcp_concurrent` shows).

In each module the property is seldom inductive. The invariant that is has a lemma
for each conjunct, with one step per action.

**RingProofs**: `Typing`, `RingMutualExclusion`, `RingFifoOrder`, `RingCursorsAgree`,
`RingFifoExact`, from `Invariant`: `Spec => []IndInv`, where
`IndInv == TypeOK /\ Control /\ Locals /\ Flags /\ Window /\ FifoOrder`:

* `Control`: labels in the critical section belong to the lock holder, and
  producers and consumers are only at their own labels;
* `Locals`: the call's copy of `count` is what the step about to use it needs;
* `Flags`: a slot is occupied exactly when it holds an event;
* `Window`: the heart of the argument. head and tail are the lengths of the two
  histories modulo `Word`, each lagging by one between the store to a slot and
  its own store, and every accepted event not yet taken lies in the slot its
  position selects. Histories grow without bound, cursors wrap; what links them is
  `(a % Word) % Capacity = a % Capacity`, true because the capacity divides the
  word (`ModOfMultiple`), and that fewer than `Capacity` consecutive positions
  select different slots (`ModInjective`).

`FifoOrder` is only proved: `ring_safety` checks the stronger `FifoExact`.

The second half of the module proves `RingOccupiedIsWindow`, `RingMetricsExact`,
`RingSingleOwner`, `RingNoLeak`, and `RingImplementsFifo`, the refinement of
`BoundedFifo`. `OwnInv` adds to `IndInv` the metrics with what the enqueue in progress
has still to store (`Metrics`), that only slots of the window hold an event
(`Outside`), and who holds what: events are numbered by call, stored once, no longer
with their producer once stored, and held by one consumer once taken (`Ownership`).
`NoLeak` needs one thing more, that a consumer asks again only with an empty hand
(`Kept`). For the refinement the store to the slot is the moment an event enters the
queue and clearing the slot the moment it leaves: `Contents` does not change in
any of the steps that follow.

**UringProofs**: `UringTyping`, `UringWrittenOnce`, `UringLeftBehind`,
`UringOkUntilInterrupted`. `UringInv` says that pending entries and operations have
different call numbers, none of which is in the file (`PendingOnce`,
`PendingUnwritten`); that entries, operations and completions are as many as
interrupted calls and the one in progress (`Counted`); and that without an
interruption all of them belong to the call in progress (`Alone`). The last is what
makes the first completion the right one.

**FileSinkProofs**: `FileLogIsCut`, `FileBytesWrittenExact`, `FileSizeBound`,
`FileRetentionExact`, `FileBytesInOrder`, `FileRotatedImmutable`. The many exits of
`ij_file_sink_write` are first reduced to seven effects on the log (`Effect`: quiet, a
new session, part of a record written, a write among operations left behind, a stray
appended, a close that may lose the end of the file, a rotation), and each conjunct of
`FileInv` is shown for the effects. What an io_uring call leaves matters in one way:
until a call is interrupted the queue is empty between calls, so that the one result a
call finds is its own (`Control`, `UringEffect`). Besides the
properties `FileInv` holds that there is one cut per rename, within the acknowledged
bytes (`CutsWithin`); that each rotated file is what lies between two cuts, and active
file and stdio buffer what lies behind the last, also while the sink is closed (`Cut`);
that in a first session rotated names are numbered by `rotation_sequence`, so that the
next one is not in use whatever the clock says (`Numbered`); and that `rotated_paths`
is the tail of the renames that retention keeps (`Remembered`, `OnDisk`).

**LogPathProofs**: `SyslogNoSocketLeak` and `SyslogDatagramPerMessage` from
`SyslogInv`; `SyslogFramedUntilFailure` and `SyslogAckedWhole` from `TurnInv`;
`ConsoleLineExact` and `ConsoleLinesApart` from `ConsoleInv`. `SyslogInv` accounts for
every socket and ties a caller inside `send_all` to an open TCP sink. `TurnInv` adds
that one caller at most is inside a frame, that the stream ends with what it has sent
of it (`Sending`), and that between frames it ends with the end of one (`Between`).
`ConsoleInv` says that each line in progress has one owner, whose offset is how much of
the line is out, and that without a partial `writev` the output ends with a whole line.

**LoggerProofs**: `LoggerShutdownReleasesAll`, `LoggerWritesReachOwnSink`,
`LoggerSyslogClosesOwn`. `LoggerInv` says which allocation belongs to a logger or to a
call at each stage (`HeapOwned`), who owns each descriptor (`FdsOwned`), that standard
streams and sinks are kept as long as only syslog loggers are shut down (`Kept`), and
where a call about to write to a live logger will write (`Targeted`).

**TextProofs**. The induction theorems of the library take an operator as parameter,
which the provers cannot instantiate. Recursive functions and folds are therefore
handled in two steps: a function that satisfies the recursive equation is given without
recursion or shown to exist for every length (a least length without one cannot exist),
which makes the `CHOOSE` behind the definition satisfy it too; and a least or last
position where it differs from the reference leads to a contradiction (`LeastIs`).

* `EscapeScanExact`: on every processor, for every block width and every text the scan
  finds the first byte that must be escaped. The first block with such a byte is a least
  element, and the rest begins where the blocks end.
* `RedactVariantsAgree`: both vector variants of comparing keys and of looking for a
  dot give what the scalar ones give, for every two byte strings. `RedactKeyExact`:
  `key_should_redact_n`, which sorts by length and first letter before it compares,
  finds exactly the keys of the denylist and the dotted names that end in one. Both in
  the C locale: in others they are false (section 3).
* `Utf8ValidExact`: on every processor validation accepts exactly well-formed UTF-8.
  The byte patterns of one character are those of a code point in shortest form; a text
  is valid from a position on if there is a sequence of positions, each one character
  after the one before, that ends behind the text; and skipping ASCII blocks leaves that
  as it is.
* `ConsoleExact`, `NdjsonExact`, `SyslogExact`: of any list of pieces and any buffer,
  what the builder (a fold over the pieces) or `snprintf` leaves is inside the buffer,
  is accepted exactly if no piece is an error and all fit with the NUL, and is then the
  whole text, otherwise the beginning of it. `JsonPiecesAre`, `SyslogPiecesAre`: what
  the encoders hand to the builder are byte strings, escapes, decimal numbers and
  timestamps included.

**EventCopyProofs**:

* `EventFailureReleases` and `EventArenaSafe` from `PhaseInv /\ ArenaInv`. The copying
  pass has no bounds check; `ArenaInv` says there is a function of offsets, monotone
  and growing by the room each string was measured with, whose last value is the size
  of the arena, whose value at the strings copied so far is the cursor, and which gives
  the place of each copied string. It is a witness that grows with the pass.
* `EventEscapeFlagExact` and `EventRedactExact` from `CopiedInv`, which says that each
  copied string is the caller's or the literal, with the flag the scan gave.
* `EventUtf8Exact` from `Utf8ValidExact`.
* `EventVerdictAgrees` from `VerdictInv`: as long as the call was not refused, all that
  was scanned is what `ij_validate_event` accepts and the running total is the sum of
  its lengths; a refused event is one the validator refuses. The validator adds up once
  at the end; that a total above the limit after the fields, or after some attribute,
  already decides the verdict needs that sums grow (`TotalIs`), and that both scans
  skip the UTF-8 check for ASCII needs that ASCII is valid.
* `EventFitsExact` from `PayloadInv` together with all of the above: the copy that an
  encoder reads is complete, has no null pointer where the encoder looks (the validator
  saw to it), and so gives pieces to which the lemmas of `TextProofs` apply.
* `EventSyslogHeader` from `ComposedInv`, that the pieces are those of the copy, and
  these lemmas: the decimal digits of a number read back as the number
  (`DecimalExact`), the digits of a time are those of RFC 3339 and no blank
  (`TimeExact`), an APP-NAME is never empty and has no blank either (`AppNameIs`), and
  a text of words without blanks is split exactly at the blanks between them
  (`WordReads`, `SevenWords`), so that everything behind the seventh is the message.
* `EventJsonReadsBack` from the same invariants. What an encoder writes is not a
  sequence of tokens: its literals begin in one member and end in the next, and a bare
  word ends only where a comma or a brace follows. So the lemmas speak of parts of a
  text, wherever they stand in it: `Spells(e, s)` says that the lexer reads `e` between
  quotes as the string `s` (`SpellsEscaped` for each escape, `EscapedSpells` for the
  loop over runs and escapes, `SpellsPlain` for the path without one), and
  `Lexes(open, t, T)` that it reads `t` as the tokens `T`, if `open` provided that
  something ends the last word. Both are closed under concatenation (`SpellsBoth`,
  `LexesBoth`). The object is `EmittedObject`: the members the encoder emits, so
  nothing of source location and trace context. With these lemmas each value reads back (`ValueIs`; for a negative number up to
  the smallest of its word), then each attribute, each member (`ItemIs`), and the
  object (`JsonObject`). `CopyIsHeld` supplies what the encoder was given: the copy has
  the caller's strings with exact flags, and the literal exactly under a key of the
  denylist (`RedactKeyExact`). The lexer and `StringAt` are recursive functions; that
  they have the values their definitions state is `TokensExist` and `BodyExists`.

### Only model-checked

* `LockReleased`, `Drained`, `CallReturns`: liveness, outside the prover's reach.
* The statements of the runs that end in a counterexample.


## 5. Not modelled

* The effect of a vector instruction on a register as a whole, its alignment and
  its reads: the models have its effect on each byte.
* What `snprintf` makes of a double, `gmtime_r` and `getaddrinfo`: inputs.
* The trace context and `source_line`, which are copied and emitted by no encoder
  (`source_file` and `source_function`, also emitted by none, are strings of the event
  and in the model; see section 3).
* Signals, memory order of the atomics, data races on a `FILE *`. File loggers are
  therefore not in `LogPath`; `FileSink` has one caller at a time.
* The version file (constants), benchmarks, examples and scripts: users of the
  library, not part of it.

## 6. Plan

Every operation of the library that changes state, and every encoder, validator
and matcher, is in a module, and every invariant and action property that a run checks
without a counterexample is a theorem. What is left is outside this prover (liveness)
or outside these models (section 5): a file sink shared by threads would need the
semantics of a data race on a `FILE *`.
