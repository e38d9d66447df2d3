---- MODULE ConsoleSink ----
(***************************************************************************)
(* ij_console_sink_write, src/src/sinks/ij_console_sink.c: payload and LF  *)
(* go to standard output through writev, again and again until all of it   *)
(* was taken.  Nothing serializes the callers.  Each writev is a step: it  *)
(* takes any part of the two vectors, or fails.                            *)
(*                                                                         *)
(* A definition named Mut... is a deliberately wrong variant of the one    *)
(* below it, used to test that a property can fail.                        *)
(***************************************************************************)
EXTENDS Integers, Sequences, FiniteSets

CONSTANTS Callers,   \* threads that write
          Lengths,   \* payload lengths, positive
          MaxLines   \* bound: writes in all

VARIABLES
    busy,       \* the callers inside the loop
    line,       \* the line each caller writes: [id, len]
    offset, remaining,
    lines,      \* how many lines there have been
    stdout,     \* cells written: [line, at, of]; the LF is the last of its line
    results,    \* history: what the write of line n returned, or "none"
    partial     \* history: some writev took only a part

vars == <<busy, line, offset, remaining, lines, stdout, results, partial>>

Init ==
    /\ busy = {} /\ lines = 0
    /\ line = [c \in Callers |-> [id |-> 0, len |-> 0]]
    /\ offset = [c \in Callers |-> 0] /\ remaining = [c \in Callers |-> 0]
    /\ stdout = << >> /\ results = << >> /\ partial = FALSE

Write(c, len) ==
    /\ c \notin busy
    /\ lines < MaxLines
    /\ busy' = busy \cup {c}
    /\ lines' = lines + 1
    /\ line' = [line EXCEPT ![c] = [id |-> lines + 1, len |-> len]]
    /\ offset' = [offset EXCEPT ![c] = 0]
    /\ remaining' = [remaining EXCEPT ![c] = len + 1]
    /\ results' = Append(results, "none")
    /\ UNCHANGED <<stdout, partial>>

\* The two vectors: what is left of the payload, then always the LF.
Cells(c) == [k \in 1 .. line[c].len + 1 |->
                [line |-> line[c].id, at |-> k, of |-> line[c].len + 1]]
MutVectorsFromStart(c) == Cells(c)
MutVectorsLfApart(c) ==
    IF offset[c] < line[c].len THEN SubSeq(Cells(c), offset[c] + 1, line[c].len)
                               ELSE <<Cells(c)[line[c].len + 1]>>
Vectors(c) == SubSeq(Cells(c), offset[c] + 1, line[c].len + 1)

Finished(c, n) == n >= remaining[c]

\* How far the payload got: the LF does not count.
PayloadTaken(c, n) == IF n > line[c].len - offset[c] THEN line[c].len - offset[c] ELSE n

Returns(c, status) == /\ busy' = busy \ {c}
                      /\ results' = [results EXCEPT ![line[c].id] = status]

Writev(c) ==
    /\ c \in busy
    /\ \E n \in 1 .. Len(Vectors(c)) :
         /\ partial' = (partial \/ n < Len(Vectors(c)))
         /\ stdout' = stdout \o SubSeq(Vectors(c), 1, n)
         /\ IF Finished(c, n)
            THEN Returns(c, "OK") /\ UNCHANGED <<offset, remaining>>
            ELSE /\ remaining' = [remaining EXCEPT ![c] = @ - n]
                 /\ offset' = [offset EXCEPT ![c] = @ + PayloadTaken(c, n)]
                 /\ UNCHANGED <<busy, results>>
    /\ UNCHANGED <<line, lines>>

WritevFails(c) ==
    /\ c \in busy
    /\ Returns(c, "SINK_ERROR")
    /\ UNCHANGED <<line, offset, remaining, lines, stdout, partial>>

Next == \E c \in Callers : \/ \E len \in Lengths : Write(c, len)
                           \/ Writev(c) \/ WritevFails(c)

Spec == Init /\ [][Next]_vars

----------------------------------------------------------------------------
(* Properties *)

\* Where standard output has cells of line n, and which of its cells they are.
PlacesOf(n) == {k \in 1 .. Len(stdout) : stdout[k].line = n}
Written(n) == {stdout[k].at : k \in PlacesOf(n)}

\* Whatever writev takes at a time, the cells of each line are written in order
\* and once, from its first cell on without a gap, and a write that returned OK
\* has written all of them, its LF once.
LineExact ==
    \A n \in 1 .. lines :
        /\ \A j, k \in PlacesOf(n) : j < k => stdout[j].at < stdout[k].at
        /\ \E m \in 0 .. Len(stdout) : Written(n) = 1 .. m
        /\ \A c \in busy : line[c].id = n => Written(n) = 1 .. line[c].len + 1 - remaining[c]
        /\ \A c \in Callers : line[c].id = n /\ results[n] = "OK" =>
              Written(n) = 1 .. line[c].len + 1

\* As long as every writev takes all it is given or fails, lines of concurrent
\* callers do not mix: one call writes payload and LF together.
LinesApart ==
    ~partial =>
        \A k \in 1 .. Len(stdout) - 1 :
            \/ stdout[k].line = stdout[k + 1].line
            \/ stdout[k].at = stdout[k].of /\ stdout[k + 1].at = 1
====
