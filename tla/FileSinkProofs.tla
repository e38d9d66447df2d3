---- MODULE FileSinkProofs ----
(***************************************************************************)
(* Proofs about the rotating file sink, ij_file_sink.c: for every rotation *)
(* policy, every set of record lengths, any subset of failing system calls *)
(* and any number of writes and sessions.                                  *)
(*                                                                         *)
(* Every action is first reduced to what it does to two things a reader of *)
(* the log sees: the rotated files, and the active file together with what *)
(* stdio still holds of it (ActiveCells).  There are seven such effects    *)
(* (Quiet, Opens, Writes, Closes, Rotates and, once an io_uring call was   *)
(* interrupted, Disturbs and Straggles), and each invariant is shown to    *)
(* survive each of them.                                                   *)
(***************************************************************************)
EXTENDS FileSink, ArithmeticAndSequences, SequenceTheorems, FiniteSetTheorems, TLAPS

Cells == [rec : Nat, at : Nat, of : Nat]
Stamps == Nat \X Nat
Ops == [rec : Nat, len : Nat]
RingTypes(r) == /\ r \in [sq : Seq(Ops), inflight : SUBSET Ops, cq : Seq(Nat)]
                /\ IsFiniteSet(r.inflight)

FileTypes ==
    /\ active_backend \in {"SYNC", "IO_URING"}
    /\ RingTypes(ring)
    /\ DOMAIN files \subseteq {Active} \cup Stamps
    /\ files \in [DOMAIN files -> Seq(Cells)]
    /\ buffer \in Seq(Cells)
    /\ clock \in Nat
LogTypes ==
    /\ bytes_written \in Nat /\ rotation_sequence \in Nat
    /\ writes \in Nat /\ sessions \in Nat
    /\ rotated_paths \in Seq(Stamps)
    /\ stream \in Seq(Cells) /\ cuts \in Seq(Nat) /\ renamed \in Seq(Stamps)

\* A sink with a handle is open and has an active file; only stdio holds cells
\* back, and only while it has a stream; only an io_uring call that was
\* interrupted leaves something in the ring, and only while there is one.
Control ==
    /\ handle => opened /\ Active \in DOMAIN files
    /\ ~handle => buffer = << >> /\ ring = NewRing
    /\ active_backend # "SYNC" => buffer = << >>
    /\ active_backend = "SYNC" => ring = NewRing
    /\ "interrupted" \notin mishaps => ring = NewRing

\* The cells of every file, and of the active file with what stdio holds of it,
\* are in order except for strays, and the next record has a higher number than
\* all of these.
Ordered(s) ==
    \A i, j \in 1 .. Len(s) :
        i < j /\ s[i].rec # 0 /\ s[j].rec # 0 =>
            \/ s[i].rec < s[j].rec
            \/ s[i].rec = s[j].rec /\ s[i].at < s[j].at
InOrder ==
    /\ Ordered(ActiveCells)
    /\ \A i \in 1 .. Len(ActiveCells) : ActiveCells[i].rec <= writes
    /\ \A n \in Rotated : Ordered(files[n])

\* LogIsCut, also while the sink is closed.
CutsWithin ==
    /\ Len(cuts) = Len(renamed)
    /\ \A i \in 1 .. Len(cuts) : cuts[i] <= Len(stream)
Cut ==
    mishaps \subseteq {"stuck"} /\ NamesDiffer =>
        /\ \A i \in 1 .. Len(renamed) : renamed[i] \in Rotated =>
              files[renamed[i]] = SubSeq(stream, CutBefore(i) + 1, cuts[i])
        /\ ActiveCells = SubSeq(stream, CutBefore(Len(cuts) + 1) + 1, Len(stream))

\* Before the first session there is nothing; in it, as long as the sink has a
\* handle, every rotation has the number after the last one.
Unused ==
    sessions = 0 => /\ ~opened /\ Rotated = {} /\ ActiveCells = << >>
                    /\ renamed = << >> /\ status # "OK"
Numbered ==
    sessions <= 1 /\ handle =>
        /\ rotation_sequence = Len(renamed)
        /\ \A i \in 1 .. Len(renamed) : renamed[i][2] = i
        /\ \A n \in Rotated : n[2] <= rotation_sequence

\* The sink remembers the newest rotated files, and these are on disk.
KeptOf(k) == IF Retention > 0 /\ k > Retention THEN Retention ELSE k
Newest == {renamed[i] : i \in Len(renamed) - KeptOf(Len(renamed)) + 1 .. Len(renamed)}
Remembered ==
    sessions <= 1 /\ handle =>
        rotated_paths = SubSeq(renamed, Len(renamed) - KeptOf(Len(renamed)) + 1, Len(renamed))
OnDisk ==
    sessions <= 1 /\ "stuck" \notin mishaps /\ (handle \/ status = "OK") => Rotated = Newest

FileInv ==
    /\ FileTypes /\ LogTypes /\ Control /\ InOrder /\ CutsWithin /\ Cut /\ Unused
    /\ Numbered /\ Remembered /\ OnDisk /\ BytesWrittenExact /\ SizeBound

----------------------------------------------------------------------------
(* What a step does to the log *)

SameArchive == Rotated' = Rotated /\ \A n \in Rotated : files'[n] = files[n]

\* What a write reports, counts and adds to the acknowledged records; it reports
\* the truth when it took k cells and reports OK exactly when these are all.
Answered(len, ok, already) ==
    IF ok THEN /\ status' = "OK" /\ bytes_written' = already + len
               /\ stream' = stream \o NewLine(len)
          ELSE /\ status' = "SINK_ERROR" /\ bytes_written' = already
               /\ stream' = stream
Taken(len, k, already) == Answered(len, k = len, already)

Quiet ==
    /\ SameArchive /\ ActiveCells' = ActiveCells
    /\ UNCHANGED <<stream, cuts, renamed, mishaps, sessions, bytes_written,
                   rotation_sequence, rotated_paths, opened>>
    /\ handle' => handle
    /\ status' = "OK" => status = "OK"
    /\ writes' \in {writes, writes + 1}

Opens ==
    /\ ~opened /\ SameArchive /\ ActiveCells' = ActiveCells
    /\ UNCHANGED <<stream, cuts, renamed, mishaps, status, writes>>
    /\ sessions' = sessions + 1
    /\ bytes_written' = 0 /\ rotation_sequence' = 0 /\ rotated_paths' = << >>

\* The first k cells of a record reach the active file or stdio.
Writes(len, k) ==
    /\ handle /\ ~rotation_due(len)
    /\ SameArchive /\ ActiveCells' = ActiveCells \o SubSeq(NewLine(len), 1, k)
    /\ Taken(len, k, bytes_written)
    /\ mishaps' = mishaps \cup Mishap("short", k \in 1 .. len - 1)
    /\ writes' = writes + 1
    /\ UNCHANGED <<cuts, renamed, sessions, rotation_sequence, rotated_paths, opened, handle>>

\* The same once a call was interrupted: strays come first, and the answer may
\* be that to another call.
Disturbs(len, k, t) ==
    /\ handle
    /\ SameArchive /\ ActiveCells' = (ActiveCells \o t) \o SubSeq(NewLine(len), 1, k)
    /\ "interrupted" \in mishaps' /\ mishaps \subseteq mishaps'
    /\ \E ok \in BOOLEAN : Answered(len, ok, bytes_written)
    /\ writes' = writes + 1
    /\ UNCHANGED <<cuts, renamed, sessions, rotation_sequence, rotated_paths, opened, handle>>

\* Between two calls, the kernel appends a stray.
Straggles ==
    /\ handle
    /\ SameArchive /\ ActiveCells' = ActiveCells \o <<Stray>>
    /\ "interrupted" \in mishaps
    /\ UNCHANGED <<stream, cuts, renamed, mishaps, sessions, writes, status, bytes_written>>
    /\ UNCHANGED <<rotation_sequence, rotated_paths, opened, handle>>

\* All but the first n cells of the active file are lost.
Closes(n) ==
    /\ opened /\ ~handle'
    /\ SameArchive /\ ActiveCells' = SubSeq(ActiveCells, 1, n)
    /\ mishaps' = mishaps \cup Mishap("lost", n < Len(ActiveCells))
    /\ UNCHANGED <<stream, cuts, renamed, sessions, writes, status, bytes_written>>
    /\ rotation_sequence' = rotation_sequence /\ rotated_paths' = << >>

\* The active file becomes a rotated one; unless the rotation fails after that,
\* the first k cells of a record are written to the next.
Rotates(len, k) ==
    /\ handle /\ rotation_due(len)
    /\ Rotated' \subseteq Rotated \cup {Target}
    /\ \A n \in Rotated' : files'[n] = IF n = Target THEN ActiveCells ELSE files[n]
    /\ ActiveCells' = SubSeq(NewLine(len), 1, k)
    /\ Rename
    /\ writes' = writes + 1
    /\ UNCHANGED <<sessions, opened>>
    /\ mishaps \subseteq mishaps' /\ (k \in 1 .. len - 1 => "short" \in mishaps')
    /\ IF handle' THEN /\ RotationDone
                       /\ \E ok \in BOOLEAN : Answered(len, ok, 0)
                       /\ Taken(len, k, 0) \/ "interrupted" \in mishaps'
                       /\ "stuck" \notin mishaps' => Rotated' = (Rotated \cup {Target}) \ Obsolete
                  ELSE /\ status' # "OK" /\ stream' = stream /\ k = 0
                       /\ bytes_written' \in {0, bytes_written}
                       /\ \/ UNCHANGED <<rotation_sequence, rotated_paths>>
                          \/ RotationDone

Effect ==
    \/ Quiet \/ Opens \/ Straggles
    \/ \E n \in 0 .. Len(ActiveCells) : Closes(n)
    \/ \E len \in Sizes : \E k \in 0 .. len :
          Writes(len, k) \/ Rotates(len, k) \/ \E t \in Seq({Stray}) : Disturbs(len, k, t)

----------------------------------------------------------------------------
(* Lemmas about sequences *)

(* A record is as long as it says. *)
LEMMA LineIs ==
    ASSUME NEW n \in Nat, NEW len \in Nat, NEW k \in 0 .. len
    PROVE  /\ Line(n, len) \in Seq(Cells) /\ Len(Line(n, len)) = len
           /\ SubSeq(Line(n, len), 1, k) \in Seq(Cells)
           /\ Len(SubSeq(Line(n, len), 1, k)) = k
           /\ \A i \in 1 .. k : SubSeq(Line(n, len), 1, k)[i] = [rec |-> n, at |-> i, of |-> len]
           /\ SubSeq(Line(n, len), 1, len) = Line(n, len)
<1>1. Line(n, len) \in Seq(Cells) /\ Len(Line(n, len)) = len
  <2>1. \A i \in 1 .. len : [rec |-> n, at |-> i, of |-> len] \in Cells
    BY DEF Cells
  <2>2. Line(n, len) \in [1 .. len -> Cells]
    BY <2>1 DEF Line
  <2> QED BY <2>2, LenProperties
<1>2. \A i \in 1 .. len : Line(n, len)[i] = [rec |-> n, at |-> i, of |-> len]
  BY DEF Line
<1> DEFINE L == Line(n, len)
<1> HIDE DEF L
<1>3. /\ SubSeq(L, 1, k) \in Seq(Cells) /\ Len(SubSeq(L, 1, k)) = k
      /\ \A i \in 1 .. k : SubSeq(L, 1, k)[i] = L[i]
  BY <1>1, SubSeqProperties DEF L
<1>4. SubSeq(L, 1, len) = L
  BY <1>1, SubSeqFull DEF L
<1> QED BY <1>1, <1>2, <1>3, <1>4 DEF L

(* Strays are cells. *)
LEMMA StraysAre ==
    /\ Stray \in Cells /\ Stray.rec = 0 /\ << >> \in Seq({Stray})
    /\ \A t \in Seq({Stray}) : t \in Seq(Cells)
    /\ \A n \in Nat : [i \in 1 .. n |-> Stray] \in Seq({Stray})
<1>1. Stray \in Cells /\ Stray.rec = 0
  BY DEF Stray, Cells
<1>2. ASSUME NEW t \in Seq({Stray}) PROVE t \in Seq(Cells)
  <2>1. t \in [1 .. Len(t) -> {Stray}] /\ Len(t) \in Nat
    BY LenProperties
  <2>2. t \in [1 .. Len(t) -> Cells]
    BY <1>1, <2>1
  <2> QED BY <2>1, <2>2, LenProperties
<1>3. ASSUME NEW n \in Nat PROVE [i \in 1 .. n |-> Stray] \in Seq({Stray})
  <2>1. [i \in 1 .. n |-> Stray] \in [1 .. n -> {Stray}]
    OBVIOUS
  <2> QED BY <2>1, LenProperties
<1> QED BY <1>1, <1>2, <1>3

(* A new ring is empty. *)
LEMMA NewRingIs ==
    RingTypes(NewRing) /\ NewRing.inflight = {} /\ NewRing.sq = << >> /\ NewRing.cq = << >>
<1>1. NewRing \in [sq : Seq(Ops), inflight : SUBSET Ops, cq : Seq(Nat)]
  BY DEF NewRing
<1>2. NewRing.inflight = {} /\ NewRing.sq = << >> /\ NewRing.cq = << >>
  BY DEF NewRing
<1> QED BY <1>1, <1>2, FS_EmptySet DEF RingTypes

(* What the kernel executes of finitely many operations is a sequence of   *)
(* operations and results, and nothing when there is none.                 *)
LEMMA ExecutionsAre ==
    ASSUME NEW ops \in SUBSET Ops, IsFiniteSet(ops), NEW done \in Executions(ops)
    PROVE  /\ done \in Seq([op : Ops, res : Nat]) /\ Len(done) \in Nat
           /\ ops = {} => done = << >>
<1>1. Cardinality(ops) \in Nat /\ (ops = {} => Cardinality(ops) = 0)
  BY FS_CardinalityType, FS_EmptySet
<1>2. PICK n \in 0 .. Cardinality(ops) : done \in [1 .. n -> Done(ops)]
  BY DEF Executions
<1>3. Done(ops) \subseteq [op : Ops, res : Nat]
  <2>1. ASSUME NEW o \in ops, NEW res \in Amounts(o.len)
        PROVE  [op |-> o, res |-> res] \in [op : Ops, res : Nat]
    <3>1. o \in Ops /\ o.len \in Nat
      BY DEF Ops
    <3>2. res \in Nat
      BY <3>1 DEF Amounts
    <3> QED BY <3>1, <3>2
  <2> QED BY <2>1 DEF Done
<1>4. n \in Nat /\ done \in [1 .. n -> [op : Ops, res : Nat]]
  BY <1>1, <1>2, <1>3
<1>5. done \in Seq([op : Ops, res : Nat]) /\ Len(done) = n
  <2>1. \A S : \A s \in [1 .. n -> S] : s \in Seq(S) /\ Len(s) = n
    BY <1>4, LenProperties
  <2> QED BY <1>4, <2>1, Zenon
<1>6. ops = {} => done = << >>
  BY <1>1, <1>2, <1>5, EmptySeq
<1> QED BY <1>4, <1>5, <1>6

(* What a call that waited leaves in the ring. *)
LEMMA WaitLeaves ==
    ASSUME NEW r, RingTypes(r), NEW len \in Nat, NEW op \in Ops, NEW e \in Waits(r, len)
    PROVE  /\ RingTypes(LeftAfter(r, op, e))
           /\ Len(e.done) \in Nat /\ OwnResult(e) \in 0 .. len
           /\ r = NewRing =>
                 /\ e.done = << >>
                 /\ ~e.interrupted => /\ LeftAfter(r, op, e) = NewRing
                                      /\ Head(Results(r, e)) = OwnResult(e)
<1>r. /\ r.sq \in Seq(Ops) /\ r.inflight \in SUBSET Ops /\ r.cq \in Seq(Nat)
      /\ IsFiniteSet(r.inflight)
  BY DEF RingTypes
<1>l. Left(r) \in SUBSET Ops /\ IsFiniteSet(Left(r)) /\ (r = NewRing => Left(r) = {})
  <2>1. Len(r.sq) \in Nat /\ \A i \in 1 .. Len(r.sq) : r.sq[i] \in Ops
    BY <1>r, LenProperties, ElementOfSeq
  <2>2. IsFiniteSet(1 .. Len(r.sq))
    BY <2>1, FS_Interval
  <2>3. IsFiniteSet({r.sq[i] : i \in 1 .. Len(r.sq)})
    <3>1. [i \in 1 .. Len(r.sq) |-> r.sq[i]]
             \in Surjection(1 .. Len(r.sq), {r.sq[i] : i \in 1 .. Len(r.sq)})
      BY DEF Surjection
    <3> QED BY <2>2, <3>1, FS_Surjection
  <2>4. r = NewRing => Len(r.sq) = 0 /\ r.inflight = {}
    BY NewRingIs
  <2>5. IsFiniteSet(Left(r))
    BY <1>r, <2>3, FS_Union DEF Left
  <2> QED BY <1>r, <2>1, <2>4, <2>5 DEF Left
<1>a. Amounts(len) \subseteq 0 .. len
  BY DEF Amounts
<1>e. /\ e.done \in Executions(Left(r)) /\ e.interrupted \in BOOLEAN
      /\ e.own = << >> \/ \E k \in 0 .. len : e.own = <<k>>
      /\ e.interrupted \/ Results(r, e) # << >>
  BY <1>a DEF Waits
<1>d. /\ e.done \in Seq([op : Ops, res : Nat]) /\ Len(e.done) \in Nat
      /\ r = NewRing => e.done = << >>
  BY <1>l, <1>e, ExecutionsAre
<1>o. OwnResult(e) \in 0 .. len /\ e.own \in Seq(Nat)
  <2>1. CASE e.own = << >>
    BY <2>1 DEF OwnResult
  <2>2. ASSUME NEW k \in 0 .. len, e.own = <<k>> PROVE OwnResult(e) = k /\ e.own \in Seq(Nat)
    <3>1. <<k>> # << >> /\ <<k>>[1] = k /\ <<k>> \in Seq(Nat)
      OBVIOUS
    <3> QED BY <2>2, <3>1 DEF OwnResult
  <2> QED BY <1>e, <2>1, <2>2
<1> DEFINE rs == [i \in 1 .. Len(e.done) |-> e.done[i].res]
<1>s. rs \in Seq(Nat) /\ (e.done = << >> => rs = << >>)
  <2>1. \A i \in 1 .. Len(e.done) : e.done[i] \in [op : Ops, res : Nat]
    BY <1>d, ElementOfSeq
  <2>2. rs \in [1 .. Len(e.done) -> Nat]
    BY <2>1
  <2>3. rs \in Seq(Nat) /\ Len(rs) = Len(e.done)
    BY <1>d, <2>2, LenProperties
  <2> HIDE DEF rs
  <2> QED BY <2>3, EmptySeq
<1>c. Results(r, e) = (r.cq \o rs) \o e.own /\ Results(r, e) \in Seq(Nat)
  <2> HIDE DEF rs
  <2>1. (r.cq \o rs) \o e.own \in Seq(Nat)
    BY <1>r, <1>o, <1>s, ConcatProperties
  <2> QED BY <2>1 DEF Results, rs
<1>1. RingTypes(LeftAfter(r, op, e))
  <2> DEFINE left == Left(r) \ {e.done[i].op : i \in 1 .. Len(e.done)}
             own == IF e.own = << >> THEN {op} ELSE {}
             cq == IF e.interrupted THEN Results(r, e) ELSE Tail(Results(r, e))
  <2>1. left \in SUBSET Ops /\ IsFiniteSet(left)
    BY <1>l, FS_Subset
  <2>2. own \in SUBSET Ops /\ IsFiniteSet(own)
    BY FS_Singleton, FS_EmptySet
  <2>3. cq \in Seq(Nat)
    BY <1>e, <1>c, HeadTailProperties
  <2> HIDE DEF left, own, cq
  <2>4. IsFiniteSet(left \cup own) /\ left \cup own \in SUBSET Ops
    BY <2>1, <2>2, FS_Union
  <2>5. LeftAfter(r, op, e) = [sq |-> << >>, inflight |-> left \cup own, cq |-> cq]
    BY DEF LeftAfter, left, own, cq
  <2> QED BY <2>3, <2>4, <2>5 DEF RingTypes
<1>2. ASSUME r = NewRing, ~e.interrupted
      PROVE  LeftAfter(r, op, e) = NewRing /\ Head(Results(r, e)) = OwnResult(e)
  <2>1. r.cq = << >> /\ rs = << >> /\ Left(r) = {}
    BY <1>2, <1>d, <1>s, <1>l, NewRingIs
  <2>2. Results(r, e) = e.own
    <3>1. << >> \o << >> = << >> /\ \A s \in Seq(Nat) : << >> \o s = s
      BY ConcatEmptySeq
    <3> HIDE DEF rs
    <3> QED BY <1>c, <1>o, <2>1, <3>1, Zenon
  <2>3. PICK k \in 0 .. len : e.own = <<k>>
    BY <1>2, <1>e, <2>2
  <2>4. <<k>> # << >> /\ <<k>>[1] = k /\ Head(<<k>>) = k /\ Tail(<<k>>) = << >>
    OBVIOUS
  <2> QED BY <1>2, <2>1, <2>2, <2>3, <2>4 DEF LeftAfter, NewRing, OwnResult
<1> QED BY <1>1, <1>2, <1>d, <1>o

\* What the file and stdio have together grew by strays, if something was left,
\* and by a prefix of the line.  If no call was interrupted there are no strays
\* and the answer is right.
Wrote(w, content, buf, r, line) ==
    /\ w.content \in Seq(Cells) /\ w.buf \in Seq(Cells)
    /\ active_backend # "SYNC" => w.buf = << >>
    /\ RingTypes(w.ring)
    /\ active_backend = "SYNC" => w.ring = NewRing
    /\ w.ok \in BOOLEAN
    /\ \E t \in Seq({Stray}) : \E k \in 0 .. Len(line) :
          /\ w.content \o w.buf = ((content \o buf) \o t) \o SubSeq(line, 1, k)
          /\ Short(line, k) \subseteq w.mishaps
          /\ r = NewRing => t = << >>
          /\ r = NewRing /\ "interrupted" \notin w.mishaps =>
                w.ring = NewRing /\ w.mishaps = Short(line, k) /\ (w.ok <=> k = Len(line))

(* That is so however much a write takes and stdio pushes to the file. *)
LEMMA SyncEffect ==
    ASSUME NEW content \in Seq(Cells), NEW buf \in Seq(Cells), NEW line \in Seq(Cells),
           NEW w \in SyncWrite(content, buf, line), active_backend = "SYNC", NEW r
    PROVE  Wrote(w, content, buf, r, line)
<1>r. \A h : \A x, y \in Seq(Cells) : h = x \o y => (content \o x) \o y = content \o h
  BY Regroup, SMTT(30)
<1> DEFINE held(k) == buf \o SubSeq(line, 1, k)
<1>0. Len(line) \in Nat /\ Len(buf) \in Nat /\ Amounts(Len(line)) \subseteq 0 .. Len(line)
  BY LenProperties DEF Amounts
<1> DEFINE Out(k) == {[content |-> content \o SubSeq(held(k), 1, n),
                       buf |-> SubSeq(held(k), n + 1, Len(held(k))), ring |-> NewRing,
                       ok |-> k = Len(line), mishaps |-> Short(line, k)] :
                         n \in 0 .. Len(held(k))}
<1>p. \E k \in Amounts(Len(line)) : w \in Out(k)
  <2>1. w \in UNION {Out(k) : k \in Amounts(Len(line))}
    BY DEF SyncWrite
  <2> HIDE DEF Out
  <2> QED BY <2>1
<1>a. PICK k \in Amounts(Len(line)) : w \in Out(k)
  BY <1>p
<1>1. PICK n \in 0 .. Len(held(k)) :
           w = [content |-> content \o SubSeq(held(k), 1, n),
                buf |-> SubSeq(held(k), n + 1, Len(held(k))), ring |-> NewRing,
                ok |-> k = Len(line), mishaps |-> Short(line, k)]
  BY <1>a
<1>k. k \in 0 .. Len(line)
  BY <1>0
<1>2. SubSeq(line, 1, k) \in Seq(Cells)
  BY <1>k, Split
<1>3. held(k) \in Seq(Cells)
  BY <1>2, ConcatProperties
<1>h. PICK h \in Seq(Cells) : h = held(k)
  BY <1>3
<1>4. n \in 0 .. Len(h)
  BY <1>1, <1>h
<1>5. /\ SubSeq(h, 1, n) \in Seq(Cells) /\ SubSeq(h, n + 1, Len(h)) \in Seq(Cells)
      /\ h = SubSeq(h, 1, n) \o SubSeq(h, n + 1, Len(h))
  BY <1>4, Split
<1>q. \A x, y \in Seq(Cells) : h = x \o y => (content \o x) \o y = content \o h
  BY <1>r, Zenon
<1>6. (content \o SubSeq(h, 1, n)) \o SubSeq(h, n + 1, Len(h)) = content \o h
  BY <1>5, <1>q, Zenon
<1>7. content \o h = (content \o buf) \o SubSeq(line, 1, k)
  BY <1>2, <1>h, <1>q, Zenon
<1>8. content \o SubSeq(h, 1, n) \in Seq(Cells)
  BY <1>5, ConcatProperties
<1>9. /\ w.content = content \o SubSeq(h, 1, n) /\ w.buf = SubSeq(h, n + 1, Len(h))
      /\ w.ring = NewRing /\ w.mishaps = Short(line, k)
  BY <1>1, <1>h
<1>o. w.ok <=> k = Len(line)
  BY <1>1
<1>b. w.ok \in BOOLEAN
  BY <1>1
<1>t. (content \o buf) \o << >> = content \o buf /\ << >> \in Seq({Stray})
  BY ConcatProperties, ConcatEmptySeq, StraysAre
<1>c. w.content \o w.buf = ((content \o buf) \o << >>) \o SubSeq(line, 1, k)
  BY <1>6, <1>7, <1>9, <1>t, Zenon
<1>d. \E t \in Seq({Stray}) : \E j \in 0 .. Len(line) :
          /\ w.content \o w.buf = ((content \o buf) \o t) \o SubSeq(line, 1, j)
          /\ Short(line, j) \subseteq w.mishaps
          /\ r = NewRing => t = << >>
          /\ r = NewRing /\ "interrupted" \notin w.mishaps =>
                w.ring = NewRing /\ w.mishaps = Short(line, j) /\ (w.ok <=> j = Len(line))
  BY <1>k, <1>9, <1>o, <1>t, <1>c, Zenon
<1> QED BY <1>5, <1>8, <1>9, <1>b, <1>d, NewRingIs DEF Wrote

(* And whatever earlier calls left in the ring. *)
LEMMA UringEffect ==
    ASSUME NEW content \in Seq(Cells), NEW line \in Seq(Cells), Len(line) # 0, NEW r, RingTypes(r),
           NEW w \in UringWrite(content, r, line), active_backend # "SYNC"
    PROVE  Wrote(w, content, << >>, r, line)
<1>0. Len(line) \in Nat /\ 0 \in 0 .. Len(line) /\ SubSeq(line, 1, 0) = << >>
      /\ content \o << >> = content /\ << >> \in Seq(Cells) /\ << >> \in Seq({Stray})
  BY LenProperties, SubSeqEmpty, ConcatEmptySeq, StraysAre
<1>s. Short(line, 0) = {}
  BY <1>0 DEF Short, Mishap
<1>p. OpOf(line) \in Ops
  <2>1. line[1] \in Cells
    BY <1>0, ElementOfSeq
  <2>2. line[1].rec \in Nat
    BY <2>1 DEF Cells
  <2> QED BY <1>0, <2>2 DEF OpOf, Ops
<1>1. ASSUME NEW ring1, RingTypes(ring1), NEW why, w = Refused(content, ring1, why),
             "interrupted" \in why \/ r # NewRing
      PROVE  Wrote(w, content, << >>, r, line)
  <2>1. /\ w.content = content /\ w.buf = << >> /\ w.ring = ring1 /\ w.ok = FALSE
        /\ w.mishaps = why
    BY <1>1 DEF Refused
  <2>2. content = ((content \o << >>) \o << >>) \o SubSeq(line, 1, 0)
    BY <1>0
  <2>3. w.content \o w.buf = ((content \o << >>) \o << >>) \o SubSeq(line, 1, 0)
    BY <1>0, <2>1, <2>2, Zenon
  <2>4. \E t \in Seq({Stray}) : \E k \in 0 .. Len(line) :
          /\ w.content \o w.buf = ((content \o << >>) \o t) \o SubSeq(line, 1, k)
          /\ Short(line, k) \subseteq w.mishaps
          /\ r = NewRing => t = << >>
          /\ r = NewRing /\ "interrupted" \notin w.mishaps =>
                w.ring = NewRing /\ w.mishaps = Short(line, k) /\ (w.ok <=> k = Len(line))
    BY <1>0, <1>s, <1>1, <2>1, <2>3, Zenon
  <2> QED BY <1>0, <1>1, <2>1, <2>4 DEF Wrote
<1>2. CASE Len(r.sq) = Depth
  <2>1. r # NewRing
    BY <1>2, FileSinkConstants, NewRingIs
  <2>2. w = Refused(content, r, {})
    BY <1>2 DEF UringWrite
  <2> QED BY <1>1, <2>1, <2>2
<1>3. CASE w = Refused(content, [r EXCEPT !.sq = Append(@, OpOf(line))], {"interrupted"})
  <2>1. Append(r.sq, OpOf(line)) \in Seq(Ops)
    BY <1>p, AppendProperties DEF RingTypes
  <2>2. RingTypes([r EXCEPT !.sq = Append(@, OpOf(line))])
    BY <2>1 DEF RingTypes
  <2> QED BY <1>1, <1>3, <2>2
<1>4. ASSUME NEW e \in Waits(r, Len(line)), w = Waited(content, r, line, e)
      PROVE  Wrote(w, content, << >>, r, line)
  <2> DEFINE k == OwnResult(e)
             t == [i \in 1 .. Len(e.done) |-> Stray]
             ring1 == LeftAfter(r, OpOf(line), e)
             res == Head(Results(r, e))
  <2>1. /\ RingTypes(ring1) /\ Len(e.done) \in Nat /\ k \in 0 .. Len(line)
        /\ r = NewRing => e.done = << >> /\ (~e.interrupted => ring1 = NewRing /\ res = k)
    BY <1>0, <1>p, WaitLeaves
  <2>2. /\ w.content = (content \o t) \o SubSeq(line, 1, k) /\ w.buf = << >> /\ w.ring = ring1
        /\ w.mishaps = Short(line, k) \cup Mishap("interrupted", e.interrupted)
        /\ w.ok = (~e.interrupted /\ res = Len(line))
    BY <1>4 DEF Waited
  <2>3. t \in Seq({Stray}) /\ (r = NewRing => t = << >>)
    <3>1. t \in Seq({Stray})
      BY <2>1, StraysAre
    <3>2. e.done = << >> => t = << >>
      OBVIOUS
    <3> QED BY <2>1, <3>1, <3>2
  <2> HIDE DEF t, k, ring1, res
  <2>4. SubSeq(line, 1, k) \in Seq(Cells) /\ t \in Seq(Cells)
    BY <2>1, <2>3, Split, StraysAre
  <2>5. content \o t \in Seq(Cells)
    BY <2>4, ConcatProperties
  <2>6. (content \o t) \o SubSeq(line, 1, k) \in Seq(Cells)
    BY <2>4, <2>5, ConcatProperties
  <2>7. w.content \o w.buf = ((content \o << >>) \o t) \o SubSeq(line, 1, k)
    <3>1. w.content \o << >> = w.content
      BY <2>2, <2>6, ConcatEmptySeq
    <3> QED BY <1>0, <2>2, <3>1, Zenon
  <2>8. ASSUME r = NewRing, "interrupted" \notin w.mishaps
        PROVE  w.ring = NewRing /\ w.mishaps = Short(line, k) /\ (w.ok <=> k = Len(line))
    <3>1. ~e.interrupted
      BY <2>2, <2>8 DEF Mishap
    <3> QED BY <2>1, <2>2, <2>8, <3>1 DEF Mishap
  <2>9. w.ok \in BOOLEAN
    BY <2>2
  <2>10. Short(line, k) \subseteq w.mishaps
    BY <2>2
  <2>11. \E u \in Seq({Stray}) : \E j \in 0 .. Len(line) :
          /\ w.content \o w.buf = ((content \o << >>) \o u) \o SubSeq(line, 1, j)
          /\ Short(line, j) \subseteq w.mishaps
          /\ r = NewRing => u = << >>
          /\ r = NewRing /\ "interrupted" \notin w.mishaps =>
                w.ring = NewRing /\ w.mishaps = Short(line, j) /\ (w.ok <=> j = Len(line))
    BY <2>1, <2>3, <2>7, <2>8, <2>10, Zenon
  <2> QED BY <1>0, <2>1, <2>2, <2>6, <2>9, <2>11 DEF Wrote
<1> QED BY <1>2, <1>3, <1>4 DEF UringWrite

(* So a write of either backend. *)
LEMMA BackendEffect ==
    ASSUME NEW content \in Seq(Cells), NEW buf \in Seq(Cells), NEW line \in Seq(Cells),
           Len(line) # 0, NEW r, RingTypes(r),
           NEW w \in BackendWrite(content, buf, r, line),
           active_backend # "SYNC" => buf = << >>
    PROVE  Wrote(w, content, buf, r, line)
<1>1. CASE active_backend = "SYNC"
  BY <1>1, SyncEffect DEF BackendWrite
<1>2. CASE active_backend # "SYNC"
  BY <1>2, UringEffect DEF BackendWrite
<1> QED BY <1>1, <1>2

----------------------------------------------------------------------------
(* Every step has one of these effects *)

(* The active file with what stdio holds of it is a sequence of cells. *)
LEMMA CellsAre ==
    ASSUME FileTypes
    PROVE  /\ ActiveCells \in Seq(Cells)
           /\ Active \in DOMAIN files =>
                 files[Active] \in Seq(Cells) /\ ActiveCells = files[Active] \o buffer
           /\ \A n \in Rotated : n \in Stamps /\ files[n] \in Seq(Cells)
           /\ Active \notin Stamps
<1>1. Active \in DOMAIN files => files[Active] \in Seq(Cells)
  BY DEF FileTypes
<1>2. ActiveCells \in Seq(Cells)
  BY <1>1, ConcatProperties DEF FileTypes, ActiveCells
<1>3. Active \notin Stamps
  BY DEF Active, Stamps
<1> QED BY <1>1, <1>2, <1>3 DEF ActiveCells, FileTypes, Rotated

(* New content of the active file leaves the rotated ones alone. *)
LEMMA OnActive ==
    ASSUME FileTypes, Active \in DOMAIN files, NEW content \in Seq(Cells),
           files' = [files EXCEPT ![Active] = content]
    PROVE  /\ SameArchive /\ DOMAIN files' = DOMAIN files
           /\ files' \in [DOMAIN files' -> Seq(Cells)]
           /\ ActiveCells' = content \o buffer'
<1>1. DOMAIN files' = DOMAIN files /\ files' \in [DOMAIN files -> Seq(Cells)]
      /\ files'[Active] = content /\ \A n \in DOMAIN files : n # Active => files'[n] = files[n]
  BY DEF FileTypes
<1>2. SameArchive
  BY <1>1 DEF SameArchive, Rotated
<1> QED BY <1>1, <1>2 DEF ActiveCells

(* Moving n cells from stdio to the file changes nothing a reader sees.    *)
LEMMA FlushEffect ==
    ASSUME FileTypes, Active \in DOMAIN files, NEW n \in 0 .. Len(buffer),
           files' = [files EXCEPT ![Active] = @ \o SubSeq(buffer, 1, n)]
    PROVE  /\ SameArchive /\ DOMAIN files' = DOMAIN files
           /\ files' \in [DOMAIN files' -> Seq(Cells)]
           /\ buffer' = SubSeq(buffer, n + 1, Len(buffer)) =>
                 ActiveCells' = ActiveCells /\ buffer' \in Seq(Cells)
           /\ buffer' = << >> => ActiveCells' = SubSeq(ActiveCells, 1, Len(files[Active]) + n)
           /\ buffer' = << >> /\ n = Len(buffer) => ActiveCells' = ActiveCells
           /\ Len(files[Active]) + n \in 0 .. Len(ActiveCells)
           /\ Len(files[Active]) + n < Len(ActiveCells) <=> n < Len(buffer)
<1>1. /\ files[Active] \in Seq(Cells) /\ buffer \in Seq(Cells)
      /\ ActiveCells = files[Active] \o buffer
  BY CellsAre DEF FileTypes
<1>2. /\ SubSeq(buffer, 1, n) \in Seq(Cells) /\ SubSeq(buffer, n + 1, Len(buffer)) \in Seq(Cells)
      /\ buffer = SubSeq(buffer, 1, n) \o SubSeq(buffer, n + 1, Len(buffer))
      /\ Len(SubSeq(buffer, 1, n)) = n
  BY <1>1, Split
<1>3. PICK c \in Seq(Cells) : c = files[Active] \o SubSeq(buffer, 1, n)
  BY <1>1, <1>2, ConcatProperties
<1>4. /\ SameArchive /\ DOMAIN files' = DOMAIN files
      /\ files' \in [DOMAIN files' -> Seq(Cells)]
      /\ ActiveCells' = c \o buffer'
  <2>1. files' = [files EXCEPT ![Active] = c]
    BY <1>3
  <2> QED BY <2>1, OnActive
<1>5. ActiveCells = c \o SubSeq(buffer, n + 1, Len(buffer))
  BY <1>1, <1>3, Shift, Zenon
<1>6. /\ Len(files[Active]) \in Nat /\ Len(buffer) \in Nat
      /\ Len(ActiveCells) = Len(files[Active]) + Len(buffer)
  BY <1>1, ConcatProperties
<1>7. Len(c) = Len(files[Active]) + n /\ c \o << >> = c
  BY <1>1, <1>2, <1>3, ConcatProperties, ConcatEmptySeq
<1>8. SubSeq(ActiveCells, 1, Len(c)) = c
  <2>1. \A y \in Seq(Cells) : SubSeq(c \o y, 1, Len(c)) = c
    BY PrefixOfConcat
  <2> QED BY <1>2, <1>5, <2>1, Zenon
<1>9. n = Len(buffer) => c = ActiveCells
  BY <1>1, <1>3, SubSeqFull
<1>a. buffer' = SubSeq(buffer, n + 1, Len(buffer)) =>
         ActiveCells' = ActiveCells /\ buffer' \in Seq(Cells)
  BY <1>2, <1>4, <1>5, Zenon
<1>b. buffer' = << >> => ActiveCells' = c
  BY <1>4, <1>7, Zenon
<1>c. buffer' = << >> => ActiveCells' = SubSeq(ActiveCells, 1, Len(files[Active]) + n)
  BY <1>7, <1>8, <1>b, Zenon
<1>d. buffer' = << >> /\ n = Len(buffer) => ActiveCells' = ActiveCells
  BY <1>9, <1>b, Zenon
<1>e. /\ Len(files[Active]) + n \in 0 .. Len(ActiveCells)
      /\ Len(files[Active]) + n < Len(ActiveCells) <=> n < Len(buffer)
  BY <1>6
<1> QED BY <1>4, <1>a, <1>c, <1>d, <1>e, Zenon

(* Nothing happens to the log. *)
LEMMA QuietEffect ==
    ASSUME FileTypes, LogTypes, Control,
           \/ \E len \in Sizes : \/ WriteNoHandle(len) \/ RotatePathFails(len)
                                 \/ RotateFlushFails(len) \/ RotateRenameFails(len)
           \/ Flush \/ Tick \/ ClockBack
    PROVE  FileTypes' /\ Control' /\ Quiet
<1>0. buffer \in Seq(Cells) /\ Len(buffer) \in Nat /\ writes \in Nat /\ clock \in Nat
  BY LenProperties DEF FileTypes, LogTypes
<1>1. ASSUME UNCHANGED <<sink, files, buffer, history, sessions>>, clock' \in Nat,
             writes' \in {writes, writes + 1}, status' = "OK" => status = "OK"
      PROVE  FileTypes' /\ Control' /\ Quiet
  <2>1. UNCHANGED <<opened, active_backend, handle, ring, bytes_written, rotation_sequence,
                    rotated_paths, files, buffer, stream, cuts, renamed, mishaps, sessions>>
    BY <1>1 DEF sink, history
  <2>2. FileTypes' /\ Control'
    BY <1>1, <2>1 DEF FileTypes, RingTypes, Control
  <2>3. SameArchive /\ ActiveCells' = ActiveCells
    BY <2>1 DEF SameArchive, Rotated, ActiveCells
  <2> QED BY <1>1, <2>1, <2>2, <2>3 DEF Quiet
<1>2. ASSUME NEW n \in 0 .. Len(buffer),
             handle,
             files' = [files EXCEPT ![Active] = @ \o SubSeq(buffer, 1, n)],
             \/ buffer' = SubSeq(buffer, n + 1, Len(buffer)) /\ active_backend = "SYNC"
             \/ buffer' = << >> /\ n = Len(buffer),
             UNCHANGED <<opened, active_backend, bytes_written, rotation_sequence,
                         rotated_paths, clock, sessions, history>>,
             writes' \in {writes, writes + 1}, status' = "OK" => status = "OK",
             handle' => handle, ~handle' => buffer' = << >> /\ ring' = NewRing,
             ring' \in {ring, NewRing}
      PROVE  FileTypes' /\ Control' /\ Quiet
  <2>1. Active \in DOMAIN files /\ opened
    BY <1>2 DEF Control
  <2>2. /\ SameArchive /\ DOMAIN files' = DOMAIN files
        /\ files' \in [DOMAIN files' -> Seq(Cells)]
        /\ ActiveCells' = ActiveCells /\ buffer' \in Seq(Cells)
    <3>1. << >> \in Seq(Cells)
      OBVIOUS
    <3>2. /\ SameArchive /\ DOMAIN files' = DOMAIN files
          /\ files' \in [DOMAIN files' -> Seq(Cells)]
          /\ buffer' = SubSeq(buffer, n + 1, Len(buffer)) =>
                ActiveCells' = ActiveCells /\ buffer' \in Seq(Cells)
          /\ buffer' = << >> /\ n = Len(buffer) => ActiveCells' = ActiveCells
      BY <1>2, <2>1, FlushEffect
    <3> QED BY <1>2, <3>1, <3>2, Zenon
  <2>m. UNCHANGED <<stream, cuts, renamed, mishaps>>
    BY <1>2 DEF history
  <2>3. FileTypes'
    <3>1. RingTypes(ring)'
      BY <1>2, NewRingIs DEF FileTypes, RingTypes
    <3> QED BY <1>2, <2>2, <3>1 DEF FileTypes
  <2>4. Control'
    BY <1>2, <2>1, <2>2, <2>m DEF Control
  <2>5. Quiet
    BY <1>2, <2>2, <2>m DEF Quiet
  <2> QED BY <2>3, <2>4, <2>5
<1>3. ASSUME NEW len \in Sizes, WriteNoHandle(len) PROVE FileTypes' /\ Control' /\ Quiet
  BY <1>0, <1>1, <1>3 DEF WriteNoHandle, Calls
<1>4. ASSUME NEW len \in Sizes, RotatePathFails(len) PROVE FileTypes' /\ Control' /\ Quiet
  BY <1>0, <1>1, <1>4 DEF RotatePathFails, Calls
<1>5. ASSUME NEW len \in Sizes, RotateFlushFails(len) PROVE FileTypes' /\ Control' /\ Quiet
  <2>1. PICK n \in 0 .. Len(buffer) - 1 :
           /\ files' = [files EXCEPT ![Active] = @ \o SubSeq(buffer, 1, n)]
           /\ buffer' = SubSeq(buffer, n + 1, Len(buffer))
    BY <1>5 DEF RotateFlushFails, Unflushed
  <2>2. n \in 0 .. Len(buffer)
    BY <1>0
  <2>3. /\ handle /\ active_backend = "SYNC" /\ UNCHANGED <<sink, clock, sessions, history>>
        /\ writes' = writes + 1 /\ status' = "SINK_ERROR"
    BY <1>5 DEF RotateFlushFails, rotation_due, Calls
  <2>4. UNCHANGED <<opened, active_backend, handle, ring, bytes_written, rotation_sequence,
                    rotated_paths>>
    BY <2>3 DEF sink
  <2> QED BY <1>2, <2>1, <2>2, <2>3, <2>4
<1>6. ASSUME NEW len \in Sizes, RotateRenameFails(len) PROVE FileTypes' /\ Control' /\ Quiet
  <2>1. buffer = SubSeq(buffer, 1, Len(buffer))
    BY <1>0, SubSeqFull
  <2>2. files' = [files EXCEPT ![Active] = @ \o SubSeq(buffer, 1, Len(buffer))]
    BY <1>6, <2>1 DEF RotateRenameFails
  <2>3. /\ handle /\ handle' = FALSE /\ buffer' = << >> /\ ring' = NewRing
        /\ writes' = writes + 1 /\ status' = "SINK_ERROR"
        /\ UNCHANGED <<opened, active_backend, bytes_written, rotation_sequence, rotated_paths,
                       clock, sessions, history>>
    BY <1>6 DEF RotateRenameFails, rotation_due, Calls
  <2>4. Len(buffer) \in 0 .. Len(buffer)
    BY <1>0
  <2> QED BY <1>2, <2>2, <2>3, <2>4
<1>7. CASE Flush
  <2>1. PICK n \in Flushed : /\ files' = [files EXCEPT ![Active] = @ \o SubSeq(buffer, 1, n)]
                             /\ buffer' = SubSeq(buffer, n + 1, Len(buffer))
    BY <1>7 DEF Flush, Unflushed
  <2>2. n \in 0 .. Len(buffer)
    BY <1>0 DEF Flushed
  <2>3. active_backend # "SYNC" => n = Len(buffer)
    BY DEF Flushed
  <2>4. n = Len(buffer) => buffer' = << >>
    BY <1>0, <2>1, SubSeqEmpty
  <2>5. handle /\ UNCHANGED <<sink, clock, status, writes, sessions, history>>
    BY <1>7 DEF Flush
  <2>6. UNCHANGED <<opened, active_backend, handle, ring, bytes_written, rotation_sequence,
                    rotated_paths>>
    BY <2>5 DEF sink
  <2> QED BY <1>2, <2>1, <2>2, <2>3, <2>4, <2>5, <2>6
<1>8. CASE Tick
  BY <1>0, <1>1, <1>8 DEF Tick
<1>9. CASE ClockBack
  BY <1>0, <1>1, <1>9 DEF ClockBack
<1> QED BY <1>3, <1>4, <1>5, <1>6, <1>7, <1>8, <1>9

(* A session begins. *)
LEMMA OpenEffect ==
    ASSUME FileTypes, LogTypes, Control,
           (\E request \in Requests : Open(request)) \/ OpenFails
    PROVE  FileTypes' /\ Control' /\ Opens
<1>1. ~opened /\ buffer = << >>
  BY DEF Control, Open, OpenFails
<1>2. CASE OpenFails
  <2>1. /\ UNCHANGED <<opened, files, buffer, clock, status, writes, stream, cuts, renamed, mishaps>>
        /\ active_backend' = "SYNC" /\ handle' = FALSE /\ sessions' = sessions + 1
        /\ bytes_written' = 0 /\ rotation_sequence' = 0 /\ rotated_paths' = << >>
        /\ ring' = NewRing
    BY <1>2 DEF OpenFails, history
  <2>2. FileTypes' /\ Control'
    BY <1>1, <2>1, NewRingIs DEF FileTypes, RingTypes, Control
  <2>3. SameArchive /\ ActiveCells' = ActiveCells
    BY <2>1 DEF SameArchive, Rotated, ActiveCells
  <2> QED BY <1>1, <2>1, <2>2, <2>3 DEF Opens
<1>3. ASSUME NEW request \in Requests, Open(request) PROVE FileTypes' /\ Control' /\ Opens
  <2>1. /\ UNCHANGED <<buffer, clock, status, writes, stream, cuts, renamed, mishaps>>
        /\ opened' = TRUE /\ handle' = TRUE /\ sessions' = sessions + 1
        /\ bytes_written' = 0 /\ rotation_sequence' = 0 /\ rotated_paths' = << >>
        /\ files' = Created(files) /\ ring' = NewRing
    BY <1>3 DEF Open, history
  <2>2. active_backend' \in {"SYNC", "IO_URING"}
    BY <1>3 DEF Open, BackendChoices
  <2>3. /\ DOMAIN files' = DOMAIN files \cup {Active}
        /\ files' \in [DOMAIN files' -> Seq(Cells)]
        /\ \A n \in DOMAIN files : files'[n] = files[n]
        /\ Active \notin DOMAIN files => files'[Active] = << >>
    <3>1. << >> \in Seq(Cells)
      OBVIOUS
    <3> QED BY <2>1, <3>1 DEF Created, FileTypes
  <2>4. FileTypes' /\ Control'
    BY <1>1, <2>1, <2>2, <2>3, NewRingIs DEF FileTypes, RingTypes, Control
  <2>5. SameArchive
    BY <2>3 DEF SameArchive, Rotated
  <2>6. ActiveCells' = ActiveCells
    <3>1. << >> \o << >> = << >>
      BY ConcatEmptySeq
    <3> QED BY <1>1, <2>1, <2>3, <3>1 DEF ActiveCells
  <2> QED BY <1>1, <2>1, <2>4, <2>5, <2>6 DEF Opens
<1> QED BY <1>2, <1>3

(* A session ends. *)
LEMMA CloseEffect ==
    ASSUME FileTypes, LogTypes, Control, Close
    PROVE  FileTypes' /\ Control' /\ \E n \in 0 .. Len(ActiveCells) : Closes(n)
<1>0. buffer \in Seq(Cells) /\ Len(buffer) \in Nat
  BY LenProperties DEF FileTypes
<1>c. ActiveCells \in Seq(Cells) /\ Len(ActiveCells) \in Nat
  BY CellsAre, LenProperties
<1>1. /\ opened /\ buffer' = << >> /\ opened' = FALSE /\ handle' = FALSE /\ rotated_paths' = << >>
      /\ ring' = NewRing
      /\ UNCHANGED <<active_backend, bytes_written, rotation_sequence, clock, status, writes,
                     sessions, stream, cuts, renamed>>
  BY DEF Close
<1>2. CASE handle
  <2>1. PICK n \in Flushed : /\ files' = [files EXCEPT ![Active] = @ \o SubSeq(buffer, 1, n)]
                             /\ mishaps' = mishaps \cup Mishap("lost", n < Len(buffer))
    BY <1>2 DEF Close
  <2>2. n \in 0 .. Len(buffer)
    BY <1>0 DEF Flushed
  <2>3. Active \in DOMAIN files
    BY <1>2 DEF Control
  <2>4. /\ SameArchive /\ DOMAIN files' = DOMAIN files
        /\ files' \in [DOMAIN files' -> Seq(Cells)]
        /\ ActiveCells' = SubSeq(ActiveCells, 1, Len(files[Active]) + n)
        /\ Len(files[Active]) + n \in 0 .. Len(ActiveCells)
        /\ Len(files[Active]) + n < Len(ActiveCells) <=> n < Len(buffer)
    BY <1>1, <2>1, <2>2, <2>3, FlushEffect
  <2>5. FileTypes' /\ Control'
    BY <1>1, <2>4, NewRingIs DEF FileTypes, RingTypes, Control
  <2>6. Closes(Len(files[Active]) + n)
    BY <1>1, <2>1, <2>4 DEF Closes, Mishap
  <2> QED BY <2>4, <2>5, <2>6
<1>3. CASE ~handle
  <2>1. UNCHANGED <<files, buffer, mishaps>>
    BY <1>1, <1>3 DEF Close, Control
  <2>2. FileTypes' /\ Control'
    BY <1>1, <2>1, NewRingIs DEF FileTypes, RingTypes, Control
  <2>3. SameArchive /\ ActiveCells' = ActiveCells
    BY <2>1 DEF SameArchive, Rotated, ActiveCells
  <2>4. SubSeq(ActiveCells, 1, Len(ActiveCells)) = ActiveCells
    BY <1>c, SubSeqFull
  <2>5. mishaps' = mishaps \cup Mishap("lost", Len(ActiveCells) < Len(ActiveCells))
    BY <1>c, <2>1 DEF Mishap
  <2>6. Closes(Len(ActiveCells))
    BY <1>1, <2>3, <2>4, <2>5 DEF Closes
  <2> QED BY <1>c, <2>2, <2>6
<1> QED BY <1>2, <1>3

(* What the caller is told. *)
LEMMA AnswerEffect ==
    ASSUME LogTypes, NEW len \in Nat, NEW ok, NEW already \in Nat,
           Answer(NewLine(len), ok, already)
    PROVE  Answered(len, ok, already)
<1>1. Len(NewLine(len)) = len
  <2>1. writes + 1 \in Nat /\ 0 \in 0 .. len
    BY DEF LogTypes
  <2>2. Len(Line(writes + 1, len)) = len
    BY <2>1, LineIs, Zenon
  <2> QED BY <2>2 DEF NewLine
<1> QED BY <1>1 DEF Answer, Answered, Counted

(* A record is written to the active file. *)
LEMMA WriteEffect ==
    ASSUME FileTypes, LogTypes, Control, NEW len \in Sizes, WriteInPlace(len)
    PROVE  /\ FileTypes' /\ Control'
           /\ \E k \in 0 .. len : Writes(len, k) \/ \E t \in Seq({Stray}) : Disturbs(len, k, t)
<1>0. len \in Nat /\ len # 0 /\ NewLine(len) \in Seq(Cells) /\ Len(NewLine(len)) = len
  <2>1. len \in Nat /\ len # 0 /\ writes + 1 \in Nat /\ 0 \in 0 .. len
    BY FileSinkConstants DEF LogTypes
  <2> QED BY <2>1, LineIs DEF NewLine
<1>1. Active \in DOMAIN files /\ opened /\ handle /\ buffer \in Seq(Cells)
  BY DEF WriteInPlace, Control, FileTypes
<1>2. files[Active] \in Seq(Cells) /\ ActiveCells = files[Active] \o buffer
  BY <1>1, CellsAre
<1>3. PICK w \in BackendWrite(files[Active], buffer, ring, NewLine(len)) :
         /\ files' = [files EXCEPT ![Active] = w.content]
         /\ buffer' = w.buf /\ ring' = w.ring
         /\ Answer(NewLine(len), w.ok, bytes_written)
         /\ mishaps' = mishaps \cup w.mishaps
  BY DEF WriteInPlace
<1>w. Wrote(w, files[Active], buffer, ring, NewLine(len))
  <2>1. (active_backend # "SYNC" => buffer = << >>) /\ RingTypes(ring)
    BY DEF Control, FileTypes
  <2> QED BY <1>0, <1>1, <1>2, <2>1, BackendEffect
<1>4. /\ w.content \in Seq(Cells) /\ w.buf \in Seq(Cells) /\ w.ok \in BOOLEAN
      /\ active_backend # "SYNC" => w.buf = << >>
      /\ RingTypes(w.ring) /\ (active_backend = "SYNC" => w.ring = NewRing)
  BY <1>w DEF Wrote
<1>p. PICK t \in Seq({Stray}) : \E k \in 0 .. Len(NewLine(len)) :
        /\ w.content \o w.buf = ((files[Active] \o buffer) \o t) \o SubSeq(NewLine(len), 1, k)
        /\ Short(NewLine(len), k) \subseteq w.mishaps
        /\ ring = NewRing => t = << >>
        /\ ring = NewRing /\ "interrupted" \notin w.mishaps =>
              /\ w.ring = NewRing /\ w.mishaps = Short(NewLine(len), k)
              /\ w.ok <=> k = Len(NewLine(len))
  BY <1>w, Zenon DEF Wrote
<1>5. PICK k \in 0 .. len :
        /\ w.content \o w.buf = ((files[Active] \o buffer) \o t) \o SubSeq(NewLine(len), 1, k)
        /\ Short(NewLine(len), k) \subseteq w.mishaps
        /\ ring = NewRing => t = << >>
        /\ ring = NewRing /\ "interrupted" \notin w.mishaps =>
              w.ring = NewRing /\ w.mishaps = Short(NewLine(len), k) /\ (w.ok <=> k = len)
  BY <1>0, <1>p, Zenon
<1>6. /\ SameArchive /\ DOMAIN files' = DOMAIN files
      /\ files' \in [DOMAIN files' -> Seq(Cells)]
      /\ ActiveCells' = w.content \o buffer'
  BY <1>1, <1>3, <1>4, OnActive
<1>7. ActiveCells' = (ActiveCells \o t) \o SubSeq(NewLine(len), 1, k)
  BY <1>2, <1>3, <1>5, <1>6, Zenon
<1>8. Answered(len, w.ok, bytes_written)
  BY <1>0, <1>3, AnswerEffect DEF LogTypes
<1>9. "interrupted" \notin mishaps' =>
        "interrupted" \notin mishaps /\ "interrupted" \notin w.mishaps /\ ring = NewRing
  BY <1>3 DEF Control
<1>a. /\ writes' = writes + 1 /\ ~rotation_due(len)
      /\ UNCHANGED <<opened, active_backend, handle, rotation_sequence, rotated_paths, clock,
                     sessions, cuts, renamed>>
  BY DEF WriteInPlace, Calls
<1>b. FileTypes'
  BY <1>3, <1>4, <1>6, <1>a DEF FileTypes, RingTypes
<1>c. Control'
  BY <1>1, <1>3, <1>4, <1>5, <1>6, <1>9, <1>a DEF Control
<1>d. ASSUME "interrupted" \notin mishaps' PROVE Writes(len, k)
  <2>1. t = << >> /\ w.mishaps = Short(NewLine(len), k) /\ (w.ok <=> k = len)
    BY <1>5, <1>9, <1>d
  <2>2. ActiveCells \o t = ActiveCells
    BY <2>1, CellsAre, ConcatEmptySeq
  <2>3. Taken(len, k, bytes_written)
    BY <1>8, <2>1 DEF Taken, Answered
  <2>4. mishaps' = mishaps \cup Mishap("short", k \in 1 .. len - 1)
    BY <1>0, <1>3, <2>1 DEF Short
  <2>5. ActiveCells' = ActiveCells \o SubSeq(NewLine(len), 1, k)
    BY <1>7, <2>2, Zenon
  <2> QED BY <1>1, <1>6, <1>a, <2>3, <2>4, <2>5 DEF Writes
<1>e. ASSUME "interrupted" \in mishaps' PROVE Disturbs(len, k, t)
  <2>1. mishaps \subseteq mishaps'
    BY <1>3
  <2> QED BY <1>1, <1>4, <1>6, <1>7, <1>8, <1>a, <1>e, <2>1 DEF Disturbs
<1> QED BY <1>b, <1>c, <1>d, <1>e

(* The kernel executes an operation that a call left. *)
LEMMA StraggleEffect ==
    ASSUME FileTypes, LogTypes, Control, Straggle
    PROVE  FileTypes' /\ Control' /\ Straggles
<1>o. PICK o \in ring.inflight : \E res \in Amounts(o.len) :
        /\ ring' = [sq |-> ring.sq, inflight |-> ring.inflight \ {o},
                    cq |-> Append(ring.cq, res)]
        /\ files' = [files EXCEPT ![Active] = Append(@, Stray)]
        /\ UNCHANGED <<opened, active_backend, handle, bytes_written, rotation_sequence,
                       rotated_paths, buffer, clock, status, writes, sessions, history>>
  BY DEF Straggle
<1>1. PICK res \in Amounts(o.len) :
        /\ ring' = [sq |-> ring.sq, inflight |-> ring.inflight \ {o},
                    cq |-> Append(ring.cq, res)]
        /\ files' = [files EXCEPT ![Active] = Append(@, Stray)]
        /\ UNCHANGED <<opened, active_backend, handle, bytes_written, rotation_sequence,
                       rotated_paths, buffer, clock, status, writes, sessions, history>>
  BY <1>o
<1>2. ring # NewRing
  BY <1>o, NewRingIs
<1>3. /\ handle /\ active_backend # "SYNC" /\ "interrupted" \in mishaps /\ buffer = << >>
      /\ Active \in DOMAIN files /\ opened
  BY <1>2 DEF Control
<1>m. UNCHANGED <<stream, cuts, renamed, mishaps>>
  BY <1>1 DEF history
<1>4. RingTypes(ring)'
  <2>1. /\ ring \in [sq : Seq(Ops), inflight : SUBSET Ops, cq : Seq(Nat)]
        /\ IsFiniteSet(ring.inflight)
    BY DEF FileTypes, RingTypes
  <2>2. o.len \in Nat
    BY <2>1 DEF Ops
  <2>3. res \in Nat
    BY <1>1, <2>2 DEF Amounts
  <2>4. Append(ring.cq, res) \in Seq(Nat)
    BY <2>1, <2>3, AppendProperties
  <2>5. IsFiniteSet(ring.inflight \ {o})
    BY <2>1, FS_Subset
  <2> QED BY <1>1, <2>1, <2>4, <2>5 DEF RingTypes
<1>5. /\ files[Active] \in Seq(Cells) /\ ActiveCells = files[Active]
      /\ Append(files[Active], Stray) \in Seq(Cells)
      /\ Append(files[Active], Stray) = files[Active] \o <<Stray>>
  <2>1. files[Active] \in Seq(Cells) /\ ActiveCells = files[Active] \o buffer /\ Stray \in Cells
    BY <1>3, CellsAre, StraysAre
  <2> QED BY <1>3, <2>1, ConcatEmptySeq, AppendProperties, AppendIsConcat
<1>6. /\ SameArchive /\ DOMAIN files' = DOMAIN files
      /\ files' \in [DOMAIN files' -> Seq(Cells)]
      /\ ActiveCells' = Append(files[Active], Stray) \o buffer'
  <2>1. files' = [files EXCEPT ![Active] = Append(files[Active], Stray)]
    BY <1>1
  <2> QED BY <1>3, <1>5, <2>1, OnActive
<1>7. ActiveCells' = ActiveCells \o <<Stray>>
  BY <1>1, <1>3, <1>5, <1>6, ConcatEmptySeq
<1>8. FileTypes'
  BY <1>1, <1>4, <1>6 DEF FileTypes
<1>9. Control'
  BY <1>1, <1>3, <1>6, <1>m DEF Control
<1>10. Straggles
  BY <1>1, <1>3, <1>6, <1>7, <1>m DEF Straggles
<1> QED BY <1>8, <1>9, <1>10

(* The files after the rename, and after retention. *)
LEMMA MovedIs ==
    ASSUME FileTypes, LogTypes, Control, handle
    PROVE  /\ Target \in Stamps /\ Target # Active
           /\ DOMAIN Moved = Rotated \cup {Target}
           /\ Moved \in [DOMAIN Moved -> Seq(Cells)]
           /\ \A n \in DOMAIN Moved : Moved[n] = IF n = Target THEN ActiveCells ELSE files[n]
<1>1. Target \in Stamps /\ Target # Active
  <2>1. Target \in Stamps
    BY DEF Target, Stamps, FileTypes, LogTypes
  <2> QED BY <2>1, CellsAre
<1>2. FlushedFile = ActiveCells /\ ActiveCells \in Seq(Cells)
  BY CellsAre DEF FlushedFile, Control
<1>3. DOMAIN Moved = Rotated \cup {Target}
  BY DEF Moved, Rotated
<1>4. \A n \in DOMAIN Moved : Moved[n] = IF n = Target THEN ActiveCells ELSE files[n]
  BY <1>2 DEF Moved
<1>5. \A n \in Rotated : files[n] \in Seq(Cells)
  BY CellsAre
<1>6. \A n \in DOMAIN Moved : Moved[n] \in Seq(Cells)
  BY <1>2, <1>3, <1>4, <1>5
<1>7. Moved \in [DOMAIN Moved -> Seq(Cells)]
  BY <1>6 DEF Moved
<1> QED BY <1>1, <1>3, <1>4, <1>7

(* What retention leaves of them. *)
LEMMA RetainedIs ==
    ASSUME FileTypes, LogTypes, Control, handle, NEW stuck
    PROVE  /\ DOMAIN Retained(stuck) = (Rotated \cup {Target}) \ (Obsolete \ stuck)
           /\ Active \notin DOMAIN Retained(stuck)
           /\ DOMAIN Retained(stuck) \subseteq Stamps
           /\ \A n \in DOMAIN Retained(stuck) :
                 /\ Retained(stuck)[n] = IF n = Target THEN ActiveCells ELSE files[n]
                 /\ Retained(stuck)[n] \in Seq(Cells)
<1>1. /\ Target \in Stamps /\ Target # Active
      /\ DOMAIN Moved = Rotated \cup {Target}
      /\ Moved \in [DOMAIN Moved -> Seq(Cells)]
      /\ \A n \in DOMAIN Moved : Moved[n] = IF n = Target THEN ActiveCells ELSE files[n]
  BY MovedIs
<1>2. /\ DOMAIN Retained(stuck) = DOMAIN Moved \ (Obsolete \ stuck)
      /\ \A n \in DOMAIN Retained(stuck) : Retained(stuck)[n] = Moved[n]
  BY DEF Retained
<1>3. \A n \in Rotated : n \in Stamps
  BY CellsAre
<1>4. Active \notin DOMAIN Moved
  BY <1>1 DEF Rotated
<1> QED BY <1>1, <1>2, <1>3, <1>4

(* Nothing of a record is an empty sequence. *)
LEMMA NoCells ==
    ASSUME LogTypes, NEW len \in Sizes
    PROVE  len \in Nat /\ len # 0 /\ 0 \in 0 .. len /\ SubSeq(NewLine(len), 1, 0) = << >>
BY FileSinkConstants, SubSeqEmpty

(* The active file is renamed, and the rotation fails after that. *)
LEMMA HalfRotation ==
    ASSUME FileTypes, LogTypes, Control, NEW len \in Sizes,
           RotateRecordFails(len) \/ RotateReopenFails(len)
    PROVE  FileTypes' /\ Control' /\ Rotates(len, 0)
<1>0. len \in Nat /\ len # 0 /\ SubSeq(NewLine(len), 1, 0) = << >>
  BY NoCells
<1>h. handle /\ rotation_due(len) /\ Active \in DOMAIN files
  BY DEF RotateRecordFails, RotateReopenFails, rotation_due, Control
<1>1. /\ Rename /\ writes' = writes + 1 /\ buffer' = << >> /\ handle' = FALSE /\ ring' = NewRing
      /\ UNCHANGED <<opened, active_backend, clock, sessions, stream>>
      /\ status' # "OK" /\ mishaps \subseteq mishaps'
      /\ bytes_written' \in {0, bytes_written}
      /\ (UNCHANGED <<rotation_sequence, rotated_paths>>) \/ RotationDone
  BY DEF RotateRecordFails, RotateReopenFails, RotationDone, Calls
<1>2. /\ DOMAIN files' \subseteq Rotated \cup {Target}
      /\ DOMAIN files' \subseteq Stamps
      /\ files' \in [DOMAIN files' -> Seq(Cells)]
      /\ \A n \in DOMAIN files' : files'[n] = IF n = Target THEN ActiveCells ELSE files[n]
  <2>1. CASE RotateRecordFails(len)
    <3>1. files' = Moved
      BY <2>1 DEF RotateRecordFails
    <3>2. \A n \in Rotated : n \in Stamps
      BY CellsAre
    <3> QED BY <1>h, <3>1, <3>2, MovedIs
  <2>2. CASE RotateReopenFails(len)
    <3>1. PICK stuck \in StuckChoices : files' = Retained(stuck)
      BY <2>2 DEF RotateReopenFails
    <3>2. /\ DOMAIN files' = (Rotated \cup {Target}) \ (Obsolete \ stuck)
          /\ DOMAIN files' \subseteq Stamps
          /\ \A n \in DOMAIN files' : /\ files'[n] = IF n = Target THEN ActiveCells ELSE files[n]
                                      /\ files'[n] \in Seq(Cells)
      BY <1>h, <3>1, RetainedIs
    <3>3. files' = [n \in DOMAIN files' |-> files'[n]]
      BY <3>1 DEF Retained
    <3>4. files' \in [DOMAIN files' -> Seq(Cells)]
      BY <3>2, <3>3
    <3> QED BY <3>2, <3>4
  <2> QED BY <2>1, <2>2
<1>3. Active \notin Stamps
  BY CellsAre
<1>4. Rotated' = DOMAIN files' /\ ActiveCells' = << >>
  BY <1>1, <1>2, <1>3 DEF Rotated, ActiveCells
<1>5. FileTypes'
  <2>1. << >> \in Seq(Cells)
    OBVIOUS
  <2> QED BY <1>1, <1>2, <2>1, NewRingIs DEF FileTypes, RingTypes
<1>6. Control'
  BY <1>1 DEF Control
<1>7. Rotates(len, 0)
  BY <1>0, <1>h, <1>1, <1>2, <1>4 DEF Rotates
<1> QED BY <1>5, <1>6, <1>7

(* The active file is rotated, and the record written to the next. *)
LEMMA FullRotation ==
    ASSUME FileTypes, LogTypes, Control, NEW len \in Sizes, RotateAndWrite(len)
    PROVE  FileTypes' /\ Control' /\ \E k \in 0 .. len : Rotates(len, k)
<1>0. len \in Nat /\ len # 0 /\ NewLine(len) \in Seq(Cells) /\ Len(NewLine(len)) = len
  <2>1. len \in Nat /\ len # 0 /\ writes + 1 \in Nat /\ 0 \in 0 .. len
    BY FileSinkConstants DEF LogTypes
  <2> QED BY <2>1, LineIs DEF NewLine
<1>e. << >> \in Seq(Cells) /\ << >> \o << >> = << >>
  BY ConcatEmptySeq
<1>h. handle /\ opened /\ rotation_due(len) /\ Active \in DOMAIN files
  BY DEF RotateAndWrite, rotation_due, Control
<1>1. /\ RotationDone /\ writes' = writes + 1
      /\ UNCHANGED <<opened, active_backend, handle, clock, sessions>>
  BY DEF RotateAndWrite, Calls
<1>2. PICK stuck \in StuckChoices, w \in BackendWrite(<< >>, << >>, NewRing, NewLine(len)) :
         /\ files' = [Created(Retained(stuck)) EXCEPT ![Active] = w.content]
         /\ buffer' = w.buf /\ ring' = w.ring
         /\ Answer(NewLine(len), w.ok, 0)
         /\ mishaps' = (mishaps \cup w.mishaps) \cup Mishap("stuck", stuck # {})
  BY DEF RotateAndWrite
<1>w. Wrote(w, << >>, << >>, NewRing, NewLine(len))
  BY <1>0, <1>e, NewRingIs, BackendEffect
<1>3. /\ w.content \in Seq(Cells) /\ w.buf \in Seq(Cells) /\ w.ok \in BOOLEAN
      /\ active_backend # "SYNC" => w.buf = << >>
      /\ RingTypes(w.ring) /\ (active_backend = "SYNC" => w.ring = NewRing)
  BY <1>w DEF Wrote
<1>4. PICK k \in 0 .. len :
        /\ w.content \o w.buf = ((<< >> \o << >>) \o << >>) \o SubSeq(NewLine(len), 1, k)
        /\ Short(NewLine(len), k) \subseteq w.mishaps
        /\ "interrupted" \notin w.mishaps => w.ring = NewRing /\ (w.ok <=> k = len)
  BY <1>0, <1>w, Zenon DEF Wrote
<1>5. w.content \o w.buf = SubSeq(NewLine(len), 1, k)
  <2>1. SubSeq(NewLine(len), 1, k) \in Seq(Cells)
    BY <1>0, Split
  <2>2. << >> \o SubSeq(NewLine(len), 1, k) = SubSeq(NewLine(len), 1, k)
    BY <2>1, ConcatEmptySeq
  <2> QED BY <1>e, <1>4, <2>2, Zenon
<1>6. /\ DOMAIN files' = DOMAIN Retained(stuck) \cup {Active}
      /\ files'[Active] = w.content
      /\ \A n \in DOMAIN Retained(stuck) : files'[n] = Retained(stuck)[n]
      /\ files' = [n \in DOMAIN files' |-> files'[n]]
  <2>1. Active \notin DOMAIN Retained(stuck)
    BY <1>h, RetainedIs
  <2>2. /\ DOMAIN Created(Retained(stuck)) = DOMAIN Retained(stuck) \cup {Active}
        /\ \A n \in DOMAIN Retained(stuck) :
              Created(Retained(stuck))[n] = Retained(stuck)[n]
    BY <2>1 DEF Created
  <2> HIDE DEF Created
  <2> QED BY <1>2, <2>1, <2>2
<1>7. /\ DOMAIN Retained(stuck) = (Rotated \cup {Target}) \ (Obsolete \ stuck)
      /\ DOMAIN Retained(stuck) \subseteq Stamps
      /\ Active \notin DOMAIN Retained(stuck)
      /\ \A n \in DOMAIN Retained(stuck) :
            /\ Retained(stuck)[n] = IF n = Target THEN ActiveCells ELSE files[n]
            /\ Retained(stuck)[n] \in Seq(Cells)
  BY <1>h, RetainedIs
<1>8. FileTypes'
  <2>1. \A n \in DOMAIN files' : files'[n] \in Seq(Cells)
    BY <1>3, <1>6, <1>7
  <2>2. files' \in [DOMAIN files' -> Seq(Cells)]
    BY <1>6, <2>1
  <2> QED BY <1>1, <1>2, <1>3, <1>6, <1>7, <2>2 DEF FileTypes, RingTypes
<1>9. Control'
  <2>1. "interrupted" \notin mishaps' => "interrupted" \notin w.mishaps
    BY <1>2
  <2> QED BY <1>1, <1>2, <1>3, <1>4, <1>6, <1>h, <2>1 DEF Control
<1>a. /\ Rotated' = (Rotated \cup {Target}) \ (Obsolete \ stuck)
      /\ \A n \in Rotated' : files'[n] = IF n = Target THEN ActiveCells ELSE files[n]
  BY <1>6, <1>7 DEF Rotated
<1>b. ActiveCells' = SubSeq(NewLine(len), 1, k)
  BY <1>2, <1>5, <1>6 DEF ActiveCells
<1>c. /\ \E ok \in BOOLEAN : Answered(len, ok, 0)
      /\ Taken(len, k, 0) \/ "interrupted" \in mishaps'
  <2>1. Answered(len, w.ok, 0)
    BY <1>0, <1>2, AnswerEffect
  <2>2. "interrupted" \notin mishaps' => (w.ok <=> k = len)
    BY <1>2, <1>4
  <2>3. "interrupted" \notin mishaps' => Taken(len, k, 0)
    BY <2>1, <2>2 DEF Taken, Answered
  <2> QED BY <1>3, <2>1, <2>3
<1>d. /\ mishaps \subseteq mishaps' /\ (k \in 1 .. len - 1 => "short" \in mishaps')
      /\ "stuck" \notin mishaps' => stuck = {}
  BY <1>0, <1>2, <1>4 DEF Mishap, Short
<1>f. Rotates(len, k)
  BY <1>h, <1>1, <1>a, <1>b, <1>c, <1>d DEF Rotates, RotationDone
<1> QED BY <1>8, <1>9, <1>f

(* There is no other effect. *)
LEMMA StepEffect ==
    ASSUME FileTypes, LogTypes, Control, [Next]_vars
    PROVE  FileTypes' /\ Control' /\ Effect
<1>1. CASE UNCHANGED vars
  <2>1. /\ UNCHANGED <<opened, active_backend, handle, ring, bytes_written, rotation_sequence,
                       rotated_paths, files, buffer, clock, status, writes, sessions, stream>>
        /\ UNCHANGED <<cuts, renamed, mishaps>>
    BY <1>1 DEF vars, sink, history
  <2>2. FileTypes' /\ Control'
    BY <2>1 DEF FileTypes, RingTypes, Control
  <2>3. SameArchive /\ ActiveCells' = ActiveCells
    BY <2>1 DEF SameArchive, Rotated, ActiveCells
  <2> QED BY <2>1, <2>2, <2>3 DEF Effect, Quiet
<1>2. ASSUME NEW len \in Sizes, RotateRecordFails(len) \/ RotateReopenFails(len)
      PROVE  FileTypes' /\ Control' /\ \E k \in 0 .. len : Rotates(len, k)
  BY <1>2, HalfRotation, NoCells
<1>3. ASSUME NEW len \in Sizes, WriteInPlace(len) PROVE FileTypes' /\ Control' /\ Effect
  BY <1>3, WriteEffect DEF Effect
<1>4. ASSUME NEW len \in Sizes, RotateAndWrite(len) PROVE FileTypes' /\ Control' /\ Effect
  BY <1>4, FullRotation DEF Effect
<1>5. CASE Straggle
  BY <1>5, StraggleEffect DEF Effect
<1>6. ASSUME NEW len \in Sizes, RotateRecordFails(len) \/ RotateReopenFails(len)
      PROVE  FileTypes' /\ Control' /\ Effect
  BY <1>2, <1>6 DEF Effect
<1>7. ASSUME Quiet \/ Opens \/ \E n \in 0 .. Len(ActiveCells) : Closes(n) PROVE Effect
  BY <1>7 DEF Effect
<1> QED BY <1>1, <1>3, <1>4, <1>5, <1>6, <1>7, QuietEffect, OpenEffect, CloseEffect
        DEF Next, Write

----------------------------------------------------------------------------
(* The invariant, one conjunct at a time *)

\* Counters and histories keep their types.
LEMMA LogTypesStep == ASSUME FileTypes, LogTypes, Control, Effect PROVE LogTypes'
<1>t. /\ bytes_written \in Nat /\ rotation_sequence \in Nat /\ writes \in Nat /\ sessions \in Nat
      /\ rotated_paths \in Seq(Stamps) /\ stream \in Seq(Cells) /\ cuts \in Seq(Nat)
      /\ renamed \in Seq(Stamps) /\ << >> \in Seq(Stamps)
  BY DEF LogTypes
<1>1. CASE Quiet
  BY <1>t, <1>1 DEF Quiet, LogTypes
<1>2. CASE Opens
  BY <1>t, <1>2 DEF Opens, LogTypes
<1>3. ASSUME NEW n \in 0 .. Len(ActiveCells), Closes(n) PROVE LogTypes'
  BY <1>t, <1>3 DEF Closes, LogTypes
<1>4. ASSUME NEW len \in Sizes, NEW ok, NEW already \in Nat, Answered(len, ok, already)
      PROVE  bytes_written' \in Nat /\ stream' \in Seq(Cells)
  <2>1. len \in Nat /\ NewLine(len) \in Seq(Cells)
    <3>1. len \in Nat /\ writes + 1 \in Nat /\ 0 \in 0 .. len
      BY <1>t, FileSinkConstants
    <3> QED BY <3>1, LineIs DEF NewLine
  <2>2. stream \o NewLine(len) \in Seq(Cells)
    BY <1>t, <2>1, ConcatProperties
  <2>3. already + len \in Nat
    BY <2>1
  <2>4. CASE ok
    BY <1>4, <2>2, <2>3, <2>4 DEF Answered
  <2>5. CASE ~ok
    BY <1>t, <1>4, <2>5 DEF Answered
  <2> QED BY <2>4, <2>5
<1>5. ASSUME NEW len \in Sizes, NEW k \in 0 .. len, Writes(len, k) PROVE LogTypes'
  <2>1. bytes_written' \in Nat /\ stream' \in Seq(Cells)
    BY <1>t, <1>4, <1>5 DEF Writes, Taken
  <2> QED BY <1>t, <1>5, <2>1 DEF Writes, LogTypes
<1>7. ASSUME NEW len \in Sizes, NEW k, NEW t, Disturbs(len, k, t) PROVE LogTypes'
  <2>1. bytes_written' \in Nat /\ stream' \in Seq(Cells)
    BY <1>t, <1>4, <1>7 DEF Disturbs
  <2> QED BY <1>t, <1>7, <2>1 DEF Disturbs, LogTypes
<1>8. CASE Straggles
  BY <1>t, <1>8 DEF Straggles, LogTypes
<1>6. ASSUME NEW len \in Sizes, NEW k \in 0 .. len, Rotates(len, k) PROVE LogTypes'
  <2>1. bytes_written' \in Nat /\ stream' \in Seq(Cells)
    BY <1>t, <1>4, <1>6 DEF Rotates
  <2>2. Target \in Stamps
    BY <1>6, MovedIs DEF Rotates
  <2>3. renamed' \in Seq(Stamps) /\ cuts' \in Seq(Nat)
    <3>1. Len(stream) \in Nat
      BY <1>t, LenProperties
    <3> QED BY <1>t, <1>6, <2>2, <3>1, AppendProperties DEF Rotates, Rename
  <2>4. RotationDone => rotation_sequence' \in Nat /\ rotated_paths' \in Seq(Stamps)
    <3>1. Recorded \in Seq(Stamps) /\ Len(Recorded) \in Nat
      BY <1>t, <2>2, AppendProperties, LenProperties DEF Recorded
    <3>2. Excess \in 0 .. Len(Recorded)
      BY <3>1, FileSinkConstants DEF Excess
    <3>3. SubSeq(Recorded, Excess + 1, Len(Recorded)) \in Seq(Stamps)
      BY <3>1, <3>2, Split
    <3> QED BY <1>t, <3>3 DEF RotationDone
  <2>5. rotation_sequence' \in Nat /\ rotated_paths' \in Seq(Stamps)
    BY <1>t, <1>6, <2>4 DEF Rotates
  <2> QED BY <1>t, <1>6, <2>1, <2>3, <2>5 DEF Rotates, LogTypes
<1> QED BY <1>1, <1>2, <1>3, <1>5, <1>6, <1>7, <1>8 DEF Effect

(* Strays behind ordered cells. *)
LEMMA OrderedStrays ==
    ASSUME NEW s \in Seq(Cells), Ordered(s), NEW r \in Nat, NEW t \in Seq({Stray}),
           \A i \in 1 .. Len(s) : s[i].rec <= r
    PROVE  /\ s \o t \in Seq(Cells) /\ Ordered(s \o t)
           /\ \A i \in 1 .. Len(s \o t) : (s \o t)[i].rec <= r
<1> DEFINE u == s \o t
<1>1. t \in Seq(Cells) /\ Len(t) \in Nat /\ Len(s) \in Nat /\ \A i \in 1 .. Len(t) : t[i].rec = 0
  <2>1. \A i \in 1 .. Len(t) : t[i] = Stray
    BY ElementOfSeq
  <2> QED BY <2>1, StraysAre, LenProperties
<1>2. /\ u \in Seq(Cells) /\ Len(u) = Len(s) + Len(t)
      /\ \A i \in 1 .. Len(s) + Len(t) : u[i] = IF i <= Len(s) THEN s[i] ELSE t[i - Len(s)]
  BY <1>1, ConcatProperties
<1> HIDE DEF u
<1>3. \A i \in 1 .. Len(s) : u[i] = s[i]
  BY <1>1, <1>2
<1>4. ASSUME NEW i \in 1 .. Len(u), i \notin 1 .. Len(s) PROVE u[i].rec = 0
  <2>1. i - Len(s) \in 1 .. Len(t) /\ u[i] = t[i - Len(s)]
    BY <1>1, <1>2, <1>4
  <2> QED BY <1>1, <2>1
<1>5. \A i \in 1 .. Len(u) : u[i].rec <= r
  BY <1>3, <1>4
<1>6. Ordered(u)
  BY <1>3, <1>4 DEF Ordered
<1> QED BY <1>2, <1>5, <1>6 DEF u

(* A prefix of the next record behind ordered cells. *)
LEMMA OrderedAppend ==
    ASSUME NEW s \in Seq(Cells), Ordered(s), NEW r \in Nat, NEW len \in Nat, NEW k \in 0 .. len,
           \A i \in 1 .. Len(s) : s[i].rec <= r
    PROVE  /\ Ordered(s \o SubSeq(Line(r + 1, len), 1, k))
           /\ \A i \in 1 .. Len(s \o SubSeq(Line(r + 1, len), 1, k)) :
                 (s \o SubSeq(Line(r + 1, len), 1, k))[i].rec <= r + 1
<1> DEFINE p == SubSeq(Line(r + 1, len), 1, k)
           t == s \o p
<1>1. /\ p \in Seq(Cells) /\ Len(p) = k
      /\ \A i \in 1 .. k : p[i] = [rec |-> r + 1, at |-> i, of |-> len]
  <2>1. PICK q \in Nat : q = r + 1
    OBVIOUS
  <2>2. /\ SubSeq(Line(q, len), 1, k) \in Seq(Cells) /\ Len(SubSeq(Line(q, len), 1, k)) = k
        /\ \A i \in 1 .. k : SubSeq(Line(q, len), 1, k)[i] = [rec |-> q, at |-> i, of |-> len]
    BY LineIs, ZenonT(30)
  <2> QED BY <2>1, <2>2, Zenon
<1> HIDE DEF p
<1>2. /\ t \in Seq(Cells) /\ Len(t) = Len(s) + k /\ Len(s) \in Nat
      /\ \A i \in 1 .. Len(s) : t[i] = s[i]
      /\ \A i \in 1 .. Len(s) + k : i \notin 1 .. Len(s) => t[i] = p[i - Len(s)]
  <2>1. /\ t \in Seq(Cells) /\ Len(t) = Len(s) + Len(p)
        /\ \A i \in 1 .. Len(s) + Len(p) : t[i] = IF i <= Len(s) THEN s[i] ELSE p[i - Len(s)]
    BY <1>1, ConcatProperties
  <2>2. Len(s) \in Nat
    BY LenProperties
  <2> HIDE DEF t
  <2>3. \A i \in 1 .. Len(s) : i \in 1 .. Len(s) + k
    BY <2>2
  <2> QED BY <1>1, <2>1, <2>2, <2>3
<1> HIDE DEF t
<1>3. \A i \in 1 .. Len(t) : i \in 1 .. Len(s) \/ i - Len(s) \in 1 .. k
  BY <1>2
<1>4. ASSUME NEW i \in 1 .. Len(t), i \notin 1 .. Len(s)
      PROVE  t[i].rec = r + 1 /\ t[i].at = i - Len(s)
  <2>1. i - Len(s) \in 1 .. k /\ t[i] = p[i - Len(s)]
    BY <1>2, <1>3, <1>4
  <2>2. p[i - Len(s)] = [rec |-> r + 1, at |-> i - Len(s), of |-> len]
    BY <1>1, <2>1
  <2> QED BY <2>1, <2>2
<1>5. \A i \in 1 .. Len(s) : t[i].rec \in Nat /\ t[i].rec <= r /\ t[i].at \in Nat
  <2>1. \A c \in Cells : c.rec \in Nat /\ c.at \in Nat
    BY DEF Cells
  <2> QED BY <1>2, <2>1
<1>6. \A i \in 1 .. Len(t) : t[i].rec <= r + 1
  BY <1>4, <1>5
<1>7. ASSUME NEW i \in 1 .. Len(t), NEW j \in 1 .. Len(t), i < j, t[i].rec # 0, t[j].rec # 0
      PROVE  t[i].rec < t[j].rec \/ (t[i].rec = t[j].rec /\ t[i].at < t[j].at)
  <2>1. CASE j \in 1 .. Len(s)
    <3>1. i \in 1 .. Len(s)
      BY <1>2, <1>7, <2>1
    <3> QED BY <1>2, <1>7, <2>1, <3>1 DEF Ordered
  <2>2. CASE j \notin 1 .. Len(s)
    BY <1>2, <1>4, <1>5, <1>7, <2>2
  <2> QED BY <2>1, <2>2
<1>8. Ordered(t)
  BY <1>7 DEF Ordered
<1> QED BY <1>6, <1>8 DEF t, p

(* A prefix of ordered cells. *)
LEMMA OrderedPrefix ==
    ASSUME NEW s \in Seq(Cells), Ordered(s), NEW n \in 0 .. Len(s), NEW r,
           \A i \in 1 .. Len(s) : s[i].rec <= r
    PROVE  /\ Ordered(SubSeq(s, 1, n))
           /\ \A i \in 1 .. Len(SubSeq(s, 1, n)) : SubSeq(s, 1, n)[i].rec <= r
<1> DEFINE t == SubSeq(s, 1, n)
<1>1. t \in Seq(Cells) /\ Len(t) = n /\ \A i \in 1 .. n : t[i] = s[i]
  BY SubSeqProperties, LenProperties
<1> HIDE DEF t
<1>2. \A i \in 1 .. n : i \in 1 .. Len(s)
  BY LenProperties
<1>3. Ordered(t)
  BY <1>1, <1>2 DEF Ordered
<1>4. \A i \in 1 .. Len(t) : t[i].rec <= r
  BY <1>1, <1>2
<1> QED BY <1>3, <1>4 DEF t

\* No step puts a cell of an earlier record behind one of a later.
LEMMA InOrderStep == ASSUME FileInv, Effect PROVE InOrder'
<1>t. FileTypes /\ LogTypes /\ Control /\ InOrder
  BY DEF FileInv
<1>c. ActiveCells \in Seq(Cells) /\ writes \in Nat
  BY <1>t, CellsAre DEF LogTypes
<1>o. /\ Ordered(ActiveCells) /\ \A n \in Rotated : Ordered(files[n])
      /\ \A i \in 1 .. Len(ActiveCells) : ActiveCells[i].rec <= writes
  BY <1>t DEF InOrder
<1>r. \A i \in 1 .. Len(ActiveCells) : ActiveCells[i].rec \in Nat
  <2>1. \A c \in Cells : c.rec \in Nat
    BY DEF Cells
  <2> QED BY <1>c, <2>1
<1>a. ASSUME SameArchive, NEW m \in Rotated' PROVE Ordered(files[m])'
  <2>1. Ordered(files[m]) /\ files'[m] = files[m]
    BY <1>o, <1>a DEF SameArchive
  <2> QED BY <2>1 DEF Ordered
<1>1. ASSUME SameArchive, ActiveCells' = ActiveCells, writes' \in {writes, writes + 1}
      PROVE  InOrder'
  <2>1. \A i \in 1 .. Len(ActiveCells) : ActiveCells[i].rec <= writes'
    BY <1>c, <1>o, <1>r, <1>1
  <2> QED BY <1>o, <1>1, <2>1 DEF InOrder, SameArchive
<1>2. CASE Quiet \/ Opens
  BY <1>1, <1>2 DEF Quiet, Opens
<1>3. ASSUME NEW n \in 0 .. Len(ActiveCells), Closes(n) PROVE InOrder'
  <2>1. /\ Ordered(SubSeq(ActiveCells, 1, n))
        /\ \A i \in 1 .. Len(SubSeq(ActiveCells, 1, n)) :
              SubSeq(ActiveCells, 1, n)[i].rec <= writes
    BY <1>c, <1>o, OrderedPrefix
  <2>2. ActiveCells' = SubSeq(ActiveCells, 1, n) /\ writes' = writes /\ SameArchive
    BY <1>3 DEF Closes
  <2>3. Ordered(ActiveCells)' /\ \A i \in 1 .. Len(ActiveCells') : ActiveCells'[i].rec <= writes'
    BY <2>1, <2>2, Zenon DEF Ordered
  <2>4. \A m \in Rotated' : Ordered(files[m])'
    BY <1>a, <2>2
  <2> QED BY <2>3, <2>4 DEF InOrder
<1>4. ASSUME NEW len \in Sizes, NEW k \in 0 .. len, NEW s \in Seq(Cells), Ordered(s),
             \A i \in 1 .. Len(s) : s[i].rec <= writes,
             ActiveCells' = s \o SubSeq(NewLine(len), 1, k), writes' = writes + 1
      PROVE  Ordered(ActiveCells)' /\ \A i \in 1 .. Len(ActiveCells') : ActiveCells'[i].rec <= writes'
  <2>1. len \in Nat
    BY FileSinkConstants
  <2>2. /\ Ordered(s \o SubSeq(NewLine(len), 1, k))
        /\ \A i \in 1 .. Len(s \o SubSeq(NewLine(len), 1, k)) :
              (s \o SubSeq(NewLine(len), 1, k))[i].rec <= writes + 1
    BY <1>c, <1>4, <2>1, OrderedAppend DEF NewLine
  <2> QED BY <1>4, <2>2, Zenon DEF Ordered
<1>5. ASSUME NEW len \in Sizes, NEW k \in 0 .. len, Writes(len, k) PROVE InOrder'
  <2>1. SameArchive /\ ActiveCells' = ActiveCells \o SubSeq(NewLine(len), 1, k)
        /\ writes' = writes + 1
    BY <1>5 DEF Writes
  <2>2. Ordered(ActiveCells)' /\ \A i \in 1 .. Len(ActiveCells') : ActiveCells'[i].rec <= writes'
    BY <1>c, <1>o, <1>4, <2>1
  <2>4. \A m \in Rotated' : Ordered(files[m])'
    BY <1>a, <2>1
  <2> QED BY <2>2, <2>4 DEF InOrder
<1>7. ASSUME NEW len \in Sizes, NEW k \in 0 .. len, NEW t \in Seq({Stray}), Disturbs(len, k, t)
      PROVE  InOrder'
  <2>1. SameArchive /\ ActiveCells' = (ActiveCells \o t) \o SubSeq(NewLine(len), 1, k)
        /\ writes' = writes + 1
    BY <1>7 DEF Disturbs
  <2>2. /\ ActiveCells \o t \in Seq(Cells) /\ Ordered(ActiveCells \o t)
        /\ \A i \in 1 .. Len(ActiveCells \o t) : (ActiveCells \o t)[i].rec <= writes
    BY <1>c, <1>o, OrderedStrays
  <2>3. Ordered(ActiveCells)' /\ \A i \in 1 .. Len(ActiveCells') : ActiveCells'[i].rec <= writes'
    BY <1>4, <2>1, <2>2
  <2>4. \A m \in Rotated' : Ordered(files[m])'
    BY <1>a, <2>1
  <2> QED BY <2>3, <2>4 DEF InOrder
<1>8. CASE Straggles
  <2>1. SameArchive /\ ActiveCells' = ActiveCells \o <<Stray>> /\ writes' = writes
    BY <1>8 DEF Straggles
  <2>2. /\ Ordered(ActiveCells \o <<Stray>>)
        /\ \A i \in 1 .. Len(ActiveCells \o <<Stray>>) :
              (ActiveCells \o <<Stray>>)[i].rec <= writes
    <3>1. <<Stray>> \in Seq({Stray})
      OBVIOUS
    <3> QED BY <1>c, <1>o, <3>1, OrderedStrays
  <2>3. Ordered(ActiveCells)' /\ \A i \in 1 .. Len(ActiveCells') : ActiveCells'[i].rec <= writes'
    BY <2>1, <2>2, Zenon DEF Ordered
  <2>4. \A m \in Rotated' : Ordered(files[m])'
    BY <1>a, <2>1
  <2> QED BY <2>3, <2>4 DEF InOrder
<1>6. ASSUME NEW len \in Sizes, NEW k \in 0 .. len, Rotates(len, k) PROVE InOrder'
  <2>1. << >> \o SubSeq(NewLine(len), 1, k) = SubSeq(NewLine(len), 1, k)
    <3>1. len \in Nat /\ writes + 1 \in Nat
      BY <1>c, FileSinkConstants
    <3>2. SubSeq(NewLine(len), 1, k) \in Seq(Cells)
      BY <3>1, LineIs DEF NewLine
    <3> QED BY <3>2, ConcatEmptySeq
  <2>2. << >> \in Seq(Cells) /\ Ordered(<< >>) /\ \A i \in 1 .. Len(<< >>) : << >>[i].rec <= writes
    BY DEF Ordered
  <2>3. ActiveCells' = << >> \o SubSeq(NewLine(len), 1, k) /\ writes' = writes + 1
    BY <1>6, <2>1 DEF Rotates
  <2>4. Ordered(ActiveCells)' /\ \A i \in 1 .. Len(ActiveCells') : ActiveCells'[i].rec <= writes'
    BY <1>4, <2>2, <2>3
  <2>5. \A n \in Rotated' : n = Target \/ n \in Rotated
    BY <1>6 DEF Rotates
  <2>6. \A n \in Rotated' : files'[n] = IF n = Target THEN ActiveCells ELSE files[n]
    BY <1>6 DEF Rotates
  <2>7. ASSUME NEW n \in Rotated' PROVE Ordered(files[n])'
    <3>1. CASE n = Target
      BY <1>o, <2>6, <3>1 DEF Ordered
    <3>2. CASE n # Target
      BY <1>o, <2>5, <2>6, <3>2 DEF Ordered
    <3> QED BY <3>1, <3>2
  <2> QED BY <2>4, <2>7 DEF InOrder
<1> QED BY <1>2, <1>3, <1>5, <1>6, <1>7, <1>8 DEF Effect

\* Every cut is within the acknowledged cells.
LEMMA CutsWithinStep == ASSUME FileInv, Effect PROVE CutsWithin' /\ Len(stream) <= Len(stream')
<1>t. FileTypes /\ LogTypes /\ Control /\ CutsWithin
  BY DEF FileInv
<1>s. stream \in Seq(Cells) /\ Len(stream) \in Nat /\ cuts \in Seq(Nat) /\ renamed \in Seq(Stamps)
  BY <1>t, LenProperties DEF LogTypes
<1>w. Len(cuts) = Len(renamed) /\ \A i \in 1 .. Len(cuts) : cuts[i] <= Len(stream)
  BY <1>t DEF CutsWithin
<1>1. CASE UNCHANGED <<stream, cuts, renamed>>
  BY <1>s, <1>w, <1>1 DEF CutsWithin
<1>2. ASSUME NEW len \in Sizes,
             (\E ok, already : Answered(len, ok, already)) \/ stream' = stream
      PROVE  Len(stream') \in Nat /\ Len(stream) <= Len(stream')
  <2>1. len \in Nat /\ writes + 1 \in Nat /\ 0 \in 0 .. len
    BY <1>t, FileSinkConstants DEF LogTypes
  <2>2. NewLine(len) \in Seq(Cells) /\ Len(NewLine(len)) = len
    BY <2>1, LineIs DEF NewLine
  <2>3. Len(stream \o NewLine(len)) = Len(stream) + len
    BY <1>s, <2>2, ConcatProperties
  <2>4. stream' = stream \/ stream' = stream \o NewLine(len)
    BY <1>2 DEF Answered
  <2> QED BY <1>s, <2>1, <2>3, <2>4
<1>3. ASSUME NEW len \in Sizes, NEW k,
             Writes(len, k) \/ \E t \in Seq({Stray}) : Disturbs(len, k, t)
      PROVE  CutsWithin' /\ Len(stream) <= Len(stream')
  <2>1. Len(stream') \in Nat /\ Len(stream) <= Len(stream') /\ UNCHANGED <<cuts, renamed>>
    BY <1>2, <1>3 DEF Writes, Taken, Disturbs
  <2>2. \A i \in 1 .. Len(cuts) : cuts[i] \in Nat
    BY <1>s
  <2>3. \A i \in 1 .. Len(cuts) : cuts[i] <= Len(stream')
    BY <1>s, <1>w, <2>1, <2>2
  <2> QED BY <1>w, <2>1, <2>3 DEF CutsWithin
<1>4. ASSUME NEW len \in Sizes, NEW k \in 0 .. len, Rotates(len, k)
      PROVE  CutsWithin' /\ Len(stream) <= Len(stream')
  <2>1. Len(stream') \in Nat /\ Len(stream) <= Len(stream')
    BY <1>2, <1>4 DEF Rotates
  <2>2. cuts' = Append(cuts, Len(stream)) /\ renamed' = Append(renamed, Target)
    BY <1>4 DEF Rotates, Rename
  <2>3. Target \in Stamps
    BY <1>t, <1>4, MovedIs DEF Rotates
  <2>4. /\ Len(cuts') = Len(cuts) + 1 /\ Len(renamed') = Len(renamed) + 1 /\ Len(cuts) \in Nat
        /\ \A i \in 1 .. Len(cuts) : cuts'[i] = cuts[i] /\ cuts[i] \in Nat
        /\ cuts'[Len(cuts) + 1] = Len(stream)
    BY <1>s, <2>2, <2>3, AppendProperties, LenProperties
  <2>5. \A i \in 1 .. Len(cuts') : i \in 1 .. Len(cuts) \/ i = Len(cuts) + 1
    BY <2>4
  <2>6. ASSUME NEW i \in 1 .. Len(cuts') PROVE cuts'[i] <= Len(stream')
    <3>1. CASE i \in 1 .. Len(cuts)
      <4>1. cuts'[i] = cuts[i] /\ cuts[i] \in Nat /\ cuts[i] <= Len(stream)
        BY <1>w, <2>4, <3>1
      <4> QED BY <1>s, <2>1, <4>1
    <3>2. CASE i = Len(cuts) + 1
      BY <2>1, <2>4, <3>2
    <3> QED BY <2>5, <3>1, <3>2
  <2> QED BY <1>w, <2>1, <2>4, <2>6 DEF CutsWithin
<1> QED BY <1>1, <1>3, <1>4 DEF Effect, Quiet, Opens, Closes, Straggles

(* The names of the renames stay the first ones. *)
LEMMA NamesStep ==
    ASSUME LogTypes, CutsWithin, renamed' = Append(renamed, Target), Target \in Stamps,
           cuts' = Append(cuts, Len(stream)), NamesDiffer'
    PROVE  /\ NamesDiffer
           /\ \A i \in 1 .. Len(renamed) : /\ renamed'[i] = renamed[i] /\ renamed[i] # Target
                                           /\ cuts'[i] = cuts[i]
                                           /\ CutBefore(i)' = CutBefore(i)
           /\ Len(renamed') = Len(renamed) + 1 /\ Len(cuts') = Len(cuts) + 1
           /\ renamed'[Len(renamed) + 1] = Target /\ cuts'[Len(cuts) + 1] = Len(stream)
           /\ \A i : i = Len(renamed) + 1 => CutBefore(i)' = CutBefore(Len(cuts) + 1)
           /\ CutBefore(Len(cuts) + 1)' = Len(stream)
<1>s. /\ stream \in Seq(Cells) /\ Len(stream) \in Nat /\ cuts \in Seq(Nat)
      /\ renamed \in Seq(Stamps) /\ Len(renamed) \in Nat /\ Len(cuts) = Len(renamed)
  BY LenProperties DEF LogTypes, CutsWithin
<1>1. /\ Len(cuts') = Len(cuts) + 1 /\ Len(renamed') = Len(renamed) + 1
      /\ \A i \in 1 .. Len(cuts) : cuts'[i] = cuts[i] /\ renamed'[i] = renamed[i]
      /\ cuts'[Len(cuts) + 1] = Len(stream) /\ renamed'[Len(renamed) + 1] = Target
  BY <1>s, AppendProperties
<1>2. \A i \in 1 .. Len(renamed) : i \in 1 .. Len(renamed') /\ i # Len(renamed) + 1
  BY <1>s, <1>1
<1>3. Len(renamed) + 1 \in 1 .. Len(renamed')
  BY <1>s, <1>1
<1>4. \A i \in 1 .. Len(renamed) : renamed[i] # Target
  BY <1>s, <1>1, <1>2, <1>3 DEF NamesDiffer
<1>5. NamesDiffer
  BY <1>s, <1>1, <1>2 DEF NamesDiffer
<1>6. ASSUME NEW i \in 1 .. Len(renamed) + 1 PROVE CutBefore(i)' = CutBefore(i)
  <2>1. i # 1 => i - 1 \in 1 .. Len(cuts)
    BY <1>s
  <2> QED BY <1>1, <2>1 DEF CutBefore
<1>7. CutBefore(Len(cuts) + 1)' = Len(stream)
  <2>1. Len(cuts') + 1 # 1 /\ (Len(cuts') + 1) - 1 = Len(cuts) + 1
    BY <1>s, <1>1
  <2> QED BY <1>1, <2>1 DEF CutBefore
<1>8. ASSUME NEW i, i = Len(renamed) + 1 PROVE CutBefore(i)' = CutBefore(Len(cuts) + 1)
  <2>1. i \in 1 .. Len(renamed) + 1 /\ i = Len(cuts) + 1
    BY <1>s, <1>8
  <2> QED BY <1>6, <2>1
<1>9. \A i \in 1 .. Len(renamed) : CutBefore(i)' = CutBefore(i)
  <2>1. \A i \in 1 .. Len(renamed) : i \in 1 .. Len(renamed) + 1
    BY <1>s
  <2> QED BY <1>6, <2>1
<1> QED BY <1>s, <1>1, <1>4, <1>5, <1>7, <1>8, <1>9

(* A cut that was made stays where it is. *)
LEMMA SlicesStay ==
    ASSUME LogTypes, CutsWithin, NEW p \in Seq(Cells), NEW i \in 1 .. Len(renamed)
    PROVE  SubSeq(stream \o p, CutBefore(i) + 1, cuts[i]) = SubSeq(stream, CutBefore(i) + 1, cuts[i])
<1>1. /\ stream \in Seq(Cells) /\ cuts \in Seq(Nat) /\ Len(cuts) = Len(renamed)
      /\ Len(cuts) \in Nat /\ Len(stream) \in Nat
  BY LenProperties DEF LogTypes, CutsWithin
<1>2. \A j \in 1 .. Len(cuts) : cuts[j] \in Nat /\ cuts[j] <= Len(stream)
  <2>1. \A j \in 1 .. Len(cuts) : cuts[j] \in Nat
    BY <1>1, ElementOfSeq
  <2> QED BY <2>1 DEF CutsWithin
<1>3. CutBefore(i) \in Nat
  <2>1. i # 1 => i - 1 \in 1 .. Len(cuts)
    BY <1>1
  <2> QED BY <1>2, <2>1 DEF CutBefore
<1>4. cuts[i] \in 0 .. Len(stream)
  BY <1>1, <1>2
<1> QED BY <1>1, <1>3, <1>4, SliceOfConcat

\* The rotated files and the active one stay the acknowledged cells, cut.
LEMMA CutStep == ASSUME FileInv, Effect PROVE Cut'
<1> DEFINE Slices == \A i \in 1 .. Len(renamed) : renamed[i] \in Rotated =>
                        files[renamed[i]] = SubSeq(stream, CutBefore(i) + 1, cuts[i])
           Rest == ActiveCells = SubSeq(stream, CutBefore(Len(cuts) + 1) + 1, Len(stream))
<1> SUFFICES ASSUME mishaps' \subseteq {"stuck"}, NamesDiffer' PROVE Slices' /\ Rest'
  BY DEF Cut
<1>t. FileTypes /\ LogTypes /\ Control /\ CutsWithin /\ Cut
  BY DEF FileInv
<1>s. /\ stream \in Seq(Cells) /\ Len(stream) \in Nat /\ cuts \in Seq(Nat)
      /\ renamed \in Seq(Stamps) /\ Len(renamed) \in Nat /\ Len(cuts) = Len(renamed)
      /\ ActiveCells \in Seq(Cells)
  BY <1>t, LenProperties, CellsAre DEF LogTypes, CutsWithin
<1>c. CutBefore(Len(cuts) + 1) \in 0 .. Len(stream)
  <2>1. Len(cuts) # 0 => Len(cuts) \in 1 .. Len(cuts)
    BY <1>s
  <2>2. Len(cuts) # 0 => cuts[Len(cuts)] \in Nat /\ cuts[Len(cuts)] <= Len(stream)
    BY <1>s, <1>t, <2>1 DEF CutsWithin
  <2>3. CutBefore(Len(cuts) + 1) = IF Len(cuts) = 0 THEN 0 ELSE cuts[Len(cuts)]
    BY <1>s DEF CutBefore
  <2> QED BY <1>s, <2>2, <2>3
<1>k. mishaps \subseteq mishaps' => mishaps \subseteq {"stuck"}
  OBVIOUS
<1>1. ASSUME SameArchive, ActiveCells' = ActiveCells, UNCHANGED <<stream, cuts, renamed>>,
             mishaps \subseteq mishaps'
      PROVE  Slices' /\ Rest'
  <2>1. NamesDiffer
    BY <1>1 DEF NamesDiffer
  <2>2. Slices /\ Rest
    BY <1>t, <1>k, <1>1, <2>1 DEF Cut
  <2>3. \A i : CutBefore(i)' = CutBefore(i)
    BY <1>1 DEF CutBefore
  <2>4. Slices'
    BY <1>1, <2>2, <2>3 DEF SameArchive
  <2>5. Rest'
    BY <1>1, <2>2 DEF CutBefore
  <2> QED BY <2>4, <2>5
<1>2. CASE Quiet \/ Opens
  BY <1>1, <1>2 DEF Quiet, Opens
<1>3. ASSUME NEW n \in 0 .. Len(ActiveCells), Closes(n) PROVE Slices' /\ Rest'
  <2>1. mishaps' = mishaps \cup Mishap("lost", n < Len(ActiveCells))
    BY <1>3 DEF Closes
  <2>2. n = Len(ActiveCells)
    <3>1. ~(n < Len(ActiveCells))
      BY <2>1 DEF Mishap
    <3>2. Len(ActiveCells) \in Nat
      BY <1>s, LenProperties
    <3> QED BY <3>1, <3>2
  <2>3. ActiveCells' = ActiveCells
    BY <1>s, <1>3, <2>2, SubSeqFull DEF Closes
  <2> QED BY <1>1, <1>3, <2>1, <2>3 DEF Closes
<1>n. ASSUME NEW len \in Sizes, NEW k \in 0 .. len, k \in 1 .. len - 1 => "short" \in mishaps'
      PROVE  /\ len \in Nat /\ len # 0 /\ k \in {0, len}
             /\ NewLine(len) \in Seq(Cells) /\ SubSeq(NewLine(len), 1, 0) = << >>
             /\ SubSeq(NewLine(len), 1, len) = NewLine(len)
  <2>1. len \in Nat /\ len # 0 /\ writes + 1 \in Nat
    BY <1>t, FileSinkConstants DEF LogTypes
  <2>2. k \in {0, len}
    BY <1>n, <2>1
  <2>3. NewLine(len) \in Seq(Cells) /\ SubSeq(NewLine(len), 1, len) = NewLine(len)
    BY <2>1, LineIs DEF NewLine
  <2> QED BY <2>1, <2>2, <2>3, SubSeqEmpty
<1>4. ASSUME NEW len \in Sizes, NEW k \in 0 .. len, Writes(len, k) PROVE Slices' /\ Rest'
  <2>1. /\ SameArchive /\ UNCHANGED <<cuts, renamed>> /\ Taken(len, k, bytes_written)
        /\ ActiveCells' = ActiveCells \o SubSeq(NewLine(len), 1, k)
        /\ mishaps' = mishaps \cup Mishap("short", k \in 1 .. len - 1)
    BY <1>4 DEF Writes
  <2>2. mishaps \subseteq mishaps' /\ (k \in 1 .. len - 1 => "short" \in mishaps')
    BY <2>1 DEF Mishap
  <2>3. /\ len # 0 /\ k \in {0, len} /\ NewLine(len) \in Seq(Cells)
        /\ SubSeq(NewLine(len), 1, 0) = << >> /\ SubSeq(NewLine(len), 1, len) = NewLine(len)
    BY <1>n, <2>2
  <2>4. NamesDiffer /\ Slices /\ Rest
    BY <1>t, <1>k, <2>1, <2>2 DEF Cut, NamesDiffer
  <2>5. CASE k = 0
    <3>1. stream' = stream
      BY <2>1, <2>3, <2>5 DEF Taken, Answered
    <3>2. ActiveCells' = ActiveCells
      BY <1>s, <2>1, <2>3, <2>5, ConcatEmptySeq
    <3> QED BY <1>1, <2>1, <2>2, <3>1, <3>2
  <2>6. CASE k = len
    <3>1. stream' = stream \o NewLine(len)
      BY <2>1, <2>6 DEF Taken, Answered
    <3>2. ActiveCells' = ActiveCells \o NewLine(len)
      BY <2>1, <2>3, <2>6
    <3>3. SubSeq(stream \o NewLine(len), CutBefore(Len(cuts) + 1) + 1, Len(stream \o NewLine(len)))
            = SubSeq(stream, CutBefore(Len(cuts) + 1) + 1, Len(stream)) \o NewLine(len)
      BY <1>s, <1>c, <2>3, EndOfConcat
    <3>4. \A i : CutBefore(i)' = CutBefore(i)
      BY <2>1 DEF CutBefore
    <3>5. CutBefore(Len(cuts) + 1)' = CutBefore(Len(cuts) + 1)
      BY <2>1 DEF CutBefore
    <3>6. Rest'
      BY <2>4, <3>1, <3>2, <3>3, <3>5, Zenon
    <3>7. ASSUME NEW i \in 1 .. Len(renamed'), renamed'[i] \in Rotated'
          PROVE  files'[renamed'[i]] = SubSeq(stream', CutBefore(i)' + 1, cuts'[i])
      <4>1. i \in 1 .. Len(renamed) /\ renamed'[i] = renamed[i] /\ cuts'[i] = cuts[i]
            /\ renamed[i] \in Rotated /\ files'[renamed[i]] = files[renamed[i]]
        BY <2>1, <3>7 DEF SameArchive
      <4>2. files[renamed[i]] = SubSeq(stream, CutBefore(i) + 1, cuts[i])
        BY <2>4, <4>1
      <4>3. SubSeq(stream \o NewLine(len), CutBefore(i) + 1, cuts[i])
              = SubSeq(stream, CutBefore(i) + 1, cuts[i])
        BY <1>t, <2>3, <4>1, SlicesStay
      <4> QED BY <3>1, <3>4, <4>1, <4>2, <4>3, Zenon
    <3> QED BY <3>6, <3>7
  <2> QED BY <2>3, <2>5, <2>6
<1>5. ASSUME NEW len \in Sizes, NEW k \in 0 .. len, Rotates(len, k) PROVE Slices' /\ Rest'
  <2>1. /\ Rotated' \subseteq Rotated \cup {Target}
        /\ \A n \in Rotated' : files'[n] = IF n = Target THEN ActiveCells ELSE files[n]
        /\ ActiveCells' = SubSeq(NewLine(len), 1, k)
        /\ cuts' = Append(cuts, Len(stream)) /\ renamed' = Append(renamed, Target)
        /\ mishaps \subseteq mishaps' /\ (k \in 1 .. len - 1 => "short" \in mishaps')
        /\ (handle' /\ Taken(len, k, 0)) \/ (stream' = stream /\ k = 0)
    <3>1. "interrupted" \notin mishaps'
      OBVIOUS
    <3> QED BY <1>5, <3>1 DEF Rotates, Rename
  <2>2. Target \in Stamps
    BY <1>t, <1>5, MovedIs DEF Rotates
  <2>3. /\ NamesDiffer
        /\ \A i \in 1 .. Len(renamed) : /\ renamed'[i] = renamed[i] /\ renamed[i] # Target
                                        /\ cuts'[i] = cuts[i] /\ CutBefore(i)' = CutBefore(i)
        /\ Len(renamed') = Len(renamed) + 1 /\ Len(cuts') = Len(cuts) + 1
        /\ renamed'[Len(renamed) + 1] = Target /\ cuts'[Len(cuts) + 1] = Len(stream)
        /\ \A i : i = Len(renamed) + 1 => CutBefore(i)' = CutBefore(Len(cuts) + 1)
        /\ CutBefore(Len(cuts) + 1)' = Len(stream)
    BY <1>t, <2>1, <2>2, NamesStep
  <2>4. Slices /\ Rest
    BY <1>t, <1>k, <2>1, <2>3 DEF Cut
  <2>5. /\ len # 0 /\ k \in {0, len} /\ NewLine(len) \in Seq(Cells)
        /\ SubSeq(NewLine(len), 1, 0) = << >> /\ SubSeq(NewLine(len), 1, len) = NewLine(len)
    BY <1>n, <2>1
  <2>6. PICK p \in Seq(Cells) : stream' = stream \o p /\ ActiveCells' = p
    <3>1. CASE k = 0
      <4>1. stream' = stream /\ ActiveCells' = << >>
        BY <2>1, <2>5, <3>1 DEF Taken, Answered
      <4>2. stream \o << >> = stream /\ << >> \in Seq(Cells)
        BY <1>s, ConcatEmptySeq
      <4> QED BY <4>1, <4>2
    <3>2. CASE k = len
      <4>1. stream' = stream \o NewLine(len) /\ ActiveCells' = NewLine(len)
        BY <2>1, <2>5, <3>2 DEF Taken, Answered
      <4> QED BY <2>5, <4>1
    <3> QED BY <2>5, <3>1, <3>2
  <2>7. Rest'
    <3>1. SubSeq(stream \o p, Len(stream) + 1, Len(stream \o p))
            = SubSeq(stream, Len(stream) + 1, Len(stream)) \o p
      <4>1. Len(stream) \in 0 .. Len(stream)
        BY <1>s
      <4> QED BY <1>s, <4>1, EndOfConcat
    <3>2. SubSeq(stream, Len(stream) + 1, Len(stream)) = << >> /\ << >> \o p = p
      BY <1>s, SubSeqEmpty, ConcatEmptySeq
    <3> QED BY <2>3, <2>6, <3>1, <3>2, Zenon
  <2>8. ASSUME NEW i \in 1 .. Len(renamed'), renamed'[i] \in Rotated'
        PROVE  files'[renamed'[i]] = SubSeq(stream', CutBefore(i)' + 1, cuts'[i])
    <3>1. i \in 1 .. Len(renamed) \/ i = Len(renamed) + 1
      BY <1>s, <2>3
    <3>2. CASE i \in 1 .. Len(renamed)
      <4>1. /\ renamed'[i] = renamed[i] /\ cuts'[i] = cuts[i] /\ CutBefore(i)' = CutBefore(i)
            /\ renamed[i] \in Rotated /\ files'[renamed[i]] = files[renamed[i]]
        BY <2>1, <2>3, <2>8, <3>2
      <4>2. files[renamed[i]] = SubSeq(stream, CutBefore(i) + 1, cuts[i])
        BY <2>4, <3>2, <4>1
      <4>3. SubSeq(stream \o p, CutBefore(i) + 1, cuts[i])
              = SubSeq(stream, CutBefore(i) + 1, cuts[i])
        BY <1>t, <3>2, SlicesStay
      <4> QED BY <2>6, <4>1, <4>2, <4>3, Zenon
    <3>3. CASE i = Len(renamed) + 1
      <4>1. /\ renamed'[i] = Target /\ cuts'[i] = Len(stream)
            /\ CutBefore(i)' = CutBefore(Len(cuts) + 1)
            /\ files'[Target] = ActiveCells
        BY <1>s, <2>1, <2>3, <2>8, <3>3
      <4>2. SubSeq(stream \o p, CutBefore(Len(cuts) + 1) + 1, Len(stream))
              = SubSeq(stream, CutBefore(Len(cuts) + 1) + 1, Len(stream))
        <5>1. CutBefore(Len(cuts) + 1) \in Nat /\ Len(stream) \in 0 .. Len(stream)
          BY <1>s, <1>c
        <5> QED BY <1>s, <5>1, SliceOfConcat
      <4> QED BY <2>4, <2>6, <4>1, <4>2, Zenon
    <3> QED BY <3>1, <3>2, <3>3
  <2> QED BY <2>7, <2>8
<1>6. "interrupted" \notin mishaps'
  OBVIOUS
<1> QED BY <1>2, <1>3, <1>4, <1>5, <1>6 DEF Effect, Disturbs, Straggles

\* Nothing happens before the first session.
LEMMA UnusedStep == ASSUME FileInv, Effect PROVE Unused'
<1>1. Unused /\ (handle => opened) /\ sessions \in Nat
  BY DEF FileInv, Control, LogTypes
<1>2. CASE Quiet
  BY <1>1, <1>2 DEF Quiet, Unused, SameArchive
<1>3. CASE Opens
  BY <1>1, <1>3 DEF Opens, Unused
<1>4. CASE opened /\ sessions' = sessions
  BY <1>1, <1>4 DEF Unused
<1> QED BY <1>1, <1>2, <1>3, <1>4 DEF Effect, Closes, Writes, Rotates, Disturbs, Straggles

(* The name of the next rotated file carries the next number. *)
LEMMA TargetNumber == Target[2] = rotation_sequence + 1
BY DEF Target

\* Rotations of a first session are numbered one after the other.
LEMMA NumberedStep == ASSUME FileInv, Effect PROVE Numbered'
<1> SUFFICES ASSUME sessions' <= 1, handle'
             PROVE  /\ rotation_sequence' = Len(renamed')
                    /\ \A i \in 1 .. Len(renamed') : renamed'[i][2] = i
                    /\ \A n \in Rotated' : n[2] <= rotation_sequence'
  BY DEF Numbered
<1>t. FileTypes /\ LogTypes /\ Control /\ Numbered /\ Unused
  BY DEF FileInv
<1>s. /\ sessions \in Nat /\ renamed \in Seq(Stamps) /\ Len(renamed) \in Nat
      /\ rotation_sequence \in Nat
  BY <1>t, LenProperties DEF LogTypes
<1>1. CASE Opens
  <2>1. sessions = 0
    BY <1>s, <1>1 DEF Opens
  <2>2. renamed' = << >> /\ Rotated' = {} /\ rotation_sequence' = 0
    BY <1>t, <1>1, <2>1 DEF Opens, Unused, SameArchive
  <2> QED BY <2>2
<1>2. ASSUME sessions' = sessions, handle
      PROVE  /\ rotation_sequence = Len(renamed)
             /\ \A i \in 1 .. Len(renamed) : renamed[i][2] = i
             /\ \A n \in Rotated : n[2] <= rotation_sequence
  BY <1>t, <1>2 DEF Numbered
<1>3. ASSUME sessions' = sessions, handle, Rotated' = Rotated,
             UNCHANGED <<rotation_sequence, renamed>>
      PROVE  /\ rotation_sequence' = Len(renamed')
             /\ \A i \in 1 .. Len(renamed') : renamed'[i][2] = i
             /\ \A n \in Rotated' : n[2] <= rotation_sequence'
  BY <1>2, <1>3
<1>4. CASE Quiet
  BY <1>3, <1>4 DEF Quiet, SameArchive
<1>5. ASSUME NEW len \in Sizes, NEW k,
             Writes(len, k) \/ \E t \in Seq({Stray}) : Disturbs(len, k, t)
      PROVE  /\ rotation_sequence' = Len(renamed')
             /\ \A i \in 1 .. Len(renamed') : renamed'[i][2] = i
             /\ \A n \in Rotated' : n[2] <= rotation_sequence'
  BY <1>3, <1>5 DEF Writes, Disturbs, SameArchive
<1>7. CASE Straggles
  BY <1>3, <1>7 DEF Straggles, SameArchive
<1>6. ASSUME NEW len \in Sizes, NEW k \in 0 .. len, Rotates(len, k)
      PROVE  /\ rotation_sequence' = Len(renamed')
             /\ \A i \in 1 .. Len(renamed') : renamed'[i][2] = i
             /\ \A n \in Rotated' : n[2] <= rotation_sequence'
  <2>1. /\ handle /\ sessions' = sessions /\ Rotated' \subseteq Rotated \cup {Target}
        /\ renamed' = Append(renamed, Target) /\ rotation_sequence' = rotation_sequence + 1
    BY <1>6 DEF Rotates, RotationDone, Rename
  <2>2. /\ rotation_sequence = Len(renamed)
        /\ \A i \in 1 .. Len(renamed) : renamed[i][2] = i
        /\ \A n \in Rotated : n[2] <= rotation_sequence
    BY <1>2, <2>1
  <2>3. Target \in Stamps
    BY <1>t, <2>1, MovedIs
  <2>4. /\ Len(renamed') = Len(renamed) + 1 /\ renamed'[Len(renamed) + 1] = Target
        /\ \A i \in 1 .. Len(renamed) : renamed'[i] = renamed[i]
    BY <1>s, <2>1, <2>3, AppendProperties
  <2>5. \A i \in 1 .. Len(renamed') : renamed'[i][2] = i
    <3>1. \A i \in 1 .. Len(renamed') : i \in 1 .. Len(renamed) \/ i = Len(renamed) + 1
      BY <1>s, <2>4
    <3> QED BY <2>2, <2>4, <3>1, TargetNumber
  <2>6. ASSUME NEW n \in Rotated' PROVE n[2] <= rotation_sequence'
    <3>1. CASE n = Target
      BY <1>s, <2>1, <3>1, TargetNumber
    <3>2. CASE n # Target
      <4>1. n \in Rotated /\ n \in Stamps
        BY <1>t, <2>1, <3>2, CellsAre
      <4>2. n[2] \in Nat /\ n[2] <= rotation_sequence
        BY <2>2, <4>1 DEF Stamps
      <4> QED BY <1>s, <2>1, <4>2
    <3> QED BY <3>1, <3>2
  <2> QED BY <2>1, <2>2, <2>4, <2>5, <2>6
<1> QED BY <1>1, <1>4, <1>5, <1>6, <1>7 DEF Effect, Closes

\* bytes_written stays the size of the active file of a first session.
LEMMA BytesStep == ASSUME FileInv, Effect PROVE BytesWrittenExact'
<1> SUFFICES ASSUME handle', sessions' = 1, "short" \notin mishaps', "interrupted" \notin mishaps'
             PROVE  bytes_written' = Len(ActiveCells')
  BY DEF BytesWrittenExact, WholeLines
<1>t. FileTypes /\ LogTypes /\ Control /\ BytesWrittenExact /\ Unused
  BY DEF FileInv
<1>s. /\ sessions \in Nat /\ ActiveCells \in Seq(Cells) /\ Len(ActiveCells) \in Nat
      /\ bytes_written \in Nat
  BY <1>t, LenProperties, CellsAre DEF LogTypes
<1>1. CASE Quiet
  BY <1>t, <1>1 DEF Quiet, BytesWrittenExact, WholeLines
<1>2. CASE Opens
  BY <1>s, <1>t, <1>2 DEF Opens, Unused
<1>n. ASSUME NEW len \in Sizes, NEW k \in 0 .. len, k \in 1 .. len - 1 => "short" \in mishaps'
      PROVE  /\ len \in Nat /\ len # 0 /\ k \in {0, len}
             /\ SubSeq(NewLine(len), 1, k) \in Seq(Cells) /\ Len(SubSeq(NewLine(len), 1, k)) = k
  <2>1. len \in Nat /\ len # 0 /\ writes + 1 \in Nat
    BY <1>t, FileSinkConstants DEF LogTypes
  <2>2. k \in {0, len}
    BY <1>n, <2>1
  <2> QED BY <2>1, <2>2, LineIs DEF NewLine
<1>3. ASSUME NEW len \in Sizes, NEW k \in 0 .. len, Writes(len, k)
      PROVE  bytes_written' = Len(ActiveCells')
  <2>1. /\ sessions' = sessions /\ handle /\ Taken(len, k, bytes_written)
        /\ ActiveCells' = ActiveCells \o SubSeq(NewLine(len), 1, k)
        /\ mishaps' = mishaps \cup Mishap("short", k \in 1 .. len - 1)
    BY <1>3 DEF Writes
  <2>2. /\ "short" \notin mishaps /\ "interrupted" \notin mishaps
        /\ k \in 1 .. len - 1 => "short" \in mishaps'
    BY <2>1 DEF Mishap
  <2>3. bytes_written = Len(ActiveCells)
    BY <1>t, <2>1, <2>2 DEF BytesWrittenExact, WholeLines
  <2>4. Len(ActiveCells') = Len(ActiveCells) + k
    BY <1>s, <1>n, <2>1, <2>2, ConcatProperties
  <2>5. bytes_written' = bytes_written + k
    BY <1>s, <1>n, <2>1, <2>2 DEF Taken, Answered
  <2> QED BY <2>3, <2>4, <2>5
<1>4. ASSUME NEW len \in Sizes, NEW k \in 0 .. len, Rotates(len, k)
      PROVE  bytes_written' = Len(ActiveCells')
  BY <1>n, <1>4 DEF Rotates, Taken, Answered
<1> QED BY <1>1, <1>2, <1>3, <1>4 DEF Effect, Closes, Disturbs, Straggles

\* A file that respects rotate_bytes, or holds a single record.
Small(cells) == \/ Len(cells) <= RotateBytes
                \/ \A i \in 1 .. Len(cells) : cells[i].rec = cells[1].rec

(* A prefix of a small file is small. *)
LEMMA SmallPrefix ==
    ASSUME NEW s \in Seq(Cells), NEW n \in 0 .. Len(s), Small(s), RotateBytes \in Nat
    PROVE  Small(SubSeq(s, 1, n))
<1> DEFINE t == SubSeq(s, 1, n)
<1>1. Len(t) = n /\ Len(s) \in Nat /\ \A i \in 1 .. n : t[i] = s[i]
  BY SubSeqProperties, LenProperties
<1> HIDE DEF t
<1>2. ASSUME Len(s) <= RotateBytes PROVE Small(t)
  BY <1>1, <1>2 DEF Small
<1>3. ASSUME \A i \in 1 .. Len(s) : s[i].rec = s[1].rec PROVE Small(t)
  <2>1. \A i \in 1 .. n : i \in 1 .. Len(s) /\ 1 \in 1 .. n
    BY <1>1
  <2>2. \A i \in 1 .. n : t[i].rec = t[1].rec
    BY <1>1, <1>3, <2>1
  <2> QED BY <1>1, <2>2 DEF Small
<1>4. Len(s) <= RotateBytes \/ \A i \in 1 .. Len(s) : s[i].rec = s[1].rec
  BY DEF Small
<1>5. Small(t)
  BY <1>2, <1>3, <1>4
<1> QED BY <1>5 DEF t

(* A file with cells of one record only is small. *)
LEMMA SmallLine ==
    ASSUME NEW r \in Nat, NEW len \in Nat, NEW k \in 0 .. len
    PROVE  Small(SubSeq(Line(r, len), 1, k))
<1> DEFINE t == SubSeq(Line(r, len), 1, k)
<1>1. Len(t) = k /\ \A i \in 1 .. k : t[i] = [rec |-> r, at |-> i, of |-> len]
  BY LineIs
<1> HIDE DEF t
<1>2. \A i \in 1 .. k : t[i].rec = r /\ 1 \in 1 .. k
  BY <1>1
<1>3. Small(t)
  BY <1>1, <1>2 DEF Small
<1> QED BY <1>3 DEF t

\* Files stay small: a record joins others only where it fits.
LEMMA SizeStep == ASSUME FileInv, Effect PROVE SizeBound'
<1> SUFFICES ASSUME RotateBytes > 0, sessions' = 1, "short" \notin mishaps',
                    "interrupted" \notin mishaps'
             PROVE  Small(ActiveCells') /\ \A n \in Rotated' : Small(files'[n])
  BY DEF SizeBound, WholeLines, Small, Rotated
<1>t. FileTypes /\ LogTypes /\ Control /\ BytesWrittenExact /\ SizeBound /\ Unused
  BY DEF FileInv
<1>s. /\ sessions \in Nat /\ ActiveCells \in Seq(Cells) /\ Len(ActiveCells) \in Nat
      /\ bytes_written \in Nat /\ writes \in Nat /\ RotateBytes \in Nat
  BY <1>t, LenProperties, CellsAre, FileSinkConstants DEF LogTypes
<1>b. ASSUME sessions' = sessions, mishaps \subseteq mishaps'
      PROVE  /\ Small(ActiveCells) /\ \A n \in Rotated : Small(files[n])
             /\ handle => bytes_written = Len(ActiveCells)
  <2>1. RotateBytes > 0 /\ sessions = 1 /\ WholeLines
    BY <1>b DEF WholeLines
  <2>2. \A n \in DOMAIN files \cup {Active} :
            LET cells == IF n = Active THEN ActiveCells ELSE files[n]
            IN  \/ Len(cells) <= RotateBytes
                \/ \A i \in 1 .. Len(cells) : cells[i].rec = cells[1].rec
    BY <1>t, <2>1 DEF SizeBound
  <2>3. Small(ActiveCells)
    BY <2>2 DEF Small
  <2>4. \A n \in Rotated : Small(files[n])
    BY <2>2 DEF Small, Rotated
  <2> QED BY <1>t, <2>1, <2>3, <2>4 DEF BytesWrittenExact
<1>a. ASSUME SameArchive, sessions' = sessions, mishaps \subseteq mishaps'
      PROVE  \A n \in Rotated' : Small(files'[n])
  BY <1>a, <1>b DEF SameArchive
<1>1. CASE Quiet
  <2>1. SameArchive /\ ActiveCells' = ActiveCells /\ sessions' = sessions /\ mishaps' = mishaps
    BY <1>1 DEF Quiet
  <2> QED BY <1>a, <1>b, <2>1
<1>2. CASE Opens
  <2>1. Rotated' = {} /\ ActiveCells' = << >>
    BY <1>s, <1>t, <1>2 DEF Opens, Unused, SameArchive
  <2> QED BY <1>s, <2>1 DEF Small
<1>3. ASSUME NEW n \in 0 .. Len(ActiveCells), Closes(n)
      PROVE  Small(ActiveCells') /\ \A m \in Rotated' : Small(files'[m])
  <2>1. /\ SameArchive /\ ActiveCells' = SubSeq(ActiveCells, 1, n) /\ sessions' = sessions
        /\ mishaps \subseteq mishaps'
    BY <1>3 DEF Closes
  <2>2. Small(SubSeq(ActiveCells, 1, n))
    BY <1>s, <1>b, <2>1, SmallPrefix
  <2> QED BY <1>a, <2>1, <2>2
<1>n. ASSUME NEW len \in Sizes, NEW k \in 0 .. len
      PROVE  /\ len \in Nat /\ SubSeq(NewLine(len), 1, k) \in Seq(Cells)
             /\ Len(SubSeq(NewLine(len), 1, k)) = k /\ Small(SubSeq(NewLine(len), 1, k))
  <2>1. len \in Nat /\ writes + 1 \in Nat
    BY <1>s, FileSinkConstants
  <2>2. Small(SubSeq(Line(writes + 1, len), 1, k))
    BY <2>1, SmallLine
  <2>3. /\ SubSeq(Line(writes + 1, len), 1, k) \in Seq(Cells)
        /\ Len(SubSeq(Line(writes + 1, len), 1, k)) = k
    BY <2>1, LineIs
  <2> QED BY <2>1, <2>2, <2>3 DEF NewLine
<1>4. ASSUME NEW len \in Sizes, NEW k \in 0 .. len, Writes(len, k)
      PROVE  Small(ActiveCells') /\ \A m \in Rotated' : Small(files'[m])
  <2> DEFINE p == SubSeq(NewLine(len), 1, k)
  <2>1. /\ SameArchive /\ ActiveCells' = ActiveCells \o p /\ sessions' = sessions
        /\ mishaps \subseteq mishaps' /\ handle /\ ~rotation_due(len)
    BY <1>4 DEF Writes
  <2>2. len \in Nat /\ p \in Seq(Cells) /\ Len(p) = k /\ Small(p)
    BY <1>n
  <2> HIDE DEF p
  <2>3. bytes_written = Len(ActiveCells)
    BY <1>b, <2>1
  <2>4. bytes_written = 0 \/ bytes_written + len <= RotateBytes
    BY <1>s, <2>1, <2>2 DEF rotation_due, HasContent, SizeDue
  <2>5. CASE bytes_written = 0
    <3>1. ActiveCells = << >>
      BY <1>s, <2>3, <2>5, EmptySeq
    <3>2. ActiveCells' = p
      BY <2>1, <2>2, <3>1, ConcatEmptySeq
    <3> QED BY <1>a, <2>1, <2>2, <3>2
  <2>6. CASE bytes_written + len <= RotateBytes
    <3>1. Len(ActiveCells \o p) = Len(ActiveCells) + k
      BY <1>s, <2>2, ConcatProperties
    <3>2. Len(ActiveCells') <= RotateBytes
      BY <1>s, <2>1, <2>2, <2>3, <2>6, <3>1
    <3> QED BY <1>a, <2>1, <3>2 DEF Small
  <2> QED BY <2>4, <2>5, <2>6
<1>5. ASSUME NEW len \in Sizes, NEW k \in 0 .. len, Rotates(len, k)
      PROVE  Small(ActiveCells') /\ \A m \in Rotated' : Small(files'[m])
  <2>1. /\ Rotated' \subseteq Rotated \cup {Target} /\ sessions' = sessions
        /\ \A n \in Rotated' : files'[n] = IF n = Target THEN ActiveCells ELSE files[n]
        /\ ActiveCells' = SubSeq(NewLine(len), 1, k) /\ mishaps \subseteq mishaps'
    BY <1>5 DEF Rotates
  <2>2. Small(ActiveCells) /\ \A n \in Rotated : Small(files[n])
    BY <1>b, <2>1
  <2>3. ASSUME NEW m \in Rotated' PROVE Small(files'[m])
    <3>1. files'[m] = ActiveCells \/ (m \in Rotated /\ files'[m] = files[m])
      BY <2>1
    <3> QED BY <2>2, <3>1
  <2> QED BY <1>n, <2>1, <2>3
<1> QED BY <1>1, <1>2, <1>3, <1>4, <1>5 DEF Effect, Disturbs, Straggles

(* What retention drops brings the number of remembered files to its limit. *)
LEMMA KeptIs ==
    ASSUME NEW n \in Nat
    PROVE  /\ KeptOf(n) \in 0 .. n /\ KeptOf(n + 1) \in 0 .. n + 1
           /\ Len(Recorded) = KeptOf(n) + 1 =>
                 /\ Excess \in 0 .. KeptOf(n) + 1
                 /\ n - KeptOf(n) + Excess = n + 1 - KeptOf(n + 1)
<1> USE FileSinkConstants
<1>1. CASE Retention > 0 /\ n > Retention
  <2>1. KeptOf(n) = Retention /\ KeptOf(n + 1) = Retention
    BY <1>1 DEF KeptOf
  <2>2. Len(Recorded) = KeptOf(n) + 1 => Excess = 1
    BY <1>1, <2>1 DEF Excess
  <2> QED BY <1>1, <2>1, <2>2
<1>2. CASE Retention > 0 /\ n = Retention
  <2>1. KeptOf(n) = n /\ KeptOf(n + 1) = n
    BY <1>2 DEF KeptOf
  <2>2. Len(Recorded) = KeptOf(n) + 1 => Excess = 1
    BY <1>2, <2>1 DEF Excess
  <2> QED BY <2>1, <2>2
<1>3. CASE ~(Retention > 0 /\ n >= Retention)
  <2>1. KeptOf(n) = n /\ KeptOf(n + 1) = n + 1
    BY <1>3 DEF KeptOf
  <2>2. Len(Recorded) = KeptOf(n) + 1 => Excess = 0
    BY <1>3, <2>1 DEF Excess
  <2> QED BY <2>1, <2>2
<1> QED BY <1>1, <1>2, <1>3

\* A rotation remembers and drops the names that the history of renames says.
LEMMA RecordedIs ==
    ASSUME LogTypes, Remembered, sessions <= 1, handle, Target \in Stamps,
           renamed' = Append(renamed, Target)
    PROVE  LET N == Len(renamed)  m == N - KeptOf(N)
           IN  /\ m \in 0 .. N /\ Excess \in 0 .. KeptOf(N) + 1
               /\ m + Excess = N + 1 - KeptOf(N + 1)
               /\ Len(renamed') = N + 1
               /\ Obsolete = {renamed'[m + i] : i \in 1 .. Excess}
               /\ SubSeq(Recorded, Excess + 1, Len(Recorded))
                    = SubSeq(renamed', m + Excess + 1, N + 1)
<1> DEFINE N == Len(renamed)
           m == N - KeptOf(N)
           R == Append(renamed, Target)
<1>1. /\ renamed \in Seq(Stamps) /\ N \in Nat /\ rotated_paths = SubSeq(renamed, m + 1, N)
  BY LenProperties DEF LogTypes, Remembered
<1>2. R = renamed \o <<Target>> /\ R \in Seq(Stamps) /\ Len(R) = N + 1
      /\ <<Target>> \in Seq(Stamps)
  BY <1>1, AppendIsConcat, AppendProperties
<1>3. KeptOf(N) \in 0 .. N
  BY <1>1, KeptIs
<1>4. m \in 0 .. N
  BY <1>1, <1>3
<1> HIDE DEF m
<1>5. rotated_paths \in Seq(Stamps) /\ Recorded = rotated_paths \o <<Target>>
  <2>1. rotated_paths \in Seq(Stamps)
    BY DEF LogTypes
  <2> QED BY <2>1, AppendIsConcat DEF Recorded
<1>6. Recorded = SubSeq(R, m + 1, Len(R))
  <2>1. SubSeq(renamed \o <<Target>>, m + 1, Len(renamed \o <<Target>>))
          = SubSeq(renamed, m + 1, Len(renamed)) \o <<Target>>
    BY <1>1, <1>2, <1>4, EndOfConcat
  <2> QED BY <1>1, <1>2, <1>5, <2>1
<1> HIDE DEF R
<1>7. m \in 0 .. Len(R) /\ 0 \in 0 .. Len(R) - m
  BY <1>1, <1>2, <1>4
<1>8. Len(Recorded) = Len(R) - m /\ \A i \in 1 .. Len(R) - m : Recorded[i] = R[m + i]
  BY <1>2, <1>6, <1>7, EndOfEnd
<1>9. Len(R) - m = KeptOf(N) + 1
  BY <1>1, <1>2, <1>3 DEF m
<1>10. Excess \in 0 .. KeptOf(N) + 1 /\ m + Excess = N + 1 - KeptOf(N + 1)
  BY <1>1, <1>8, <1>9, KeptIs DEF m
<1>11. Obsolete = {R[m + i] : i \in 1 .. Excess}
  <2>1. \A i \in 1 .. Excess : i \in 1 .. Len(R) - m
    BY <1>3, <1>9, <1>10
  <2> QED BY <1>8, <2>1 DEF Obsolete
<1>12. SubSeq(Recorded, Excess + 1, Len(Recorded)) = SubSeq(R, m + Excess + 1, N + 1)
  <2>1. Excess \in 0 .. Len(R) - m
    BY <1>9, <1>10
  <2>2. SubSeq(Recorded, Excess + 1, Len(Recorded)) = SubSeq(R, m + Excess + 1, Len(R))
    BY <1>2, <1>6, <1>7, <2>1, EndOfEnd, SMTT(30)
  <2> QED BY <1>2, <2>2
<1>13. renamed' = R
  BY DEF R
<1> QED BY <1>2, <1>4, <1>10, <1>11, <1>12, <1>13 DEF m

\* The sink keeps remembering the newest rotated files.
LEMMA RememberedStep == ASSUME FileInv, Effect PROVE Remembered'
<1> SUFFICES ASSUME sessions' <= 1, handle'
             PROVE  rotated_paths' = SubSeq(renamed', Len(renamed') - KeptOf(Len(renamed')) + 1,
                                            Len(renamed'))
  BY DEF Remembered
<1>t. FileTypes /\ LogTypes /\ Control /\ Remembered /\ Unused
  BY DEF FileInv
<1>s. sessions \in Nat
  BY <1>t DEF LogTypes
<1>1. CASE Quiet
  BY <1>t, <1>1 DEF Quiet, Remembered
<1>2. CASE Opens
  <2>1. renamed' = << >> /\ rotated_paths' = << >>
    BY <1>s, <1>t, <1>2 DEF Opens, Unused
  <2>2. Len(<< >>) = 0 /\ KeptOf(0) = 0
    BY FileSinkConstants DEF KeptOf
  <2> QED BY <2>1, <2>2
<1>3. ASSUME NEW len \in Sizes, NEW k,
             Writes(len, k) \/ \E t \in Seq({Stray}) : Disturbs(len, k, t)
      PROVE  rotated_paths' = SubSeq(renamed', Len(renamed') - KeptOf(Len(renamed')) + 1,
                                     Len(renamed'))
  BY <1>t, <1>3 DEF Writes, Disturbs, Remembered
<1>5. CASE Straggles
  BY <1>t, <1>5 DEF Straggles, Remembered
<1>4. ASSUME NEW len \in Sizes, NEW k \in 0 .. len, Rotates(len, k)
      PROVE  rotated_paths' = SubSeq(renamed', Len(renamed') - KeptOf(Len(renamed')) + 1,
                                     Len(renamed'))
  <2>1. /\ handle /\ sessions <= 1 /\ renamed' = Append(renamed, Target)
        /\ rotated_paths' = SubSeq(Recorded, Excess + 1, Len(Recorded))
    BY <1>4 DEF Rotates, Rename, RotationDone
  <2>2. Target \in Stamps
    BY <1>t, <2>1, MovedIs
  <2>3. /\ Len(renamed) - KeptOf(Len(renamed)) + Excess = Len(renamed) + 1 - KeptOf(Len(renamed) + 1)
        /\ Len(renamed') = Len(renamed) + 1
        /\ SubSeq(Recorded, Excess + 1, Len(Recorded))
             = SubSeq(renamed', Len(renamed) - KeptOf(Len(renamed)) + Excess + 1, Len(renamed) + 1)
    BY <1>t, <2>1, <2>2, RecordedIs
  <2>4. Len(renamed') - KeptOf(Len(renamed')) = Len(renamed) - KeptOf(Len(renamed)) + Excess
    <3>1. KeptOf(Len(renamed')) = KeptOf(Len(renamed) + 1)
      BY <2>3 DEF KeptOf
    <3>2. Len(renamed) \in Nat
      BY <1>t, LenProperties DEF LogTypes
    <3>3. KeptOf(Len(renamed)) \in Nat /\ KeptOf(Len(renamed) + 1) \in Nat /\ Excess \in Nat
      BY <1>t, <2>1, <2>2, <3>2, KeptIs, RecordedIs
    <3> QED BY <2>3, <3>1, <3>2, <3>3
  <2> QED BY <2>1, <2>3, <2>4
<1> QED BY <1>1, <1>2, <1>3, <1>4, <1>5 DEF Effect, Closes

\* The rotated files on disk stay the newest ones.
LEMMA OnDiskStep == ASSUME FileInv, Effect PROVE OnDisk'
<1> SUFFICES ASSUME sessions' <= 1, "stuck" \notin mishaps', handle' \/ status' = "OK"
             PROVE  Rotated' = Newest'
  BY DEF OnDisk
<1>t. FileTypes /\ LogTypes /\ Control /\ OnDisk /\ Remembered /\ Numbered /\ Unused
  BY DEF FileInv
<1>s. /\ sessions \in Nat /\ renamed \in Seq(Stamps) /\ Len(renamed) \in Nat
  BY <1>t, LenProperties DEF LogTypes
<1>1. ASSUME SameArchive, renamed' = renamed, sessions' = sessions, mishaps \subseteq mishaps',
             handle \/ status = "OK"
      PROVE  Rotated' = Newest'
  BY <1>t, <1>1 DEF OnDisk, Newest, SameArchive
<1>2. CASE Quiet
  BY <1>1, <1>2 DEF Quiet
<1>3. CASE Opens
  <2>1. renamed' = << >> /\ Rotated' = {}
    BY <1>s, <1>t, <1>3 DEF Opens, Unused, SameArchive
  <2>2. Len(<< >>) = 0 /\ KeptOf(0) = 0
    BY FileSinkConstants DEF KeptOf
  <2> QED BY <2>1, <2>2 DEF Newest
<1>4. ASSUME NEW n \in 0 .. Len(ActiveCells), Closes(n) PROVE Rotated' = Newest'
  BY <1>1, <1>4 DEF Closes
<1>5. ASSUME NEW len \in Sizes, NEW k,
             Writes(len, k) \/ \E t \in Seq({Stray}) : Disturbs(len, k, t)
      PROVE  Rotated' = Newest'
  BY <1>1, <1>5 DEF Writes, Disturbs
<1>7. CASE Straggles
  BY <1>1, <1>7 DEF Straggles
<1>6. ASSUME NEW len \in Sizes, NEW k \in 0 .. len, Rotates(len, k) PROVE Rotated' = Newest'
  <2> DEFINE N == Len(renamed)
             m == N - KeptOf(N)
  <2>1. /\ handle /\ sessions <= 1 /\ renamed' = Append(renamed, Target)
        /\ Rotated' = (Rotated \cup {Target}) \ Obsolete /\ "stuck" \notin mishaps
    BY <1>6 DEF Rotates, Rename
  <2>2. Target \in Stamps
    BY <1>t, <2>1, MovedIs
  <2>3. /\ m \in 0 .. N /\ Excess \in 0 .. KeptOf(N) + 1
        /\ m + Excess = N + 1 - KeptOf(N + 1)
        /\ Len(renamed') = N + 1
        /\ Obsolete = {renamed'[m + i] : i \in 1 .. Excess}
    BY <1>t, <2>1, <2>2, RecordedIs
  <2>4. /\ renamed'[N + 1] = Target /\ \A i \in 1 .. N : renamed'[i] = renamed[i]
    BY <1>s, <2>1, <2>2, AppendProperties
  <2>5. Rotated = {renamed[i] : i \in m + 1 .. N}
    BY <1>t, <2>1 DEF OnDisk, Newest
  <2>6. ASSUME NEW i \in 1 .. N + 1 PROVE renamed'[i][2] = i
    <3>1. i \in 1 .. N \/ i = N + 1
      BY <1>s
    <3>2. rotation_sequence = N /\ \A j \in 1 .. N : renamed[j][2] = j
      BY <1>t, <2>1 DEF Numbered
    <3> QED BY <2>4, <3>1, <3>2, TargetNumber
  <2>7. Newest' = {renamed'[i] : i \in m + Excess + 1 .. N + 1}
    <3>1. Newest' = {renamed'[i] : i \in Len(renamed') - KeptOf(Len(renamed')) + 1 .. Len(renamed')}
      BY DEF Newest
    <3>2. Len(renamed') - KeptOf(Len(renamed')) = m + Excess
      <4>1. KeptOf(Len(renamed')) = KeptOf(N + 1)
        BY <2>3 DEF KeptOf
      <4>2. KeptOf(N) \in Nat /\ KeptOf(N + 1) \in Nat /\ Excess \in Nat
        BY <1>s, <2>3, KeptIs
      <4> QED BY <1>s, <2>3, <4>1, <4>2
    <3> QED BY <2>3, <3>1, <3>2
  <2>a. KeptOf(N) \in 0 .. N /\ N \in Nat
    BY <1>s, KeptIs
  <2>b. N = m + KeptOf(N)
    BY <2>a
  <2> HIDE DEF m, N
  <2>8. Rotated \cup {Target} = {renamed'[i] : i \in m + 1 .. N + 1}
    <3>1. \A i \in m + 1 .. N + 1 : (i \in 1 .. N /\ i \in m + 1 .. N) \/ i = N + 1
      BY <2>3, <2>a
    <3>2. \A i \in m + 1 .. N : i \in 1 .. N /\ i \in m + 1 .. N + 1
      BY <2>3, <2>a
    <3>3. N + 1 \in m + 1 .. N + 1
      BY <2>3, <2>a
    <3> QED BY <2>4, <2>5, <3>1, <3>2, <3>3
  <2>9. \A i \in m + 1 .. N + 1 : renamed'[i] \in Obsolete <=> i \in m + 1 .. m + Excess
    <3>1. \A i \in m + 1 .. m + Excess : i - m \in 1 .. Excess /\ m + (i - m) = i
      BY <2>3, <2>a
    <3>2. \A i \in 1 .. Excess : m + i \in m + 1 .. m + Excess /\ m + i \in 1 .. N + 1
      BY <2>3, <2>a, <2>b
    <3>3. \A i \in m + 1 .. N + 1 : i \in 1 .. N + 1
      BY <2>3, <2>a
    <3>4. \A i \in m + 1 .. N + 1 : i \in m + 1 .. m + Excess => renamed'[i] \in Obsolete
      BY <2>3, <3>1
    <3>5. ASSUME NEW i \in m + 1 .. N + 1, renamed'[i] \in Obsolete PROVE i \in m + 1 .. m + Excess
      <4>1. PICK j \in 1 .. Excess : renamed'[i] = renamed'[m + j]
        BY <2>3, <3>5
      <4>2. renamed'[i][2] = i /\ renamed'[m + j][2] = m + j
        BY <2>6, <3>2, <3>3
      <4> QED BY <3>2, <4>1, <4>2
    <3> QED BY <3>4, <3>5
  <2>10. \A i \in m + 1 .. N + 1 : i \notin m + 1 .. m + Excess <=> i \in m + Excess + 1 .. N + 1
    BY <2>3, <2>a
  <2>11. \A i \in m + Excess + 1 .. N + 1 : i \in m + 1 .. N + 1
    BY <2>3, <2>a
  <2>12. ASSUME NEW x PROVE x \in Rotated' <=> x \in Newest'
    <3>1. x \in Rotated' <=> x \in {renamed'[i] : i \in m + 1 .. N + 1} /\ x \notin Obsolete
      BY <2>1, <2>8
    <3>2. ASSUME x \in Rotated' PROVE x \in Newest'
      <4>1. PICK i \in m + 1 .. N + 1 : x = renamed'[i]
        BY <3>1, <3>2
      <4>2. i \in m + Excess + 1 .. N + 1
        BY <2>9, <2>10, <3>1, <3>2, <4>1
      <4> QED BY <2>7, <4>1, <4>2
    <3>3. ASSUME x \in Newest' PROVE x \in Rotated'
      <4>1. PICK i \in m + Excess + 1 .. N + 1 : x = renamed'[i]
        BY <2>7, <3>3
      <4>2. i \in m + 1 .. N + 1 /\ x \notin Obsolete
        BY <2>9, <2>10, <2>11, <4>1
      <4> QED BY <3>1, <4>1, <4>2
    <3> QED BY <3>2, <3>3
  <2> QED BY <2>12
<1> QED BY <1>2, <1>3, <1>4, <1>5, <1>6, <1>7 DEF Effect

----------------------------------------------------------------------------
(* The invariant and what follows from it *)

(* Before anything happened, everything is empty. *)
LEMMA FileInitial == ASSUME Init PROVE FileInv
<1>1. /\ opened = FALSE /\ active_backend = "SYNC" /\ handle = FALSE /\ bytes_written = 0
      /\ rotation_sequence = 0 /\ rotated_paths = << >> /\ files = << >> /\ buffer = << >>
      /\ clock = 0 /\ status = "none" /\ writes = 0 /\ sessions = 0
      /\ stream = << >> /\ cuts = << >> /\ renamed = << >> /\ mishaps = {}
      /\ ring = NewRing
  BY DEF Init
<1>2. DOMAIN files = {} /\ files \in [DOMAIN files -> Seq(Cells)]
  BY <1>1
<1>3. Rotated = {} /\ ActiveCells = << >>
  BY <1>1, <1>2 DEF Rotated, ActiveCells
<1>4. FileTypes
  BY <1>1, <1>2, NewRingIs DEF FileTypes
<1>5. LogTypes
  BY <1>1 DEF LogTypes
<1>6. Control
  BY <1>1 DEF Control
<1>7. InOrder
  BY <1>3 DEF InOrder, Ordered
<1>8. CutsWithin
  BY <1>1 DEF CutsWithin
<1>9. Cut
  <2>1. CutBefore(Len(cuts) + 1) = 0 /\ Len(renamed) = 0
    BY <1>1 DEF CutBefore
  <2>2. SubSeq(stream, 1, Len(stream)) = << >>
    BY <1>1
  <2> QED BY <1>3, <2>1, <2>2 DEF Cut
<1>10. Unused
  BY <1>1, <1>3 DEF Unused
<1>11. Numbered /\ Remembered /\ BytesWrittenExact
  BY <1>1 DEF Numbered, Remembered, BytesWrittenExact
<1>12. OnDisk
  BY <1>1 DEF OnDisk
<1>13. SizeBound
  BY <1>1 DEF SizeBound
<1> QED
  BY <1>4, <1>5, <1>6, <1>7, <1>8, <1>9, <1>10, <1>11, <1>12, <1>13 DEF FileInv

(* The inductive invariant of the file sink. *)
THEOREM FileInvariant == Spec => []FileInv
<1>1. Init => FileInv
  BY FileInitial
<1>2. FileInv /\ [Next]_vars => FileInv'
  <2> SUFFICES ASSUME FileInv, [Next]_vars PROVE FileInv'
    OBVIOUS
  <2>1. FileTypes /\ LogTypes /\ Control
    BY DEF FileInv
  <2>2. FileTypes' /\ Control' /\ Effect
    BY <2>1, StepEffect
  <2>3. LogTypes'
    BY <2>1, <2>2, LogTypesStep
  <2>4. InOrder' /\ CutsWithin' /\ Cut' /\ Unused'
    BY <2>2, InOrderStep, CutsWithinStep, CutStep, UnusedStep
  <2>5. Numbered' /\ Remembered' /\ OnDisk'
    BY <2>2, NumberedStep, RememberedStep, OnDiskStep
  <2>6. BytesWrittenExact' /\ SizeBound'
    BY <2>2, BytesStep, SizeStep
  <2> QED BY <2>2, <2>3, <2>4, <2>5, <2>6 DEF FileInv
<1> QED BY <1>1, <1>2, PTL DEF Spec

(* Through rotations, failures and new sessions the rotated files in the   *)
(* order of their renames, then the active file, then what stdio holds,    *)
(* are the acknowledged records in order, cut at the renames: until a      *)
(* write is short, an io_uring call is interrupted, a close loses what     *)
(* stdio held or a name is used again.                                     *)
THEOREM FileLogIsCut == Spec => []LogIsCut
<1>1. FileInv => LogIsCut
  <2> SUFFICES ASSUME FileInv, mishaps \subseteq {"stuck"}, NamesDiffer
               PROVE  /\ \A i \in 1 .. Len(renamed) :
                            renamed[i] \in DOMAIN files =>
                                files[renamed[i]] = SubSeq(stream, CutBefore(i) + 1, cuts[i])
                      /\ ActiveCells = SubSeq(stream, CutBefore(Len(cuts) + 1) + 1, Len(stream))
    BY DEF LogIsCut
  <2>1. FileTypes /\ LogTypes /\ Cut
    BY DEF FileInv
  <2>2. /\ \A i \in 1 .. Len(renamed) : renamed[i] \in Rotated =>
              files[renamed[i]] = SubSeq(stream, CutBefore(i) + 1, cuts[i])
        /\ ActiveCells = SubSeq(stream, CutBefore(Len(cuts) + 1) + 1, Len(stream))
    BY <2>1 DEF Cut
  <2>3. ASSUME NEW i \in 1 .. Len(renamed), renamed[i] \in DOMAIN files
        PROVE  renamed[i] \in Rotated
    <3>1. renamed[i] \in Stamps
      BY <2>1, <2>3, ElementOfSeq DEF LogTypes
    <3>2. Active \notin Stamps
      BY <2>1, CellsAre
    <3> QED BY <2>3, <3>1, <3>2 DEF Rotated
  <2> QED BY <2>2, <2>3
<1> QED BY <1>1, FileInvariant, PTL

(* bytes_written, which decides when to rotate, is the size of the active  *)
(* file of a first session until a write leaves a partial line or an       *)
(* io_uring call is interrupted.                                           *)
THEOREM FileBytesWrittenExact == Spec => []BytesWrittenExact
<1>1. FileInv => BytesWrittenExact
  BY DEF FileInv
<1> QED BY <1>1, FileInvariant, PTL

(* In a first session without partial lines and interrupted io_uring calls *)
(* no file outgrows rotate_bytes unless a single record does.              *)
THEOREM FileSizeBound == Spec => []SizeBound
<1>1. FileInv => SizeBound
  BY DEF FileInv
<1> QED BY <1>1, FileInvariant, PTL

(* After a successful write of a first session the newest retention_files  *)
(* rotated files are on disk and no older one, as long as every unlink     *)
(* succeeds.                                                               *)
THEOREM FileRetentionExact == Spec => []RetentionExact
<1>1. FileInv => RetentionExact
  <2> SUFFICES ASSUME FileInv, status = "OK", sessions = 1, "stuck" \notin mishaps
               PROVE  LET kept == IF Retention > 0 /\ Len(renamed) > Retention
                                  THEN Retention ELSE Len(renamed)
                      IN  Rotated = {renamed[i] : i \in Len(renamed) - kept + 1 .. Len(renamed)}
    BY DEF RetentionExact
  <2>1. Rotated = Newest
    BY DEF FileInv, OnDisk
  <2> QED BY <2>1 DEF Newest, KeptOf
<1> QED BY <1>1, FileInvariant, PTL

(* Whatever fails, and across sessions, the bytes that calls write reach a *)
(* file in the order the records were offered, and none twice, also        *)
(* between the strays that io_uring appends for calls that returned.       *)
THEOREM FileBytesInOrder == Spec => []BytesInOrder
<1>1. FileInv => BytesInOrder
  <2> SUFFICES ASSUME FileInv, NEW n \in DOMAIN files PROVE Ordered(files[n])
    BY DEF BytesInOrder, Ordered
  <2>1. FileTypes /\ InOrder
    BY DEF FileInv
  <2>2. CASE n # Active
    BY <2>1, <2>2 DEF InOrder, Rotated
  <2>3. CASE n = Active
    <3>1. /\ files[Active] \in Seq(Cells) /\ buffer \in Seq(Cells)
          /\ ActiveCells = files[Active] \o buffer
      BY <2>1, <2>3, CellsAre DEF FileTypes
    <3>2. SubSeq(ActiveCells, 1, Len(files[Active])) = files[Active]
      BY <3>1, PrefixOfConcat
    <3>3. Ordered(ActiveCells) /\ ActiveCells \in Seq(Cells)
          /\ \A i \in 1 .. Len(ActiveCells) : ActiveCells[i].rec <= writes
      BY <2>1, CellsAre DEF InOrder
    <3>4. Len(files[Active]) \in 0 .. Len(ActiveCells)
      BY <3>1, ConcatProperties, LenProperties
    <3>5. Ordered(SubSeq(ActiveCells, 1, Len(files[Active])))
      BY <3>3, <3>4, OrderedPrefix
    <3> QED BY <2>3, <3>2, <3>5
  <2> QED BY <2>2, <2>3
<1> QED BY <1>1, FileInvariant, PTL

(* No later write, rotation or clock change of a first session alters a    *)
(* rotated file, whatever the wall clock does.                             *)
THEOREM FileRotatedImmutable == Spec => RotatedImmutable
<1> DEFINE Immutable == sessions' = 1 =>
               \A n \in Rotated : n \in DOMAIN files' => files'[n] = files[n]
<1>1. FileInv /\ [Next]_vars => [Immutable]_vars
  <2> SUFFICES ASSUME FileInv, [Next]_vars, sessions' = 1, NEW n \in Rotated, n \in DOMAIN files'
               PROVE  files'[n] = files[n]
    OBVIOUS
  <2>1. FileTypes /\ LogTypes /\ Control /\ Numbered
    BY DEF FileInv
  <2>2. Effect
    BY <2>1, StepEffect
  <2>3. CASE SameArchive
    BY <2>3 DEF SameArchive
  <2>4. ASSUME NEW len \in Sizes, NEW k \in 0 .. len, Rotates(len, k)
        PROVE  files'[n] = files[n]
    <3>1. /\ handle /\ sessions' = sessions
          /\ \A m \in Rotated' : files'[m] = IF m = Target THEN ActiveCells ELSE files[m]
      BY <2>4 DEF Rotates
    <3>2. n[2] <= rotation_sequence /\ n[2] \in Nat /\ rotation_sequence \in Nat
      <4>1. n \in Stamps
        BY <2>1, CellsAre
      <4>2. n[2] \in Nat
        BY <4>1 DEF Stamps
      <4>3. \A m \in Rotated : m[2] <= rotation_sequence
        BY <2>1, <3>1 DEF Numbered
      <4> QED BY <2>1, <4>2, <4>3 DEF LogTypes
    <3>3. n # Target
      BY <3>2, TargetNumber
    <3>4. n \in Rotated'
      BY DEF Rotated
    <3> QED BY <3>1, <3>3, <3>4
  <2> QED BY <2>2, <2>3, <2>4 DEF Effect, Quiet, Opens, Closes, Writes, Disturbs, Straggles
<1> QED BY <1>1, FileInvariant, PTL DEF Spec, RotatedImmutable
====
