---- MODULE UringProofs ----
(***************************************************************************)
(* Proofs about the io_uring backend, ij_file_sink_uring.c, for every      *)
(* depth of the queue, every set of payload lengths and any number of      *)
(* calls, opens, interruptions and short writes.                           *)
(*                                                                         *)
(* The properties speak of what is left behind between calls and of the    *)
(* file.  The invariant says what they rest on: calls are numbered, each   *)
(* call has one entry, and that entry is in one place (prepared, with the  *)
(* kernel, or completed) and in the file only once it has been executed.   *)
(***************************************************************************)
EXTENDS UringBackend, SequenceTheorems, FiniteSetTheorems, TLAPS

Ops == [id : Nat, len : Nat \ {0}]
Completions == [op : Nat, res : Int]
Appends == [op : Nat, whole : BOOLEAN, fresh : BOOLEAN]
Statuses == {"OK", "SINK_ERROR"}

\* Is a call in progress.
InCall == IF pc = "idle" THEN 0 ELSE 1

QueueTypes ==
    /\ sq \in Seq(Ops) /\ Len(sq) <= Depth
    /\ inflight \subseteq Ops /\ IsFiniteSet(inflight)
    /\ cq \in Seq(Completions)
    /\ interrupted \subseteq Nat /\ IsFiniteSet(interrupted)
CallTypes ==
    /\ fd \in BOOLEAN /\ pc \in {"idle", "submit", "wait"}
    /\ op.id \in Nat
    /\ pc # "idle" => op \in Ops
    /\ writes \in 0 .. MaxWrites
    /\ results \in Seq(Statuses) /\ Len(results) = writes - InCall

Types == QueueTypes /\ CallTypes /\ file \in Seq(Appends)

\* Numbers are given out by writes; the one of the call in progress is the last
\* and is not yet among the interrupted.
CallNumbered == pc # "idle" => op.id = writes /\ writes \notin interrupted
PendingNumbered == /\ \A i \in 1 .. Len(sq) : sq[i].id <= writes
                   /\ \A o \in inflight : o.id <= writes
PastNumbered == /\ \A k \in 1 .. Len(file) : file[k].op <= writes
                /\ \A i \in interrupted : i <= writes

Numbered == CallNumbered /\ PendingNumbered /\ PastNumbered

\* No number is pending twice.
PendingOnce ==
    /\ \A i, j \in 1 .. Len(sq) : sq[i].id = sq[j].id => i = j
    /\ \A o, q \in inflight : o.id = q.id => o = q
    /\ \A i \in 1 .. Len(sq) : \A o \in inflight : sq[i].id # o.id

\* What is pending has not been executed.
PendingUnwritten ==
    /\ \A i \in 1 .. Len(sq), k \in 1 .. Len(file) : sq[i].id # file[k].op
    /\ \A o \in inflight, k \in 1 .. Len(file) : o.id # file[k].op

\* One thing is left for each interrupted call and one for the call in progress.
Counted ==
    Len(sq) + Cardinality(inflight) + Len(cq) = Cardinality(interrupted) + InCall

\* On a queue without interruptions all there is belongs to the call in progress.
OwnPending == /\ \A i \in 1 .. Len(sq) : sq[i] = op
              /\ \A o \in inflight : o = op
OwnDone == \A k \in 1 .. Len(cq) : cq[k].res = op.len => LineWritten(op.id)
Alone == interrupted = {} /\ pc # "idle" => OwnPending /\ OwnDone

UringInv == /\ Types /\ Numbered /\ PendingOnce /\ PendingUnwritten
            /\ WrittenOnce /\ Counted /\ Alone

----------------------------------------------------------------------------
(* What the steps do to the sequences *)

(* The range of a sequence without repetitions has one element per index. *)
LEMMA RangeCardinality ==
    ASSUME NEW S, NEW s \in Seq(S), \A i, j \in 1 .. Len(s) : s[i] = s[j] => i = j
    PROVE  LET R == {s[i] : i \in 1 .. Len(s)}
           IN  IsFiniteSet(R) /\ Cardinality(R) = Len(s)
<1> DEFINE R == {s[i] : i \in 1 .. Len(s)}
           f == [i \in 1 .. Len(s) |-> s[i]]
<1>1. Len(s) \in Nat
  OBVIOUS
<1>2. IsFiniteSet(1 .. Len(s)) /\ Cardinality(1 .. Len(s)) = Len(s)
  <2>1. Len(s) \in Int /\ 1 \in Int
    BY <1>1
  <2>2. /\ IsFiniteSet(1 .. Len(s))
        /\ Cardinality(1 .. Len(s)) = IF 1 > Len(s) THEN 0 ELSE Len(s) - 1 + 1
    BY <2>1, FS_Interval
  <2> QED BY <1>1, <2>2
<1>3. f \in Bijection(1 .. Len(s), R)
  BY DEF Bijection, Injection, Surjection, IsInjective
<1>4. ExistsBijection(1 .. Len(s), R)
  BY <1>3 DEF ExistsBijection
<1> QED BY <1>2, <1>4, FS_Bijection

(* The numbers are numbers. *)
LEMMA Numbers ==
    ASSUME Types
    PROVE  /\ writes \in Nat /\ interrupted \subseteq Nat /\ op.id \in Nat
           /\ Len(sq) \in Nat /\ Len(cq) \in Nat /\ Len(file) \in Nat /\ Len(results) \in Nat
           /\ \A i \in 1 .. Len(sq) : sq[i] \in Ops /\ sq[i].id \in Nat
           /\ \A o \in inflight : o \in Ops /\ o.id \in Nat /\ o.len \in Nat
           /\ \A k \in 1 .. Len(file) : file[k].op \in Nat
<1>1. /\ \A o \in Ops : o.id \in Nat /\ o.len \in Nat
      /\ \A a \in Appends : a.op \in Nat
  BY DEF Ops, Appends
<1>2. \A i \in 1 .. Len(sq) : sq[i] \in Ops
  BY DEF Types, QueueTypes
<1>3. \A k \in 1 .. Len(file) : file[k] \in Appends
  BY DEF Types
<1>4. writes \in Nat /\ interrupted \subseteq Nat /\ op.id \in Nat /\ inflight \subseteq Ops
  BY UringConstants DEF Types, QueueTypes, CallTypes
<1>5. Len(sq) \in Nat /\ Len(cq) \in Nat /\ Len(file) \in Nat /\ Len(results) \in Nat
  BY DEF Types, QueueTypes, CallTypes
<1> QED BY <1>1, <1>2, <1>3, <1>4, <1>5

(* Prepare: one more entry, numbered by writes. *)
LEMMA PrepareEffect ==
    ASSUME UringInv, NEW len \in Lengths, Prepare(len)
    PROVE  /\ writes \in Nat /\ writes' = writes + 1 /\ op' = [id |-> writes + 1, len |-> len]
           /\ op' \in Ops /\ sq' \in Seq(Ops) /\ Len(sq') = Len(sq) + 1 /\ Len(sq) \in Nat
           /\ sq'[Len(sq) + 1] = op' /\ \A i \in 1 .. Len(sq) : sq'[i] = sq[i]
           /\ pc = "idle" /\ pc' = "submit" /\ ~SqFull /\ writes < MaxWrites
           /\ UNCHANGED <<fd, inflight, cq, file, results, interrupted>>
<1>1. writes \in Nat /\ sq \in Seq(Ops)
  BY UringConstants DEF UringInv, Types, QueueTypes, CallTypes
<1>2. op' = [id |-> writes + 1, len |-> len] /\ sq' = Append(sq, op')
  BY DEF Prepare
<1>3. op' \in Ops
  BY <1>1, <1>2, UringConstants DEF Ops
<1>4. /\ sq' \in Seq(Ops) /\ Len(sq') = Len(sq) + 1 /\ Len(sq) \in Nat
      /\ sq'[Len(sq) + 1] = op' /\ \A i \in 1 .. Len(sq) : sq'[i] = sq[i]
  BY <1>1, <1>2, <1>3, AppendProperties
<1> QED BY <1>1, <1>2, <1>3, <1>4 DEF Prepare

(* Complete: the operation leaves the kernel, its completion is the last one, *)
(* and the file has one more element or is unchanged.                         *)
LEMMA CompleteEffect ==
    ASSUME UringInv, NEW o \in inflight, Complete(o)
    PROVE  \E res \in -1 .. o.len :
             /\ o \in Ops /\ inflight' = inflight \ {o}
             /\ cq' \in Seq(Completions) /\ Len(cq') = Len(cq) + 1 /\ Len(cq) \in Nat
             /\ cq'[Len(cq) + 1] = [op |-> o.id, res |-> res]
             /\ \A k \in 1 .. Len(cq) : cq'[k] = cq[k]
             /\ file' \in Seq(Appends) /\ Len(file) \in Nat
             /\ \A k \in 1 .. Len(file) : file'[k] = file[k]
             /\ res > 0 => /\ Len(file') = Len(file) + 1
                           /\ file'[Len(file) + 1] =
                                 [op |-> o.id, whole |-> res = o.len,
                                  fresh |-> pc # "idle" /\ op.id = o.id]
             /\ ~(res > 0) => file' = file
             /\ UNCHANGED <<fd, sq, pc, op, writes, results, interrupted>>
<1>1. o \in Ops /\ cq \in Seq(Completions) /\ file \in Seq(Appends) /\ op.id \in Nat
  BY DEF UringInv, Types, QueueTypes, CallTypes
<1>2. PICK res \in -1 .. o.len :
         /\ cq' = Append(cq, [op |-> o.id, res |-> res])
         /\ file' = IF res > 0
                    THEN Append(file, [op |-> o.id, whole |-> res = o.len,
                                       fresh |-> pc # "idle" /\ op.id = o.id])
                    ELSE file
  BY DEF Complete
<1> DEFINE a == [op |-> o.id, whole |-> res = o.len, fresh |-> pc # "idle" /\ op.id = o.id]
           e == [op |-> o.id, res |-> res]
<1>3. o.id \in Nat /\ o.len \in Nat /\ res \in Int
  BY <1>1 DEF Ops
<1>4. e \in Completions /\ a \in Appends
  <2>1. (res = o.len) \in BOOLEAN /\ (pc # "idle" /\ op.id = o.id) \in BOOLEAN
    OBVIOUS
  <2> QED BY <1>3, <2>1 DEF Completions, Appends
<1> HIDE DEF a, e
<1>5. /\ cq' \in Seq(Completions) /\ Len(cq') = Len(cq) + 1 /\ Len(cq) \in Nat
      /\ cq'[Len(cq) + 1] = e /\ \A k \in 1 .. Len(cq) : cq'[k] = cq[k]
  <2>1. cq' = Append(cq, e)
    BY <1>2 DEF e
  <2> QED BY <1>1, <1>4, <2>1, AppendProperties
<1>6. /\ file' \in Seq(Appends) /\ Len(file) \in Nat
      /\ \A k \in 1 .. Len(file) : file'[k] = file[k]
      /\ res > 0 => Len(file') = Len(file) + 1 /\ file'[Len(file) + 1] = a
      /\ ~(res > 0) => file' = file
  <2>1. /\ Append(file, a) \in Seq(Appends) /\ Len(Append(file, a)) = Len(file) + 1
        /\ Append(file, a)[Len(file) + 1] = a /\ Len(file) \in Nat
        /\ \A k \in 1 .. Len(file) : Append(file, a)[k] = file[k]
    BY <1>1, <1>4, AppendProperties
  <2>2. file' = IF res > 0 THEN Append(file, a) ELSE file
    BY <1>2 DEF a
  <2>3. CASE res > 0
    BY <2>1, <2>2, <2>3
  <2>4. CASE ~(res > 0)
    BY <1>1, <2>1, <2>2, <2>4
  <2> QED BY <2>3, <2>4
<1>7. UNCHANGED <<fd, sq, pc, op, writes, results, interrupted>> /\ inflight' = inflight \ {o}
  BY DEF Complete
<1> QED BY <1>1, <1>5, <1>6, <1>7 DEF a, e

(* What that does to the file. *)
LEMMA CompleteFile ==
    ASSUME UringInv, NEW o \in inflight, Complete(o)
    PROVE  /\ Len(file) \in Nat /\ file' \in Seq(Appends)
           /\ \A k \in 1 .. Len(file) : file'[k] = file[k]
           /\ \/ file' = file
              \/ Len(file') = Len(file) + 1 /\ file'[Len(file) + 1].op = o.id
<1>1. PICK res \in -1 .. o.len :
         /\ file' \in Seq(Appends) /\ Len(file) \in Nat
         /\ \A k \in 1 .. Len(file) : file'[k] = file[k]
         /\ res > 0 => /\ Len(file') = Len(file) + 1
                       /\ file'[Len(file) + 1] =
                             [op |-> o.id, whole |-> res = o.len,
                              fresh |-> pc # "idle" /\ op.id = o.id]
         /\ ~(res > 0) => file' = file
  BY CompleteEffect, Zenon
<1>2. CASE res > 0
  BY <1>1, <1>2
<1>3. CASE ~(res > 0)
  BY <1>1, <1>3
<1> QED BY <1>2, <1>3

----------------------------------------------------------------------------
(* The invariant, one conjunct at a time *)

\* Every step keeps the queues of the right type, and within the depth.
LEMMA QueueTypesStep == UringInv /\ [Next]_vars => QueueTypes'
<1> SUFFICES ASSUME UringInv, [Next]_vars PROVE QueueTypes'
  OBVIOUS
<1>t. Types /\ QueueTypes /\ Depth \in Nat
  BY UringConstants DEF UringInv, Types
<1>1. CASE Close
  <2>1. Len(sq') = 0 /\ sq' \in Seq(Ops) /\ cq' \in Seq(Completions)
    BY <1>1 DEF Close
  <2> QED BY <1>t, <1>1, <2>1, FS_EmptySet DEF Close, QueueTypes
<1>2. ASSUME NEW len \in Lengths, Prepare(len) PROVE QueueTypes'
  <2>1. Len(sq) # Depth /\ Len(sq) \in Nat
    BY <1>t, <1>2, Numbers DEF Prepare, SqFull
  <2>2. sq' \in Seq(Ops) /\ Len(sq') = Len(sq) + 1 /\ UNCHANGED <<inflight, cq, interrupted>>
    BY <1>2, PrepareEffect
  <2> QED BY <1>t, <2>1, <2>2 DEF QueueTypes
<1>3. CASE UNCHANGED <<sq, inflight, cq, interrupted>>
  BY <1>t, <1>3 DEF QueueTypes
<1>4. CASE Submit
  <2>1. \A i, j \in 1 .. Len(sq) : sq[i] = sq[j] => i = j
    BY DEF UringInv, PendingOnce
  <2>2. IsFiniteSet(Submitted)
    BY <1>t, <2>1, RangeCardinality DEF QueueTypes, Submitted
  <2>3. Submitted \subseteq Ops
    BY <1>t, Numbers DEF Submitted
  <2>4. IsFiniteSet(inflight \cup Submitted)
    BY <1>t, <2>2, FS_Union DEF QueueTypes
  <2>5. Len(sq') = 0 /\ sq' \in Seq(Ops)
    BY <1>4 DEF Submit, LeftPrepared
  <2> QED BY <1>t, <1>4, <2>3, <2>4, <2>5 DEF Submit, QueueTypes
<1>5. CASE SubmitFails \/ DrainFails
  <2>1. IsFiniteSet(interrupted \cup {op.id}) /\ op.id \in Nat
    BY <1>t, FS_AddElement, Numbers DEF QueueTypes
  <2> QED BY <1>t, <1>5, <2>1 DEF SubmitFails, DrainFails, queues, QueueTypes
<1>6. CASE Drain
  <2>1. cq' \in Seq(Completions)
    BY <1>t, <1>6, HeadTailProperties DEF Drain, Seen, QueueTypes
  <2> QED BY <1>t, <1>6, <2>1 DEF Drain, QueueTypes
<1>7. ASSUME NEW o \in inflight, Complete(o) PROVE QueueTypes'
  <2>1. IsFiniteSet(inflight \ {o})
    BY <1>t, FS_RemoveElement DEF QueueTypes
  <2>2. cq' \in Seq(Completions)
    BY <1>7, CompleteEffect
  <2> QED BY <1>t, <1>7, <2>1, <2>2 DEF Complete, QueueTypes
<1> QED BY <1>1, <1>2, <1>3, <1>4, <1>5, <1>6, <1>7 DEF Next, Open, PrepareFails, queues, vars

\* Every call returns one result.
LEMMA CallTypesStep == UringInv /\ [Next]_vars => CallTypes'
<1> SUFFICES ASSUME UringInv, [Next]_vars PROVE CallTypes'
  OBVIOUS
<1>t. Types /\ CallTypes /\ MaxWrites \in Nat
  BY UringConstants DEF UringInv, Types
<1>n. writes \in Nat /\ Len(results) \in Nat /\ results \in Seq(Statuses)
  BY <1>t, Numbers DEF CallTypes
<1>r. ASSUME NEW status \in Statuses
      PROVE  /\ Append(results, status) \in Seq(Statuses)
             /\ Len(Append(results, status)) = Len(results) + 1
  BY <1>n, AppendProperties
<1>1. CASE Open \/ Close
  BY <1>t, <1>1 DEF Open, Close, CallTypes, InCall
<1>2. ASSUME NEW len \in Lengths, Prepare(len) PROVE CallTypes'
  <2>1. op' \in Ops /\ op'.id \in Nat
    BY <1>n, <1>2, PrepareEffect DEF Ops
  <2>2. writes' \in 0 .. MaxWrites /\ Len(results') = writes' - 1
    BY <1>t, <1>n, <1>2 DEF Prepare, CallTypes, InCall
  <2> QED BY <1>t, <1>2, <2>1, <2>2 DEF Prepare, CallTypes, InCall
<1>3. ASSUME NEW len \in Lengths, PrepareFails(len) PROVE CallTypes'
  <2>1. op'.id \in Nat /\ writes' \in 0 .. MaxWrites /\ writes' = writes + 1
    BY <1>t, <1>n, <1>3 DEF PrepareFails
  <2>2. results' \in Seq(Statuses) /\ Len(results') = Len(results) + 1
    BY <1>3, <1>r DEF PrepareFails, Returns, Statuses
  <2>3. Len(results') = writes' /\ pc' = "idle"
    BY <1>t, <1>n, <1>3, <2>1, <2>2 DEF PrepareFails, Returns, CallTypes, InCall
  <2> QED BY <1>t, <1>3, <2>1, <2>2, <2>3 DEF PrepareFails, CallTypes, InCall
<1>4. CASE Submit
  BY <1>t, <1>4 DEF Submit, CallTypes, InCall
<1>5. CASE SubmitFails \/ DrainFails \/ Drain
  <2>1. /\ UNCHANGED <<fd, op, writes>> /\ pc # "idle" /\ pc' = "idle"
        /\ \E status \in Statuses : results' = Append(results, status)
    BY <1>5 DEF SubmitFails, DrainFails, Drain, Returns, Statuses
  <2>2. results' \in Seq(Statuses) /\ Len(results') = Len(results) + 1
    BY <1>r, <2>1
  <2> QED BY <1>t, <1>n, <2>1, <2>2 DEF CallTypes, InCall
<1>6. ASSUME NEW o \in inflight, Complete(o) PROVE CallTypes'
  BY <1>t, <1>6 DEF Complete, CallTypes, InCall
<1>7. CASE UNCHANGED vars
  BY <1>t, <1>7 DEF vars, CallTypes, InCall
<1> QED BY <1>1, <1>2, <1>3, <1>4, <1>5, <1>6, <1>7 DEF Next

LEMMA TypesStep == UringInv /\ [Next]_vars => Types'
<1> SUFFICES ASSUME UringInv, [Next]_vars PROVE file' \in Seq(Appends)
  BY QueueTypesStep, CallTypesStep DEF Types
<1>1. file \in Seq(Appends)
  BY DEF UringInv, Types
<1>2. CASE UNCHANGED file
  BY <1>1, <1>2
<1>3. ASSUME NEW o \in inflight, Complete(o) PROVE file' \in Seq(Appends)
  BY <1>3, CompleteFile
<1> QED BY <1>2, <1>3
  DEF Next, Open, Close, Prepare, PrepareFails, Submit, SubmitFails, DrainFails, Drain, vars

\* Every step numbers what it adds by writes.
LEMMA NumberedStep == UringInv /\ [Next]_vars => Numbered'
<1> SUFFICES ASSUME UringInv, [Next]_vars PROVE Numbered'
  OBVIOUS
<1>t. Types /\ CallNumbered /\ PendingNumbered /\ PastNumbered
  BY DEF UringInv, Numbered
<1>n. /\ writes \in Nat /\ interrupted \subseteq Nat
      /\ \A i \in 1 .. Len(sq) : sq[i].id \in Nat
      /\ \A o \in inflight : o.id \in Nat
      /\ \A k \in 1 .. Len(file) : file[k].op \in Nat
  BY <1>t, Numbers
<1>1. CASE Open \/ Close
  <2>1. CallNumbered' /\ PastNumbered'
    BY <1>t, <1>1 DEF Open, Close, CallNumbered, PastNumbered
  <2>2. PendingNumbered'
    BY <1>t, <1>1 DEF Open, Close, queues, PendingNumbered
  <2> QED BY <2>1, <2>2 DEF Numbered
<1>2. ASSUME NEW len \in Lengths, Prepare(len) PROVE Numbered'
  <2>1. /\ \A i \in 1 .. Len(sq') : i \in 1 .. Len(sq) \/ i = Len(sq) + 1
        /\ op'.id = writes + 1 /\ writes' = writes + 1 /\ sq'[Len(sq) + 1] = op'
        /\ \A i \in 1 .. Len(sq) : sq'[i] = sq[i]
        /\ UNCHANGED <<inflight, file, interrupted>>
    BY <1>2, PrepareEffect
  <2>2. ASSUME NEW i \in 1 .. Len(sq') PROVE sq'[i].id <= writes'
    <3>1. CASE i \in 1 .. Len(sq)
      <4>1. sq[i].id <= writes /\ sq[i].id \in Nat /\ sq'[i] = sq[i]
        BY <1>t, <1>n, <2>1, <3>1 DEF PendingNumbered
      <4> QED BY <1>n, <2>1, <4>1
    <3>2. CASE i = Len(sq) + 1
      BY <1>n, <2>1, <3>2
    <3> QED BY <2>1, <3>1, <3>2
  <2>3. \A o \in inflight' : o.id <= writes'
    BY <1>t, <1>n, <2>1 DEF PendingNumbered
  <2>4. PastNumbered'
    BY <1>t, <1>n, <2>1 DEF PastNumbered
  <2>5. CallNumbered'
    BY <1>t, <1>n, <2>1 DEF CallNumbered, PastNumbered
  <2> QED BY <2>2, <2>3, <2>4, <2>5 DEF Numbered, PendingNumbered
<1>3. ASSUME NEW len \in Lengths, PrepareFails(len) PROVE Numbered'
  <2>1. writes' = writes + 1 /\ UNCHANGED <<sq, inflight, file, interrupted>> /\ pc' = "idle"
    BY <1>3 DEF PrepareFails, Returns, queues
  <2>2. PendingNumbered'
    BY <1>t, <1>n, <2>1 DEF PendingNumbered
  <2>3. PastNumbered'
    BY <1>t, <1>n, <2>1 DEF PastNumbered
  <2> QED BY <2>1, <2>2, <2>3 DEF Numbered, CallNumbered
<1>4. CASE Submit
  <2>1. Len(sq') = 0 /\ inflight' = inflight \cup Submitted
        /\ UNCHANGED <<file, interrupted, op, writes>> /\ pc # "idle"
    BY <1>4 DEF Submit, LeftPrepared
  <2>2. PendingNumbered'
    BY <1>t, <2>1 DEF PendingNumbered, Submitted
  <2> QED BY <1>t, <2>1, <2>2 DEF Numbered, CallNumbered, PastNumbered
<1>5. CASE SubmitFails \/ DrainFails
  <2>1. /\ UNCHANGED <<sq, inflight, file, op, writes>> /\ pc # "idle" /\ pc' = "idle"
        /\ interrupted' = interrupted \cup {op.id}
    BY <1>5 DEF SubmitFails, DrainFails, Returns, queues
  <2>2. PastNumbered'
    <3>1. op.id <= writes
      BY <1>t, <1>n, <2>1 DEF CallNumbered
    <3>2. \A i \in interrupted' : i <= writes'
      BY <1>t, <2>1, <3>1 DEF PastNumbered
    <3>3. \A k \in 1 .. Len(file') : file'[k].op <= writes'
      BY <1>t, <2>1 DEF PastNumbered
    <3> QED BY <3>2, <3>3 DEF PastNumbered
  <2> QED BY <1>t, <2>1, <2>2 DEF Numbered, CallNumbered, PendingNumbered
<1>6. CASE Drain
  <2>1. UNCHANGED <<sq, inflight, file, interrupted, op, writes>> /\ pc' = "idle"
    BY <1>6 DEF Drain, Returns
  <2> QED BY <1>t, <2>1 DEF Numbered, CallNumbered, PendingNumbered, PastNumbered
<1>7. ASSUME NEW o \in inflight, Complete(o) PROVE Numbered'
  <2>1. /\ inflight' = inflight \ {o} /\ UNCHANGED <<sq, pc, op, writes, interrupted>>
    BY <1>7 DEF Complete
  <2>2. \A k \in 1 .. Len(file') : file'[k].op <= writes
    <3>1. o.id <= writes
      BY <1>t DEF PendingNumbered
    <3> QED BY <1>t, <1>7, <3>1, CompleteFile DEF PastNumbered
  <2>3. PendingNumbered'
    BY <1>t, <2>1 DEF PendingNumbered
  <2> QED BY <1>t, <2>1, <2>2, <2>3 DEF Numbered, CallNumbered, PastNumbered
<1>8. CASE UNCHANGED vars
  BY <1>t, <1>8 DEF vars, Numbered, CallNumbered, PendingNumbered, PastNumbered
<1> QED BY <1>1, <1>2, <1>3, <1>4, <1>5, <1>6, <1>7, <1>8 DEF Next

\* Every step keeps each pending number in one place, and off the file.
LEMMA PendingStep == UringInv /\ [Next]_vars => PendingOnce' /\ PendingUnwritten'
<1> SUFFICES ASSUME UringInv, [Next]_vars PROVE PendingOnce' /\ PendingUnwritten'
  OBVIOUS
<1>t. Types /\ PendingNumbered /\ PastNumbered /\ PendingOnce /\ PendingUnwritten
  BY DEF UringInv, Numbered
<1>n. writes \in Nat
  BY <1>t, Numbers
<1>1. ASSUME Open \/ Close PROVE PendingOnce' /\ PendingUnwritten'
  BY <1>t, <1>1 DEF Open, Close, queues, PendingOnce, PendingUnwritten
<1>2. ASSUME NEW len \in Lengths, Prepare(len) PROVE PendingOnce' /\ PendingUnwritten'
  <2>1. \A i \in 1 .. Len(sq') : i \in 1 .. Len(sq) \/ i = Len(sq) + 1
    BY <1>2, PrepareEffect
  <2>2. /\ op'.id = writes + 1 /\ sq'[Len(sq) + 1] = op'
        /\ \A i \in 1 .. Len(sq) : sq'[i] = sq[i]
        /\ UNCHANGED <<inflight, file>>
    BY <1>2, PrepareEffect
  <2>3. /\ \A i \in 1 .. Len(sq) : sq[i].id # writes + 1
        /\ \A o \in inflight : o.id # writes + 1
        /\ \A k \in 1 .. Len(file) : file[k].op # writes + 1
    <3>1. \A n \in Nat : n <= writes => n # writes + 1
      BY <1>n
    <3>2. /\ \A i \in 1 .. Len(sq) : sq[i].id \in Nat
          /\ \A o \in inflight : o.id \in Nat
          /\ \A k \in 1 .. Len(file) : file[k].op \in Nat
      BY <1>t, Numbers
    <3> QED BY <1>t, <3>1, <3>2 DEF PendingNumbered, PastNumbered
  <2>4. PendingOnce'
    <3>1. \A i, j \in 1 .. Len(sq') : sq'[i].id = sq'[j].id => i = j
      BY <1>t, <2>1, <2>2, <2>3 DEF PendingOnce
    <3>2. \A i \in 1 .. Len(sq') : \A o \in inflight' : sq'[i].id # o.id
      BY <1>t, <2>1, <2>2, <2>3 DEF PendingOnce
    <3>3. \A o, q \in inflight' : o.id = q.id => o = q
      BY <1>t, <2>2 DEF PendingOnce
    <3> QED BY <3>1, <3>2, <3>3 DEF PendingOnce
  <2>5. PendingUnwritten'
    BY <1>t, <2>1, <2>2, <2>3 DEF PendingUnwritten
  <2> QED BY <2>4, <2>5
<1>3. CASE UNCHANGED <<sq, inflight, file>>
  BY <1>t, <1>3 DEF PendingOnce, PendingUnwritten
<1>4. CASE Submit
  <2>1. Len(sq') = 0 /\ inflight' = inflight \cup Submitted /\ file' = file
    BY <1>4 DEF Submit, LeftPrepared
  <2>2. PendingOnce'
    BY <1>t, <2>1 DEF PendingOnce, Submitted
  <2>3. PendingUnwritten'
    BY <1>t, <2>1 DEF PendingUnwritten, Submitted
  <2> QED BY <2>2, <2>3
<1>7. ASSUME NEW o \in inflight, Complete(o) PROVE PendingOnce' /\ PendingUnwritten'
  <2>1. inflight' = inflight \ {o} /\ sq' = sq
    BY <1>7 DEF Complete
  <2>2. PendingOnce'
    BY <1>t, <2>1 DEF PendingOnce
  <2>3. ASSUME NEW k \in 1 .. Len(file')
        PROVE  file'[k].op = o.id \/ (k \in 1 .. Len(file) /\ file'[k] = file[k])
    BY <1>7, CompleteFile
  <2>4. PendingUnwritten'
    BY <1>t, <2>1, <2>3 DEF PendingOnce, PendingUnwritten
  <2> QED BY <2>2, <2>4
<1> QED BY <1>1, <1>2, <1>3, <1>4, <1>7
  DEF Next, PrepareFails, SubmitFails, DrainFails, Drain, queues, vars

\* An operation the kernel executes was not in the file.
LEMMA WrittenOnceStep == UringInv /\ [Next]_vars => WrittenOnce'
<1> SUFFICES ASSUME UringInv, [Next]_vars PROVE WrittenOnce'
  OBVIOUS
<1>1. CASE UNCHANGED file
  BY <1>1 DEF UringInv, WrittenOnce
<1>2. ASSUME NEW o \in inflight, Complete(o) PROVE WrittenOnce'
  <2>1. \A k \in 1 .. Len(file) : file[k].op # o.id
    BY DEF UringInv, PendingUnwritten
  <2>2. Len(file) \in Nat /\ \A k \in 1 .. Len(file) : file'[k] = file[k]
    BY <1>2, CompleteFile
  <2>3. \/ Len(file') = Len(file)
        \/ Len(file') = Len(file) + 1 /\ file'[Len(file) + 1].op = o.id
    BY <1>2, CompleteFile
  <2>4. \A k \in 1 .. Len(file') : k \in 1 .. Len(file) \/ k = Len(file) + 1
    BY <2>2, <2>3
  <2>5. CASE Len(file') = Len(file)
    BY <2>2, <2>5 DEF UringInv, WrittenOnce
  <2>6. CASE Len(file') = Len(file) + 1 /\ file'[Len(file) + 1].op = o.id
    BY <2>1, <2>2, <2>4, <2>6 DEF UringInv, WrittenOnce
  <2> QED BY <2>3, <2>5, <2>6
<1> QED BY <1>1, <1>2
  DEF Next, Open, Close, Prepare, PrepareFails, Submit, SubmitFails, DrainFails, Drain, vars

(* The sizes are numbers. *)
LEMMA Sizes ==
    ASSUME Types
    PROVE  Cardinality(inflight) \in Nat /\ Cardinality(interrupted) \in Nat /\ InCall \in Nat
BY FS_CardinalityType DEF Types, QueueTypes, InCall

(* Handing everything prepared to the kernel loses and doubles nothing. *)
LEMMA SubmitCounts ==
    ASSUME UringInv
    PROVE  Cardinality(inflight \cup Submitted) = Cardinality(inflight) + Len(sq)
<1>1. Types /\ PendingOnce /\ IsFiniteSet(inflight) /\ sq \in Seq(Ops)
  BY DEF UringInv, Types, QueueTypes
<1>2. IsFiniteSet(Submitted) /\ Cardinality(Submitted) = Len(sq)
  <2>1. \A i, j \in 1 .. Len(sq) : sq[i] = sq[j] => i = j
    BY <1>1 DEF PendingOnce
  <2> QED BY <1>1, <2>1, RangeCardinality DEF Submitted
<1>3. inflight \cap Submitted = {}
  BY <1>1 DEF PendingOnce, Submitted
<1>4. Cardinality(inflight \cup Submitted) =
         Cardinality(inflight) + Cardinality(Submitted) - Cardinality(inflight \cap Submitted)
  BY <1>1, <1>2, FS_Union
<1>5. Cardinality(inflight \cap Submitted) = 0
  BY <1>3, FS_EmptySet
<1> QED BY <1>1, <1>2, <1>4, <1>5, Numbers, Sizes

\* Every step leaves one thing per interrupted call and call in progress.
LEMMA CountedStep == UringInv /\ [Next]_vars => Counted'
<1> SUFFICES ASSUME UringInv, [Next]_vars PROVE Counted'
  OBVIOUS
<1>t. Types /\ Counted /\ CallNumbered /\ IsFiniteSet(inflight) /\ IsFiniteSet(interrupted)
  BY DEF UringInv, Types, QueueTypes, Numbered
<1>n. /\ Len(sq) \in Nat /\ Len(cq) \in Nat
      /\ Cardinality(inflight) \in Nat /\ Cardinality(interrupted) \in Nat
  BY <1>t, Numbers, Sizes
<1>1. CASE Close
  <2>1. Len(sq') = 0 /\ Len(cq') = 0 /\ inflight' = {} /\ interrupted' = {} /\ InCall' = 0
    BY <1>1 DEF Close, InCall
  <2>2. Cardinality({}) = 0
    BY FS_EmptySet
  <2> QED BY <2>1, <2>2 DEF Counted
<1>2. ASSUME NEW len \in Lengths, Prepare(len) PROVE Counted'
  <2>1. Len(sq') = Len(sq) + 1 /\ UNCHANGED <<inflight, cq, interrupted>>
    BY <1>2, PrepareEffect
  <2>2. InCall = 0 /\ InCall' = 1
    BY <1>2 DEF Prepare, InCall
  <2> QED BY <1>t, <1>n, <2>1, <2>2 DEF Counted
<1>3. CASE UNCHANGED <<sq, inflight, cq, interrupted>> /\ InCall' = InCall
  BY <1>t, <1>3 DEF Counted
<1>4. CASE Submit
  <2>1. Len(sq') = 0 /\ inflight' = inflight \cup Submitted /\ UNCHANGED <<cq, interrupted>>
    BY <1>4 DEF Submit, LeftPrepared
  <2>2. InCall = 1 /\ InCall' = 1
    BY <1>4 DEF Submit, InCall
  <2> QED BY <1>t, <1>n, <2>1, <2>2, SubmitCounts DEF Counted
<1>5. CASE SubmitFails \/ DrainFails
  <2>1. UNCHANGED <<sq, inflight, cq>> /\ interrupted' = interrupted \cup {op.id}
    BY <1>5 DEF SubmitFails, DrainFails, queues
  <2>2. InCall = 1 /\ InCall' = 0 /\ pc # "idle"
    BY <1>5 DEF SubmitFails, DrainFails, Returns, InCall
  <2>3. op.id \notin interrupted
    BY <1>t, <2>2 DEF CallNumbered
  <2>4. Cardinality(interrupted') = Cardinality(interrupted) + 1
    BY <1>t, <2>1, <2>3, FS_AddElement
  <2> QED BY <1>t, <1>n, <2>1, <2>2, <2>4 DEF Counted
<1>6. CASE Drain
  <2>1. Len(cq') = Len(cq) - 1
    BY <1>t, <1>6, HeadTailProperties DEF Drain, Seen, Types, QueueTypes
  <2>2. UNCHANGED <<sq, inflight, interrupted>> /\ InCall = 1 /\ InCall' = 0
    BY <1>6 DEF Drain, Returns, InCall
  <2> QED BY <1>t, <1>n, <2>1, <2>2 DEF Counted
<1>7. ASSUME NEW o \in inflight, Complete(o) PROVE Counted'
  <2>1. inflight' = inflight \ {o} /\ UNCHANGED <<sq, interrupted, pc>>
    BY <1>7 DEF Complete
  <2>2. Cardinality(inflight') = Cardinality(inflight) - 1
    BY <1>t, <2>1, FS_RemoveElement
  <2>3. Len(cq') = Len(cq) + 1
    BY <1>7, CompleteEffect
  <2>4. InCall' = InCall
    BY <2>1 DEF InCall
  <2>5. InCall \in Nat
    BY <1>t, Sizes
  <2>6. Len(sq') = Len(sq) /\ Cardinality(interrupted') = Cardinality(interrupted)
    BY <2>1
  <2>7. Len(sq) + (Cardinality(inflight) - 1) + (Len(cq) + 1) = Cardinality(interrupted) + InCall
    <3>1. Len(sq) + Cardinality(inflight) + Len(cq) = Cardinality(interrupted) + InCall
      BY <1>t DEF Counted
    <3>2. \A a, b, c, d \in Nat : a + b + c = d => a + (b - 1) + (c + 1) = d
      OBVIOUS
    <3>3. Cardinality(interrupted) + InCall \in Nat
      BY <1>n, <2>5
    <3> QED BY <1>n, <3>1, <3>2, <3>3
  <2> QED BY <2>2, <2>3, <2>4, <2>6, <2>7 DEF Counted
<1> QED BY <1>1, <1>2, <1>3, <1>4, <1>5, <1>6, <1>7
  DEF Next, Open, PrepareFails, Returns, InCall, queues, vars

(* On an idle queue without interruptions there is nothing. *)
LEMMA NothingLeft ==
    ASSUME UringInv, interrupted = {}, pc = "idle"
    PROVE  Len(sq) = 0 /\ inflight = {} /\ Len(cq) = 0
<1>1. Types /\ Counted /\ IsFiniteSet(inflight)
  BY DEF UringInv, Types, QueueTypes
<1>2. Cardinality(interrupted) = 0 /\ InCall = 0
  BY FS_EmptySet DEF InCall
<1>3. Len(sq) = 0 /\ Cardinality(inflight) = 0 /\ Len(cq) = 0
  <2>1. Len(sq) \in Nat /\ Cardinality(inflight) \in Nat /\ Len(cq) \in Nat
    BY <1>1, Numbers, Sizes
  <2>2. Len(sq) + Cardinality(inflight) + Len(cq) = 0
    BY <1>1, <1>2 DEF Counted
  <2> QED BY <2>1, <2>2
<1> QED BY <1>1, <1>3, FS_EmptySet

(* Lines stay written. *)
LEMMA LineStays ==
    ASSUME UringInv, NEW o \in inflight, Complete(o), LineWritten(op.id)
    PROVE  LineWritten(op.id)'
<1>1. PICK k \in 1 .. Len(file) : file[k].op = op.id /\ file[k].whole /\ file[k].fresh
  BY DEF LineWritten
<1>2. file'[k] = file[k] /\ k \in 1 .. Len(file')
  BY CompleteFile
<1>3. op' = op
  BY DEF Complete
<1> QED BY <1>1, <1>2, <1>3 DEF LineWritten

\* Without interruptions every completion is that of the call in progress.
LEMMA AloneStep == UringInv /\ [Next]_vars => Alone'
<1> SUFFICES ASSUME UringInv, [Next]_vars, interrupted' = {}, pc' # "idle"
             PROVE  OwnPending' /\ OwnDone'
  BY DEF Alone
<1>t. Types /\ Alone /\ Counted
  BY DEF UringInv
<1>1. ASSUME NEW len \in Lengths, Prepare(len)
      PROVE  OwnPending' /\ OwnDone'
  <2>1. interrupted = {} /\ pc = "idle"
    BY <1>1 DEF Prepare
  <2>2. Len(sq) = 0 /\ inflight = {} /\ Len(cq) = 0
    BY <2>1, NothingLeft
  <2>3. /\ \A i \in 1 .. Len(sq') : sq'[i] = op'
        /\ inflight' = {} /\ Len(cq') = 0
    BY <1>1, <2>2, PrepareEffect
  <2> QED BY <2>3 DEF OwnPending, OwnDone
<1>2. CASE Submit
  <2>1. interrupted = {} /\ pc # "idle" /\ UNCHANGED <<cq, op, file>>
    BY <1>2 DEF Submit
  <2>2. Len(sq') = 0 /\ inflight' = inflight \cup Submitted
    BY <1>2 DEF Submit, LeftPrepared
  <2>3. OwnPending'
    BY <1>t, <2>1, <2>2 DEF Alone, OwnPending, Submitted
  <2> QED BY <1>t, <2>1, <2>3 DEF Alone, OwnDone, LineWritten
<1>3. ASSUME NEW o \in inflight, Complete(o)
      PROVE  OwnPending' /\ OwnDone'
  <2>1. /\ interrupted = {} /\ pc # "idle" /\ UNCHANGED <<sq, op, pc>>
        /\ inflight' = inflight \ {o}
    BY <1>3 DEF Complete
  <2>2. o = op /\ op \in Ops
    BY <1>t, <2>1 DEF Alone, OwnPending, Types, CallTypes
  <2>3. PICK res \in -1 .. o.len :
           /\ Len(cq') = Len(cq) + 1 /\ Len(cq) \in Nat
           /\ cq'[Len(cq) + 1] = [op |-> o.id, res |-> res]
           /\ \A k \in 1 .. Len(cq) : cq'[k] = cq[k]
           /\ Len(file) \in Nat
           /\ res > 0 => /\ Len(file') = Len(file) + 1
                         /\ file'[Len(file) + 1] =
                               [op |-> o.id, whole |-> res = o.len,
                                fresh |-> pc # "idle" /\ op.id = o.id]
    BY <1>3, CompleteEffect, Zenon
  <2>4. op.len \in Nat \ {0}
    BY <2>2 DEF Ops
  <2>5. ASSUME res = op.len PROVE LineWritten(op.id)'
    <3>1. res > 0
      BY <2>4, <2>5
    <3>2. /\ Len(file') = Len(file) + 1 /\ Len(file) \in Nat
          /\ file'[Len(file) + 1] = [op |-> o.id, whole |-> res = o.len,
                                     fresh |-> pc # "idle" /\ op.id = o.id]
      BY <2>3, <3>1
    <3>3. /\ file'[Len(file) + 1].op = op.id
          /\ file'[Len(file) + 1].whole /\ file'[Len(file) + 1].fresh
      <4>1. o.id = op.id /\ res = o.len /\ pc # "idle"
        BY <2>1, <2>2, <2>5
      <4>2. file'[Len(file) + 1] = [op |-> op.id, whole |-> TRUE, fresh |-> TRUE]
        BY <3>2, <4>1
      <4> QED BY <4>2
    <3>4. Len(file) + 1 \in 1 .. Len(file')
      BY <3>2
    <3> QED BY <2>1, <3>3, <3>4 DEF LineWritten
  <2>6. ASSUME NEW k \in 1 .. Len(cq'), cq'[k].res = op.len PROVE LineWritten(op.id)'
    <3>1. CASE k = Len(cq) + 1
      BY <2>3, <2>5, <2>6, <3>1
    <3>2. CASE k \in 1 .. Len(cq)
      <4>1. LineWritten(op.id)
        BY <1>t, <2>1, <2>3, <2>6, <3>2 DEF Alone, OwnDone
      <4> QED BY <1>3, <4>1, LineStays
    <3> QED BY <2>3, <3>1, <3>2
  <2>7. OwnPending'
    BY <1>t, <2>1 DEF Alone, OwnPending
  <2> QED BY <2>1, <2>6, <2>7 DEF OwnDone
<1>4. CASE UNCHANGED <<sq, inflight, cq, file, pc, op, interrupted>>
  BY <1>t, <1>4 DEF Alone, OwnPending, OwnDone, LineWritten
<1> QED BY <1>1, <1>2, <1>3, <1>4
  DEF Next, Open, Close, PrepareFails, SubmitFails, DrainFails, Drain, Returns, queues, vars

----------------------------------------------------------------------------
(* Theorems *)

\* The inductive invariant of ij_file_sink_uring.c.
THEOREM UringInvariant == Spec => []UringInv
<1>1. Init => UringInv
  <2> SUFFICES ASSUME Init PROVE UringInv
    OBVIOUS
  <2>1. /\ Len(sq) = 0 /\ Len(cq) = 0 /\ Len(file) = 0 /\ Len(results) = 0
        /\ inflight = {} /\ interrupted = {} /\ pc = "idle" /\ writes = 0
    BY DEF Init
  <2>2. IsFiniteSet({}) /\ Cardinality({}) = 0
    BY FS_EmptySet
  <2>3. QueueTypes
    BY <2>1, <2>2, UringConstants DEF Init, QueueTypes
  <2>4. CallTypes /\ file \in Seq(Appends)
    <3>1. op.id = 0 /\ results \in Seq(Statuses) /\ file \in Seq(Appends) /\ fd \in BOOLEAN
      <4>1. op = [id |-> 0, len |-> 0] /\ results = << >> /\ file = << >> /\ fd = FALSE
        BY DEF Init, NoOp
      <4>2. op.id = 0
        BY <4>1
      <4> QED BY <4>1, <4>2, EmptySeq
    <3>2. writes \in 0 .. MaxWrites
      BY <2>1, UringConstants
    <3> QED BY <2>1, <3>1, <3>2 DEF CallTypes, InCall
  <2>5. Numbered /\ PendingOnce /\ PendingUnwritten
    BY <2>1 DEF Numbered, CallNumbered, PendingNumbered, PastNumbered, PendingOnce,
                PendingUnwritten
  <2>6. WrittenOnce /\ Counted /\ Alone
    BY <2>1, <2>2 DEF WrittenOnce, Counted, InCall, Alone
  <2> QED BY <2>3, <2>4, <2>5, <2>6 DEF UringInv, Types
<1>2. UringInv /\ [Next]_vars => UringInv'
  BY TypesStep, NumberedStep, PendingStep, WrittenOnceStep, CountedStep, AloneStep DEF UringInv
<1> QED BY <1>1, <1>2, PTL DEF Spec

\* Type correctness of the backend: the submission queue never outgrows its
\* depth, and every call that ended gave one result.
THEOREM UringTyping == Spec => []TypeOK
<1>1. UringInv => TypeOK
  BY DEF UringInv, Types, QueueTypes, CallTypes, InCall, TypeOK
<1> QED BY <1>1, UringInvariant, PTL

\* Whatever is interrupted, ij_file_sink_uring_write appends no line twice.
THEOREM UringWrittenOnce == Spec => []WrittenOnce
BY UringInvariant, PTL DEF UringInv

\* Between calls one entry, operation or completion is left for each call
\* that was interrupted on this queue, and nothing else.
THEOREM UringLeftBehind == Spec => []LeftBehindExact
<1>1. UringInv => LeftBehindExact
  <2> SUFFICES ASSUME UringInv, pc = "idle"
               PROVE  Len(sq) + Cardinality(inflight) + Len(cq) = Cardinality(interrupted)
    BY DEF LeftBehindExact
  <2>1. Types /\ Counted /\ InCall = 0
    BY DEF UringInv, InCall
  <2> QED BY <2>1, Sizes DEF Counted
<1> QED BY <1>1, UringInvariant, PTL

\* A call that reports OK on a queue on which none was interrupted has its whole
\* line in the file, written from its own payload.
THEOREM UringOkUntilInterrupted == Spec => OkUntilInterrupted
<1> DEFINE Ok == pc = "wait" /\ results' = Append(results, "OK") /\ interrupted = {} =>
                    LineWritten(op.id)
<1>1. UringInv /\ [Next]_vars => [Ok]_vars
  <2> SUFFICES ASSUME UringInv, [Next]_vars, pc = "wait",
                      results' = Append(results, "OK"), interrupted = {}
               PROVE  LineWritten(op.id)
    OBVIOUS
  <2>1. /\ results \in Seq(Statuses) /\ Len(results) \in Nat
        /\ cq \in Seq(Completions) /\ Alone
    BY Numbers DEF UringInv, Types, CallTypes, QueueTypes
  <2>2. /\ Len(results') = Len(results) + 1 /\ results'[Len(results) + 1] = "OK"
        /\ results' # results
    BY <2>1, AppendProperties DEF Statuses
  <2>3. results' # Append(results, "SINK_ERROR")
    <3>1. Append(results, "SINK_ERROR")[Len(results) + 1] = "SINK_ERROR"
      BY <2>1, AppendProperties DEF Statuses
    <3> QED BY <2>2, <3>1
  <2>4. Drain
    BY <2>2, <2>3 DEF Next, Open, Close, Prepare, PrepareFails, Submit, SubmitFails,
                      DrainFails, Complete, Returns, vars
  <2>5. cq # << >> /\ Head(cq).res = op.len
    BY <2>3, <2>4 DEF Drain, Returns, CompleteLine
  <2>6. 1 \in 1 .. Len(cq) /\ Head(cq) = cq[1]
    BY <2>1, <2>5
  <2> QED BY <2>1, <2>5, <2>6 DEF Alone, OwnDone
<1> QED BY <1>1, UringInvariant, PTL DEF Spec, OkUntilInterrupted
====
