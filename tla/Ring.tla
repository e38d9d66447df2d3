---- MODULE Ring ----
(***************************************************************************)
(* The bounded event ring of src/src/core/ij_queue.c: ij_ring_enqueue,     *)
(* ij_ring_try_dequeue and ij_ring_destroy called by concurrent threads.   *)
(*                                                                         *)
(* Both operations run under ring->lock, but head, tail, count and the     *)
(* three counters are C11 atomics that another thread may load at any      *)
(* moment, so each store to one of them is a step of its own.  The plain   *)
(* stores to a slot and its occupied flag, and the memset of the caller's  *)
(* event, are invisible outside the lock and form one step.                *)
(*                                                                         *)
(* A definition named Mut... is a deliberately wrong variant of the one    *)
(* below it, used to test that a property can fail.                        *)
(***************************************************************************)
EXTENDS Integers, Sequences, FiniteSets

CONSTANTS Producers,    \* threads that call ij_ring_enqueue
          Consumers,    \* threads that call ij_ring_try_dequeue
          Capacity,     \* ring->capacity
          Word,         \* 2^w for the w bits of the size_t cursors
          MaxCalls,     \* bound: enqueue calls per producer
          MutexFaults,  \* TRUE: mtx_lock and mtx_unlock may fail
          Free, None    \* no lock holder; a zeroed event

\* ij_ring_init accepts only powers of two, so "& mask" is "% Capacity" and
\* the capacity divides the range of the cursors.
ASSUME RingConstants ==
    /\ Capacity \in Nat \ {0}
    /\ Word \in Nat \ {0}
    /\ \E k \in 1 .. Word : Word = Capacity * k
    /\ MaxCalls \in Nat
    /\ MutexFaults \in BOOLEAN

ASSUME RingThreads ==
    /\ Producers \cap Consumers = {}
    /\ Free \notin Producers \cup Consumers
    /\ None \notin Producers \X (1 .. MaxCalls)

Threads == Producers \cup Consumers
Slots == 0 .. Capacity - 1
Events == Producers \X (1 .. MaxCalls)   \* <<p, n>>: made for the n-th call of p

VARIABLES
    alive,             \* ring->slots # NULL
    slots, occupied, head, tail, count,
    dropped_events, enqueued_events, high_water_mark,
    lock,              \* ring->lock: its holder, or Free
    pc,                \* where each thread is in its call
    hand,              \* the caller's event: to enqueue, or just dequeued
    local,             \* the local variable "count" of the call
    ret,               \* what the last call returned
    calls,             \* enqueue calls made by each producer
    accepted,          \* history: every event stored in a slot, in order
    delivered,         \* history: every event moved out of a slot, in order
    disposed,          \* history: events given to ij_event_copy_dispose
    peak               \* history: the largest backlog there ever was

cursors == <<head, tail, count>>
metrics == <<dropped_events, enqueued_events, high_water_mark>>
storage == <<alive, slots, occupied>>
history == <<accepted, delivered, disposed, peak>>
vars == <<storage, cursors, metrics, lock, pc, hand, local, ret, calls, history>>

Init ==
    /\ alive = TRUE
    /\ slots = [i \in Slots |-> None]
    /\ occupied = [i \in Slots |-> FALSE]
    /\ head = 0 /\ tail = 0 /\ count = 0
    /\ dropped_events = 0 /\ enqueued_events = 0 /\ high_water_mark = 0
    /\ lock = Free
    /\ pc = [t \in Threads |-> "idle"]
    /\ hand = [t \in Threads |-> None]
    /\ local = [t \in Threads |-> 0]
    /\ ret = [t \in Threads |-> "none"]
    /\ calls = [p \in Producers |-> 0]
    /\ accepted = << >> /\ delivered = << >> /\ disposed = {}
    /\ peak = 0

\* Events stored and not yet moved out.
Backlog == Len(accepted) - Len(delivered)

\* The cursors as the code uses them: masked for a slot, advanced modulo 2^w.
MutHeadIndexNewest == (tail + Word - 1) % Capacity
HeadIndex == head % Capacity
TailIndex == tail % Capacity
MutAdvanceMasked(cursor) == (cursor + 1) % Capacity
Advance(cursor) == (cursor + 1) % Word

Goto(t, label) == pc' = [pc EXCEPT ![t] = label]
Returns(t, status) == ret' = [ret EXCEPT ![t] = status]

----------------------------------------------------------------------------
(* The mutex, as both operations use it. *)

MutAvailableAlways == TRUE
Available == lock = Free

Lock(t) ==
    /\ pc[t] \in {"e_lock", "d_lock"}
    /\ Available
    /\ lock' = t
    /\ Goto(t, IF pc[t] = "e_lock" THEN "e_check" ELSE "d_check")
    /\ UNCHANGED <<storage, cursors, metrics, hand, local, ret, calls, history>>

\* What a call reports when the mutex misbehaves.
FaultStatus(t) == IF t \in Producers THEN "INTERNAL_ERROR" ELSE "FALSE"

MutLockFailsIgnored(t) ==
    /\ MutexFaults
    /\ pc[t] \in {"e_lock", "d_lock"}
    /\ Goto(t, IF pc[t] = "e_lock" THEN "e_check" ELSE "d_check")
    /\ UNCHANGED <<storage, cursors, metrics, lock, hand, local, ret, calls, history>>

LockFails(t) ==
    /\ MutexFaults
    /\ pc[t] \in {"e_lock", "d_lock"}
    /\ Goto(t, "idle")
    /\ Returns(t, FaultStatus(t))
    /\ UNCHANGED <<storage, cursors, metrics, lock, hand, local, calls, history>>

Unlock(t) ==
    /\ pc[t] = "unlock"
    /\ lock' = Free
    /\ Goto(t, "idle")
    /\ UNCHANGED <<storage, cursors, metrics, hand, local, ret, calls, history>>

\* The mutex stays locked; the effect of the call is kept.
UnlockFails(t) ==
    /\ MutexFaults
    /\ pc[t] = "unlock"
    /\ Goto(t, "idle")
    /\ Returns(t, FaultStatus(t))
    /\ UNCHANGED <<storage, cursors, metrics, lock, hand, local, calls, history>>

----------------------------------------------------------------------------
(* ij_ring_enqueue *)

\* A producer offers a new event, or again the one it got back.
CallEnqueue(p) ==
    /\ pc[p] = "idle"
    /\ calls[p] < MaxCalls
    /\ calls' = [calls EXCEPT ![p] = @ + 1]
    /\ hand' = [hand EXCEPT ![p] = IF @ = None THEN <<p, calls[p] + 1>> ELSE @]
    /\ IF alive THEN Goto(p, "e_lock") /\ UNCHANGED ret
                ELSE Returns(p, "INVALID_ARGUMENT") /\ UNCHANGED pc
    /\ UNCHANGED <<storage, cursors, metrics, lock, local, history>>

MutFullLate == count > Capacity
Full == count >= Capacity

MutRefuseKeepsLock(p) == Returns(p, "QUEUE_FULL") /\ Goto(p, "idle")
Refuse(p) == Returns(p, "QUEUE_FULL") /\ Goto(p, "unlock")

\* DROP_NEW.
EnqueueFull(p) ==
    /\ pc[p] = "e_check"
    /\ Full
    /\ dropped_events' = dropped_events + 1
    /\ Refuse(p)
    /\ UNCHANGED <<storage, cursors, enqueued_events, high_water_mark, lock,
                   hand, local, calls, history>>

\* memset of the caller's event.
MutHandedOverNot(p) == hand
HandedOver(p) == [hand EXCEPT ![p] = None]

EnqueuePlace(p) ==
    /\ pc[p] = "e_check"
    /\ ~Full
    /\ local' = [local EXCEPT ![p] = count]
    /\ slots' = [slots EXCEPT ![TailIndex] = hand[p]]
    /\ occupied' = [occupied EXCEPT ![TailIndex] = TRUE]
    /\ hand' = HandedOver(p)
    /\ accepted' = Append(accepted, hand[p])
    /\ peak' = IF Backlog + 1 > peak THEN Backlog + 1 ELSE peak
    /\ Goto(p, "e_tail")
    /\ UNCHANGED <<alive, cursors, metrics, lock, ret, calls, delivered, disposed>>

EnqueueTail(p) ==
    /\ pc[p] = "e_tail"
    /\ tail' = Advance(tail)
    /\ local' = [local EXCEPT ![p] = @ + 1]
    /\ Goto(p, "e_count")
    /\ UNCHANGED <<storage, head, count, metrics, lock, hand, ret, calls, history>>

EnqueueCount(p) ==
    /\ pc[p] = "e_count"
    /\ count' = local[p]
    /\ Goto(p, "e_stat")
    /\ UNCHANGED <<storage, head, tail, metrics, lock, hand, local, ret, calls,
                   history>>

EnqueueStat(p) ==
    /\ pc[p] = "e_stat"
    /\ enqueued_events' = enqueued_events + 1
    /\ Goto(p, "e_hwm")
    /\ UNCHANGED <<storage, cursors, dropped_events, high_water_mark, lock,
                   hand, local, ret, calls, history>>

MutHigherStale(n) == IF n - 1 > high_water_mark THEN n - 1 ELSE high_water_mark
Higher(n) == IF n > high_water_mark THEN n ELSE high_water_mark

EnqueueHighWater(p) ==
    /\ pc[p] = "e_hwm"
    /\ high_water_mark' = Higher(local[p])
    /\ Returns(p, "OK")
    /\ Goto(p, "unlock")
    /\ UNCHANGED <<storage, cursors, dropped_events, enqueued_events, lock,
                   hand, local, calls, history>>

\* A caller that still holds its event may dispose of it instead of retrying.
DisposeOwn(t) ==
    /\ pc[t] = "idle"
    /\ hand[t] # None
    /\ t \in Consumers => ret[t] = "TRUE"
    /\ hand' = [hand EXCEPT ![t] = None]
    /\ disposed' = disposed \cup {hand[t]}
    /\ UNCHANGED <<storage, cursors, metrics, lock, pc, local, ret, calls,
                   accepted, delivered, peak>>

----------------------------------------------------------------------------
(* ij_ring_try_dequeue *)

\* A consumer polls once it has disposed of the event it was last given.
CallDequeue(c) ==
    /\ pc[c] = "idle"
    /\ hand[c] = None \/ ret[c] # "TRUE"
    /\ IF alive THEN Goto(c, "d_lock") /\ UNCHANGED ret
                ELSE Returns(c, "FALSE") /\ UNCHANGED pc
    /\ UNCHANGED <<storage, cursors, metrics, lock, hand, local, calls, history>>

MutEmptyEarly == count <= 1
Empty == count = 0

DequeueEmpty(c) ==
    /\ pc[c] = "d_check"
    /\ Empty
    /\ Returns(c, "FALSE")
    /\ Goto(c, "unlock")
    /\ UNCHANGED <<storage, cursors, metrics, lock, hand, local, calls, history>>

MutVacatedNot(i) == occupied
Vacated(i) == [occupied EXCEPT ![i] = FALSE]

DequeueTake(c) ==
    /\ pc[c] = "d_check"
    /\ ~Empty
    /\ local' = [local EXCEPT ![c] = count]
    /\ hand' = [hand EXCEPT ![c] = slots[HeadIndex]]
    /\ delivered' = Append(delivered, slots[HeadIndex])
    /\ slots' = [slots EXCEPT ![HeadIndex] = None]
    /\ occupied' = Vacated(HeadIndex)
    /\ Goto(c, "d_head")
    /\ UNCHANGED <<alive, cursors, metrics, lock, ret, calls, accepted,
                   disposed, peak>>

DequeueHead(c) ==
    /\ pc[c] = "d_head"
    /\ head' = Advance(head)
    /\ Goto(c, "d_count")
    /\ UNCHANGED <<storage, tail, count, metrics, lock, hand, local, ret, calls,
                   history>>

DequeueCount(c) ==
    /\ pc[c] = "d_count"
    /\ count' = local[c] - 1
    /\ Returns(c, "TRUE")
    /\ Goto(c, "unlock")
    /\ UNCHANGED <<storage, head, tail, metrics, lock, hand, local, calls, history>>

----------------------------------------------------------------------------
(* ij_ring_destroy.  The owner calls it when no other call is in progress. *)

\* memset(ring, 0): no slots any more, every cursor and counter zero.
Wiped ==
    /\ alive' = FALSE
    /\ slots' = [i \in Slots |-> None]
    /\ occupied' = [i \in Slots |-> FALSE]
    /\ head' = 0 /\ tail' = 0 /\ count' = 0
    /\ dropped_events' = 0 /\ enqueued_events' = 0 /\ high_water_mark' = 0

\* What the loop of ij_ring_destroy disposes of.
MutQueuedNone == {}
Queued == {slots[i] : i \in {j \in Slots : occupied[j]}}

\* The mutex is taken, every occupied slot is disposed of, memory is freed
\* (or, when the unlock fails, abandoned with the mutex).
Destroy ==
    /\ alive
    /\ \A t \in Threads : pc[t] = "idle"
    /\ lock = Free
    /\ disposed' = disposed \cup Queued
    /\ Wiped
    /\ UNCHANGED <<lock, pc, hand, local, ret, calls, accepted, delivered,
                   peak>>

\* mtx_lock fails: the slots are freed with whatever they still own.
DestroyUnlocked ==
    /\ MutexFaults
    /\ alive
    /\ \A t \in Threads : pc[t] = "idle"
    /\ Wiped
    /\ UNCHANGED <<lock, pc, hand, local, ret, calls, history>>

----------------------------------------------------------------------------

ProducerStep(p) ==
    \/ EnqueueFull(p) \/ EnqueuePlace(p) \/ EnqueueTail(p) \/ EnqueueCount(p)
    \/ EnqueueStat(p) \/ EnqueueHighWater(p)

ConsumerStep(c) ==
    \/ DequeueEmpty(c) \/ DequeueTake(c) \/ DequeueHead(c) \/ DequeueCount(c)

MutexStep(t) == Lock(t) \/ LockFails(t) \/ Unlock(t) \/ UnlockFails(t)

Next ==
    \/ \E p \in Producers : CallEnqueue(p) \/ ProducerStep(p)
    \/ \E c \in Consumers : CallDequeue(c) \/ ConsumerStep(c)
    \/ \E t \in Threads : MutexStep(t) \/ DisposeOwn(t)
    \/ Destroy
    \/ DestroyUnlocked

Spec == Init /\ [][Next]_vars

\* A thread inside its call keeps running; a consumer keeps polling; a thread
\* that waits for a mutex nobody takes any more gets it.  Nothing is assumed
\* about who wins a contended mutex, nor that producers go on producing.
Fairness ==
    /\ \A p \in Producers : WF_vars(Lock(p) \/ ProducerStep(p) \/ Unlock(p))
    /\ \A c \in Consumers : WF_vars(\/ CallDequeue(c) \/ Lock(c) \/ ConsumerStep(c)
                                    \/ Unlock(c) \/ DisposeOwn(c))

FairSpec == Spec /\ Fairness

----------------------------------------------------------------------------
(* Properties *)

Labels == {"idle", "e_lock", "e_check", "e_tail", "e_count", "e_stat", "e_hwm",
           "d_lock", "d_check", "d_head", "d_count", "unlock"}
Statuses == {"none", "OK", "QUEUE_FULL", "INTERNAL_ERROR", "INVALID_ARGUMENT",
             "TRUE", "FALSE"}

\* Every variable has its type; in particular an outside reader of the atomics
\* never sees count or high_water_mark above the capacity.
TypeOK ==
    /\ alive \in BOOLEAN
    /\ slots \in [Slots -> Events \cup {None}]
    /\ occupied \in [Slots -> BOOLEAN]
    /\ head \in 0 .. Word - 1 /\ tail \in 0 .. Word - 1
    /\ count \in 0 .. Capacity
    /\ dropped_events \in Nat /\ enqueued_events \in Nat
    /\ high_water_mark \in 0 .. Capacity
    /\ lock \in Threads \cup {Free}
    /\ pc \in [Threads -> Labels]
    /\ hand \in [Threads -> Events \cup {None}]
    /\ local \in [Threads -> 0 .. Capacity]
    /\ ret \in [Threads -> Statuses]
    /\ calls \in [Producers -> 0 .. MaxCalls]
    /\ accepted \in Seq(Events) /\ delivered \in Seq(Events)
    /\ disposed \subseteq Events
    /\ peak \in 0 .. Capacity

\* The steps between a successful mtx_lock and the mtx_unlock.
Critical == {"e_check", "e_tail", "e_count", "e_stat", "e_hwm",
             "d_check", "d_head", "d_count", "unlock"}

\* At most one thread is between mtx_lock and mtx_unlock, and it holds the lock.
MutualExclusion ==
    \A t \in Threads : pc[t] \in Critical =>
        /\ lock = t
        /\ \A u \in Threads : pc[u] \in Critical => u = t

\* What the cursors denote at any moment, also between the stores of one call:
\* an enqueue has filled a slot it has not counted yet, a dequeue has emptied
\* one it still counts, or has not moved head past.
Filling == \E p \in Producers : pc[p] \in {"e_tail", "e_count"}
Draining == \E c \in Consumers : pc[c] \in {"d_head", "d_count"}
One(b) == IF b THEN 1 ELSE 0
ContentsLen == count + One(Filling) - One(Draining)
FirstIndex == head + One(\E c \in Consumers : pc[c] = "d_head")
Contents == [i \in 1 .. ContentsLen |-> slots[(FirstIndex + i - 1) % Capacity]]

\* No accepted event is lost, duplicated or reordered while the ring exists:
\* what was stored is what was taken followed by what the slots between the
\* cursors hold, in order, across any wrap of the slots and of the cursors.
FifoExact == alive => accepted = delivered \o Contents

\* Consumers receive a prefix of what producers stored, in the same order.
FifoOrder ==
    /\ Len(delivered) <= Len(accepted)
    /\ \A i \in 1 .. Len(delivered) : delivered[i] = accepted[i]

\* When nobody is inside a call, the cursors agree with each other and with
\* the backlog, so that the next "full" and "empty" tests decide correctly.
CursorsAgree ==
    alive /\ lock = Free =>
        /\ count = Backlog
        /\ tail = (head + count) % Word

\* The occupied flags mark exactly the slots between the cursors: the loop of
\* ij_ring_destroy, which looks only at the flags, frees every queued event
\* and no other.
OccupiedIsWindow ==
    /\ {i \in Slots : occupied[i]} =
           {(FirstIndex + i - 1) % Capacity : i \in 1 .. ContentsLen}
    /\ \A i \in Slots : occupied[i] <=> slots[i] # None

\* Every event has one owner at a time: a caller, a slot, or it was disposed of.
\* A refused event stays with its producer, a stored one is never still in
\* the producer's hand, and none is disposed of twice or used afterwards.
SingleOwner ==
    LET inHand == {t \in Threads : hand[t] # None}
        inSlot == {i \in Slots : slots[i] # None}
    IN  /\ \A t, u \in inHand : hand[t] = hand[u] => t = u
        /\ \A i, j \in inSlot : slots[i] = slots[j] => i = j
        /\ \A t \in inHand, i \in inSlot : hand[t] # slots[i]
        /\ \A t \in inHand : hand[t] \notin disposed
        /\ \A i \in inSlot : slots[i] \notin disposed

\* Nothing that was accepted disappears: it is in a slot, with the consumer
\* that took it, or disposed of (by a consumer or by ij_ring_destroy).
NoLeak ==
    \A k \in 1 .. Len(accepted) :
        \/ \E i \in Slots : slots[i] = accepted[k]
        \/ \E c \in Consumers : hand[c] = accepted[k]
        \/ accepted[k] \in disposed

\* Outside a call the metrics are exact: enqueued_events counts what was
\* stored and high_water_mark is the largest backlog there ever was.
MetricsExact ==
    alive /\ lock = Free =>
        /\ enqueued_events = Len(accepted)
        /\ high_water_mark = peak

\* The ring behaves as a bounded FIFO queue that refuses the new event when
\* full, whatever the interleaving of the calls.
Fifo == INSTANCE BoundedFifo WITH queue <- Contents,
                                  refused <- dropped_events,
                                  open <- alive
ImplementsFifo == Fifo!Spec

\* A critical section always ends: no path out of either operation keeps the
\* mutex.
LockReleased == \A t \in Threads : (lock = t) ~> (lock # t)

\* With consumers polling, every stored event is eventually taken (or the
\* ring is destroyed).
Drained == (Backlog > 0) ~> (Backlog = 0 \/ ~alive)
====
