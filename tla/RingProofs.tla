---- MODULE RingProofs ----
(***************************************************************************)
(* Proofs about the ring of ij_queue.c, for every number of threads, every *)
(* capacity that divides the range of the cursors, and any mutex faults.   *)
(*                                                                         *)
(* FifoExact is not inductive: it says nothing of tail, nor of what a      *)
(* thread in the middle of its stores is about to do.  IndInv ties head    *)
(* and tail to the lengths of the two histories modulo 2^w, the slots to   *)
(* the accepted events between them, and the local copy of count to count. *)
(***************************************************************************)
EXTENDS Ring, ArithmeticAndSequences, SequenceTheorems

\* Where producers and consumers can be.
ELabels == {"idle", "e_lock", "e_check", "e_tail", "e_count", "e_stat", "e_hwm", "unlock"}
DLabels == {"idle", "d_lock", "d_check", "d_head", "d_count", "unlock"}

\* Only the lock holder is in the critical section; nobody is in a call on a
\* ring that is gone; an enqueue has an event to store.
Control ==
    /\ \A p \in Producers : pc[p] \in ELabels
    /\ \A c \in Consumers : pc[c] \in DLabels
    /\ \A t \in Threads : pc[t] \in Critical => lock = t
    /\ \A t \in Threads : pc[t] # "idle" => alive
    /\ \A p \in Producers : pc[p] \in {"e_lock", "e_check"} => hand[p] # None

\* The local variable count of a call in progress against ring->count.
Locals ==
    /\ \A p \in Producers :
         /\ pc[p] = "e_tail" => local[p] = count /\ count < Capacity
         /\ pc[p] = "e_count" => local[p] = count + 1 /\ count < Capacity
         /\ pc[p] \in {"e_stat", "e_hwm"} => local[p] = count
    /\ \A c \in Consumers :
         pc[c] \in {"d_head", "d_count"} => local[c] = count /\ count > 0

\* A slot is marked occupied when it holds an event.
Flags == \A i \in Slots : occupied[i] <=> slots[i] # None

\* A cursor is one behind between the store to the slot and its own store.
HeadLag == One(\E c \in Consumers : pc[c] = "d_head")
TailLag == One(\E p \in Producers : pc[p] = "e_tail")

\* The cursors are the lengths of the histories modulo 2^w, and each accepted
\* event that was not taken is in the slot its position selects.
Window == alive =>
    /\ Backlog = ContentsLen
    /\ head = (Len(delivered) - HeadLag) % Word
    /\ tail = (Len(accepted) - TailLag) % Word
    /\ \A i \in Len(delivered) .. Len(accepted) - 1 :
          slots[i % Capacity] = accepted[i + 1]

IndInv == TypeOK /\ Control /\ Locals /\ Flags /\ Window /\ FifoOrder

\* The constants are numbers.
LEMMA ConstTypes == Capacity \in Nat \ {0} /\ Word \in Nat \ {0} /\ MaxCalls \in Nat
BY RingConstants

\* ij_ring_init establishes the invariant.
LEMMA InitInd == Init => IndInv
<1> SUFFICES ASSUME Init PROVE IndInv
  OBVIOUS
<1>1. TypeOK
  BY RingConstants, RingThreads
    DEF Init, TypeOK, Slots, Events, Threads, Labels, Statuses
<1>2. Control
  BY DEF Init, Control, Threads, ELabels, DLabels, Critical
<1>3. Locals
  BY DEF Init, Locals, Threads
<1>4. Window
  <2>1. 0 % Word = 0
    BY RingConstants
  <2> QED BY <2>1, RingThreads
    DEF Init, Window, Backlog, ContentsLen, One, Filling, Draining, HeadLag,
        TailLag, Threads
<1>5. FifoOrder
  BY DEF Init, FifoOrder
<1>6. Flags
  BY DEF Init, Flags
<1> QED BY <1>1, <1>2, <1>3, <1>4, <1>5, <1>6 DEF IndInv

\* Masking a wrapped cursor selects the slot the unwrapped one would: what
\* makes a capacity that is a power of two safe in ij_ring_enqueue and
\* ij_ring_try_dequeue.
LEMMA WrapIndex == ASSUME NEW a \in Nat PROVE (a % Word) % Capacity = a % Capacity
<1>1. PICK k \in 1 .. Word : Word = Capacity * k
  BY RingConstants
<1>2. k \in Int /\ a \in Int /\ Capacity \in Nat \ {0} /\ Word \in Nat \ {0}
  BY ConstTypes
<1> QED BY <1>1, <1>2, ModOfMultiple, Zenon

(* A thread inside the lock is alone there. *)
LEMMA NoneInside ==
    ASSUME Control, NEW t \in Threads, pc[t] \in Critical
    PROVE  /\ \A u \in Threads \ {t} : pc[u] \notin Critical
           /\ t \in Producers => ~Draining /\ HeadLag = 0
           /\ t \in Consumers => ~Filling /\ TailLag = 0
           /\ pc[t] \notin {"e_tail", "e_count", "d_head", "d_count"} =>
                 ~Filling /\ ~Draining /\ HeadLag = 0 /\ TailLag = 0
           /\ alive
<1>1. \A u \in Threads \ {t} : pc[u] \notin Critical
  BY DEF Control
<1>2. pc[t] # "idle" /\ alive
  BY DEF Control, Critical
<1> QED BY <1>1, <1>2, RingThreads
  DEF Filling, Draining, HeadLag, TailLag, One, Critical, Threads, Control,
      ELabels, DLabels

(* An accepted event that was not taken is in the slot its position selects. *)
LEMMA InWindow ==
    ASSUME Window, alive, NEW i \in Len(delivered) .. Len(accepted) - 1
    PROVE  slots[i % Capacity] = accepted[i + 1]
BY Zenon DEF Window

(* The consumer that found count # 0 reads the oldest event. *)
LEMMA FirstSlot ==
    ASSUME IndInv, NEW c \in Consumers, pc[c] = "d_check", count # 0
    PROVE  /\ head % Capacity \in Slots
           /\ head % Capacity = Len(delivered) % Capacity
           /\ Len(delivered) < Len(accepted)
           /\ slots[head % Capacity] = accepted[Len(delivered) + 1]
           /\ slots[head % Capacity] \in Events
           /\ Backlog = count
<1> USE ConstTypes DEF IndInv, TypeOK
<1>1. alive /\ ~Filling /\ ~Draining /\ HeadLag = 0
  BY NoneInside DEF Threads, Critical
<1>2. Backlog = count /\ head = Len(delivered) % Word
  BY <1>1 DEF Window, ContentsLen, One
<1>3. head % Capacity = Len(delivered) % Capacity
  <2>1. Len(delivered) \in Nat
    OBVIOUS
  <2> QED BY <1>2, <2>1, WrapIndex, Zenon
<1>4. Len(delivered) < Len(accepted)
  BY <1>2 DEF Backlog
<1>5. slots[Len(delivered) % Capacity] = accepted[Len(delivered) + 1]
  BY <1>1, <1>4, SMTT(30) DEF Window
<1>6. accepted[Len(delivered) + 1] \in Events
  BY <1>4
<1>7. head % Capacity \in Slots
  BY DEF Slots
<1> QED BY <1>2, <1>3, <1>4, <1>5, <1>6, <1>7

\* Every step keeps the types; a store to count stays within the capacity.
LEMMA TypeStep == IndInv /\ [Next]_vars => TypeOK'
<1> SUFFICES ASSUME IndInv, [Next]_vars PROVE TypeOK'
  OBVIOUS
<1> USE ConstTypes, RingThreads DEF IndInv, TypeOK, Labels, Statuses
<1>1. ASSUME NEW p \in Producers, CallEnqueue(p) PROVE TypeOK'
  <2>1. <<p, calls[p] + 1>> \in Events
    BY <1>1 DEF CallEnqueue, Events
  <2>2. hand' \in [Threads -> Events \cup {None}]
    BY <1>1, <2>1 DEF CallEnqueue, Threads
  <2>3. calls' \in [Producers -> 0 .. MaxCalls]
    BY <1>1 DEF CallEnqueue
  <2> QED BY <1>1, <2>2, <2>3, ZenonT(30)
    DEF CallEnqueue, storage, cursors, metrics, history, Goto, Returns, Threads
<1>2. ASSUME NEW p \in Producers, EnqueueFull(p) PROVE TypeOK'
  BY <1>2
    DEF EnqueueFull, storage, cursors, metrics, history, Goto, Returns, Threads,
        Full, Refuse
<1>3. ASSUME NEW p \in Producers, EnqueuePlace(p) PROVE TypeOK'
  <2>1. hand[p] \in Events /\ tail % Capacity \in Slots
    BY <1>3 DEF EnqueuePlace, Control, Threads, Slots, Full, HandedOver, TailIndex
  <2>2. accepted' \in Seq(Events)
    BY <1>3, <2>1 DEF EnqueuePlace, Full, HandedOver, TailIndex
  <2>3. Backlog = count /\ Backlog + 1 \in 1 .. Capacity
    <3>1. alive /\ ~Filling /\ ~Draining
      BY <1>3, NoneInside
        DEF EnqueuePlace, Threads, Critical, Full, HandedOver, TailIndex
    <3> QED BY <1>3, <3>1
      DEF EnqueuePlace, Window, ContentsLen, One, Full, HandedOver, TailIndex
  <2>4. peak' \in 0 .. Capacity
    BY <1>3, <2>3 DEF EnqueuePlace, Full, HandedOver, TailIndex
  <2> QED BY <1>3, <2>1, <2>2, <2>4
    DEF EnqueuePlace, storage, cursors, metrics, history, Goto, Returns, Threads,
        Full, HandedOver, TailIndex
<1>4. ASSUME NEW p \in Producers, EnqueueTail(p) PROVE TypeOK'
  <2>1. tail' \in 0 .. Word - 1
    BY <1>4, ModRange DEF EnqueueTail, Advance
  <2> QED BY <1>4, <2>1, SMTT(30)
    DEF EnqueueTail, Locals, storage, cursors, metrics, history, Goto, Returns,
        Threads, Advance
<1>5. ASSUME NEW p \in Producers, EnqueueCount(p) PROVE TypeOK'
  BY <1>5
    DEF EnqueueCount, storage, cursors, metrics, history, Goto, Returns, Threads
<1>6. ASSUME NEW p \in Producers, EnqueueStat(p) PROVE TypeOK'
  BY <1>6
    DEF EnqueueStat, storage, cursors, metrics, history, Goto, Returns, Threads
<1>7. ASSUME NEW p \in Producers, EnqueueHighWater(p) PROVE TypeOK'
  BY <1>7
    DEF EnqueueHighWater, storage, cursors, metrics, history, Goto, Returns,
        Threads, Higher
<1>8. ASSUME NEW c \in Consumers, CallDequeue(c) PROVE TypeOK'
  BY <1>8
    DEF CallDequeue, storage, cursors, metrics, history, Goto, Returns, Threads
<1>9. ASSUME NEW c \in Consumers, DequeueEmpty(c) PROVE TypeOK'
  BY <1>9
    DEF DequeueEmpty, storage, cursors, metrics, history, Goto, Returns, Threads,
        Empty
<1>10. ASSUME NEW c \in Consumers, DequeueTake(c) PROVE TypeOK'
  <2>1. head % Capacity \in Slots /\ slots[head % Capacity] \in Events
    BY <1>10, FirstSlot
      DEF DequeueTake, Control, Critical, Threads, Empty, HeadIndex, Vacated
  <2>2. delivered' \in Seq(Events)
    BY <1>10, <2>1 DEF DequeueTake, Empty, HeadIndex, Vacated
  <2> QED BY <1>10, <2>1, <2>2
    DEF DequeueTake, storage, cursors, metrics, history, Goto, Returns, Threads,
        Empty, HeadIndex, Vacated
<1>11. ASSUME NEW c \in Consumers, DequeueHead(c) PROVE TypeOK'
  <2>1. head' \in 0 .. Word - 1
    BY <1>11, ModRange DEF DequeueHead, Advance
  <2> QED BY <1>11, <2>1
    DEF DequeueHead, storage, cursors, metrics, history, Goto, Returns, Threads,
        Advance
<1>12. ASSUME NEW c \in Consumers, DequeueCount(c) PROVE TypeOK'
  <2>1. count' \in 0 .. Capacity
    BY <1>12 DEF DequeueCount, Locals
  <2> QED BY <1>12, <2>1
    DEF DequeueCount, storage, cursors, metrics, history, Goto, Returns, Threads
<1>13. ASSUME NEW t \in Threads, Lock(t) PROVE TypeOK'
  BY <1>13
    DEF Lock, storage, cursors, metrics, history, Goto, Returns, Threads, Available
<1>14. ASSUME NEW t \in Threads, LockFails(t) PROVE TypeOK'
  BY <1>14
    DEF LockFails, FaultStatus, storage, cursors, metrics, history, Goto, Returns,
        Threads
<1>15. ASSUME NEW t \in Threads, Unlock(t) PROVE TypeOK'
  BY <1>15 DEF Unlock, storage, cursors, metrics, history, Goto, Returns, Threads
<1>16. ASSUME NEW t \in Threads, UnlockFails(t) PROVE TypeOK'
  BY <1>16
    DEF UnlockFails, FaultStatus, storage, cursors, metrics, history, Goto,
        Returns, Threads
<1>17. ASSUME NEW t \in Threads, DisposeOwn(t) PROVE TypeOK'
  BY <1>17
    DEF DisposeOwn, storage, cursors, metrics, history, Goto, Returns, Threads
<1>18. CASE Destroy
  <2>1. disposed' \subseteq Events
    BY <1>18 DEF Destroy, Flags, Queued
  <2>2. slots' \in [Slots -> Events \cup {None}] /\ occupied' \in [Slots -> BOOLEAN]
    BY <1>18 DEF Destroy, Wiped, Queued
  <2>3. /\ head' \in 0 .. Word - 1 /\ tail' \in 0 .. Word - 1 /\ count' \in 0 .. Capacity
        /\ high_water_mark' \in 0 .. Capacity /\ dropped_events' \in Nat /\ enqueued_events' \in Nat
    BY <1>18 DEF Destroy, Wiped, Queued
  <2> QED BY <1>18, <2>1, <2>2, <2>3 DEF Destroy, Wiped, Queued
<1>19. CASE DestroyUnlocked
  <2>1. slots' \in [Slots -> Events \cup {None}] /\ occupied' \in [Slots -> BOOLEAN]
    BY <1>19 DEF DestroyUnlocked, Wiped
  <2>3. /\ head' \in 0 .. Word - 1 /\ tail' \in 0 .. Word - 1 /\ count' \in 0 .. Capacity
        /\ high_water_mark' \in 0 .. Capacity /\ dropped_events' \in Nat /\ enqueued_events' \in Nat
    BY <1>19 DEF DestroyUnlocked, Wiped
  <2> QED BY <1>19, <2>1, <2>3 DEF DestroyUnlocked, Wiped, history
<1>20. CASE UNCHANGED vars
  BY <1>20 DEF vars, storage, cursors, metrics, history, Goto, Returns, Threads
<1> QED BY <1>1, <1>2, <1>3, <1>4, <1>5, <1>6, <1>7, <1>8, <1>9,
        <1>10, <1>11, <1>12, <1>13, <1>14, <1>15, <1>16, <1>17, <1>18, <1>19, <1>20
  DEF Next, ProducerStep, ConsumerStep, MutexStep

\* Every step keeps the locking discipline.
LEMMA ControlStep == IndInv /\ [Next]_vars => Control'
<1> SUFFICES ASSUME IndInv, [Next]_vars PROVE Control'
  OBVIOUS
<1> USE RingThreads DEF IndInv, TypeOK, Control, Critical, ELabels, DLabels
<1>1. ASSUME NEW p \in Producers, CallEnqueue(p) PROVE Control'
  <2>1. <<p, calls[p] + 1>> # None
    BY <1>1, ConstTypes DEF CallEnqueue
  <2> QED BY <1>1, <2>1, ZenonT(30)
    DEF CallEnqueue, storage, cursors, metrics, history, Goto, Returns, Threads
<1>2. ASSUME NEW p \in Producers, EnqueueFull(p) PROVE Control'
  BY <1>2
    DEF EnqueueFull, storage, cursors, metrics, history, Goto, Returns, Threads,
        Full, Refuse
<1>3. ASSUME NEW p \in Producers, EnqueuePlace(p) PROVE Control'
  BY <1>3
    DEF EnqueuePlace, storage, cursors, metrics, history, Goto, Returns, Threads,
        Full, HandedOver, TailIndex
<1>4. ASSUME NEW p \in Producers, EnqueueTail(p) PROVE Control'
  BY <1>4
    DEF EnqueueTail, storage, cursors, metrics, history, Goto, Returns, Threads,
        Advance
<1>5. ASSUME NEW p \in Producers, EnqueueCount(p) PROVE Control'
  BY <1>5
    DEF EnqueueCount, storage, cursors, metrics, history, Goto, Returns, Threads
<1>6. ASSUME NEW p \in Producers, EnqueueStat(p) PROVE Control'
  BY <1>6
    DEF EnqueueStat, storage, cursors, metrics, history, Goto, Returns, Threads
<1>7. ASSUME NEW p \in Producers, EnqueueHighWater(p) PROVE Control'
  BY <1>7
    DEF EnqueueHighWater, storage, cursors, metrics, history, Goto, Returns,
        Threads, Higher
<1>8. ASSUME NEW c \in Consumers, CallDequeue(c) PROVE Control'
  BY <1>8, ZenonT(30)
    DEF CallDequeue, storage, cursors, metrics, history, Goto, Returns, Threads
<1>9. ASSUME NEW c \in Consumers, DequeueEmpty(c) PROVE Control'
  BY <1>9
    DEF DequeueEmpty, storage, cursors, metrics, history, Goto, Returns, Threads,
        Empty
<1>10. ASSUME NEW c \in Consumers, DequeueTake(c) PROVE Control'
  BY <1>10
    DEF DequeueTake, storage, cursors, metrics, history, Goto, Returns, Threads,
        Empty, HeadIndex, Vacated
<1>11. ASSUME NEW c \in Consumers, DequeueHead(c) PROVE Control'
  BY <1>11
    DEF DequeueHead, storage, cursors, metrics, history, Goto, Returns, Threads,
        Advance
<1>12. ASSUME NEW c \in Consumers, DequeueCount(c) PROVE Control'
  BY <1>12
    DEF DequeueCount, storage, cursors, metrics, history, Goto, Returns, Threads
<1>13. ASSUME NEW t \in Threads, Lock(t) PROVE Control'
  BY <1>13
    DEF Lock, storage, cursors, metrics, history, Goto, Returns, Threads, Available
<1>14. ASSUME NEW t \in Threads, LockFails(t) PROVE Control'
  BY <1>14
    DEF LockFails, FaultStatus, storage, cursors, metrics, history, Goto, Returns,
        Threads
<1>15. ASSUME NEW t \in Threads, Unlock(t) PROVE Control'
  BY <1>15 DEF Unlock, storage, cursors, metrics, history, Goto, Returns, Threads
<1>16. ASSUME NEW t \in Threads, UnlockFails(t) PROVE Control'
  BY <1>16
    DEF UnlockFails, FaultStatus, storage, cursors, metrics, history, Goto,
        Returns, Threads
<1>17. ASSUME NEW t \in Threads, DisposeOwn(t) PROVE Control'
  BY <1>17
    DEF DisposeOwn, storage, cursors, metrics, history, Goto, Returns, Threads
<1>18. CASE Destroy
  BY <1>18
    DEF Destroy, Wiped, storage, cursors, metrics, history, Goto, Returns,
        Threads, Queued
<1>19. CASE DestroyUnlocked
  BY <1>19
    DEF DestroyUnlocked, Wiped, storage, cursors, metrics, history, Goto, Returns,
        Threads
<1>20. CASE UNCHANGED vars
  BY <1>20 DEF vars, storage, cursors, metrics, history, Goto, Returns, Threads
<1> QED BY <1>1, <1>2, <1>3, <1>4, <1>5, <1>6, <1>7, <1>8, <1>9,
        <1>10, <1>11, <1>12, <1>13, <1>14, <1>15, <1>16, <1>17, <1>18, <1>19, <1>20
  DEF Next, ProducerStep, ConsumerStep, MutexStep

\* Every step keeps a slot and its occupied flag together.
LEMMA FlagsStep == IndInv /\ [Next]_vars => Flags'
<1> SUFFICES ASSUME IndInv, [Next]_vars PROVE Flags'
  OBVIOUS
<1> USE ConstTypes DEF IndInv, TypeOK, Flags
<1>1. ASSUME NEW p \in Producers, CallEnqueue(p) PROVE Flags'
  BY <1>1
    DEF CallEnqueue, storage, cursors, metrics, history, Goto, Returns, Threads
<1>2. ASSUME NEW p \in Producers, EnqueueFull(p) PROVE Flags'
  BY <1>2
    DEF EnqueueFull, storage, cursors, metrics, history, Goto, Returns, Threads,
        Full, Refuse
<1>3. ASSUME NEW p \in Producers, EnqueuePlace(p) PROVE Flags'
  <2>1. hand[p] # None /\ tail % Capacity \in Slots
    BY <1>3 DEF EnqueuePlace, Control, Threads, Slots, Full, HandedOver, TailIndex
  <2> QED BY <1>3, <2>1 DEF EnqueuePlace, Full, HandedOver, TailIndex
<1>4. ASSUME NEW p \in Producers, EnqueueTail(p) PROVE Flags'
  BY <1>4
    DEF EnqueueTail, storage, cursors, metrics, history, Goto, Returns, Threads,
        Advance
<1>5. ASSUME NEW p \in Producers, EnqueueCount(p) PROVE Flags'
  BY <1>5
    DEF EnqueueCount, storage, cursors, metrics, history, Goto, Returns, Threads
<1>6. ASSUME NEW p \in Producers, EnqueueStat(p) PROVE Flags'
  BY <1>6
    DEF EnqueueStat, storage, cursors, metrics, history, Goto, Returns, Threads
<1>7. ASSUME NEW p \in Producers, EnqueueHighWater(p) PROVE Flags'
  BY <1>7
    DEF EnqueueHighWater, storage, cursors, metrics, history, Goto, Returns,
        Threads, Higher
<1>8. ASSUME NEW c \in Consumers, CallDequeue(c) PROVE Flags'
  BY <1>8
    DEF CallDequeue, storage, cursors, metrics, history, Goto, Returns, Threads
<1>9. ASSUME NEW c \in Consumers, DequeueEmpty(c) PROVE Flags'
  BY <1>9
    DEF DequeueEmpty, storage, cursors, metrics, history, Goto, Returns, Threads,
        Empty
<1>10. ASSUME NEW c \in Consumers, DequeueTake(c) PROVE Flags'
  BY <1>10
    DEF DequeueTake, storage, cursors, metrics, history, Goto, Returns, Threads,
        Empty, HeadIndex, Vacated
<1>11. ASSUME NEW c \in Consumers, DequeueHead(c) PROVE Flags'
  BY <1>11
    DEF DequeueHead, storage, cursors, metrics, history, Goto, Returns, Threads,
        Advance
<1>12. ASSUME NEW c \in Consumers, DequeueCount(c) PROVE Flags'
  BY <1>12
    DEF DequeueCount, storage, cursors, metrics, history, Goto, Returns, Threads
<1>13. ASSUME NEW t \in Threads, Lock(t) PROVE Flags'
  BY <1>13
    DEF Lock, storage, cursors, metrics, history, Goto, Returns, Threads, Available
<1>14. ASSUME NEW t \in Threads, LockFails(t) PROVE Flags'
  BY <1>14
    DEF LockFails, FaultStatus, storage, cursors, metrics, history, Goto, Returns,
        Threads
<1>15. ASSUME NEW t \in Threads, Unlock(t) PROVE Flags'
  BY <1>15 DEF Unlock, storage, cursors, metrics, history, Goto, Returns, Threads
<1>16. ASSUME NEW t \in Threads, UnlockFails(t) PROVE Flags'
  BY <1>16
    DEF UnlockFails, FaultStatus, storage, cursors, metrics, history, Goto,
        Returns, Threads
<1>17. ASSUME NEW t \in Threads, DisposeOwn(t) PROVE Flags'
  BY <1>17
    DEF DisposeOwn, storage, cursors, metrics, history, Goto, Returns, Threads
<1>18. CASE Destroy
  BY <1>18
    DEF Destroy, Wiped, storage, cursors, metrics, history, Goto, Returns,
        Threads, Queued
<1>19. CASE DestroyUnlocked
  BY <1>19
    DEF DestroyUnlocked, Wiped, storage, cursors, metrics, history, Goto, Returns,
        Threads
<1>20. CASE UNCHANGED vars
  BY <1>20 DEF vars, storage, cursors, metrics, history, Goto, Returns, Threads
<1> QED BY <1>1, <1>2, <1>3, <1>4, <1>5, <1>6, <1>7, <1>8, <1>9,
        <1>10, <1>11, <1>12, <1>13, <1>14, <1>15, <1>16, <1>17, <1>18, <1>19, <1>20
  DEF Next, ProducerStep, ConsumerStep, MutexStep

\* Every step keeps the local copies of count accurate.
LEMMA LocalsStep == IndInv /\ [Next]_vars => Locals'
<1> SUFFICES ASSUME IndInv, [Next]_vars PROVE Locals'
  OBVIOUS
<1> USE ConstTypes, RingThreads
  DEF IndInv, TypeOK, Control, Critical, ELabels, DLabels, Locals
<1>1. ASSUME NEW p \in Producers, CallEnqueue(p) PROVE Locals'
  BY <1>1, ZenonT(30)
    DEF CallEnqueue, storage, cursors, metrics, history, Goto, Returns, Threads
<1>2. ASSUME NEW p \in Producers, EnqueueFull(p) PROVE Locals'
  BY <1>2
    DEF EnqueueFull, storage, cursors, metrics, history, Goto, Returns, Threads,
        Full, Refuse
<1>3. ASSUME NEW p \in Producers, EnqueuePlace(p) PROVE Locals'
  BY <1>3
    DEF EnqueuePlace, storage, cursors, metrics, history, Goto, Returns, Threads,
        Full, HandedOver, TailIndex
<1>4. ASSUME NEW p \in Producers, EnqueueTail(p) PROVE Locals'
  BY <1>4
    DEF EnqueueTail, storage, cursors, metrics, history, Goto, Returns, Threads,
        Advance
<1>5. ASSUME NEW p \in Producers, EnqueueCount(p) PROVE Locals'
  BY <1>5
    DEF EnqueueCount, storage, cursors, metrics, history, Goto, Returns, Threads
<1>6. ASSUME NEW p \in Producers, EnqueueStat(p) PROVE Locals'
  BY <1>6
    DEF EnqueueStat, storage, cursors, metrics, history, Goto, Returns, Threads
<1>7. ASSUME NEW p \in Producers, EnqueueHighWater(p) PROVE Locals'
  BY <1>7
    DEF EnqueueHighWater, storage, cursors, metrics, history, Goto, Returns,
        Threads, Higher
<1>8. ASSUME NEW c \in Consumers, CallDequeue(c) PROVE Locals'
  BY <1>8
    DEF CallDequeue, storage, cursors, metrics, history, Goto, Returns, Threads
<1>9. ASSUME NEW c \in Consumers, DequeueEmpty(c) PROVE Locals'
  BY <1>9
    DEF DequeueEmpty, storage, cursors, metrics, history, Goto, Returns, Threads,
        Empty
<1>10. ASSUME NEW c \in Consumers, DequeueTake(c) PROVE Locals'
  BY <1>10
    DEF DequeueTake, storage, cursors, metrics, history, Goto, Returns, Threads,
        Empty, HeadIndex, Vacated
<1>11. ASSUME NEW c \in Consumers, DequeueHead(c) PROVE Locals'
  BY <1>11
    DEF DequeueHead, storage, cursors, metrics, history, Goto, Returns, Threads,
        Advance
<1>12. ASSUME NEW c \in Consumers, DequeueCount(c) PROVE Locals'
  BY <1>12
    DEF DequeueCount, storage, cursors, metrics, history, Goto, Returns, Threads
<1>13. ASSUME NEW t \in Threads, Lock(t) PROVE Locals'
  BY <1>13
    DEF Lock, storage, cursors, metrics, history, Goto, Returns, Threads, Available
<1>14. ASSUME NEW t \in Threads, LockFails(t) PROVE Locals'
  BY <1>14
    DEF LockFails, FaultStatus, storage, cursors, metrics, history, Goto, Returns,
        Threads
<1>15. ASSUME NEW t \in Threads, Unlock(t) PROVE Locals'
  BY <1>15 DEF Unlock, storage, cursors, metrics, history, Goto, Returns, Threads
<1>16. ASSUME NEW t \in Threads, UnlockFails(t) PROVE Locals'
  BY <1>16
    DEF UnlockFails, FaultStatus, storage, cursors, metrics, history, Goto,
        Returns, Threads
<1>17. ASSUME NEW t \in Threads, DisposeOwn(t) PROVE Locals'
  BY <1>17
    DEF DisposeOwn, storage, cursors, metrics, history, Goto, Returns, Threads
<1>18. CASE Destroy
  BY <1>18
    DEF Destroy, Wiped, storage, cursors, metrics, history, Goto, Returns,
        Threads, Queued
<1>19. CASE DestroyUnlocked
  BY <1>19
    DEF DestroyUnlocked, Wiped, storage, cursors, metrics, history, Goto, Returns,
        Threads
<1>20. CASE UNCHANGED vars
  BY <1>20 DEF vars, storage, cursors, metrics, history, Goto, Returns, Threads
<1> QED BY <1>1, <1>2, <1>3, <1>4, <1>5, <1>6, <1>7, <1>8, <1>9,
        <1>10, <1>11, <1>12, <1>13, <1>14, <1>15, <1>16, <1>17, <1>18, <1>19, <1>20
  DEF Next, ProducerStep, ConsumerStep, MutexStep

Moving == {"e_tail", "e_count", "d_head", "d_count"}

(* A step that touches neither cursors nor slots, and neither leaves nor      *)
(* enters the part of a call where they are being moved, keeps the window.    *)
LEMMA QuietStep ==
    ASSUME IndInv, Window, NEW t \in Threads,
           \A u \in Threads : u # t => pc'[u] = pc[u],
           pc[t] \notin Moving, pc'[t] \notin Moving,
           UNCHANGED <<alive, slots, head, tail, count, accepted, delivered>>
    PROVE  Window'
<1>1. Filling' = Filling /\ Draining' = Draining
  BY DEF Filling, Draining, Moving, Threads
<1>2. HeadLag' = HeadLag /\ TailLag' = TailLag
  BY DEF HeadLag, TailLag, One, Moving, Threads
<1> QED BY <1>1, <1>2 DEF Window, Backlog, ContentsLen

\* Every step keeps the window: the slot an enqueue fills is outside it, the
\* slot a dequeue empties is its first.
LEMMA WindowStep == IndInv /\ [Next]_vars => Window'
<1> SUFFICES ASSUME IndInv, [Next]_vars PROVE Window'
  OBVIOUS
<1>0. /\ Window /\ Control /\ pc \in [Threads -> Labels]
      /\ Producers \subseteq Threads /\ Consumers \subseteq Threads
  BY DEF IndInv, TypeOK, Threads
<1> DEFINE Quiet(t) == /\ \A u \in Threads : u # t => pc'[u] = pc[u]
                       /\ pc[t] \notin Moving /\ pc'[t] \notin Moving
                       /\ UNCHANGED <<alive, slots, head, tail, count, accepted, delivered>>
<1>q. ASSUME NEW t \in Threads, Quiet(t) PROVE Window'
  BY <1>q, <1>0, QuietStep
<1>1. ASSUME NEW p \in Producers, CallEnqueue(p) PROVE Window'
  <2>1. Quiet(p)
    BY <1>1, <1>0 DEF CallEnqueue, storage, cursors, history, Goto, Moving
  <2> QED BY <2>1, <1>q, <1>0
<1>2. ASSUME NEW p \in Producers, EnqueueFull(p) PROVE Window'
  <2>1. Quiet(p)
    BY <1>2, <1>0
      DEF EnqueueFull, storage, cursors, history, Goto, Moving, Full, Refuse
  <2> QED BY <2>1, <1>q, <1>0
<1>3. ASSUME NEW p \in Producers, EnqueueStat(p) PROVE Window'
  <2>1. Quiet(p)
    BY <1>3, <1>0 DEF EnqueueStat, storage, cursors, history, Goto, Moving
  <2> QED BY <2>1, <1>q, <1>0
<1>4. ASSUME NEW p \in Producers, EnqueueHighWater(p) PROVE Window'
  <2>1. Quiet(p)
    BY <1>4, <1>0
      DEF EnqueueHighWater, storage, cursors, history, Goto, Moving, Higher
  <2> QED BY <2>1, <1>q, <1>0
<1>5. ASSUME NEW c \in Consumers, CallDequeue(c) PROVE Window'
  <2>1. Quiet(c)
    BY <1>5, <1>0 DEF CallDequeue, storage, cursors, history, Goto, Moving
  <2> QED BY <2>1, <1>q, <1>0
<1>6. ASSUME NEW c \in Consumers, DequeueEmpty(c) PROVE Window'
  <2>1. Quiet(c)
    BY <1>6, <1>0 DEF DequeueEmpty, storage, cursors, history, Goto, Moving, Empty
  <2> QED BY <2>1, <1>q, <1>0
<1>7. ASSUME NEW t \in Threads, Lock(t) PROVE Window'
  <2>1. Quiet(t)
    BY <1>7, <1>0 DEF Lock, storage, cursors, history, Goto, Moving, Available
  <2> QED BY <2>1, <1>q, <1>0
<1>8. ASSUME NEW t \in Threads, LockFails(t) PROVE Window'
  <2>1. Quiet(t)
    BY <1>8, <1>0 DEF LockFails, storage, cursors, history, Goto, Moving
  <2> QED BY <2>1, <1>q, <1>0
<1>9. ASSUME NEW t \in Threads, Unlock(t) PROVE Window'
  <2>1. Quiet(t)
    BY <1>9, <1>0 DEF Unlock, storage, cursors, history, Goto, Moving
  <2> QED BY <2>1, <1>q, <1>0
<1>10. ASSUME NEW t \in Threads, UnlockFails(t) PROVE Window'
  <2>1. Quiet(t)
    BY <1>10, <1>0 DEF UnlockFails, storage, cursors, history, Goto, Moving
  <2> QED BY <2>1, <1>q, <1>0
<1>11. ASSUME NEW t \in Threads, DisposeOwn(t) PROVE Window'
  <2>1. Quiet(t)
    BY <1>11, <1>0 DEF DisposeOwn, storage, cursors, history, Goto, Moving
  <2> QED BY <2>1, <1>q, <1>0
<1>12. ASSUME NEW p \in Producers, EnqueuePlace(p) PROVE Window'
  <2> DEFINE a == Len(accepted)  d == Len(delivered)
  <2>1. /\ alive /\ ~Filling /\ ~Draining /\ HeadLag = 0 /\ TailLag = 0
        /\ \A u \in Threads \ {p} : pc[u] \notin Critical
    BY <1>12, <1>0, NoneInside
      DEF EnqueuePlace, Critical, Full, HandedOver, TailIndex
  <2>2. Filling' /\ ~Draining' /\ HeadLag' = 0 /\ TailLag' = 1
    BY <1>12, <1>0, <2>1, RingThreads
      DEF EnqueuePlace, Goto, Filling, Draining, HeadLag, TailLag, One, Critical,
          Threads, Full, HandedOver, TailIndex
  <2>3. /\ Backlog = count /\ head = d % Word /\ tail = a % Word
        /\ a \in Nat /\ d \in Nat /\ count \in Nat /\ count < Capacity
    BY RingConstants, <1>12, <1>0, <2>1
      DEF EnqueuePlace, IndInv, TypeOK, Window, ContentsLen, One, Full,
          HandedOver, TailIndex
  <2>4. tail % Capacity = a % Capacity
    BY <2>3, WrapIndex, Zenon
  <2>5. /\ Len(accepted') = a + 1 /\ accepted'[a + 1] = hand[p]
        /\ \A i \in 1 .. a : accepted'[i] = accepted[i]
    BY <1>12 DEF EnqueuePlace, IndInv, TypeOK, Full, HandedOver, TailIndex
  <2>6. ASSUME NEW i \in d .. a PROVE slots'[i % Capacity] = accepted'[i + 1]
    <3>1. i % Capacity \in Slots /\ a % Capacity \in Slots
      BY <2>3, ConstTypes DEF Slots
    <3>2. CASE i = a
      BY <1>12, <2>4, <2>5, <3>1, <3>2
        DEF EnqueuePlace, IndInv, TypeOK, Full, HandedOver, TailIndex
    <3>3. CASE i < a
      <4>1. i % Capacity # a % Capacity
        <5>1. a - i < Capacity /\ i - a < Capacity /\ i # a /\ i \in Int /\ a \in Int
          BY <3>3, <2>3, ConstTypes DEF Backlog
        <5> QED BY <5>1, ConstTypes, ModInjective, Zenon
      <4>2. slots[i % Capacity] = accepted[i + 1]
        <5>1. i \in d .. a - 1
          BY <2>3, <3>3
        <5> QED BY <1>0, <2>1, <5>1, InWindow, Zenon
      <4>3. slots'[i % Capacity] = slots[i % Capacity]
        BY <1>12, <2>4, <3>1, <4>1
          DEF EnqueuePlace, IndInv, TypeOK, Full, HandedOver, TailIndex
      <4> QED BY <4>2, <4>3, <2>3, <2>5, <3>3
    <3> QED BY <2>3, <3>2, <3>3
  <2>7. Backlog' = ContentsLen'
    <3>1. Backlog' = Backlog + 1
      BY <1>12, <2>3, <2>5 DEF EnqueuePlace, Backlog, Full, HandedOver, TailIndex
    <3>2. ContentsLen' = count + 1
      BY <1>12, <2>2, <2>3
        DEF EnqueuePlace, cursors, ContentsLen, One, Full, HandedOver, TailIndex
    <3> QED BY <2>3, <3>1, <3>2
  <2> QED BY <1>12, <2>2, <2>3, <2>5, <2>6, <2>7
    DEF EnqueuePlace, cursors, Window, Full, HandedOver, TailIndex
<1>13. ASSUME NEW c \in Consumers, DequeueTake(c) PROVE Window'
  <2> DEFINE a == Len(accepted)  d == Len(delivered)
  <2>1. /\ alive /\ ~Filling /\ ~Draining /\ HeadLag = 0 /\ TailLag = 0
        /\ \A u \in Threads \ {c} : pc[u] \notin Critical
    BY <1>13, <1>0, NoneInside DEF DequeueTake, Critical, Empty, HeadIndex, Vacated
  <2>2. ~Filling' /\ Draining' /\ HeadLag' = 1 /\ TailLag' = 0
    BY <1>13, <1>0, <2>1, RingThreads
      DEF DequeueTake, Goto, Filling, Draining, HeadLag, TailLag, One, Critical,
          Threads, Empty, HeadIndex, Vacated
  <2>3. /\ Backlog = count /\ head = d % Word /\ tail = a % Word
        /\ a \in Nat /\ d \in Nat /\ count \in 1 .. Capacity
    BY <1>13, <1>0, <2>1
      DEF DequeueTake, IndInv, TypeOK, Window, ContentsLen, One, Empty, HeadIndex,
          Vacated
  <2>4. head % Capacity = d % Capacity
    BY <2>3, WrapIndex, Zenon
  <2>5. Len(delivered') = d + 1
    BY <1>13 DEF DequeueTake, IndInv, TypeOK, Empty, HeadIndex, Vacated
  <2>6. ASSUME NEW i \in d + 1 .. a - 1 PROVE slots'[i % Capacity] = accepted'[i + 1]
    <3>1. i % Capacity \in Slots /\ d % Capacity \in Slots
      BY <2>3, ConstTypes DEF Slots
    <3>2. i % Capacity # d % Capacity
      <4>1. i - d < Capacity /\ d - i < Capacity /\ i # d /\ i \in Int /\ d \in Int
        BY <2>3, ConstTypes DEF Backlog
      <4> QED BY <4>1, ConstTypes, ModInjective, Zenon
    <3>3. slots[i % Capacity] = accepted[i + 1]
      <4>1. i \in d .. a - 1
        BY <2>3
      <4> QED BY <1>0, <2>1, <4>1, InWindow, Zenon
    <3> QED BY <1>13, <2>4, <3>1, <3>2, <3>3
      DEF DequeueTake, IndInv, TypeOK, Empty, HeadIndex, Vacated
  <2>7. Backlog' = ContentsLen'
    <3>1. Backlog' = Backlog - 1
      BY <1>13, <2>3, <2>5 DEF DequeueTake, Backlog, Empty, HeadIndex, Vacated
    <3>2. ContentsLen' = count - 1
      BY <1>13, <2>2, <2>3
        DEF DequeueTake, cursors, ContentsLen, One, Empty, HeadIndex, Vacated
    <3> QED BY <2>3, <3>1, <3>2
  <2> QED BY <1>13, <2>2, <2>3, <2>5, <2>6, <2>7
    DEF DequeueTake, cursors, Window, Empty, HeadIndex, Vacated
<1>14. ASSUME NEW p \in Producers, EnqueueTail(p) PROVE Window'
  <2>1. /\ alive /\ Filling /\ ~Draining /\ HeadLag = 0 /\ TailLag = 1
        /\ Filling' /\ ~Draining' /\ HeadLag' = 0 /\ TailLag' = 0
    BY <1>14, <1>0, NoneInside, RingThreads
      DEF EnqueueTail, Goto, Filling, Draining, HeadLag, TailLag, One, Critical,
          Threads, Advance
  <2>2. tail = (Len(accepted) - 1) % Word /\ Len(accepted) - 1 \in Int
    BY <1>0, <2>1 DEF Window, IndInv, TypeOK
  <2>3. tail' = (Len(accepted) - 1 + 1) % Word
    BY <1>14, <2>2, ConstTypes, ModShift, Zenon DEF EnqueueTail, Advance
  <2>4. Len(accepted) - 1 + 1 = Len(accepted) - 0
    BY <2>2
  <2> QED BY <1>14, <1>0, <2>1, <2>3, <2>4
      DEF EnqueueTail, storage, history, Window, Backlog, ContentsLen, One, Advance
<1>15. ASSUME NEW c \in Consumers, DequeueHead(c) PROVE Window'
  <2>1. /\ alive /\ ~Filling /\ Draining /\ HeadLag = 1 /\ TailLag = 0
        /\ ~Filling' /\ Draining' /\ HeadLag' = 0 /\ TailLag' = 0
    BY <1>15, <1>0, NoneInside, RingThreads
      DEF DequeueHead, Goto, Filling, Draining, HeadLag, TailLag, One, Critical,
          Threads, Advance
  <2>2. head = (Len(delivered) - 1) % Word /\ Len(delivered) - 1 \in Int
    BY <1>0, <2>1 DEF Window, IndInv, TypeOK
  <2>3. head' = (Len(delivered) - 1 + 1) % Word
    BY <1>15, <2>2, ConstTypes, ModShift, Zenon DEF DequeueHead, Advance
  <2>4. Len(delivered) - 1 + 1 = Len(delivered) - 0
    BY <2>2
  <2> QED BY <1>15, <1>0, <2>1, <2>3, <2>4
      DEF DequeueHead, storage, history, Window, Backlog, ContentsLen, One, Advance
<1>16. ASSUME NEW p \in Producers, EnqueueCount(p) PROVE Window'
  <2>1. /\ alive /\ Filling /\ ~Draining /\ HeadLag = 0 /\ TailLag = 0
        /\ ~Filling' /\ ~Draining' /\ HeadLag' = 0 /\ TailLag' = 0
    BY <1>16, <1>0, NoneInside, RingThreads
      DEF EnqueueCount, Goto, Filling, Draining, HeadLag, TailLag, One, Critical,
          Threads
  <2>2. count' = count + 1 /\ count \in Nat
    BY <1>16 DEF EnqueueCount, IndInv, TypeOK, Locals
  <2> QED BY <1>16, <1>0, <2>1, <2>2
      DEF EnqueueCount, storage, history, Window, Backlog, ContentsLen, One
<1>17. ASSUME NEW c \in Consumers, DequeueCount(c) PROVE Window'
  <2>1. /\ alive /\ ~Filling /\ Draining /\ HeadLag = 0 /\ TailLag = 0
        /\ ~Filling' /\ ~Draining' /\ HeadLag' = 0 /\ TailLag' = 0
    BY <1>17, <1>0, NoneInside, RingThreads
      DEF DequeueCount, Goto, Filling, Draining, HeadLag, TailLag, One, Critical,
          Threads
  <2>2. count' = count - 1 /\ count \in Nat
    BY <1>17 DEF DequeueCount, IndInv, TypeOK, Locals
  <2> QED BY <1>17, <1>0, <2>1, <2>2
      DEF DequeueCount, storage, history, Window, Backlog, ContentsLen, One
<1>18. CASE Destroy
  BY <1>18 DEF Destroy, Wiped, Window, Queued
<1>19. CASE DestroyUnlocked
  BY <1>19 DEF DestroyUnlocked, Wiped, Window
<1>20. CASE UNCHANGED vars
  BY <1>20, <1>0 DEF vars, storage, cursors, history, Window, Backlog, ContentsLen,
                     Filling, Draining, HeadLag, TailLag
<1> QED BY <1>1, <1>2, <1>3, <1>4, <1>5, <1>6, <1>7, <1>8, <1>9,
        <1>10, <1>11, <1>12, <1>13, <1>14, <1>15, <1>16, <1>17, <1>18, <1>19, <1>20
  DEF Next, ProducerStep, ConsumerStep, MutexStep

\* What a dequeue takes is the next event in the order of acceptance.
LEMMA FifoOrderStep == IndInv /\ [Next]_vars => FifoOrder'
<1> SUFFICES ASSUME IndInv, [Next]_vars PROVE FifoOrder'
  OBVIOUS
<1>0. FifoOrder /\ accepted \in Seq(Events) /\ delivered \in Seq(Events)
  BY DEF IndInv, TypeOK
<1>1. ASSUME NEW p \in Producers, EnqueuePlace(p) PROVE FifoOrder'
  <2>1. delivered' = delivered /\ accepted' = Append(accepted, hand[p])
    BY <1>1 DEF EnqueuePlace
  <2>2. Len(accepted') = Len(accepted) + 1 /\ \A i \in 1 .. Len(accepted) : accepted'[i] = accepted[i]
    BY <1>0, <2>1
  <2>3. Len(delivered) \in Nat /\ Len(accepted) \in Nat
    BY <1>0
  <2> QED BY <1>0, <2>1, <2>2, <2>3 DEF FifoOrder
<1>2. ASSUME NEW c \in Consumers, DequeueTake(c) PROVE FifoOrder'
  <2>1. Len(delivered) < Len(accepted) /\ slots[head % Capacity] = accepted[Len(delivered) + 1]
    BY <1>2, FirstSlot DEF DequeueTake, Empty, HeadIndex, Vacated
  <2> QED BY <1>0, <1>2, <2>1 DEF DequeueTake, FifoOrder, Empty, HeadIndex, Vacated
<1>3. CASE UNCHANGED <<accepted, delivered>>
  BY <1>0, <1>3 DEF FifoOrder
<1> QED BY <1>1, <1>2, <1>3
  DEF Next, ProducerStep, ConsumerStep, MutexStep, vars, history,
      CallEnqueue, EnqueueFull, EnqueueTail, EnqueueCount, EnqueueStat, EnqueueHighWater,
      CallDequeue, DequeueEmpty, DequeueHead, DequeueCount,
      Lock, LockFails, Unlock, UnlockFails, DisposeOwn, Destroy, DestroyUnlocked,
      Advance, Available, Empty, Full, Higher, Queued, Refuse

\* The inductive invariant holds in every reachable state of the ring.
THEOREM Invariant == Spec => []IndInv
<1>1. Init => IndInv
  BY InitInd
<1>2. IndInv /\ [Next]_vars => IndInv'
  BY TypeStep, ControlStep, LocalsStep, FlagsStep, WindowStep, FifoOrderStep
    DEF IndInv
<1> QED BY <1>1, <1>2, PTL DEF Spec

\* Type correctness of ij_queue.c's state: count and high_water_mark never
\* exceed the capacity, even between the stores of one call.
THEOREM Typing == Spec => []TypeOK
BY Invariant, PTL DEF IndInv

\* ij_ring_try_dequeue delivers a prefix of what ij_ring_enqueue stored, in
\* the same order, for any interleaving of any number of threads.
THEOREM RingFifoOrder == Spec => []FifoOrder
BY Invariant, PTL DEF IndInv

\* At most one thread is between mtx_lock and mtx_unlock in ij_queue.c, also
\* when the mutex calls may fail.
THEOREM RingMutualExclusion == Spec => []MutualExclusion
<1>1. IndInv => MutualExclusion
  BY DEF IndInv, Control, MutualExclusion
<1> QED BY <1>1, Invariant, PTL

\* Whenever the mutex is free, count is the number of queued events and tail
\* is head + count modulo 2^w, so the tests for full and empty decide
\* correctly.
THEOREM RingCursorsAgree == Spec => []CursorsAgree
<1>1. IndInv => CursorsAgree
  <2> SUFFICES ASSUME IndInv, alive, lock = Free
               PROVE  count = Backlog /\ tail = (head + count) % Word
    BY DEF CursorsAgree
  <2>1. \A t \in Threads : pc[t] \notin Critical
    BY RingThreads DEF IndInv, Control, Threads
  <2>2. ~Filling /\ ~Draining /\ HeadLag = 0 /\ TailLag = 0
    BY <2>1 DEF Filling, Draining, HeadLag, TailLag, One, Critical, Threads
  <2>3. /\ Backlog = count /\ count \in Int /\ Len(delivered) \in Int /\ Len(accepted) \in Int
        /\ head = Len(delivered) % Word /\ tail = Len(accepted) % Word
    BY <2>2 DEF IndInv, TypeOK, Window, ContentsLen, One
  <2>4. (head + count) % Word = (Len(delivered) + count) % Word
    BY <2>3, ConstTypes, ModAdd, Zenon
  <2>5. Len(delivered) + count = Len(accepted)
    BY <2>3 DEF Backlog
  <2> QED BY <2>3, <2>4, <2>5
<1> QED BY <1>1, Invariant, PTL

(* The i-th place after the cursor is the slot of the i-th event not taken. *)
LEMMA WindowIndex ==
    ASSUME IndInv, alive, NEW i \in 1 .. ContentsLen
    PROVE  (FirstIndex + i - 1) % Capacity = (Len(delivered) + i - 1) % Capacity
<1> DEFINE d == Len(delivered)
<1>1. /\ d \in Nat /\ i \in Int /\ HeadLag \in Int /\ head \in Int
      /\ head = (d - HeadLag) % Word
  <2>1. i \in Int
    OBVIOUS
  <2>2. HeadLag \in Int
    BY DEF HeadLag, One
  <2> QED BY <2>1, <2>2, ConstTypes DEF IndInv, TypeOK, Window
<1>2. FirstIndex + i - 1 = ((d - HeadLag) % Word) + (HeadLag + i - 1)
  <2>1. FirstIndex = head + HeadLag
    BY DEF FirstIndex, HeadLag
  <2> QED BY <1>1, <2>1
<1>3. PICK k \in 1 .. Word : Word = Capacity * k
  BY RingConstants
<1>4. (((d - HeadLag) % Word) + (HeadLag + i - 1)) % Capacity
         = ((d - HeadLag) + (HeadLag + i - 1)) % Capacity
  <2>1. d - HeadLag \in Int /\ HeadLag + i - 1 \in Int /\ k \in Int
    BY <1>1
  <2> QED BY <1>3, <2>1, ConstTypes, ModAddMultiple, ZenonT(30)
<1>5. (d - HeadLag) + (HeadLag + i - 1) = d + i - 1
  BY <1>1
<1> QED BY <1>2, <1>4, <1>5

(* What the slots between the cursors hold are the events not taken. *)
LEMMA ContentsAre ==
    ASSUME IndInv, alive
    PROVE  /\ Len(accepted) - Len(delivered) = ContentsLen
           /\ Contents \in Seq(Events) /\ Len(Contents) = Len(accepted) - Len(delivered)
           /\ \A i \in 1 .. Len(accepted) - Len(delivered) :
                 Contents[i] = accepted[Len(delivered) + i]
<1> DEFINE a == Len(accepted)  d == Len(delivered)
<1>1. a - d = ContentsLen /\ a \in Nat /\ d \in Nat /\ d <= a
  BY DEF IndInv, TypeOK, Window, Backlog, FifoOrder
<1>2. ASSUME NEW i \in 1 .. ContentsLen
      PROVE  slots[(FirstIndex + i - 1) % Capacity] = accepted[d + i]
  <2>1. slots[(d + i - 1) % Capacity] = accepted[d + i - 1 + 1]
    BY <1>1 DEF IndInv, Window
  <2> QED BY <1>1, <2>1, WindowIndex
<1>3. \A i \in 1 .. ContentsLen : accepted[d + i] \in Events
  BY <1>1 DEF IndInv, TypeOK
<1>4. Contents \in [1 .. a - d -> Events] /\ a - d \in Nat
  BY <1>1, <1>2, <1>3 DEF Contents
<1>5. Contents \in Seq(Events) /\ Len(Contents) = a - d
  BY <1>4, SeqDef
<1> QED BY <1>1, <1>2, <1>5 DEF Contents

\* No event accepted by ij_ring_enqueue is lost, duplicated or reordered while
\* the ring exists, across every wrap of slots and cursors and in the middle
\* of every call.
THEOREM RingFifoExact == Spec => []FifoExact
<1>1. IndInv => FifoExact
  <2> SUFFICES ASSUME IndInv, alive PROVE accepted = delivered \o Contents
    BY DEF FifoExact
  <2>1. /\ accepted \in Seq(Events) /\ delivered \in Seq(Events)
        /\ Len(delivered) <= Len(accepted)
        /\ \A i \in 1 .. Len(delivered) : delivered[i] = accepted[i]
    BY DEF IndInv, TypeOK, FifoOrder
  <2>2. /\ delivered \o Contents \in Seq(Events)
        /\ Len(delivered \o Contents) = Len(accepted)
        /\ \A i \in 1 .. Len(accepted) : (delivered \o Contents)[i] = accepted[i]
    BY <2>1, ContentsAre, ConcatProperties
  <2> QED BY <2>1, <2>2, SeqEqual
<1> QED BY <1>1, Invariant, PTL

----------------------------------------------------------------------------
(* Metrics, occupied flags, owners of events, and the abstract queue.      *)
(*                                                                         *)
(* None of the properties is inductive.  Metrics says what a call in the   *)
(* middle of its stores has still to add; Outside says that no slot beside *)
(* the window holds anything; Ownership says where an event can have come  *)
(* from: events are numbered by the call that made them, so a new one was  *)
(* never seen, and accepted has no event twice.                            *)

\* An enqueue has stored its event and not counted it; not reported its backlog.
Uncounted == {"e_tail", "e_count", "e_stat"}
Unreported == Uncounted \cup {"e_hwm"}

\* The metrics, with what the enqueue in progress has still to do.
Metrics == alive =>
    /\ enqueued_events =
          Len(accepted) - One(\E p \in Producers : pc[p] \in Uncounted)
    /\ (\A p \in Producers : pc[p] \notin Unreported) => high_water_mark = peak
    /\ \A p \in Producers :
          /\ pc[p] = "e_tail" => peak = Higher(local[p] + 1)
          /\ pc[p] \in {"e_count", "e_stat", "e_hwm"} => peak = Higher(local[p])

\* Only slots of the window hold an event; a ring that is gone is empty.
Outside ==
    /\ alive => \A i \in Slots : slots[i] # None =>
                   \E k \in Len(delivered) .. Len(accepted) - 1 : i = k % Capacity
    /\ ~alive => count = 0 /\ \A i \in Slots : slots[i] = None

\* e was made for a call that has happened.
Made(e) == e[2] <= calls[e[1]]

\* What producers hold, what was stored and what is disposed of was made.
HandsMade == \A p \in Producers : hand[p] # None => hand[p][1] = p /\ Made(hand[p])
AcceptedMade == \A k \in 1 .. Len(accepted) : Made(accepted[k])
DisposedMade == \A e \in disposed : Made(e)

\* No event was stored twice, none that was stored is still with its producer,
\* and consumers hold events they took, each its own.
AcceptedOnce == \A j, k \in 1 .. Len(accepted) : accepted[j] = accepted[k] => j = k
HandsUnstored == \A p \in Producers : \A k \in 1 .. Len(accepted) : hand[p] # accepted[k]
HandsTaken == \A c \in Consumers : hand[c] # None =>
    \E k \in 1 .. Len(delivered) : hand[c] = accepted[k]
HandsApart == \A b, c \in Consumers : hand[b] # None /\ hand[b] = hand[c] => b = c

\* What is held or queued is not disposed of.
HandsLive == \A t \in Threads : hand[t] # None => hand[t] \notin disposed
QueuedLive == alive =>
    \A k \in Len(delivered) + 1 .. Len(accepted) : accepted[k] \notin disposed

Ownership ==
    /\ HandsMade /\ AcceptedMade /\ DisposedMade
    /\ AcceptedOnce /\ HandsUnstored /\ HandsTaken /\ HandsApart
    /\ HandsLive /\ QueuedLive

OwnInv == IndInv /\ Metrics /\ Outside /\ Ownership

\* Without mutex faults a consumer asks again only with an empty hand, and what
\* was taken is with its consumer or disposed of.
Found(k) == (\E c \in Consumers : hand[c] = accepted[k]) \/ accepted[k] \in disposed
AskedEmpty == \A c \in Consumers :
    /\ pc[c] \in {"d_lock", "d_check"} => hand[c] = None
    /\ pc[c] \in {"idle", "unlock"} /\ hand[c] # None => ret[c] = "TRUE"
TakenFound == \A k \in 1 .. Len(delivered) : Found(k)
GoneFound == ~alive => \A k \in 1 .. Len(accepted) : Found(k)

Kept == AskedEmpty /\ TakenFound /\ GoneFound

----------------------------------------------------------------------------
(* Metrics *)

(* A step of t that neither begins nor goes on with the stores of an enqueue  *)
(* leaves the metrics to whoever is at it.                                    *)
LEMMA CalmStep ==
    ASSUME Metrics, NEW t \in Threads,
           \A u \in Threads : u # t => pc'[u] = pc[u] /\ local'[u] = local[u],
           pc[t] \notin Unreported, pc'[t] \notin Unreported,
           UNCHANGED <<alive, enqueued_events, high_water_mark, accepted, peak>>
    PROVE  Metrics'
<1>1. \A p \in Producers : pc[p] \in Unreported \/ pc'[p] \in Unreported =>
          pc'[p] = pc[p] /\ local'[p] = local[p]
  BY DEF Threads
<1>2. (\E p \in Producers : pc'[p] \in Uncounted)
          <=> (\E p \in Producers : pc[p] \in Uncounted)
  BY <1>1 DEF Unreported
<1> QED BY <1>1, <1>2 DEF Metrics, One, Higher, Unreported, Uncounted

\* Every step keeps the metrics: an enqueue adds what it owes, one store at a time.
LEMMA MetricsStep == IndInv /\ Metrics /\ [Next]_vars => Metrics'
<1> SUFFICES ASSUME IndInv, Metrics, [Next]_vars PROVE Metrics'
  OBVIOUS
<1>0. /\ Control /\ pc \in [Threads -> Labels] /\ local \in [Threads -> 0 .. Capacity]
      /\ Producers \subseteq Threads /\ Consumers \subseteq Threads
      /\ Producers \cap Consumers = {} /\ accepted \in Seq(Events)
      /\ enqueued_events \in Nat /\ high_water_mark \in Nat /\ count \in Nat
  BY RingThreads, ConstTypes DEF IndInv, TypeOK, Threads
<1> DEFINE Calm(t) ==
      /\ \A u \in Threads : u # t => pc'[u] = pc[u] /\ local'[u] = local[u]
      /\ pc[t] \notin Unreported /\ pc'[t] \notin Unreported
      /\ UNCHANGED <<alive, enqueued_events, high_water_mark, accepted, peak>>
<1>c. ASSUME NEW t \in Threads, Calm(t) PROVE Metrics'
  BY <1>c, CalmStep
<1>1. ASSUME NEW p \in Producers, CallEnqueue(p) \/ EnqueueFull(p) PROVE Metrics'
  <2>1. Calm(p)
    BY <1>0, <1>1 DEF CallEnqueue, EnqueueFull, Refuse, Goto, storage, metrics, history,
                      Unreported, Uncounted
  <2> QED BY <2>1, <1>c, <1>0
<1>2. ASSUME NEW c \in Consumers, CallDequeue(c) \/ ConsumerStep(c) PROVE Metrics'
  <2>1. Calm(c)
    BY <1>0, <1>2 DEF CallDequeue, ConsumerStep, DequeueEmpty, DequeueTake, DequeueHead,
                      DequeueCount, Goto, storage, metrics, history, Unreported, Uncounted
  <2> QED BY <2>1, <1>c, <1>0
<1>3. ASSUME NEW t \in Threads, MutexStep(t) \/ DisposeOwn(t) PROVE Metrics'
  <2>1. CASE MutexStep(t)
    <3>1. Calm(t)
      BY <1>0, <2>1 DEF MutexStep, Lock, LockFails, Unlock, UnlockFails, Goto,
                        storage, metrics, history, Unreported, Uncounted
    <3> QED BY <3>1, <1>c
  <2>2. CASE DisposeOwn(t)
    <3>1. Calm(t)
      BY <1>0, <2>2 DEF DisposeOwn, storage, metrics, history, Unreported, Uncounted
    <3> QED BY <3>1, <1>c
  <2> QED BY <1>3, <2>1, <2>2
<1>4. ASSUME NEW p \in Producers, EnqueuePlace(p) PROVE Metrics'
  <2>1. /\ \A u \in Threads \ {p} : pc[u] \notin Critical
        /\ ~Filling /\ ~Draining /\ alive
    BY <1>0, <1>4, NoneInside DEF EnqueuePlace, Critical
  <2>2. Backlog = count
    BY <1>0, <2>1 DEF IndInv, Window, ContentsLen, One
  <2>3. /\ \A q \in Producers : pc[q] \notin Unreported
        /\ \A q \in Producers : q # p => pc'[q] \notin Unreported
        /\ pc'[p] = "e_tail" /\ local'[p] = count
    BY <1>0, <1>4, <2>1 DEF EnqueuePlace, Goto, Critical, Unreported, Uncounted
  <2>4. enqueued_events = Len(accepted) /\ high_water_mark = peak
    BY <1>0, <2>1, <2>3 DEF Metrics, One, Unreported
  <2>5. Len(accepted') = Len(accepted) + 1
    BY <1>0, <1>4 DEF EnqueuePlace, IndInv, TypeOK
  <2>6. UNCHANGED <<enqueued_events, high_water_mark>>
    BY <1>4 DEF EnqueuePlace, metrics
  <2>7. peak' = IF count + 1 > high_water_mark THEN count + 1 ELSE high_water_mark
    BY <1>4, <2>2, <2>4 DEF EnqueuePlace
  <2> QED BY <1>0, <2>3, <2>4, <2>5, <2>6, <2>7
    DEF Metrics, One, Higher, Unreported, Uncounted
<1>5. ASSUME NEW p \in Producers,
             EnqueueTail(p) \/ EnqueueCount(p) \/ EnqueueStat(p) \/ EnqueueHighWater(p)
      PROVE  Metrics'
  <2>1. /\ \A q \in Producers \ {p} : pc[q] \notin Unreported /\ pc'[q] \notin Unreported
        /\ alive /\ UNCHANGED <<alive, accepted, peak>>
    <3>1. alive /\ \A u \in Threads \ {p} : pc[u] \notin Critical
      BY <1>0, <1>5, NoneInside
        DEF EnqueueTail, EnqueueCount, EnqueueStat, EnqueueHighWater, Critical
    <3> QED BY <1>0, <1>5, <3>1
      DEF EnqueueTail, EnqueueCount, EnqueueStat, EnqueueHighWater, Goto, storage, history,
          Critical, Unreported, Uncounted
  <2>2. CASE EnqueueTail(p)
    BY <1>0, <2>1, <2>2 DEF EnqueueTail, Goto, metrics, Metrics, One, Higher, Unreported,
                            Uncounted
  <2>3. CASE EnqueueCount(p)
    BY <1>0, <2>1, <2>3 DEF EnqueueCount, Goto, metrics, Metrics, One, Higher, Unreported,
                            Uncounted
  <2>4. CASE EnqueueStat(p)
    BY <1>0, <2>1, <2>4 DEF EnqueueStat, Goto, Metrics, One, Higher, Unreported, Uncounted
  <2>5. CASE EnqueueHighWater(p)
    BY <1>0, <2>1, <2>5 DEF EnqueueHighWater, Goto, Metrics, One, Higher, Unreported,
                            Uncounted
  <2> QED BY <1>5, <2>2, <2>3, <2>4, <2>5
<1>6. CASE Destroy \/ DestroyUnlocked
  BY <1>6 DEF Destroy, DestroyUnlocked, Wiped, Metrics
<1>7. CASE UNCHANGED vars
  BY <1>7 DEF vars, storage, metrics, history, Metrics, Higher
<1> QED BY <1>1, <1>2, <1>3, <1>4, <1>5, <1>6, <1>7 DEF Next, ProducerStep

----------------------------------------------------------------------------
(* The occupied flags *)

\* Every step keeps the slots beside the window empty.
LEMMA OutsideStep == IndInv /\ Outside /\ [Next]_vars => Outside'
<1> SUFFICES ASSUME IndInv, Outside, [Next]_vars PROVE Outside'
  OBVIOUS
<1>0. /\ Control /\ pc \in [Threads -> Labels]
      /\ Producers \subseteq Threads /\ Consumers \subseteq Threads
      /\ accepted \in Seq(Events) /\ delivered \in Seq(Events)
      /\ slots \in [Slots -> Events \cup {None}]
      /\ Len(delivered) \in Nat /\ Len(accepted) \in Nat /\ Len(delivered) <= Len(accepted)
  BY DEF IndInv, TypeOK, Threads, FifoOrder
<1>1. ASSUME NEW p \in Producers, EnqueuePlace(p) PROVE Outside'
  <2>1. alive /\ tail = Len(accepted) % Word
    <3>1. alive /\ TailLag = 0
      BY <1>0, <1>1, NoneInside DEF EnqueuePlace, Critical
    <3> QED BY <1>0, <3>1 DEF IndInv, Window
  <2>2. tail % Capacity = Len(accepted) % Capacity
    BY <1>0, <2>1, WrapIndex, Zenon
  <2>3. /\ Len(accepted') = Len(accepted) + 1 /\ delivered' = delivered /\ alive'
        /\ \A i \in Slots : i # Len(accepted) % Capacity => slots'[i] = slots[i]
    BY <1>0, <1>1, <2>1, <2>2 DEF EnqueuePlace, TailIndex
  <2> QED BY <1>0, <2>1, <2>3 DEF Outside
<1>2. ASSUME NEW c \in Consumers, DequeueTake(c) PROVE Outside'
  <2>1. alive /\ head % Capacity = Len(delivered) % Capacity /\ head % Capacity \in Slots
    BY <1>0, <1>2, NoneInside, FirstSlot DEF DequeueTake, Critical, Empty
  <2>2. /\ Len(delivered') = Len(delivered) + 1 /\ accepted' = accepted /\ alive'
        /\ slots'[Len(delivered) % Capacity] = None
        /\ \A i \in Slots : i # Len(delivered) % Capacity => slots'[i] = slots[i]
    BY <1>0, <1>2, <2>1 DEF DequeueTake, HeadIndex
  <2>3. ASSUME NEW i \in Slots, slots'[i] # None
        PROVE  \E k \in Len(delivered) + 1 .. Len(accepted) - 1 : i = k % Capacity
    <3>1. PICK k \in Len(delivered) .. Len(accepted) - 1 : i = k % Capacity
      BY <2>1, <2>2, <2>3 DEF Outside
    <3>2. k # Len(delivered)
      BY <2>2, <2>3, <3>1
    <3> QED BY <1>0, <3>1, <3>2
  <2> QED BY <2>2, <2>3 DEF Outside
<1>3. CASE Destroy \/ DestroyUnlocked
  BY <1>3 DEF Destroy, DestroyUnlocked, Wiped, Outside
<1>4. CASE /\ UNCHANGED <<alive, slots, accepted, delivered>>
           /\ ~alive => UNCHANGED count
  BY <1>4 DEF Outside
<1>5. ASSUME NEW p \in Producers, EnqueueCount(p)
      PROVE  alive /\ UNCHANGED <<alive, slots, accepted, delivered>>
  BY <1>0, <1>5, NoneInside DEF EnqueueCount, Critical, storage, history
<1>6. ASSUME NEW c \in Consumers, DequeueCount(c)
      PROVE  alive /\ UNCHANGED <<alive, slots, accepted, delivered>>
  BY <1>0, <1>6, NoneInside DEF DequeueCount, Critical, storage, history
<1> QED BY <1>1, <1>2, <1>3, <1>4, <1>5, <1>6
  DEF Next, ProducerStep, ConsumerStep, MutexStep, vars, history, storage, cursors,
      CallEnqueue, EnqueueFull, EnqueueTail, EnqueueStat, EnqueueHighWater, CallDequeue,
      DequeueEmpty, DequeueHead, Lock, LockFails, Unlock, UnlockFails, DisposeOwn

(* Nobody is in a call on a ring that is gone. *)
LEMMA GoneIsEmpty ==
    ASSUME IndInv, Outside, ~alive
    PROVE  ContentsLen = 0 /\ Contents = << >>
<1>1. \A t \in Threads : pc[t] = "idle"
  BY DEF IndInv, Control
<1>2. ContentsLen = 0
  BY <1>1 DEF Outside, ContentsLen, One, Filling, Draining, Threads
<1> QED BY <1>2 DEF Contents

(* The flags mark the window. *)
LEMMA FlagsAreWindow == ASSUME IndInv, Outside PROVE OccupiedIsWindow
<1>0. /\ Len(accepted) \in Nat /\ Len(delivered) \in Nat
      /\ accepted \in Seq(Events) /\ None \notin Events
      /\ occupied \in [Slots -> BOOLEAN] /\ Flags
  BY RingThreads DEF IndInv, TypeOK, Events
<1>1. CASE ~alive
  BY <1>0, <1>1, GoneIsEmpty DEF Outside, Flags, OccupiedIsWindow
<1>2. CASE alive
  <2>0. Len(accepted) - Len(delivered) = ContentsLen
    BY <1>2, ContentsAre
  <2>1. ASSUME NEW i \in Slots, occupied[i]
        PROVE  \E j \in 1 .. ContentsLen : i = (FirstIndex + j - 1) % Capacity
    <3>1. PICK k \in Len(delivered) .. Len(accepted) - 1 : i = k % Capacity
      BY <1>0, <1>2, <2>1 DEF Flags, Outside
    <3>2. k - Len(delivered) + 1 \in 1 .. ContentsLen
      BY <1>0, <2>0
    <3>3. (FirstIndex + (k - Len(delivered) + 1) - 1) % Capacity
             = (Len(delivered) + (k - Len(delivered) + 1) - 1) % Capacity
      BY <1>2, <3>2, WindowIndex, Zenon
    <3>4. Len(delivered) + (k - Len(delivered) + 1) - 1 = k
      BY <1>0
    <3> QED BY <3>1, <3>2, <3>3, <3>4, Zenon
  <2>2. ASSUME NEW j \in 1 .. ContentsLen
        PROVE  /\ (FirstIndex + j - 1) % Capacity \in Slots
               /\ occupied[(FirstIndex + j - 1) % Capacity]
    <3> DEFINE k == Len(delivered) + j - 1
    <3>1. (FirstIndex + j - 1) % Capacity = k % Capacity
      BY <1>2, WindowIndex
    <3>2. k \in Len(delivered) .. Len(accepted) - 1 /\ k \in Nat
      BY <1>0, <2>0
    <3>3. slots[k % Capacity] = accepted[k + 1] /\ accepted[k + 1] \in Events
      BY <1>0, <1>2, <3>2, InWindow DEF IndInv
    <3>4. k % Capacity \in Slots
      BY <3>2, ConstTypes DEF Slots
    <3> QED BY <1>0, <3>1, <3>3, <3>4 DEF Flags
  <2>3. {i \in Slots : occupied[i]} =
           {(FirstIndex + j - 1) % Capacity : j \in 1 .. ContentsLen}
    BY <2>1, <2>2
  <2> QED BY <1>0, <2>3 DEF OccupiedIsWindow, Flags
<1> QED BY <1>1, <1>2

----------------------------------------------------------------------------
(* Ownership *)

(* Two hands never hold the same event. *)
LEMMA HandsDiffer ==
    ASSUME TypeOK, FifoOrder, Ownership, NEW t \in Threads, NEW u \in Threads, t # u,
           hand[t] # None
    PROVE  hand[t] # hand[u]
<1>1. /\ Threads = Producers \cup Consumers
      /\ Len(delivered) \in Nat /\ Len(accepted) \in Nat /\ Len(delivered) <= Len(accepted)
  BY DEF Threads, TypeOK, FifoOrder
<1>2. \A c \in Consumers : hand[c] # None => \E k \in 1 .. Len(accepted) : hand[c] = accepted[k]
  BY <1>1 DEF Ownership, HandsTaken
<1>3. CASE t \in Producers /\ u \in Producers
  BY <1>3 DEF Ownership, HandsMade
<1>4. CASE t \in Producers /\ u \in Consumers
  BY <1>2, <1>4 DEF Ownership, HandsUnstored
<1>5. CASE t \in Consumers /\ u \in Producers
  BY <1>2, <1>5 DEF Ownership, HandsUnstored
<1>6. CASE t \in Consumers /\ u \in Consumers
  BY <1>6 DEF Ownership, HandsApart
<1> QED BY <1>1, <1>3, <1>4, <1>5, <1>6

(* What is queued is in nobody's hand. *)
LEMMA QueuedNotInHand ==
    ASSUME TypeOK, FifoOrder, Ownership, NEW t \in Threads,
           NEW k \in Len(delivered) + 1 .. Len(accepted)
    PROVE  hand[t] # accepted[k]
<1>1. /\ Threads = Producers \cup Consumers /\ accepted \in Seq(Events)
      /\ Len(delivered) \in Nat /\ Len(accepted) \in Nat /\ Len(delivered) <= Len(accepted)
  BY DEF Threads, TypeOK, FifoOrder
<1>2. k \in 1 .. Len(accepted)
  BY <1>1
<1>3. accepted[k] # None
  BY <1>1, <1>2, RingThreads DEF Events
<1>4. CASE t \in Producers
  BY <1>2, <1>4 DEF Ownership, HandsUnstored
<1>5. CASE t \in Consumers /\ hand[t] # None
  <2>1. PICK j \in 1 .. Len(delivered) : hand[t] = accepted[j]
    BY <1>5 DEF Ownership, HandsTaken
  <2>2. j \in 1 .. Len(accepted) /\ j # k
    BY <1>1
  <2> QED BY <1>2, <2>1, <2>2 DEF Ownership, AcceptedOnce
<1> QED BY <1>1, <1>3, <1>4, <1>5

\* Every step keeps the owners apart.
LEMMA OwnershipStep == IndInv /\ Outside /\ Ownership /\ [Next]_vars => Ownership'
<1> SUFFICES ASSUME IndInv, Outside, Ownership, [Next]_vars PROVE Ownership'
  OBVIOUS
<1>c. Control /\ pc \in [Threads -> Labels] /\ TypeOK /\ FifoOrder
  BY DEF IndInv, TypeOK
<1>t. /\ Threads = Producers \cup Consumers /\ Producers \cap Consumers = {}
      /\ hand \in [Threads -> Events \cup {None}] /\ None \notin Events
      /\ calls \in [Producers -> 0 .. MaxCalls] /\ disposed \subseteq Events
      /\ \A e \in Events : e[1] \in Producers /\ e[2] \in Nat
      /\ MaxCalls \in Nat
  BY RingThreads, ConstTypes DEF IndInv, TypeOK, Threads, Events
<1>s. /\ accepted \in Seq(Events) /\ delivered \in Seq(Events)
      /\ \A k \in 1 .. Len(accepted) : accepted[k] \in Events
      /\ Len(delivered) \in Nat /\ Len(accepted) \in Nat /\ Len(delivered) <= Len(accepted)
  BY DEF IndInv, TypeOK, FifoOrder
<1>1. ASSUME NEW p \in Producers, CallEnqueue(p) PROVE Ownership'
  <2>1. \A e \in Events : Made(e) => Made(e)'
    BY <1>t, <1>1 DEF CallEnqueue, Made
  <2>2. /\ \A t \in Threads : t # p => hand'[t] = hand[t]
        /\ UNCHANGED <<alive, accepted, delivered, disposed>>
    BY <1>t, <1>1 DEF CallEnqueue, storage, history
  <2>3. AcceptedMade' /\ DisposedMade'
    BY <1>t, <1>s, <2>1, <2>2 DEF Ownership, AcceptedMade, DisposedMade
  <2>4. AcceptedOnce' /\ QueuedLive'
    BY <2>2 DEF Ownership, AcceptedOnce, QueuedLive
  <2>5. HandsTaken' /\ HandsApart'
    BY <1>t, <2>2 DEF Ownership, HandsTaken, HandsApart
  <2>6. CASE hand[p] # None
    <3>1. hand' = hand
      BY <1>t, <1>1, <2>6 DEF CallEnqueue
    <3>2. HandsMade'
      BY <1>t, <2>1, <3>1 DEF Ownership, HandsMade
    <3> QED BY <2>2, <2>3, <2>4, <2>5, <3>1, <3>2
      DEF Ownership, HandsUnstored, HandsLive
  <2>7. CASE hand[p] = None
    <3>1. hand'[p] = <<p, calls[p] + 1>> /\ hand'[p] \in Events
      BY <1>t, <1>1, <2>7 DEF CallEnqueue, Events
    <3>2. hand'[p][1] = p /\ ~Made(hand'[p]) /\ Made(hand[p])'
      BY <1>t, <1>1, <3>1 DEF CallEnqueue, Made
    <3>3. HandsUnstored'
      BY <1>t, <2>2, <3>2 DEF Ownership, HandsUnstored, AcceptedMade
    <3>4. HandsLive'
      BY <2>2, <3>2 DEF Ownership, HandsLive, DisposedMade
    <3>5. HandsMade'
      BY <1>t, <2>1, <2>2, <3>2 DEF Ownership, HandsMade
    <3> QED BY <2>3, <2>4, <2>5, <3>3, <3>4, <3>5 DEF Ownership
  <2> QED BY <2>6, <2>7
<1>2. ASSUME NEW p \in Producers, EnqueuePlace(p) PROVE Ownership'
  <2>1. hand[p] \in Events /\ hand'[p] = None /\ \A t \in Threads : t # p => hand'[t] = hand[t]
    BY <1>t, <1>c, <1>2 DEF EnqueuePlace, HandedOver, Control
  <2>2. /\ Len(accepted') = Len(accepted) + 1 /\ accepted'[Len(accepted) + 1] = hand[p]
        /\ \A k \in 1 .. Len(accepted) : accepted'[k] = accepted[k]
    BY <1>s, <1>2, <2>1 DEF EnqueuePlace
  <2>3. UNCHANGED <<alive, delivered, disposed, calls>>
    BY <1>2 DEF EnqueuePlace
  <2>n. \A k \in 1 .. Len(accepted') : k \in 1 .. Len(accepted) \/ k = Len(accepted) + 1
    BY <1>s, <2>2
  <2>4. HandsMade'
    BY <1>t, <2>1, <2>3 DEF Ownership, HandsMade, Made
  <2>5. AcceptedMade'
    BY <1>t, <2>n, <2>1, <2>2, <2>3 DEF Ownership, AcceptedMade, HandsMade, Made
  <2>6. AcceptedOnce'
    BY <2>n, <2>2 DEF Ownership, AcceptedOnce, HandsUnstored
  <2>7. HandsUnstored'
    <3>1. \A q \in Producers : q # p => hand[q] # hand[p]
      BY <1>t, <2>1 DEF Ownership, HandsMade
    <3>2. \A k \in 1 .. Len(accepted') : accepted'[k] # None
      BY <1>t, <1>s, <2>n, <2>1, <2>2
    <3> QED BY <1>t, <2>n, <2>1, <2>2, <3>1, <3>2 DEF Ownership, HandsUnstored
  <2>8. HandsTaken'
    <3> SUFFICES ASSUME NEW c \in Consumers, hand[c] # None
                 PROVE  \E k \in 1 .. Len(delivered) : hand[c] = accepted'[k]
      BY <1>t, <2>1, <2>3 DEF HandsTaken
    <3>1. PICK k \in 1 .. Len(delivered) : hand[c] = accepted[k]
      BY DEF Ownership, HandsTaken
    <3> QED BY <1>s, <2>2, <3>1
  <2>9. HandsApart' /\ HandsLive' /\ DisposedMade'
    BY <1>t, <2>1, <2>3 DEF Ownership, HandsApart, HandsLive, DisposedMade, Made
  <2>10. QueuedLive'
    <3>1. hand[p] \notin disposed
      BY <1>t, <2>1 DEF Ownership, HandsLive
    <3>2. ASSUME NEW k \in Len(delivered) + 1 .. Len(accepted'), alive
          PROVE  accepted'[k] \notin disposed
      <4>1. CASE k = Len(accepted) + 1
        BY <2>2, <3>1, <4>1
      <4>2. CASE k \in Len(delivered) + 1 .. Len(accepted)
        BY <1>s, <2>2, <3>2, <4>2 DEF Ownership, QueuedLive
      <4> QED BY <1>s, <2>2, <4>1, <4>2
    <3> QED BY <2>3, <3>2 DEF QueuedLive
  <2> QED BY <2>4, <2>5, <2>6, <2>7, <2>8, <2>9, <2>10 DEF Ownership
<1>3. ASSUME NEW c \in Consumers, DequeueTake(c) PROVE Ownership'
  <2>0. alive
    BY <1>t, <1>c, <1>3, NoneInside DEF DequeueTake, Critical
  <2>1. /\ Len(delivered) < Len(accepted)
        /\ hand'[c] = accepted[Len(delivered) + 1]
        /\ \A t \in Threads : t # c => hand'[t] = hand[t]
        /\ Len(delivered') = Len(delivered) + 1
        /\ UNCHANGED <<alive, accepted, disposed, calls>>
    BY <1>t, <1>s, <1>3, FirstSlot DEF DequeueTake, HeadIndex, Empty
  <2>n. Len(delivered) + 1 \in Len(delivered) + 1 .. Len(accepted)
    BY <1>s, <2>1
  <2>p. \A q \in Producers : hand'[q] = hand[q]
    BY <1>t, <2>1
  <2>2. HandsMade' /\ AcceptedMade' /\ DisposedMade' /\ AcceptedOnce' /\ HandsUnstored'
    <3>1. HandsMade' /\ HandsUnstored'
      BY <2>1, <2>p DEF Ownership, HandsMade, HandsUnstored, Made
    <3>2. AcceptedMade' /\ DisposedMade' /\ AcceptedOnce'
      BY <2>1 DEF Ownership, AcceptedMade, DisposedMade, AcceptedOnce, Made
    <3> QED BY <3>1, <3>2
  <2>3. HandsTaken'
    <3> SUFFICES ASSUME NEW b \in Consumers, hand'[b] # None
                 PROVE  \E k \in 1 .. Len(delivered) + 1 : hand'[b] = accepted[k]
      BY <2>1 DEF HandsTaken
    <3>1. CASE b = c
      BY <1>s, <2>1, <3>1
    <3>2. CASE b # c
      <4>1. PICK k \in 1 .. Len(delivered) : hand[b] = accepted[k]
        BY <1>t, <2>1, <3>2 DEF Ownership, HandsTaken
      <4>2. k \in 1 .. Len(delivered) + 1
        BY <1>s
      <4>3. hand'[b] = hand[b]
        BY <1>t, <2>1, <3>2
      <4> QED BY <4>1, <4>2, <4>3
    <3> QED BY <3>1, <3>2
  <2>4. HandsApart'
    <3>1. \A b \in Consumers : b # c => hand[b] # hand'[c]
      BY <1>c, <1>t, <2>1, <2>n, QueuedNotInHand
    <3> QED BY <1>t, <2>1, <3>1 DEF Ownership, HandsApart
  <2>5. HandsLive'
    BY <1>t, <2>0, <2>1, <2>n DEF Ownership, HandsLive, QueuedLive
  <2>6. QueuedLive'
    BY <1>s, <2>1 DEF Ownership, QueuedLive
  <2> QED BY <2>2, <2>3, <2>4, <2>5, <2>6 DEF Ownership
<1>4. ASSUME NEW t \in Threads, DisposeOwn(t) PROVE Ownership'
  <2>1. /\ hand[t] \in Events /\ hand'[t] = None
        /\ \A u \in Threads : u # t => hand'[u] = hand[u]
        /\ disposed' = disposed \cup {hand[t]}
        /\ UNCHANGED <<alive, accepted, delivered, calls>>
    BY <1>t, <1>4 DEF DisposeOwn, storage
  <2>2. HandsMade' /\ AcceptedMade' /\ AcceptedOnce'
    BY <1>t, <2>1 DEF Ownership, HandsMade, AcceptedMade, AcceptedOnce, Made
  <2>3. Made(hand[t])
    <3>1. CASE t \in Producers
      BY <1>t, <2>1, <3>1 DEF Ownership, HandsMade
    <3>2. CASE t \in Consumers
      <4>1. PICK k \in 1 .. Len(delivered) : hand[t] = accepted[k]
        BY <1>t, <2>1, <3>2 DEF Ownership, HandsTaken
      <4> QED BY <1>s, <4>1 DEF Ownership, AcceptedMade
    <3> QED BY <1>t, <3>1, <3>2
  <2>4. DisposedMade'
    BY <2>1, <2>3 DEF Ownership, DisposedMade, Made
  <2>5. HandsUnstored' /\ HandsTaken' /\ HandsApart'
    <3>1. \A k \in 1 .. Len(accepted) : accepted[k] # None
      BY <1>t, <1>s
    <3>2. \A u \in Threads : hand'[u] = None \/ hand'[u] = hand[u]
      BY <2>1
    <3>3. HandsUnstored'
      BY <1>t, <2>1, <3>1, <3>2 DEF Ownership, HandsUnstored
    <3>4. HandsTaken'
      BY <1>t, <2>1, <3>2 DEF Ownership, HandsTaken
    <3>5. HandsApart'
      BY <1>t, <3>2 DEF Ownership, HandsApart
    <3> QED BY <3>3, <3>4, <3>5
  <2>6. HandsLive'
    <3>1. \A u \in Threads : u # t => hand[u] # hand[t]
      BY <1>c, <1>t, <2>1, HandsDiffer
    <3> QED BY <2>1, <3>1 DEF Ownership, HandsLive
  <2>7. QueuedLive'
    BY <1>c, <2>1, QueuedNotInHand DEF Ownership, QueuedLive
  <2> QED BY <2>2, <2>4, <2>5, <2>6, <2>7 DEF Ownership
<1>5. CASE Destroy
  <2>1. /\ alive /\ ~alive' /\ disposed' = disposed \cup Queued
        /\ UNCHANGED <<hand, accepted, delivered, calls>>
    BY <1>5 DEF Destroy, Wiped
  <2>2. \A e \in Queued : \E k \in Len(delivered) + 1 .. Len(accepted) : e = accepted[k]
    <3> SUFFICES ASSUME NEW i \in Slots, occupied[i]
                 PROVE  \E k \in Len(delivered) + 1 .. Len(accepted) : slots[i] = accepted[k]
      BY DEF Queued
    <3>1. PICK k \in Len(delivered) .. Len(accepted) - 1 : i = k % Capacity
      BY <2>1 DEF IndInv, Flags, Outside
    <3>2. slots[i] = accepted[k + 1]
      BY <2>1, <3>1, InWindow DEF IndInv
    <3> QED BY <1>s, <3>2
  <2>3. \A t \in Threads : hand[t] # None => hand[t] \notin Queued
    BY <1>c, <2>2, QueuedNotInHand
  <2>4. \A e \in Queued : Made(e)
    BY <1>s, <2>2 DEF Ownership, AcceptedMade
  <2>5. HandsLive' /\ DisposedMade' /\ QueuedLive'
    BY <2>1, <2>3, <2>4 DEF Ownership, HandsLive, DisposedMade, QueuedLive, Made
  <2> QED BY <2>1, <2>5 DEF Ownership, HandsMade, AcceptedMade, AcceptedOnce,
                            HandsUnstored, HandsTaken, HandsApart, Made
<1>6. CASE /\ UNCHANGED <<hand, accepted, delivered, disposed, calls>>
           /\ alive' => alive
  BY <1>6 DEF Ownership, HandsMade, AcceptedMade, DisposedMade, AcceptedOnce, HandsUnstored,
              HandsTaken, HandsApart, HandsLive, QueuedLive, Made
<1> QED BY <1>1, <1>2, <1>3, <1>4, <1>5, <1>6
  DEF Next, ProducerStep, ConsumerStep, MutexStep, vars, history, storage,
      EnqueueFull, EnqueueTail, EnqueueCount, EnqueueStat, EnqueueHighWater, CallDequeue,
      DequeueEmpty, DequeueHead, DequeueCount, Lock, LockFails, Unlock, UnlockFails,
      DestroyUnlocked, Wiped

----------------------------------------------------------------------------
(* Theorems *)

\* ij_ring_init establishes the invariant.
LEMMA InitOwn == Init => OwnInv
<1> SUFFICES ASSUME Init PROVE OwnInv
  OBVIOUS
<1>1. IndInv
  BY InitInd
<1>2. Len(accepted) = 0 /\ Len(delivered) = 0
  BY DEF Init
<1>3. \A t \in Threads : hand[t] = None /\ pc[t] = "idle"
  BY DEF Init
<1>4. Producers \subseteq Threads /\ Consumers \subseteq Threads
  BY DEF Threads
<1>5. Metrics
  BY <1>2, <1>3, <1>4 DEF Init, Metrics, One, Uncounted, Unreported
<1>6. Outside
  BY DEF Init, Outside
<1>7. HandsMade /\ HandsUnstored /\ HandsTaken /\ HandsApart /\ HandsLive
  BY <1>2, <1>3, <1>4 DEF HandsMade, HandsUnstored, HandsTaken, HandsApart, HandsLive
<1>8. AcceptedMade /\ DisposedMade /\ AcceptedOnce /\ QueuedLive
  BY <1>2 DEF Init, AcceptedMade, DisposedMade, AcceptedOnce, QueuedLive
<1> QED BY <1>1, <1>5, <1>6, <1>7, <1>8 DEF OwnInv, Ownership

\* The strengthened invariant of ij_queue.c.
THEOREM OwnInvariant == Spec => []OwnInv
<1>1. OwnInv /\ [Next]_vars => Metrics' /\ Outside' /\ Ownership'
  BY MetricsStep, OutsideStep, OwnershipStep DEF OwnInv
<1>2. OwnInv <=> IndInv /\ Metrics /\ Outside /\ Ownership
  BY DEF OwnInv
<1> QED BY <1>1, <1>2, InitOwn, Invariant, PTL DEF Spec

\* Whenever ring->lock is free, enqueued_events is the number of events ever
\* stored and high_water_mark the largest backlog there ever was.
THEOREM RingMetricsExact == Spec => []MetricsExact
<1>1. IndInv /\ Metrics => MetricsExact
  <2> SUFFICES ASSUME IndInv, Metrics, alive, lock = Free
               PROVE  enqueued_events = Len(accepted) /\ high_water_mark = peak
    BY DEF MetricsExact
  <2>1. \A p \in Producers : pc[p] \notin Critical
    BY RingThreads DEF IndInv, Control, Threads
  <2>2. \A p \in Producers : pc[p] \notin Unreported /\ pc[p] \notin Uncounted
    BY <2>1 DEF Unreported, Uncounted, Critical
  <2>3. Len(accepted) \in Nat
    BY DEF IndInv, TypeOK
  <2> QED BY <2>2, <2>3 DEF Metrics, One
<1> QED BY <1>1, OwnInvariant, PTL DEF OwnInv

\* At every moment, also between the stores of one call, the occupied flags
\* that ij_ring_destroy goes by mark the slots between the cursors.
THEOREM RingOccupiedIsWindow == Spec => []OccupiedIsWindow
<1>1. IndInv /\ Outside => OccupiedIsWindow
  BY FlagsAreWindow
<1> QED BY <1>1, OwnInvariant, PTL DEF OwnInv

(* What a slot holds was accepted and not delivered, and its place says when. *)
LEMMA InSlot ==
    ASSUME IndInv, Outside, NEW i \in Slots, slots[i] # None
    PROVE  /\ alive
           /\ \E k \in Len(delivered) + 1 .. Len(accepted) :
                 k \in 1 .. Len(accepted) /\ slots[i] = accepted[k] /\ i = (k - 1) % Capacity
<1>0. Len(delivered) \in Nat /\ Len(accepted) \in Nat
  BY DEF IndInv, TypeOK
<1>1. alive
  BY DEF Outside
<1>2. PICK j \in Len(delivered) .. Len(accepted) - 1 : i = j % Capacity
  BY <1>1 DEF Outside
<1>3. slots[i] = accepted[j + 1]
  BY <1>1, <1>2, InWindow DEF IndInv
<1>4. j + 1 \in Len(delivered) + 1 .. Len(accepted) /\ j + 1 \in 1 .. Len(accepted)
  BY <1>0
<1>5. j = (j + 1) - 1
  BY <1>0
<1> QED BY <1>1, <1>2, <1>3, <1>4, <1>5, Zenon

\* No event of ij_queue.c ever has two owners among callers and slots, and what
\* was disposed of is with nobody: no double free and no use after free, for
\* any number of threads and with mutex calls that fail.
THEOREM RingSingleOwner == Spec => []SingleOwner
<1>1. IndInv /\ Outside /\ Ownership => SingleOwner
  <2> SUFFICES ASSUME IndInv, Outside, Ownership PROVE SingleOwner
    OBVIOUS
  <2>0. TypeOK /\ FifoOrder
    BY DEF IndInv
  <2>1. ASSUME NEW t \in Threads, NEW u \in Threads, hand[t] # None, hand[t] = hand[u]
        PROVE  t = u
    BY <2>0, <2>1, HandsDiffer
  <2>2. ASSUME NEW i \in Slots, NEW j \in Slots, slots[i] # None, slots[i] = slots[j]
        PROVE  i = j
    <3>1. PICK k \in 1 .. Len(accepted) : slots[i] = accepted[k] /\ i = (k - 1) % Capacity
      BY <2>2, InSlot, Zenon
    <3>2. PICK m \in 1 .. Len(accepted) : slots[j] = accepted[m] /\ j = (m - 1) % Capacity
      BY <2>2, InSlot, Zenon
    <3>3. k = m
      BY <2>2, <3>1, <3>2 DEF Ownership, AcceptedOnce
    <3> QED BY <3>1, <3>2, <3>3
  <2>3. ASSUME NEW i \in Slots, slots[i] # None
        PROVE  slots[i] \notin disposed /\ \A t \in Threads : hand[t] # slots[i]
    <3>1. PICK k \in Len(delivered) + 1 .. Len(accepted) : slots[i] = accepted[k]
      BY <2>3, InSlot, Zenon
    <3>2. alive
      BY <2>3, InSlot
    <3> QED BY <2>0, <3>1, <3>2, QueuedNotInHand DEF Ownership, QueuedLive
  <2>4. \A t \in Threads : hand[t] # None => hand[t] \notin disposed
    BY DEF Ownership, HandsLive
  <2> QED BY <2>1, <2>2, <2>3, <2>4 DEF SingleOwner
<1> QED BY <1>1, OwnInvariant, PTL DEF OwnInv

----------------------------------------------------------------------------
(* No event is lost *)

\* As long as the mutex calls succeed, every step keeps track of every event.
LEMMA KeptStep ==
    ASSUME MutexFaults = FALSE, IndInv, Outside, Ownership, Kept, [Next]_vars
    PROVE  Kept'
<1>0. /\ Control /\ Threads = Producers \cup Consumers /\ Producers \cap Consumers = {}
      /\ pc \in [Threads -> Labels] /\ hand \in [Threads -> Events \cup {None}]
      /\ ret \in [Threads -> Statuses] /\ None \notin Events
  BY RingThreads DEF IndInv, TypeOK, Threads, Events
<1>s. /\ accepted \in Seq(Events) /\ delivered \in Seq(Events)
      /\ \A k \in 1 .. Len(accepted) : accepted[k] \in Events
      /\ Len(delivered) \in Nat /\ Len(accepted) \in Nat /\ Len(delivered) <= Len(accepted)
  BY DEF IndInv, TypeOK, FifoOrder
<1> DEFINE Same == /\ \A c \in Consumers : hand'[c] = hand[c]
                   /\ UNCHANGED <<alive, accepted, delivered, disposed>>
<1>k. ASSUME Same PROVE TakenFound' /\ GoneFound'
  BY <1>k DEF Kept, TakenFound, GoneFound, Found
<1>1. ASSUME NEW p \in Producers, CallEnqueue(p) PROVE Kept'
  <2>1. Same /\ \A c \in Consumers : pc'[c] = pc[c] /\ ret'[c] = ret[c]
    BY <1>0, <1>1 DEF CallEnqueue, Goto, Returns, storage, history
  <2> QED BY <1>k, <2>1 DEF Kept, AskedEmpty
<1>2. ASSUME NEW p \in Producers,
             \/ EnqueueFull(p) \/ EnqueueTail(p) \/ EnqueueCount(p) \/ EnqueueStat(p)
             \/ EnqueueHighWater(p)
      PROVE  Kept'
  <2>1. Same /\ \A c \in Consumers : pc'[c] = pc[c] /\ ret'[c] = ret[c]
    BY <1>0, <1>2 DEF EnqueueFull, Refuse, EnqueueTail, EnqueueCount, EnqueueStat,
                      EnqueueHighWater, Goto, Returns, storage, history
  <2> QED BY <1>k, <2>1 DEF Kept, AskedEmpty
<1>3. ASSUME NEW p \in Producers, EnqueuePlace(p) PROVE Kept'
  <2>1. /\ \A c \in Consumers : hand'[c] = hand[c] /\ pc'[c] = pc[c]
        /\ UNCHANGED <<alive, ret, delivered, disposed>>
    BY <1>0, <1>3 DEF EnqueuePlace, HandedOver, Goto
  <2>2. alive
    BY <1>0, <1>3, NoneInside DEF EnqueuePlace, Critical
  <2>3. hand[p] \in Events
    BY <1>0, <1>3 DEF EnqueuePlace, Control
  <2>4. \A k \in 1 .. Len(delivered) : accepted'[k] = accepted[k]
    BY <1>s, <1>3, <2>3 DEF EnqueuePlace
  <2>5. AskedEmpty'
    BY <2>1 DEF Kept, AskedEmpty
  <2>6. TakenFound'
    BY <2>1, <2>4 DEF Kept, TakenFound, Found
  <2> QED BY <2>1, <2>2, <2>5, <2>6 DEF Kept, GoneFound
<1>4. ASSUME NEW c \in Consumers,
             CallDequeue(c) \/ DequeueEmpty(c) \/ DequeueHead(c) \/ DequeueCount(c)
      PROVE  Kept'
  <2>1. Same /\ \A b \in Consumers : b # c => pc'[b] = pc[b] /\ ret'[b] = ret[b]
    BY <1>0, <1>4 DEF CallDequeue, DequeueEmpty, DequeueHead, DequeueCount, Goto, Returns,
                      storage, history
  <2>2. CASE CallDequeue(c)
    <3>1. hand[c] = None
      BY <2>2 DEF CallDequeue, Kept, AskedEmpty
    <3> QED BY <1>k, <2>1, <3>1 DEF Kept, AskedEmpty
  <2>3. CASE DequeueEmpty(c)
    <3>1. hand[c] = None
      BY <2>3 DEF DequeueEmpty, Kept, AskedEmpty
    <3> QED BY <1>k, <2>1, <3>1 DEF Kept, AskedEmpty
  <2>4. CASE DequeueHead(c)
    <3>1. pc'[c] = "d_count"
      BY <1>0, <2>4 DEF DequeueHead, Goto
    <3> QED BY <1>k, <2>1, <3>1 DEF Kept, AskedEmpty
  <2>5. CASE DequeueCount(c)
    <3>1. pc'[c] = "unlock" /\ ret'[c] = "TRUE"
      BY <1>0, <2>5 DEF DequeueCount, Goto, Returns
    <3> QED BY <1>k, <2>1, <3>1 DEF Kept, AskedEmpty
  <2> QED BY <1>4, <2>2, <2>3, <2>4, <2>5
<1>5. ASSUME NEW c \in Consumers, DequeueTake(c) PROVE Kept'
  <2>1. /\ alive /\ hand[c] = None
        /\ slots[HeadIndex] = accepted[Len(delivered) + 1] /\ Len(delivered) < Len(accepted)
    <3>1. alive
      BY <1>0, <1>5, NoneInside DEF DequeueTake, Critical
    <3>2. hand[c] = None
      BY <1>5 DEF DequeueTake, Kept, AskedEmpty
    <3> QED BY <1>5, <3>1, <3>2, FirstSlot DEF DequeueTake, Empty, HeadIndex
  <2>2. /\ hand'[c] = accepted[Len(delivered) + 1] /\ pc'[c] = "d_head"
        /\ \A b \in Consumers : b # c => hand'[b] = hand[b] /\ pc'[b] = pc[b]
        /\ UNCHANGED <<alive, ret, accepted, disposed>>
    BY <1>0, <1>5, <2>1 DEF DequeueTake, Goto
  <2>3. Len(delivered') = Len(delivered) + 1
    BY <1>s, <1>5, <2>1 DEF DequeueTake
  <2>4. ASSUME NEW k \in 1 .. Len(delivered') PROVE Found(k)'
    <3>1. CASE k = Len(delivered) + 1
      BY <2>2, <3>1 DEF Found
    <3>2. CASE k \in 1 .. Len(delivered)
      <4>1. Found(k) /\ accepted[k] # None
        BY <1>0, <1>s, <3>2 DEF Kept, TakenFound
      <4> QED BY <2>1, <2>2, <4>1 DEF Found
    <3> QED BY <1>s, <2>3, <3>1, <3>2
  <2>5. AskedEmpty'
    BY <2>2 DEF Kept, AskedEmpty
  <2> QED BY <2>1, <2>2, <2>4, <2>5 DEF Kept, TakenFound, GoneFound
<1>6. ASSUME NEW t \in Threads, MutexStep(t) PROVE Kept'
  <2>1. Same /\ UNCHANGED <<hand, ret>>
    BY <1>6 DEF MutexStep, Lock, LockFails, Unlock, UnlockFails, storage, history
  <2>2. /\ \A u \in Threads : u # t => pc'[u] = pc[u]
        /\ \/ pc[t] = "unlock" /\ pc'[t] = "idle"
           \/ pc[t] = "d_lock" /\ pc'[t] = "d_check"
           \/ pc[t] = "e_lock" /\ pc'[t] = "e_check"
    BY <1>0, <1>6 DEF MutexStep, Lock, LockFails, Unlock, UnlockFails, Goto
  <2>3. AskedEmpty'
    BY <1>0, <2>1, <2>2 DEF Kept, AskedEmpty
  <2> QED BY <1>k, <2>1, <2>3 DEF Kept
<1>7. ASSUME NEW t \in Threads, DisposeOwn(t) PROVE Kept'
  <2>1. /\ hand'[t] = None /\ \A u \in Threads : u # t => hand'[u] = hand[u]
        /\ disposed' = disposed \cup {hand[t]}
        /\ UNCHANGED <<alive, pc, ret, accepted, delivered>>
    BY <1>0, <1>7 DEF DisposeOwn, storage
  <2>2. ASSUME NEW k \in 1 .. Len(accepted), Found(k) PROVE Found(k)'
    BY <1>0, <2>1, <2>2 DEF Found
  <2>3. AskedEmpty'
    BY <1>0, <2>1 DEF Kept, AskedEmpty
  <2>4. TakenFound' /\ GoneFound'
    BY <1>s, <2>1, <2>2 DEF Kept, TakenFound, GoneFound
  <2> QED BY <2>3, <2>4 DEF Kept
<1>8. CASE Destroy
  <2>1. /\ alive /\ disposed' = disposed \cup Queued
        /\ UNCHANGED <<pc, ret, hand, accepted, delivered>>
    BY <1>8 DEF Destroy
  <2>2. ASSUME NEW k \in Len(delivered) + 1 .. Len(accepted) PROVE accepted[k] \in Queued
    <3>1. k - 1 \in Len(delivered) .. Len(accepted) - 1 /\ k - 1 \in Nat /\ k = (k - 1) + 1
      BY <1>s
    <3>2. slots[(k - 1) % Capacity] = accepted[(k - 1) + 1]
      BY <2>1, <3>1, InWindow, Zenon DEF IndInv
    <3>3. (k - 1) % Capacity \in Slots
      BY <3>1, ConstTypes DEF Slots
    <3>4. accepted[k] \in Events
      BY <1>s
    <3>5. slots[(k - 1) % Capacity] = accepted[k]
      BY <3>1, <3>2, Zenon
    <3>6. occupied[(k - 1) % Capacity]
      BY <1>0, <3>3, <3>4, <3>5 DEF IndInv, Flags
    <3> QED BY <3>3, <3>5, <3>6, Zenon DEF Queued
  <2>3. ASSUME NEW k \in 1 .. Len(accepted) PROVE Found(k)'
    <3>1. CASE k \in 1 .. Len(delivered)
      BY <2>1, <3>1 DEF Kept, TakenFound, Found
    <3>2. CASE k \in Len(delivered) + 1 .. Len(accepted)
      BY <2>1, <2>2, <3>2 DEF Found
    <3> QED BY <1>s, <3>1, <3>2
  <2>4. AskedEmpty'
    BY <2>1 DEF Kept, AskedEmpty
  <2> QED BY <1>s, <2>1, <2>3, <2>4 DEF Kept, TakenFound, GoneFound
<1>9. CASE UNCHANGED vars
  <2>1. Same /\ UNCHANGED <<pc, hand, ret>>
    BY <1>9 DEF vars, storage, history
  <2> QED BY <1>k, <2>1 DEF Kept, AskedEmpty
<1>10. ~DestroyUnlocked
  BY DEF DestroyUnlocked
<1> QED BY <1>1, <1>2, <1>3, <1>4, <1>5, <1>6, <1>7, <1>8, <1>9, <1>10
  DEF Next, ProducerStep, ConsumerStep

\* When the mutex calls of ij_queue.c succeed, no accepted event is ever lost:
\* it is in a slot, with the consumer that took it, or disposed of, also after
\* ij_ring_destroy.
THEOREM RingNoLeak == ASSUME MutexFaults = FALSE PROVE Spec => []NoLeak
<1>1. Init => Kept
  BY DEF Init, Kept, AskedEmpty, TakenFound, GoneFound, Threads
<1>2. IndInv /\ Outside /\ Ownership /\ Kept /\ [Next]_vars => Kept'
  <2> SUFFICES ASSUME IndInv, Outside, Ownership, Kept, [Next]_vars PROVE Kept'
    OBVIOUS
  <2> QED BY KeptStep, Zenon
<1>3. IndInv /\ Outside /\ Kept => NoLeak
  <2> SUFFICES ASSUME IndInv, Outside, Kept, NEW k \in 1 .. Len(accepted)
               PROVE  (\E i \in Slots : slots[i] = accepted[k]) \/ Found(k)
    BY DEF NoLeak, Found
  <2>0. Len(accepted) \in Nat /\ Len(delivered) \in Nat
    BY DEF IndInv, TypeOK
  <2>1. CASE ~alive \/ k \in 1 .. Len(delivered)
    BY <2>1 DEF Kept, TakenFound, GoneFound
  <2>2. CASE alive /\ k \in Len(delivered) + 1 .. Len(accepted)
    <3>1. k - 1 \in Len(delivered) .. Len(accepted) - 1 /\ k - 1 \in Nat /\ k = (k - 1) + 1
      BY <2>0, <2>2
    <3>2. slots[(k - 1) % Capacity] = accepted[(k - 1) + 1]
      BY <2>2, <3>1, InWindow, Zenon DEF IndInv
    <3>3. (k - 1) % Capacity \in Slots
      BY <3>1, ConstTypes DEF Slots
    <3> QED BY <3>1, <3>2, <3>3, Zenon
  <2> QED BY <2>0, <2>1, <2>2
<1> QED BY <1>1, <1>2, <1>3, OwnInvariant, PTL DEF Spec, OwnInv

----------------------------------------------------------------------------
(* The refinement of BoundedFifo *)

\* What follows the first n elements of s.
Suffix(s, n) == [i \in 1 .. Len(s) - n |-> s[n + i]]

\* What was accepted and not delivered.
Rest == Suffix(accepted, Len(delivered))

(* The refinement mapping, without slots and cursors. *)
LEMMA ContentsAreRest ==
    IndInv /\ Outside => /\ alive => Contents = Rest /\ Rest \in Seq(Events)
                         /\ ~alive => Contents = << >>
<1> SUFFICES ASSUME IndInv, Outside
             PROVE  /\ alive => Contents = Rest /\ Rest \in Seq(Events)
                    /\ ~alive => Contents = << >>
  OBVIOUS
<1>1. CASE alive
  <2>1. Contents = [i \in 1 .. Len(accepted) - Len(delivered) |-> Contents[i]]
    BY <1>1, ContentsAre DEF Contents
  <2>2. Contents = Rest
    BY <1>1, <2>1, ContentsAre DEF Rest, Suffix
  <2> QED BY <1>1, <2>2, ContentsAre
<1>2. CASE ~alive
  BY <1>2, GoneIsEmpty
<1> QED BY <1>1, <1>2

(* The suffix as a sequence. *)
LEMMA SuffixIs ==
    ASSUME NEW S, NEW s \in Seq(S), NEW n \in 0 .. Len(s)
    PROVE  /\ Suffix(s, n) \in Seq(S) /\ Len(Suffix(s, n)) = Len(s) - n
           /\ \A i \in 1 .. Len(s) - n : Suffix(s, n)[i] = s[n + i]
BY DEF Suffix

(* A longer sequence has a longer suffix. *)
LEMMA SuffixAppend ==
    ASSUME NEW S, NEW s \in Seq(S), NEW n \in 0 .. Len(s), NEW e \in S
    PROVE  Suffix(Append(s, e), n) = Append(Suffix(s, n), e)
<1> DEFINE t == Append(s, e)
           u == Suffix(s, n)
           v == Append(u, e)
           w == Suffix(t, n)
<1>1. /\ t \in Seq(S) /\ Len(t) = Len(s) + 1 /\ Len(s) \in Nat
      /\ \A i \in 1 .. Len(s) : t[i] = s[i]
      /\ t[Len(s) + 1] = e
  BY AppendProperties
<1>2. /\ u \in Seq(S) /\ Len(u) = Len(s) - n
      /\ \A i \in 1 .. Len(s) - n : u[i] = s[n + i]
  BY SuffixIs
<1>3. /\ v \in Seq(S) /\ Len(v) = Len(u) + 1
      /\ \A i \in 1 .. Len(u) : v[i] = u[i]
      /\ v[Len(u) + 1] = e
  BY <1>2, AppendProperties
<1> HIDE DEF t, u, v
<1>4. n \in 0 .. Len(t) /\ Len(t) - n = Len(s) - n + 1
  BY <1>1
<1>5. /\ w \in Seq(S) /\ Len(w) = Len(t) - n
      /\ \A i \in 1 .. Len(t) - n : w[i] = t[n + i]
  BY <1>1, <1>4, SuffixIs
<1> HIDE DEF w
<1>6. ASSUME NEW i \in 1 .. Len(s) - n + 1 PROVE w[i] = v[i]
  <2>1. CASE i = Len(s) - n + 1
    <3>1. n + i = Len(s) + 1
      BY <1>1, <2>1
    <3> QED BY <1>1, <1>2, <1>3, <1>4, <1>5, <2>1, <3>1
  <2>2. CASE i \in 1 .. Len(s) - n
    <3>1. n + i \in 1 .. Len(s)
      BY <1>1, <2>2
    <3> QED BY <1>1, <1>2, <1>3, <1>4, <1>5, <2>2, <3>1
  <2> QED BY <1>1, <2>1, <2>2
<1>7. w = v
  BY <1>2, <1>3, <1>4, <1>5, <1>6, SeqEqual
<1> QED BY <1>7 DEF t, u, v, w

(* A later start drops the first element. *)
LEMMA SuffixTail ==
    ASSUME NEW S, NEW s \in Seq(S), NEW n \in Nat, n < Len(s)
    PROVE  Suffix(s, n) # << >> /\ Suffix(s, n + 1) = Tail(Suffix(s, n))
<1>1. Suffix(s, n) \in Seq(S) /\ Len(Suffix(s, n)) = Len(s) - n /\ Len(s) \in Nat
  BY DEF Suffix
<1>2. Suffix(s, n + 1) \in Seq(S) /\ Len(Suffix(s, n + 1)) = Len(s) - n - 1
  BY <1>1 DEF Suffix
<1>3. Suffix(s, n) # << >>
  BY <1>1
<1>4. /\ Tail(Suffix(s, n)) \in Seq(S) /\ Len(Tail(Suffix(s, n))) = Len(s) - n - 1
      /\ \A i \in 1 .. Len(s) - n - 1 : Tail(Suffix(s, n))[i] = Suffix(s, n)[i + 1]
  BY <1>1, <1>3, HeadTailProperties
<1>5. \A i \in 1 .. Len(s) - n - 1 : Suffix(s, n + 1)[i] = s[n + 1 + i]
  BY <1>1 DEF Suffix
<1>6. \A i \in 1 .. Len(s) - n - 1 : Suffix(s, n)[i + 1] = s[n + (i + 1)]
  BY <1>1 DEF Suffix
<1>7. \A i \in 1 .. Len(s) - n - 1 : n + (i + 1) = n + 1 + i
  BY <1>1
<1>8. \A i \in 1 .. Len(s) - n - 1 : Suffix(s, n + 1)[i] = Tail(Suffix(s, n))[i]
  BY <1>4, <1>5, <1>6, <1>7
<1> QED BY <1>2, <1>3, <1>4, <1>8, SeqEqual

\* Every step of ij_queue.c is a step of the bounded queue or leaves it alone.
LEMMA FifoStep ==
    /\ IndInv /\ Outside /\ IndInv' /\ Outside' /\ [Next]_vars
    /\ (alive => Contents = Rest)' /\ (~alive => Contents = << >>)'
    => [Fifo!Next]_(Fifo!vars)
<1> SUFFICES ASSUME IndInv, Outside, IndInv', Outside', [Next]_vars,
                    alive' => Contents' = Rest', ~alive' => Contents' = << >>
             PROVE  [Fifo!Next]_(Fifo!vars)
  OBVIOUS
<1>0. /\ accepted \in Seq(Events) /\ delivered \in Seq(Events)
      /\ Len(delivered) <= Len(accepted) /\ hand \in [Threads -> Events \cup {None}]
      /\ Control /\ Producers \subseteq Threads /\ Consumers \subseteq Threads
      /\ count \in Nat /\ count <= Capacity /\ Capacity \in Nat
      /\ Len(accepted) \in Nat /\ Len(delivered) \in Nat
  <2>1. Producers \subseteq Threads /\ Consumers \subseteq Threads
    BY DEF Threads
  <2>2. TypeOK /\ Control /\ FifoOrder /\ Capacity \in Nat
    BY ConstTypes DEF IndInv
  <2> QED BY <2>1, <2>2 DEF TypeOK, FifoOrder
<1>1. /\ alive => Contents = Rest /\ Len(Contents) = Len(accepted) - Len(delivered)
      /\ ~alive => Contents = << >>
  BY ContentsAreRest, ContentsAre
<1>2. ASSUME NEW p \in Producers, EnqueueFull(p) \/ EnqueuePlace(p)
      PROVE  alive /\ Len(Contents) = count
  <2>1. alive /\ ~Filling /\ ~Draining
    BY <1>0, <1>2, NoneInside DEF EnqueueFull, EnqueuePlace, Critical
  <2>2. Len(accepted) - Len(delivered) = ContentsLen
    BY <2>1, ContentsAre
  <2> QED BY <1>0, <1>1, <2>1, <2>2 DEF ContentsLen, One
<1>3. ASSUME NEW p \in Producers, EnqueuePlace(p) PROVE Fifo!Accept(hand[p]) /\ hand[p] \in Events
  <2>1. hand[p] \in Events
    BY <1>0, <1>3 DEF EnqueuePlace, Control
  <2>2. accepted' = Append(accepted, hand[p]) /\ delivered' = delivered /\ alive' = alive
    BY <1>3 DEF EnqueuePlace
  <2>3. Contents' = Append(Contents, hand[p])
    <3>1. Contents = Rest /\ Contents' = Rest'
      BY <1>1, <1>2, <1>3, <2>2
    <3>2. Rest' = Suffix(Append(accepted, hand[p]), Len(delivered))
      BY <2>2 DEF Rest
    <3>3. Rest' = Append(Rest, hand[p])
      BY <1>0, <2>1, <3>2, SuffixAppend DEF Rest
    <3> QED BY <3>1, <3>3
  <2>4. Len(Contents) < Capacity /\ alive
    <3>1. alive /\ Len(Contents) = count
      BY <1>2, <1>3
    <3>2. ~(count >= Capacity)
      BY <1>3 DEF EnqueuePlace, Full
    <3> QED BY <1>0, <3>1, <3>2
  <2>5. dropped_events' = dropped_events
    BY <1>3 DEF EnqueuePlace, metrics
  <2> QED BY <2>1, <2>2, <2>3, <2>4, <2>5 DEF Fifo!Accept
<1>4. ASSUME alive' = alive, UNCHANGED <<accepted, delivered>> PROVE Contents' = Contents
  BY <1>1, <1>4 DEF Rest
<1>5. ASSUME NEW p \in Producers, EnqueueFull(p) PROVE Fifo!Refuse
  <2>1. Contents' = Contents /\ alive' = alive
    BY <1>4, <1>5 DEF EnqueueFull, storage, history
  <2>2. alive /\ Len(Contents) = Capacity
    BY <1>0, <1>2, <1>5 DEF EnqueueFull, Full
  <2>3. dropped_events' = dropped_events + 1
    BY <1>5 DEF EnqueueFull
  <2> QED BY <2>1, <2>2, <2>3 DEF Fifo!Refuse
<1>6. ASSUME NEW c \in Consumers, DequeueTake(c) PROVE Fifo!Deliver
  <2>1. alive
    BY <1>0, <1>6, NoneInside DEF DequeueTake, Critical
  <2>2. Len(delivered) < Len(accepted) /\ slots[HeadIndex] \in Events
    BY <1>6, FirstSlot DEF DequeueTake, Empty, HeadIndex
  <2>3. /\ delivered' = Append(delivered, slots[HeadIndex]) /\ accepted' = accepted
        /\ UNCHANGED <<alive, dropped_events>>
    BY <1>6 DEF DequeueTake, metrics
  <2>4. Contents # << >> /\ Contents' = Tail(Contents)
    <3>1. Contents = Rest /\ Contents' = Rest'
      BY <1>1, <2>1, <2>3
    <3>2. Len(delivered') = Len(delivered) + 1
      BY <1>0, <2>2, <2>3
    <3>3. Rest # << >> /\ Rest' = Tail(Rest)
      BY <1>0, <2>2, <2>3, <3>2, SuffixTail DEF Rest
    <3> QED BY <3>1, <3>3
  <2> QED BY <2>1, <2>3, <2>4 DEF Fifo!Deliver
<1>7. ASSUME Destroy \/ DestroyUnlocked PROVE Fifo!Destroy
  BY <1>7 DEF Destroy, DestroyUnlocked, Wiped, Fifo!Destroy
<1>8. ASSUME UNCHANGED <<alive, accepted, delivered, dropped_events>>
      PROVE  UNCHANGED Fifo!vars
  BY <1>4, <1>8 DEF Fifo!vars
<1>9. ASSUME NEW p \in Producers,
             \/ CallEnqueue(p) \/ EnqueueTail(p) \/ EnqueueCount(p) \/ EnqueueStat(p)
             \/ EnqueueHighWater(p)
      PROVE  UNCHANGED <<alive, accepted, delivered, dropped_events>>
  BY <1>9 DEF CallEnqueue, EnqueueTail, EnqueueCount, EnqueueStat, EnqueueHighWater,
              storage, metrics, history
<1>10. ASSUME NEW c \in Consumers,
              CallDequeue(c) \/ DequeueEmpty(c) \/ DequeueHead(c) \/ DequeueCount(c)
       PROVE  UNCHANGED <<alive, accepted, delivered, dropped_events>>
  BY <1>10 DEF CallDequeue, DequeueEmpty, DequeueHead, DequeueCount, storage, metrics, history
<1>11. ASSUME NEW t \in Threads, MutexStep(t) \/ DisposeOwn(t)
       PROVE  UNCHANGED <<alive, accepted, delivered, dropped_events>>
  BY <1>11 DEF MutexStep, Lock, LockFails, Unlock, UnlockFails, DisposeOwn,
               storage, metrics, history
<1>12. CASE UNCHANGED vars
  BY <1>8, <1>12 DEF vars, storage, metrics, history
<1> QED BY <1>3, <1>5, <1>6, <1>7, <1>8, <1>9, <1>10, <1>11, <1>12
  DEF Next, ProducerStep, ConsumerStep, Fifo!Next

\* ij_ring_enqueue, ij_ring_try_dequeue and ij_ring_destroy, called by any
\* number of threads, behave as one atomic bounded queue that refuses the new
\* event when full: an accepted event appears in it at one moment, the store
\* to its slot, and leaves it at one moment.
THEOREM RingImplementsFifo == Spec => ImplementsFifo
<1>1. Init => Fifo!Init
  <2> SUFFICES ASSUME Init PROVE Fifo!Init
    OBVIOUS
  <2>1. IndInv /\ Outside
    BY InitOwn DEF OwnInv
  <2>2. alive /\ Len(accepted) = 0 /\ Len(delivered) = 0 /\ dropped_events = 0
    BY DEF Init
  <2>3. Contents = << >>
    BY <2>1, <2>2, ContentsAreRest DEF Rest, Suffix
  <2> QED BY <2>2, <2>3 DEF Fifo!Init
<1>2. IndInv /\ Outside => (alive => Contents = Rest) /\ (~alive => Contents = << >>)
  BY ContentsAreRest
<1> QED BY <1>1, <1>2, FifoStep, OwnInvariant, PTL
  DEF Spec, OwnInv, ImplementsFifo, Fifo!Spec
====
