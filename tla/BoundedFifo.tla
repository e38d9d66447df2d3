---- MODULE BoundedFifo ----
(***************************************************************************)
(* What the bounded ring of src/src/core/ij_queue.c promises to its        *)
(* callers, with no slots, cursors, locks or threads: a queue of at most   *)
(* Capacity events that is read in the order it was written, refuses the   *)
(* NEW event when it is full (DROP_NEW) and counts what it accepted and    *)
(* what it refused.  Ring.tla is shown to implement this specification.    *)
(***************************************************************************)
EXTENDS Naturals, Sequences

CONSTANTS Events,    \* the events callers may hand over
          Capacity   \* ring->capacity

VARIABLES queue,     \* the accepted events nobody has taken, oldest first
          refused,   \* how many enqueue calls found the queue full
          open       \* FALSE once the queue was destroyed

vars == <<queue, refused, open>>

Init == /\ queue = << >>
        /\ refused = 0
        /\ open = TRUE

\* An enqueue that finds room.
Accept(e) == /\ open
             /\ Len(queue) < Capacity
             /\ queue' = Append(queue, e)
             /\ UNCHANGED <<refused, open>>

\* An enqueue that finds the queue full: the new event is the one refused.
Refuse == /\ open
          /\ Len(queue) = Capacity
          /\ refused' = refused + 1
          /\ UNCHANGED <<queue, open>>

\* A dequeue that finds an event takes the oldest one.
Deliver == /\ open
           /\ queue # << >>
           /\ queue' = Tail(queue)
           /\ UNCHANGED <<refused, open>>

\* Destruction empties the queue and forgets its counters.
Destroy == /\ open
           /\ open' = FALSE
           /\ queue' = << >>
           /\ refused' = 0

Next == \/ \E e \in Events : Accept(e)
        \/ Refuse
        \/ Deliver
        \/ Destroy

Spec == Init /\ [][Next]_vars
====
