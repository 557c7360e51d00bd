---------------------------- MODULE BoundedQueue ----------------------------
(***************************************************************************)
(* What a queue of the kernel promises (queue.h): first in, first out,     *)
(* nothing lost, nothing twice, and no more elements than its capacity     *)
(* when that is not negative.  Instance uses its queues in this way.       *)
(***************************************************************************)
EXTENDS Integers, Sequences

CONSTANTS Elements, InitialCapacity, Capacities

VARIABLES
    q,     \* the elements of the queue
    cap,   \* its capacity
    pushed, out    \* the elements accepted and the elements popped so far

vars == <<q, cap, pushed, out>>

Init == q = <<>> /\ cap = InitialCapacity /\ pushed = <<>> /\ out = <<>>

Push(e) ==
    /\ cap < 0 \/ Len(q) < cap
    /\ q' = Append(q, e)
    /\ pushed' = Append(pushed, e)
    /\ UNCHANGED <<cap, out>>

Pop ==
    /\ q # <<>>
    /\ out' = Append(out, Head(q))
    /\ q' = Tail(q)
    /\ UNCHANGED <<cap, pushed>>

SetCapacity(c) == cap' = c /\ UNCHANGED <<q, pushed, out>>

Next == Pop \/ (\E e \in Elements : Push(e)) \/ (\E c \in Capacities : SetCapacity(c))

Spec == Init /\ [][Next]_vars
=============================================================================
