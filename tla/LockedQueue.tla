---------------------------- MODULE LockedQueue -----------------------------
(***************************************************************************)
(* The queue of the build without TBB (src/kernel/queue.c): a linked list  *)
(* under a mutex, with one condition variable for producers and one for    *)
(* consumers.  Each thread calls one operation after another; the steps of *)
(* an operation are the lock, what is done under it, the unlock and the    *)
(* signal.                                                                 *)
(*                                                                         *)
(* The mutex is a default pthread mutex, which does not check who unlocks  *)
(* it, and a pop that found the queue full unlocks it twice.  What is done *)
(* under the mutex is one step, which is what the code does as long as     *)
(* each thread inside has the mutex (MutualExclusion).  The specification  *)
(* goes no further than the first state in which one has not: from there   *)
(* on the updates of the list interleave, and nothing is said of them.     *)
(***************************************************************************)
EXTENDS Integers, Sequences, FiniteSets

CONSTANTS
    Threads, Elements,
    Ops,              \* the operations the threads use
    InitialCapacity,  \* the capacity set when the queue was created
    Capacities,       \* capacities it is given later
    NULL

ASSUME QueueAssumption ==
    /\ IsFiniteSet(Threads) /\ NULL \notin Threads \cup Elements
    /\ InitialCapacity \in Int /\ Capacities \subseteq Int

VARIABLES
    list,         \* the elements that are reachable from head
    tail,         \* what it points to: nothing, the last of list, or what head does not reach
    size, capacity,
    lock,         \* the thread that holds the mutex, or NULL
    full_queue, empty_queue,   \* the threads that wait on each condition
    pc, op, el,   \* where each thread is, in which operation, and with what to push
    sig,          \* the condition it will signal
    pushed, out   \* the elements linked and the elements popped so far, in order

listVars == <<list, tail, size, capacity, pushed, out>>
waitVars == <<full_queue, empty_queue>>
vars == <<listVars, waitVars, lock, pc, op, el, sig>>

(* queue_new, and the queue_set_capacity that follows it.                  *)
Init ==
    /\ list = <<>> /\ tail = "null"
    /\ size = 0 /\ capacity = InitialCapacity
    /\ lock = NULL
    /\ full_queue = {} /\ empty_queue = {}
    /\ pc = [t \in Threads |-> "idle"]
    /\ op \in [Threads -> {"none"}]
    /\ el = [t \in Threads |-> NULL]
    /\ sig = [t \in Threads |-> "none"]
    /\ pushed = <<>> /\ out = <<>>

Goto(t, l) == pc' = [pc EXCEPT ![t] = l]

(* The elements some thread has pushed or is pushing: each is pushed once. *)
Used == {pushed[n] : n \in 1..Len(pushed)} \cup {el[t] : t \in Threads}

-----------------------------------------------------------------------------
Call(t, o) ==
    /\ pc[t] = "idle"
    /\ o \in {"pop", "try_pop"}
    /\ op' = [op EXCEPT ![t] = o]
    /\ Goto(t, "lock")
    /\ UNCHANGED <<listVars, waitVars, lock, el, sig>>

CallPush(t, o, e) ==
    /\ pc[t] = "idle"
    /\ o \in {"push", "try_push"}
    /\ e \notin Used
    /\ op' = [op EXCEPT ![t] = o]
    /\ el' = [el EXCEPT ![t] = e]
    /\ Goto(t, "lock")
    /\ UNCHANGED <<listVars, waitVars, lock, sig>>

(* MUTEX_LOCK; queue_pop goes on with its count.                           *)
MutexLock(t) ==
    /\ pc[t] = "lock" /\ lock = NULL
    /\ lock' = t
    /\ Goto(t, IF op[t] = "pop" THEN "enter" ELSE "body")
    /\ UNCHANGED <<listVars, waitVars, op, el, sig>>

(* SIGNAL_WAIT gives the mutex back and waits; a thread that was signalled,*)
(* or that wakes up by itself, takes the mutex again.                      *)
Wait(t) ==
    /\ lock' = NULL
    /\ Goto(t, "wait")
    /\ UNCHANGED <<listVars, op, el, sig>>

SpuriousWakeup(t) ==
    /\ pc[t] = "wait"
    /\ full_queue' = full_queue \ {t}
    /\ empty_queue' = empty_queue \ {t}
    /\ Goto(t, "woken")
    /\ UNCHANGED <<listVars, lock, op, el, sig>>

Relock(t) ==
    /\ pc[t] = "woken" /\ lock = NULL
    /\ lock' = t
    /\ Goto(t, "again")
    /\ UNCHANGED <<listVars, waitVars, op, el, sig>>

-----------------------------------------------------------------------------
(* Mutant: the pointer is not stored in the new element.                   *)
LinkUnset(t, empty) ==
    /\ list' = IF empty THEN <<NULL>>
               ELSE IF tail = "last" THEN Append(list, NULL) ELSE list
    /\ tail' = IF empty THEN "last" ELSE tail
    /\ size' = size + 1
    /\ pushed' = Append(pushed, el[t])
    /\ el' = [el EXCEPT ![t] = NULL]
    /\ sig' = [sig EXCEPT ![t] = IF empty THEN "empty_queue" ELSE "none"]
    /\ Goto(t, "unlock")
    /\ UNCHANGED <<capacity, out, waitVars, lock, op>>

(* Mutant: a new element is linked in front of head.                       *)
LinkFront(t, empty) ==
    /\ list' = IF empty THEN <<el[t]>>
               ELSE IF tail = "last" THEN <<el[t]>> \o list ELSE list
    /\ tail' = IF empty THEN "last" ELSE tail
    /\ size' = size + 1
    /\ pushed' = Append(pushed, el[t])
    /\ el' = [el EXCEPT ![t] = NULL]
    /\ sig' = [sig EXCEPT ![t] = IF empty THEN "empty_queue" ELSE "none"]
    /\ Goto(t, "unlock")
    /\ UNCHANGED <<capacity, out, waitVars, lock, op>>

(* Mutant: the first element is not counted.                               *)
LinkUncounted(t, empty) ==
    /\ list' = IF empty THEN <<el[t]>>
               ELSE IF tail = "last" THEN Append(list, el[t]) ELSE list
    /\ tail' = IF empty THEN "last" ELSE tail
    /\ size' = IF empty THEN size ELSE size + 1
    /\ pushed' = Append(pushed, el[t])
    /\ el' = [el EXCEPT ![t] = NULL]
    /\ sig' = [sig EXCEPT ![t] = IF empty THEN "empty_queue" ELSE "none"]
    /\ Goto(t, "unlock")
    /\ UNCHANGED <<capacity, out, waitVars, lock, op>>

(* A new element: the whole list if the list is taken to be empty, else    *)
(* the successor of tail.  Once pop has freed the last element tail still  *)
(* points to it, and an element linked there is out of head's reach.       *)
Link(t, empty) ==
    /\ list' = IF empty THEN <<el[t]>>
               ELSE IF tail = "last" THEN Append(list, el[t]) ELSE list
    /\ tail' = IF empty THEN "last" ELSE tail
    /\ size' = size + 1
    /\ pushed' = Append(pushed, el[t])
    /\ el' = [el EXCEPT ![t] = NULL]
    /\ sig' = [sig EXCEPT ![t] = IF empty THEN "empty_queue" ELSE "none"]
    /\ Goto(t, "unlock")
    /\ UNCHANGED <<capacity, out, waitVars, lock, op>>

(* Mutant: an if in place of the while of queue_push.                      *)
FullOnce(t) == pc[t] = "body" /\ capacity >= 0 /\ size = capacity

(* queue_push waits while the queue is full.                               *)
Full(t) == /\ pc[t] = "again" \/ capacity >= 0
           /\ size = capacity

PushWait(t) ==
    /\ pc[t] \in {"body", "again"} /\ op[t] = "push"
    /\ Full(t)
    /\ full_queue' = full_queue \cup {t}
    /\ UNCHANGED empty_queue
    /\ Wait(t)

Push(t) ==
    /\ pc[t] \in {"body", "again"} /\ op[t] = "push"
    /\ ~Full(t)
    /\ Link(t, tail = "null")

(* queue_try_push returns FALSE then.                                      *)
TryPushFull(t) ==
    /\ pc[t] = "body" /\ op[t] = "try_push"
    /\ capacity >= 0 /\ size = capacity
    /\ el' = [el EXCEPT ![t] = NULL]
    /\ sig' = [sig EXCEPT ![t] = "none"]
    /\ Goto(t, "unlock")
    /\ UNCHANGED <<listVars, waitVars, lock, op>>

TryPush(t) ==
    /\ pc[t] = "body" /\ op[t] = "try_push"
    /\ ~(capacity >= 0 /\ size = capacity)
    /\ Link(t, size <= 0)

-----------------------------------------------------------------------------
(* Mutant: head stays where it is.                                         *)
TakeHeadKept(t, n) ==
    /\ out' = Append(out, Head(list))
    /\ size' = n
    /\ sig' = [sig EXCEPT ![t] = IF capacity > 0 /\ n + 1 = capacity THEN "full_queue" ELSE "none"]
    /\ Goto(t, "unlock")
    /\ UNCHANGED <<list, tail, capacity, pushed, waitVars, lock, op, el>>

(* The head of the list is removed; n is the size then.                    *)
Take(t, n) ==
    /\ out' = Append(out, Head(list))
    /\ list' = Tail(list)
    /\ tail' = IF Len(list) = 1 THEN "stray" ELSE tail
    /\ size' = n
    /\ sig' = [sig EXCEPT ![t] = IF capacity > 0 /\ n + 1 = capacity THEN "full_queue" ELSE "none"]
    /\ Goto(t, "unlock")
    /\ UNCHANGED <<capacity, pushed, waitVars, lock, op, el>>

(* Mutant: queue_pop does not update the size.                             *)
PopEnterUncounted(t) ==
    /\ pc[t] = "enter"
    /\ Goto(t, "body")
    /\ UNCHANGED <<listVars, waitVars, lock, op, el, sig>>

(* queue_pop counts its element before it has one.                         *)
PopEnter(t) ==
    /\ pc[t] = "enter"
    /\ size' = size - 1
    /\ Goto(t, "body")
    /\ UNCHANGED <<list, tail, capacity, pushed, out, waitVars, lock, op, el, sig>>

PopWait(t) ==
    /\ pc[t] \in {"body", "again"} /\ op[t] = "pop"
    /\ list = <<>>
    /\ empty_queue' = empty_queue \cup {t}
    /\ UNCHANGED full_queue
    /\ Wait(t)

Pop(t) ==
    /\ pc[t] \in {"body", "again"} /\ op[t] = "pop"
    /\ list # <<>>
    /\ Take(t, size)

TryPopEmpty(t) ==
    /\ pc[t] = "body" /\ op[t] = "try_pop"
    /\ size <= 0
    /\ sig' = [sig EXCEPT ![t] = "none"]
    /\ Goto(t, "unlock")
    /\ UNCHANGED <<listVars, waitVars, lock, op, el>>

TryPop(t) ==
    /\ pc[t] = "body" /\ op[t] = "try_pop"
    /\ size > 0 /\ list # <<>>
    /\ Take(t, size - 1)

(* With the elements out of head's reach head is NULL, and reading its     *)
(* pointer ends the process: no thread takes the mutex any more.           *)
TryPopNull(t) ==
    /\ pc[t] = "body" /\ op[t] = "try_pop"
    /\ size > 0 /\ list = <<>>
    /\ Goto(t, "crashed")
    /\ UNCHANGED <<listVars, waitVars, lock, op, el, sig>>

-----------------------------------------------------------------------------
(* The end of every operation.  A pop that found the queue full unlocks,   *)
(* signals, and unlocks again.                                             *)
MutexUnlock(t) ==
    /\ pc[t] = "unlock"
    /\ lock' = NULL
    /\ Goto(t, IF sig[t] = "none" THEN "idle" ELSE "signal")
    /\ UNCHANGED <<listVars, waitVars, op, el, sig>>

(* SIGNAL_ONE: one of the waiting threads, if there is one, wakes up.      *)
Waiting(c) == IF c = "full_queue" THEN full_queue ELSE empty_queue

Signal(t) ==
    /\ pc[t] = "signal"
    /\ LET next == IF sig[t] = "full_queue" THEN "unlock2" ELSE "idle" IN
         \/ /\ Waiting(sig[t]) = {}
            /\ Goto(t, next)
            /\ UNCHANGED waitVars
         \/ \E u \in Waiting(sig[t]) :
              /\ full_queue' = full_queue \ {u}
              /\ empty_queue' = empty_queue \ {u}
              /\ pc' = [pc EXCEPT ![t] = next, ![u] = "woken"]
    /\ UNCHANGED <<listVars, lock, op, el, sig>>

SecondUnlock(t) ==
    /\ pc[t] = "unlock2"
    /\ lock' = NULL
    /\ Goto(t, "idle")
    /\ UNCHANGED <<listVars, waitVars, op, el, sig>>

(* queue_set_capacity, under the mutex from beginning to end.              *)
SetCapacity(c) ==
    /\ lock = NULL
    /\ capacity' = c
    /\ UNCHANGED <<list, tail, size, pushed, out, waitVars, lock, pc, op, el, sig>>

Step(t) ==
    \/ MutexLock(t) \/ SpuriousWakeup(t) \/ Relock(t)
    \/ PushWait(t) \/ Push(t) \/ TryPushFull(t) \/ TryPush(t)
    \/ PopEnter(t) \/ PopWait(t) \/ Pop(t) \/ TryPopEmpty(t) \/ TryPop(t) \/ TryPopNull(t)
    \/ MutexUnlock(t) \/ Signal(t) \/ SecondUnlock(t)

(* A thread inside an operation's critical section has the mutex: no other *)
(* thread has unlocked it (the second unlocks of queue_pop and             *)
(* queue_try_pop can).                                                     *)
MutualExclusion ==
    \A t \in Threads : pc[t] \in {"enter", "body", "again", "unlock", "crashed"} => lock = t

Next ==
    /\ MutualExclusion
    /\ \/ \E t \in Threads : Step(t)
       \/ \E t \in Threads, o \in Ops : Call(t, o) \/ \E e \in Elements : CallPush(t, o, e)
       \/ \E c \in Capacities : SetCapacity(c)

Spec == Init /\ [][Next]_vars

-----------------------------------------------------------------------------
(* Type invariant.                                                         *)
TypeOK ==
    /\ list \in Seq(Elements) /\ pushed \in Seq(Elements) /\ out \in Seq(Elements)
    /\ tail \in {"null", "last", "stray"}
    /\ size \in Int /\ capacity \in Int
    /\ lock \in Threads \cup {NULL}
    /\ full_queue \subseteq Threads /\ empty_queue \subseteq Threads
    /\ pc \in [Threads -> {"idle", "lock", "enter", "body", "again", "wait", "woken",
                           "unlock", "signal", "unlock2", "crashed"}]
    /\ op \in [Threads -> {"none", "push", "try_push", "pop", "try_pop"}]
    /\ el \in [Threads -> Elements \cup {NULL}]
    /\ sig \in [Threads -> {"none", "full_queue", "empty_queue"}]

(* The consumers that are counted in size and have no element yet.         *)
Owed == {t \in Threads : op[t] = "pop" /\ pc[t] \in {"body", "again", "wait", "woken"}}

(* size is what was pushed less what was popped and what consumers blocked *)
(* in queue_pop have counted in advance.                                   *)
SizeExact == size = Len(pushed) - Len(out) - Cardinality(Owed)

(* However the operations are mixed, elements leave the queue in the order *)
(* in which they were linked, and none leaves twice.                       *)
InOrder ==
    LET s == out \o list IN
      \E f \in [1..Len(s) -> 1..Len(pushed)] :
        /\ \A n \in 1..Len(s) : s[n] = pushed[f[n]]
        /\ \A m, n \in 1..Len(s) : m < n => f[m] < f[n]

(* The list holds no more elements than the capacity, and one for each     *)
(* consumer blocked in queue_pop, which has counted it as gone already.    *)
(* The capacity is only raised here; a producer that wakes up looks at the *)
(* size again, for another may have taken the room.                        *)
BoundKept == capacity >= 0 => Len(list) <= capacity + Cardinality(Owed)

(* queue_try_pop says that the queue is empty only if the list is, and     *)
(* queue_try_push that it is full only if the list is: both look at size   *)
(* and not at the list.                                                    *)
EmptyAnswer(t) == op[t] = "try_pop" /\ pc[t] = "body" /\ pc'[t] = "unlock" /\ UNCHANGED out
FullAnswer(t) == op[t] = "try_push" /\ pc[t] = "body" /\ pc'[t] = "unlock" /\ UNCHANGED pushed

TryHonest ==
    [][\A t \in Threads : /\ EmptyAnswer(t) => list = <<>>
                          /\ FullAnswer(t) => capacity >= 0 /\ Len(list) >= capacity]_vars

(* The operations implement the queue BoundedQueue promises.               *)
Abstract == INSTANCE BoundedQueue WITH q <- list, cap <- capacity
ImplementsQueue == Abstract!Spec
=============================================================================
