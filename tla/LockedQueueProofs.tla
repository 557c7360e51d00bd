------------------------- MODULE LockedQueueProofs ---------------------------
(***************************************************************************)
(* Proofs about LockedQueue, for any number of threads and elements: its   *)
(* type invariant, SizeExact and InOrder for every use of the queue, and   *)
(* MutualExclusion, BoundKept, TryHonest and the promise of BoundedQueue   *)
(* for the uses of it that keep them.  They speak of a queue up to the     *)
(* moment its mutex is unlocked under a thread that has it, where          *)
(* LockedQueue ends; MutualExclusionNeverFull says for which queues that   *)
(* moment never comes.                                                     *)
(***************************************************************************)
EXTENDS LockedQueue, FiniteSetTheorems, SequenceTheorems, TLAPS

(* A thread that is to push has something to push; the threads that wait   *)
(* on a condition wait; only queue_pop counts before it has an element.    *)
ElOK ==
    \A t \in Threads :
      pc[t] \in {"lock", "body", "again", "wait", "woken"} /\ op[t] \in {"push", "try_push"}
        => el[t] \in Elements

WaitOK == \A t \in full_queue \cup empty_queue : pc[t] = "wait"

EnterOK == \A t \in Threads : pc[t] = "enter" => op[t] = "pop"

IInv == TypeOK /\ ElOK /\ WaitOK /\ EnterOK

-----------------------------------------------------------------------------
(* The invariant holds in a new queue.                                     *)
LEMMA InitIInv == Init => IInv
<1> SUFFICES ASSUME Init PROVE IInv
  OBVIOUS
<1> USE DEF Init
<1>0. list = <<>> /\ pushed = <<>> /\ out = <<>> /\ <<>> \in Seq(Elements)
  OBVIOUS
<1>1. TypeOK
  BY <1>0, QueueAssumption DEF TypeOK
<1>2. ElOK /\ WaitOK /\ EnterOK
  BY DEF ElOK, WaitOK, EnterOK
<1> QED BY <1>1, <1>2 DEF IInv

(* What is linked is an element, and what is taken off the list too.       *)
LEMMA StepLink ==
    ASSUME IInv, NEW t \in Threads, pc[t] \in {"body", "again"}, op[t] \in {"push", "try_push"},
           NEW empty \in BOOLEAN, Link(t, empty)
    PROVE  IInv'
<1> USE DEF IInv, Link, listVars, waitVars, Goto
<1>0. el[t] \in Elements
  BY DEF ElOK
<1>1. /\ <<el[t]>> \in Seq(Elements) /\ Append(list, el[t]) \in Seq(Elements)
      /\ Append(pushed, el[t]) \in Seq(Elements)
  BY <1>0 DEF TypeOK
<1>2. list' \in Seq(Elements) /\ pushed' \in Seq(Elements)
  BY <1>1 DEF TypeOK
<1>3. TypeOK'
  BY <1>2 DEF TypeOK
<1>4. ElOK' /\ WaitOK' /\ EnterOK'
  BY DEF ElOK, WaitOK, EnterOK, TypeOK
<1> QED BY <1>3, <1>4

(* Taking the first element keeps the invariant.                           *)
LEMMA StepTake ==
    ASSUME IInv, NEW t \in Threads, pc[t] \in {"body", "again"}, list # <<>>, NEW n \in Int, Take(t, n)
    PROVE  IInv'
<1> USE DEF IInv, Take, listVars, waitVars, Goto
<1>1. Tail(list) \in Seq(Elements) /\ Append(out, Head(list)) \in Seq(Elements)
  BY DEF TypeOK
<1>2. TypeOK'
  BY <1>1 DEF TypeOK
<1>3. ElOK' /\ WaitOK' /\ EnterOK'
  BY DEF ElOK, WaitOK, EnterOK, TypeOK
<1> QED BY <1>2, <1>3

(* A signal wakes a thread that waits.                                     *)
LEMMA StepSignal ==
    ASSUME IInv, NEW t \in Threads, Signal(t)
    PROVE  IInv'
<1> USE DEF IInv, Signal, listVars, waitVars, Goto
<1>1. CASE /\ pc' = [pc EXCEPT ![t] = IF sig[t] = "full_queue" THEN "unlock2" ELSE "idle"]
           /\ UNCHANGED waitVars
  BY <1>1 DEF TypeOK, ElOK, WaitOK, EnterOK
<1>2. ASSUME NEW u \in Waiting(sig[t]),
             full_queue' = full_queue \ {u}, empty_queue' = empty_queue \ {u},
             pc' = [pc EXCEPT ![t] = IF sig[t] = "full_queue" THEN "unlock2" ELSE "idle",
                              ![u] = "woken"]
      PROVE  IInv'
  <2>1. u \in Threads /\ pc[u] = "wait" /\ u # t
    BY <1>2 DEF Waiting, WaitOK, TypeOK
  <2>2. /\ pc' \in [Threads -> {"idle", "lock", "enter", "body", "again", "wait", "woken",
                               "unlock", "signal", "unlock2", "crashed"}]
        /\ pc'[u] = "woken" /\ pc'[t] \in {"unlock2", "idle"}
        /\ \A v \in Threads \ {t, u} : pc'[v] = pc[v]
    BY <1>2, <2>1 DEF TypeOK
  <2>3. TypeOK'
    BY <1>2, <2>2 DEF TypeOK
  <2>4. ElOK' /\ EnterOK'
    BY <2>1, <2>2 DEF ElOK, EnterOK
  <2>5. WaitOK'
    BY <1>2, <2>2 DEF WaitOK, TypeOK
  <2> QED BY <2>3, <2>4, <2>5
<1> QED BY <1>1, <1>2

(* Every step of an operation keeps the invariant.                         *)
LEMMA StepIInv ==
    ASSUME IInv, NEW t \in Threads, Step(t)
    PROVE  IInv'
<1> USE DEF IInv, listVars, waitVars, Goto
<1>1. CASE MutexLock(t) \/ Relock(t) \/ MutexUnlock(t) \/ SecondUnlock(t)
  BY <1>1, ZenonT(60) DEF MutexLock, Relock, MutexUnlock, SecondUnlock, TypeOK, ElOK, WaitOK, EnterOK
<1>2. CASE SpuriousWakeup(t)
  BY <1>2 DEF SpuriousWakeup, TypeOK, ElOK, WaitOK, EnterOK
<1>3. CASE PushWait(t) \/ PopWait(t)
  BY <1>3 DEF PushWait, PopWait, Wait, TypeOK, ElOK, WaitOK, EnterOK
<1>4. CASE TryPushFull(t)
  BY <1>4 DEF TryPushFull, TypeOK, ElOK, WaitOK, EnterOK
<1>7. CASE TryPopEmpty(t) \/ TryPopNull(t)
  BY <1>7 DEF TryPopEmpty, TryPopNull, TypeOK, ElOK, WaitOK, EnterOK
<1>8. CASE PopEnter(t)
  BY <1>8 DEF PopEnter, TypeOK, ElOK, WaitOK, EnterOK
<1>5. CASE Push(t) \/ TryPush(t)
  <2>1. (tail = "null") \in BOOLEAN /\ (size <= 0) \in BOOLEAN
    BY DEF TypeOK
  <2> QED BY <1>5, <2>1, StepLink DEF Push, TryPush
<1>6. CASE Pop(t) \/ TryPop(t)
  <2>1. size \in Int /\ size - 1 \in Int
    BY DEF TypeOK
  <2> QED BY <1>6, <2>1, StepTake DEF Pop, TryPop
<1> QED BY <1>1, <1>2, <1>3, <1>4, <1>5, <1>6, <1>7, <1>8, StepSignal DEF Step

(* Every step keeps the invariant.                                         *)
LEMMA NextIInv == IInv /\ [Next]_vars => IInv'
<1> SUFFICES ASSUME IInv, [Next]_vars PROVE IInv'
  OBVIOUS
<1> USE DEF IInv, listVars, waitVars, Goto
<1>1. ASSUME NEW t \in Threads, NEW o \in Ops, Call(t, o) PROVE IInv'
  BY <1>1 DEF Call, TypeOK, ElOK, WaitOK, EnterOK
<1>2. ASSUME NEW t \in Threads, NEW o \in Ops, NEW e \in Elements, CallPush(t, o, e) PROVE IInv'
  BY <1>2 DEF CallPush, TypeOK, ElOK, WaitOK, EnterOK
<1>3. ASSUME NEW c \in Capacities, SetCapacity(c) PROVE IInv'
  BY <1>3, QueueAssumption DEF SetCapacity, TypeOK, ElOK, WaitOK, EnterOK
<1>4. CASE UNCHANGED vars
  BY <1>4 DEF vars, TypeOK, ElOK, WaitOK, EnterOK
<1> QED BY <1>1, <1>2, <1>3, <1>4, StepIInv DEF Next

(* Types and program points are consistent in every reachable state: an    *)
(* operation that holds an element or waits does so where the code can.    *)
THEOREM Invariance == Spec => []IInv
BY InitIInv, NextIInv, PTL DEF Spec

(* The variables have their types.                                         *)
THEOREM TypeCorrect == Spec => []TypeOK
<1>1. IInv => TypeOK
  BY DEF IInv
<1> QED BY <1>1, Invariance, PTL

-----------------------------------------------------------------------------
(* The consumers that wait can be counted.                                 *)
LEMMA OwedFinite == IsFiniteSet(Owed) /\ Cardinality(Owed) \in Nat
<1>1. IsFiniteSet(Threads) /\ Owed \subseteq Threads
  BY QueueAssumption DEF Owed
<1> QED BY <1>1, FS_Subset, FS_CardinalityType

(* How the operations count.                                               *)
LEMMA LinkExact ==
    ASSUME IInv, SizeExact, NEW t \in Threads, pc[t] \in {"body", "again"},
           op[t] \in {"push", "try_push"}, NEW empty, Link(t, empty)
    PROVE  SizeExact'
<1>1. Owed' = Owed
  BY DEF Owed, Link, Goto, IInv, TypeOK
<1>2. size' = size + 1 /\ Len(pushed') = Len(pushed) + 1 /\ out' = out
      /\ Len(pushed) \in Nat /\ Len(out) \in Nat /\ size \in Int
  BY DEF Link, IInv, TypeOK
<1> QED BY <1>1, <1>2, OwedFinite DEF SizeExact

(* A consumer that gets its element pays its debt.                         *)
LEMMA PopExact ==
    ASSUME IInv, SizeExact, NEW t \in Threads, Pop(t)
    PROVE  SizeExact'
<1>1. Owed' = Owed \ {t} /\ t \in Owed
  BY DEF Owed, Pop, Take, Goto, IInv, TypeOK
<1>2. size' = size /\ Len(out') = Len(out) + 1 /\ pushed' = pushed
      /\ Len(pushed) \in Nat /\ Len(out) \in Nat /\ size \in Int
  BY DEF Pop, Take, IInv, TypeOK
<1>3. Cardinality(Owed') = Cardinality(Owed) - 1
  BY <1>1, OwedFinite, FS_RemoveElement
<1> QED BY <1>2, <1>3, OwedFinite DEF SizeExact

(* The body of queue_try_pop counts its element.                           *)
LEMMA TryPopExact ==
    ASSUME IInv, SizeExact, NEW t \in Threads, TryPop(t)
    PROVE  SizeExact'
<1>1. Owed' = Owed
  BY DEF Owed, TryPop, Take, Goto, IInv, TypeOK
<1>2. size' = size - 1 /\ Len(out') = Len(out) + 1 /\ pushed' = pushed
      /\ Len(pushed) \in Nat /\ Len(out) \in Nat /\ size \in Int
  BY DEF TryPop, Take, IInv, TypeOK
<1> QED BY <1>1, <1>2, OwedFinite DEF SizeExact

(* queue_pop counts its element before it has one: a debt.                 *)
LEMMA PopEnterExact ==
    ASSUME IInv, SizeExact, NEW t \in Threads, PopEnter(t)
    PROVE  SizeExact'
<1>1. Owed' = Owed \cup {t} /\ t \notin Owed
  BY DEF Owed, PopEnter, Goto, IInv, TypeOK, EnterOK
<1>2. size' = size - 1 /\ out' = out /\ pushed' = pushed
      /\ Len(pushed) \in Nat /\ Len(out) \in Nat /\ size \in Int
  BY DEF PopEnter, IInv, TypeOK
<1>3. Cardinality(Owed') = Cardinality(Owed) + 1
  BY <1>1, OwedFinite, FS_AddElement
<1> QED BY <1>2, <1>3, OwedFinite DEF SizeExact

(* The other steps count nothing, and no consumer starts or stops to wait. *)
LEMMA OtherExact ==
    ASSUME IInv, SizeExact,
           \/ \E t \in Threads : \/ MutexLock(t) \/ SpuriousWakeup(t) \/ Relock(t)
                                 \/ PushWait(t) \/ TryPushFull(t) \/ PopWait(t) \/ TryPopEmpty(t)
                                 \/ TryPopNull(t) \/ MutexUnlock(t) \/ Signal(t) \/ SecondUnlock(t)
           \/ \E t \in Threads, o \in Ops : Call(t, o) \/ \E e \in Elements : CallPush(t, o, e)
           \/ \E c \in Capacities : SetCapacity(c)
           \/ UNCHANGED vars
    PROVE  SizeExact'
<1> USE DEF IInv, listVars, waitVars, Goto
<1>1. UNCHANGED <<size, pushed, out>>
  BY DEF MutexLock, SpuriousWakeup, Relock, PushWait, PopWait, Wait, TryPushFull, TryPopEmpty,
         TryPopNull, MutexUnlock, Signal, SecondUnlock, Call, CallPush, SetCapacity, vars
<1>2. Owed' = Owed
  <2>1. CASE \E t \in Threads : \/ MutexLock(t) \/ SpuriousWakeup(t) \/ Relock(t)
    BY <2>1 DEF MutexLock, SpuriousWakeup, Relock, Owed, TypeOK
  <2>2. CASE \E t \in Threads : PushWait(t) \/ PopWait(t)
    BY <2>2 DEF PushWait, PopWait, Wait, Owed, TypeOK
  <2>3. CASE \E t \in Threads : TryPushFull(t) \/ TryPopEmpty(t) \/ TryPopNull(t)
    BY <2>3 DEF TryPushFull, TryPopEmpty, TryPopNull, Owed, TypeOK
  <2>4. CASE \E t \in Threads : MutexUnlock(t) \/ SecondUnlock(t)
    BY <2>4 DEF MutexUnlock, SecondUnlock, Owed, TypeOK
  <2>5. ASSUME NEW t \in Threads, Signal(t) PROVE Owed' = Owed
    <3>1. CASE pc' = [pc EXCEPT ![t] = IF sig[t] = "full_queue" THEN "unlock2" ELSE "idle"]
      BY <2>5, <3>1 DEF Signal, Owed, TypeOK
    <3>2. ASSUME NEW u \in Waiting(sig[t]),
                 pc' = [pc EXCEPT ![t] = IF sig[t] = "full_queue" THEN "unlock2" ELSE "idle",
                                  ![u] = "woken"]
          PROVE  Owed' = Owed
      <4>1. u \in Threads /\ pc[u] = "wait" /\ u # t /\ pc[t] = "signal" /\ op' = op
        BY <2>5 DEF Waiting, WaitOK, TypeOK, Signal
      <4>2. /\ pc'[u] = "woken" /\ pc'[t] \in {"unlock2", "idle"}
            /\ \A v \in Threads \ {t, u} : pc'[v] = pc[v]
        BY <3>2, <4>1 DEF TypeOK
      <4> QED BY <4>1, <4>2 DEF Owed
    <3> QED BY <2>5, <3>1, <3>2 DEF Signal
  <2>6. CASE \E t \in Threads, o \in Ops : Call(t, o) \/ \E e \in Elements : CallPush(t, o, e)
    BY <2>6 DEF Call, CallPush, Owed, TypeOK
  <2>7. CASE (\E c \in Capacities : SetCapacity(c)) \/ UNCHANGED vars
    BY <2>7 DEF SetCapacity, vars, Owed
  <2> QED BY <2>1, <2>2, <2>3, <2>4, <2>5, <2>6, <2>7
<1> QED BY <1>1, <1>2 DEF SizeExact

(* The counter of the queue, up to a foreign unlock: what was pushed, less *)
(* what was popped and what consumers blocked in queue_pop (queue.c)       *)
(* already counted.  It counts elements that queue_push linked to a freed  *)
(* tail too, which no pop will find.                                       *)
THEOREM SizeExactAlways == Spec => []SizeExact
<1>1. Init => SizeExact
  <2> SUFFICES ASSUME Init PROVE SizeExact
    OBVIOUS
  <2>1. Owed = {} /\ Len(pushed) = 0 /\ Len(out) = 0 /\ size = 0
    BY DEF Init, Owed
  <2> QED BY <2>1, FS_EmptySet DEF SizeExact
<1>2. IInv /\ SizeExact /\ [Next]_vars => SizeExact'
  <2> SUFFICES ASSUME IInv, SizeExact, [Next]_vars PROVE SizeExact'
    OBVIOUS
  <2>1. ASSUME NEW t \in Threads, Push(t) \/ TryPush(t) PROVE SizeExact'
    BY <2>1, LinkExact DEF Push, TryPush
  <2> QED BY <2>1, PopExact, TryPopExact, PopEnterExact, OtherExact DEF Next, Step
<1> QED BY <1>1, <1>2, InitIInv, NextIInv, PTL DEF Spec

-----------------------------------------------------------------------------
(* s is what is left of p when some of its elements are left out.          *)
Within(s, p) ==
    \E f \in [1..Len(s) -> 1..Len(p)] :
      /\ \A n \in 1..Len(s) : s[n] = p[f[n]]
      /\ \A m, n \in 1..Len(s) : m < n => f[m] < f[n]

(* A longer history contains what a shorter one did.                       *)
LEMMA WithinLonger ==
    ASSUME NEW S, NEW s \in Seq(S), NEW p \in Seq(S), NEW e \in S, Within(s, p)
    PROVE  Within(s, Append(p, e))
<1>1. PICK f \in [1..Len(s) -> 1..Len(p)] :
        /\ \A n \in 1..Len(s) : s[n] = p[f[n]]
        /\ \A m, n \in 1..Len(s) : m < n => f[m] < f[n]
  BY DEF Within
<1>2. /\ Len(p) \in Nat /\ Len(Append(p, e)) = Len(p) + 1
      /\ \A n \in 1..Len(p) : Append(p, e)[n] = p[n]
  OBVIOUS
<1>3. f \in [1..Len(s) -> 1..Len(Append(p, e))]
  BY <1>2
<1>4. \A n \in 1..Len(s) : s[n] = Append(p, e)[f[n]]
  BY <1>1, <1>2
<1> QED BY <1>1, <1>3, <1>4 DEF Within

(* The same element at the end of both keeps the order.                    *)
LEMMA WithinAppend ==
    ASSUME NEW S, NEW s \in Seq(S), NEW p \in Seq(S), NEW e \in S, Within(s, p)
    PROVE  Within(Append(s, e), Append(p, e))
<1>1. PICK f \in [1..Len(s) -> 1..Len(p)] :
        /\ \A n \in 1..Len(s) : s[n] = p[f[n]]
        /\ \A m, n \in 1..Len(s) : m < n => f[m] < f[n]
  BY DEF Within
<1>2. /\ Len(p) \in Nat /\ Len(Append(p, e)) = Len(p) + 1
      /\ \A n \in 1..Len(p) : Append(p, e)[n] = p[n]
      /\ Append(p, e)[Len(p) + 1] = e
  OBVIOUS
<1>3. /\ Len(s) \in Nat /\ Len(Append(s, e)) = Len(s) + 1
      /\ \A n \in 1..Len(s) : Append(s, e)[n] = s[n]
      /\ Append(s, e)[Len(s) + 1] = e
  OBVIOUS
<1> DEFINE g == [n \in 1..(Len(s) + 1) |-> IF n <= Len(s) THEN f[n] ELSE Len(p) + 1]
<1>4. g \in [1..Len(Append(s, e)) -> 1..Len(Append(p, e))]
  BY <1>2, <1>3
<1>5. \A n \in 1..Len(Append(s, e)) : Append(s, e)[n] = Append(p, e)[g[n]]
  <2> SUFFICES ASSUME NEW n \in 1..(Len(s) + 1) PROVE Append(s, e)[n] = Append(p, e)[g[n]]
    BY <1>3
  <2>1. CASE n \in 1..Len(s)
    <3>1. g[n] = f[n] /\ f[n] \in 1..Len(p)
      BY <1>3, <2>1
    <3> QED BY <1>1, <1>2, <1>3, <2>1, <3>1
  <2>2. CASE n = Len(s) + 1
    <3>1. g[n] = Len(p) + 1
      BY <1>3, <2>2
    <3> QED BY <1>2, <1>3, <2>2, <3>1
  <2> QED BY <1>3, <2>1, <2>2
<1>6. \A m, n \in 1..Len(Append(s, e)) : m < n => g[m] < g[n]
  BY <1>1, <1>2, <1>3
<1> QED BY <1>4, <1>5, <1>6 DEF Within

(* The beginning of what is in order is in order.                          *)
LEMMA WithinPrefix ==
    ASSUME NEW S, NEW a \in Seq(S), NEW b \in Seq(S), NEW p \in Seq(S), Within(a \o b, p)
    PROVE  Within(a, p)
<1>1. PICK f \in [1..Len(a \o b) -> 1..Len(p)] :
        /\ \A n \in 1..Len(a \o b) : (a \o b)[n] = p[f[n]]
        /\ \A m, n \in 1..Len(a \o b) : m < n => f[m] < f[n]
  BY DEF Within
<1>2. /\ Len(a) \in Nat /\ Len(b) \in Nat /\ Len(a \o b) = Len(a) + Len(b)
      /\ \A n \in 1..Len(a) : (a \o b)[n] = a[n]
  OBVIOUS
<1>3. 1..Len(a) \subseteq 1..Len(a \o b)
  BY <1>2
<1> DEFINE g == [n \in 1..Len(a) |-> f[n]]
<1>4. g \in [1..Len(a) -> 1..Len(p)]
  BY <1>3
<1>5. \A n \in 1..Len(a) : a[n] = p[g[n]]
  BY <1>1, <1>2, <1>3
<1>6. \A m, n \in 1..Len(a) : m < n => g[m] < g[n]
  BY <1>1, <1>3
<1> QED BY <1>4, <1>5, <1>6 DEF Within

(* Moving an element from one sequence to the next.                        *)
LEMMA MoveHead ==
    ASSUME NEW S, NEW a \in Seq(S), NEW b \in Seq(S), b # <<>>
    PROVE  Append(a, Head(b)) \o Tail(b) = a \o b
<1>1. /\ Append(a, Head(b)) \in Seq(S) /\ Len(Append(a, Head(b))) = Len(a) + 1
      /\ Tail(b) \in Seq(S) /\ Len(Tail(b)) = Len(b) - 1 /\ Len(a) \in Nat /\ Len(b) \in Nat \ {0}
      /\ Head(b) = b[1]
  OBVIOUS
<1>2. /\ \A n \in 1..Len(a) : Append(a, Head(b))[n] = a[n]
      /\ Append(a, Head(b))[Len(a) + 1] = b[1]
      /\ \A n \in 1..(Len(b) - 1) : Tail(b)[n] = b[n + 1]
  OBVIOUS
<1>3. /\ Append(a, Head(b)) \o Tail(b) \in Seq(S)
      /\ Len(Append(a, Head(b)) \o Tail(b)) = Len(a) + Len(b)
      /\ \A n \in 1..(Len(a) + Len(b)) : (Append(a, Head(b)) \o Tail(b))[n] =
           IF n <= Len(a) + 1 THEN Append(a, Head(b))[n] ELSE Tail(b)[n - (Len(a) + 1)]
  <2>1. /\ Append(a, Head(b)) \o Tail(b) \in Seq(S)
        /\ Len(Append(a, Head(b)) \o Tail(b)) = Len(Append(a, Head(b))) + Len(Tail(b))
        /\ \A n \in 1..(Len(Append(a, Head(b))) + Len(Tail(b))) :
             (Append(a, Head(b)) \o Tail(b))[n] =
               IF n <= Len(Append(a, Head(b))) THEN Append(a, Head(b))[n]
               ELSE Tail(b)[n - Len(Append(a, Head(b)))]
    BY <1>1, ConcatProperties
  <2>2. Len(Append(a, Head(b))) + Len(Tail(b)) = Len(a) + Len(b)
    BY <1>1
  <2> QED BY <1>1, <2>1, <2>2
<1>4. /\ a \o b \in Seq(S) /\ Len(a \o b) = Len(a) + Len(b)
      /\ \A n \in 1..(Len(a) + Len(b)) : (a \o b)[n] = IF n <= Len(a) THEN a[n] ELSE b[n - Len(a)]
  BY ConcatProperties
<1>5. ASSUME NEW n \in 1..(Len(a) + Len(b))
      PROVE  (Append(a, Head(b)) \o Tail(b))[n] = (a \o b)[n]
  <2>1. CASE n \in 1..Len(a)
    BY <1>1, <1>2, <1>3, <1>4, <2>1
  <2>2. CASE n = Len(a) + 1
    <3>1. n - Len(a) = 1 /\ ~(n <= Len(a)) /\ n <= Len(a) + 1
      BY <1>1, <2>2
    <3> QED BY <1>2, <1>3, <1>4, <2>2, <3>1
  <2>3. CASE n > Len(a) + 1
    <3>1. n - (Len(a) + 1) \in 1..(Len(b) - 1) /\ (n - (Len(a) + 1)) + 1 = n - Len(a)
          /\ ~(n <= Len(a) + 1) /\ ~(n <= Len(a))
      BY <1>1, <2>3
    <3>2. Tail(b)[n - (Len(a) + 1)] = b[n - Len(a)]
      BY <1>2, <3>1
    <3> QED BY <1>3, <1>4, <3>1, <3>2
  <2> QED BY <1>1, <2>1, <2>2, <2>3
<1> QED BY <1>3, <1>4, <1>5, SeqEqual

(* InOrder in terms of Within.                                             *)
LEMMA InOrderWithin == InOrder <=> Within(out \o list, pushed)
BY DEF InOrder, Within

(* A push keeps the order, also where it loses elements.                   *)
LEMMA LinkInOrder ==
    ASSUME IInv, InOrder, NEW t \in Threads, pc[t] \in {"body", "again"},
           op[t] \in {"push", "try_push"}, NEW empty, Link(t, empty)
    PROVE  Within(out' \o list', pushed')
<1> DEFINE e == el[t]
<1>1. e \in Elements /\ out' = out /\ pushed' = Append(pushed, e)
  BY DEF IInv, ElOK, Link
<1>2. out \in Seq(Elements) /\ list \in Seq(Elements) /\ pushed \in Seq(Elements)
  BY DEF IInv, TypeOK
<1>3. out \o list \in Seq(Elements) /\ Within(out \o list, pushed)
  BY <1>2, InOrderWithin
<1> HIDE DEF e
<1>4. CASE list' = <<e>>
  <2>1. Append(out, e) = out \o <<e>>
    BY <1>1, <1>2, AppendIsConcat
  <2>2. Within(out, pushed)
    BY <1>2, <1>3, WithinPrefix
  <2> QED BY <1>1, <1>2, <1>4, <2>1, <2>2, WithinAppend
<1>5. CASE list' = Append(list, e)
  <2>0. <<e>> \in Seq(Elements)
    BY <1>1
  <2>1. Append(out \o list, e) = (out \o list) \o <<e>> /\ Append(list, e) = list \o <<e>>
    BY <1>1, <1>2, <1>3, AppendIsConcat
  <2>2. (out \o list) \o <<e>> = out \o (list \o <<e>>)
    BY <1>2, <2>0, ConcatAssociative
  <2>3. Within(Append(out \o list, e), Append(pushed, e))
    BY <1>1, <1>2, <1>3, WithinAppend
  <2> QED BY <1>1, <1>5, <2>1, <2>2, <2>3
<1>6. CASE list' = list
  BY <1>1, <1>2, <1>3, <1>6, WithinLonger
<1> QED BY <1>4, <1>5, <1>6 DEF Link, e

(* A pop keeps the order.                                                  *)
LEMMA TakeInOrder ==
    ASSUME IInv, InOrder, NEW t, NEW n, list # <<>>, Take(t, n)
    PROVE  Within(out' \o list', pushed')
<1>1. out \in Seq(Elements) /\ list \in Seq(Elements)
  BY DEF IInv, TypeOK
<1>2. out' = Append(out, Head(list)) /\ list' = Tail(list) /\ pushed' = pushed
  BY DEF Take
<1>3. out' \o list' = out \o list
  BY <1>1, <1>2, MoveHead
<1> QED BY <1>2, <1>3, InOrderWithin

(* Elements leave in the order in which they were linked, none twice,      *)
(* however push, try_push, pop and try_pop (queue.c) are mixed, up to a    *)
(* foreign unlock; what the theorem does not say is that all of them leave.*)
THEOREM InOrderAlways == Spec => []InOrder
<1>1. Init => InOrder
  <2> SUFFICES ASSUME Init PROVE InOrder
    OBVIOUS
  <2>1. out \o list = <<>> /\ pushed = <<>>
    BY DEF Init
  <2>2. Len(<<>>) = 0 /\ 1..0 = {}
    OBVIOUS
  <2> DEFINE f == [n \in 1..0 |-> 1]
  <2>3. f \in [1..0 -> 1..0]
    BY <2>2
  <2> QED BY <2>1, <2>2, <2>3, InOrderWithin DEF Within
<1>2. IInv /\ InOrder /\ [Next]_vars => InOrder'
  <2> SUFFICES ASSUME IInv, InOrder, [Next]_vars PROVE Within(out' \o list', pushed')
    BY DEF InOrder, Within
  <2>1. ASSUME NEW t \in Threads, Push(t) \/ TryPush(t) PROVE Within(out' \o list', pushed')
    BY <2>1, LinkInOrder DEF Push, TryPush
  <2>2. ASSUME NEW t \in Threads, Pop(t) \/ TryPop(t) PROVE Within(out' \o list', pushed')
    BY <2>2, TakeInOrder DEF Pop, TryPop
  <2>3. CASE UNCHANGED <<out, list, pushed>>
    BY <2>3, InOrderWithin
  <2>4. ASSUME NEW t \in Threads, Step(t), ~(Push(t) \/ TryPush(t) \/ Pop(t) \/ TryPop(t))
        PROVE  UNCHANGED <<out, list, pushed>>
    BY <2>4 DEF Step, MutexLock, SpuriousWakeup, Relock, PushWait, PopWait, Wait, TryPushFull,
       TryPopEmpty, TryPopNull, PopEnter, MutexUnlock, Signal, SecondUnlock, listVars
  <2>5. ASSUME \/ \E t \in Threads, o \in Ops : Call(t, o) \/ \E e \in Elements : CallPush(t, o, e)
               \/ \E c \in Capacities : SetCapacity(c)
               \/ UNCHANGED vars
        PROVE  UNCHANGED <<out, list, pushed>>
    BY <2>5 DEF Call, CallPush, SetCapacity, vars, listVars
  <2> QED BY <2>1, <2>2, <2>3, <2>4, <2>5 DEF Next
<1> QED BY <1>1, <1>2, InitIInv, NextIInv, PTL DEF Spec

-----------------------------------------------------------------------------
(* No element is linked twice, and no two threads push the same.           *)
Once ==
    /\ \A m, n \in 1..Len(pushed) : pushed[m] = pushed[n] => m = n
    /\ \A t \in Threads, n \in 1..Len(pushed) : el[t] # NULL => pushed[n] # el[t]
    /\ \A t, u \in Threads : el[t] = el[u] /\ el[t] # NULL => t = u

(* Linking an element keeps that.                                          *)
LEMMA LinkOnce ==
    ASSUME IInv, Once, NEW t \in Threads, el[t] \in Elements, NEW empty, Link(t, empty)
    PROVE  Once'
<1>1. /\ pushed \in Seq(Elements) /\ Len(pushed) \in Nat /\ el[t] # NULL
      /\ el \in [Threads -> Elements \cup {NULL}]
  BY QueueAssumption DEF IInv, TypeOK
<1>2. /\ Len(pushed') = Len(pushed) + 1 /\ pushed'[Len(pushed) + 1] = el[t]
      /\ \A n \in 1..Len(pushed) : pushed'[n] = pushed[n]
      /\ el'[t] = NULL /\ \A u \in Threads \ {t} : el'[u] = el[u]
  BY <1>1 DEF Link
<1>3. \A n \in 1..Len(pushed') : n \in 1..Len(pushed) \/ n = Len(pushed) + 1
  BY <1>1, <1>2
<1> QED BY <1>1, <1>2, <1>3 DEF Once

(* Every step keeps that.                                                  *)
LEMMA NextOnce == IInv /\ Once /\ [Next]_vars => Once'
<1> SUFFICES ASSUME IInv, Once, [Next]_vars PROVE Once'
  OBVIOUS
<1>1. ASSUME NEW t \in Threads, Push(t) \/ TryPush(t) PROVE Once'
  <2>1. el[t] \in Elements
    BY <1>1 DEF IInv, ElOK, Push, TryPush
  <2> QED BY <1>1, <2>1, LinkOnce DEF Push, TryPush
<1>2. ASSUME NEW t \in Threads, TryPushFull(t) PROVE Once'
  BY <1>2 DEF TryPushFull, listVars, Once, IInv, TypeOK
<1>3. ASSUME NEW t \in Threads, NEW o, NEW e \in Elements, CallPush(t, o, e) PROVE Once'
  <2>1. pushed' = pushed /\ el' = [el EXCEPT ![t] = e] /\ e \notin Used
    BY <1>3 DEF CallPush, listVars
  <2> QED BY <2>1 DEF Once, Used, IInv, TypeOK
<1>4. ASSUME NEW t \in Threads, Step(t), ~Push(t), ~TryPush(t), ~TryPushFull(t) PROVE UNCHANGED <<pushed, el>>
  BY <1>4 DEF Step, MutexLock, SpuriousWakeup, Relock, PushWait, PopWait, Wait, PopEnter, Pop, TryPop,
              Take, TryPopEmpty, TryPopNull, MutexUnlock, Signal, SecondUnlock, listVars
<1>5. ASSUME \/ \E t \in Threads, o \in Ops : Call(t, o)
             \/ \E c \in Capacities : SetCapacity(c)
             \/ UNCHANGED vars
      PROVE  UNCHANGED <<pushed, el>>
  BY <1>5 DEF Call, SetCapacity, vars, listVars
<1>6. UNCHANGED <<pushed, el>> => Once'
  BY DEF Once
<1> QED BY <1>1, <1>2, <1>3, <1>4, <1>5, <1>6 DEF Next

(* A new queue has linked nothing.                                         *)
LEMMA InitOnce == Init => Once
BY DEF Init, Once

(* The size never exceeds the number of elements there are.                *)
LEMMA Few ==
    ASSUME IInv, Once, SizeExact, IsFiniteSet(Elements)
    PROVE  /\ Cardinality(Elements) \in Nat
           /\ size <= Cardinality(Elements)
           /\ Owed # {} => size + 1 <= Cardinality(Elements)
<1>1. PICK n \in Nat : n = Len(pushed) /\ pushed \in [1..n -> Elements] /\ Len(out) \in Nat /\ size \in Int
  BY DEF IInv, TypeOK
<1>2. pushed \in Injection(1..n, Elements)
  BY <1>1 DEF Once, Injection, IsInjective
<1>3. Cardinality(1..n) <= Cardinality(Elements)
  BY <1>2, FS_Injection
<1>4. Cardinality(1..n) = n
  BY FS_Interval
<1>5. Cardinality(Elements) \in Nat /\ Cardinality(Owed) \in Nat /\ (Owed # {} => Cardinality(Owed) # 0)
  BY OwedFinite, FS_CardinalityType, FS_EmptySet
<1> QED BY <1>1, <1>3, <1>4, <1>5 DEF SizeExact

-----------------------------------------------------------------------------
(* A queue that never gets full: it is given no positive capacity, as the  *)
(* kernel does unless it is told otherwise, or one for more elements than  *)
(* there are.                                                              *)
Large(c) == c <= 0 \/ (IsFiniteSet(Elements) /\ c > Cardinality(Elements))

NeverFull == \A c \in Capacities \cup {InitialCapacity} : Large(c)

(* The thread in a critical section has the mutex.                         *)
LockOK ==
    /\ Large(capacity)
    /\ \A t \in Threads : /\ sig[t] # "full_queue" /\ pc[t] # "unlock2"
                          /\ pc[t] \in {"enter", "body", "again", "unlock", "crashed"} => lock = t

(* Every step keeps the mutex with the thread that took it.                *)
LEMMA StepLockOK ==
    ASSUME IInv, Once, SizeExact, LockOK, NEW t \in Threads, Step(t)
    PROVE  LockOK'
<1> USE DEF IInv, LockOK, listVars, waitVars, Goto
<1>0. NULL \notin Threads /\ capacity \in Int
  BY QueueAssumption DEF TypeOK
<1>1. CASE MutexLock(t) \/ Relock(t) \/ MutexUnlock(t)
  BY <1>0, <1>1, SMTT(30) DEF MutexLock, Relock, MutexUnlock, TypeOK
<1>2. CASE SpuriousWakeup(t) \/ SecondUnlock(t)
  BY <1>0, <1>2 DEF SpuriousWakeup, SecondUnlock, TypeOK
<1>3. CASE PushWait(t) \/ PopWait(t)
  BY <1>0, <1>3 DEF PushWait, PopWait, Wait, TypeOK
<1>4. CASE TryPushFull(t) \/ TryPopEmpty(t) \/ TryPopNull(t) \/ PopEnter(t)
  BY <1>0, <1>4 DEF TryPushFull, TryPopEmpty, TryPopNull, PopEnter, TypeOK
<1>5. CASE Push(t) \/ TryPush(t)
  BY <1>0, <1>5 DEF Push, TryPush, Link, TypeOK
<1>6. CASE Pop(t) \/ TryPop(t)
  <2>1. PICK n \in Int : Take(t, n) /\ n + 1 = (IF Pop(t) THEN size + 1 ELSE size)
    BY <1>6 DEF Pop, TryPop, TypeOK
  <2>2. ~(capacity > 0 /\ n + 1 = capacity)
    <3>1. Pop(t) => Owed # {}
      BY DEF Pop, Owed
    <3>2. IsFiniteSet(Elements) => n + 1 <= Cardinality(Elements) /\ Cardinality(Elements) \in Nat
      BY <2>1, <3>1, Few
    <3> QED BY <1>0, <3>2 DEF Large
  <2>3. sig' = [sig EXCEPT ![t] = "none"] /\ pc' = [pc EXCEPT ![t] = "unlock"] /\ UNCHANGED <<capacity, lock>>
    BY <2>1, <2>2 DEF Take
  <2>4. pc[t] \in {"body", "again"}
    BY <1>6 DEF Pop, TryPop
  <2> QED BY <2>3, <2>4 DEF TypeOK
<1>7. CASE Signal(t)
  <2>1. CASE pc' = [pc EXCEPT ![t] = IF sig[t] = "full_queue" THEN "unlock2" ELSE "idle"]
    BY <1>7, <2>1 DEF Signal, TypeOK
  <2>2. ASSUME NEW u \in Waiting(sig[t]),
               pc' = [pc EXCEPT ![t] = IF sig[t] = "full_queue" THEN "unlock2" ELSE "idle",
                                ![u] = "woken"]
        PROVE  LockOK'
    <3>1. u \in Threads
      BY <1>7 DEF Waiting, TypeOK
    <3>2. \A v \in Threads : pc'[v] \in {"idle", "woken"} \/ pc'[v] = pc[v]
      BY <2>2, <3>1 DEF TypeOK
    <3> QED BY <1>7, <3>2 DEF Signal
  <2> QED BY <1>7, <2>1, <2>2 DEF Signal
<1> QED BY <1>1, <1>2, <1>3, <1>4, <1>5, <1>6, <1>7 DEF Step

(* A thread inside an operation of such a queue has the mutex, always: the *)
(* moment at which LockedQueue ends never comes, and what the other        *)
(* theorems say of such a queue they say of all that it does.  (When a     *)
(* queue gets full queue_pop and queue_try_pop unlock twice.)              *)
THEOREM MutualExclusionNeverFull ==
    ASSUME NeverFull
    PROVE  Spec => []MutualExclusion
<1>1. Init => LockOK
  BY DEF Init, LockOK, NeverFull
<1>2. IInv /\ Once /\ SizeExact /\ LockOK /\ [Next]_vars => LockOK'
  <2> SUFFICES ASSUME IInv, Once, SizeExact, LockOK, [Next]_vars PROVE LockOK'
    OBVIOUS
  <2>1. ASSUME NEW t \in Threads, NEW o \in Ops, Call(t, o) \/ \E e \in Elements : CallPush(t, o, e)
        PROVE  LockOK'
    BY <2>1 DEF Call, CallPush, Goto, LockOK, listVars, IInv, TypeOK
  <2>2. ASSUME NEW c \in Capacities, SetCapacity(c) PROVE LockOK'
    BY <2>2 DEF SetCapacity, LockOK, NeverFull
  <2>3. CASE UNCHANGED vars
    BY <2>3 DEF vars, listVars, LockOK
  <2> QED BY <2>1, <2>2, <2>3, StepLockOK DEF Next
<1>3. LockOK => MutualExclusion
  BY DEF LockOK, MutualExclusion
<1> QED BY <1>1, <1>2, <1>3, InitIInv, NextIInv, InitOnce, NextOnce, SizeExactAlways, PTL DEF Spec

-----------------------------------------------------------------------------
(* A queue whose capacity is set once more at most, and not below what it  *)
(* was.                                                                    *)
RaisedOnce ==
    /\ InitialCapacity >= 0
    /\ \A c \in Capacities : c >= InitialCapacity /\ \A d \in Capacities : c = d

Bounded ==
    /\ capacity = InitialCapacity \/ capacity \in Capacities
    /\ size <= capacity

(* A push to a queue that is not full keeps the bound.                     *)
LEMMA LinkBounded ==
    ASSUME IInv, Bounded, NEW t, NEW empty, Link(t, empty), size # capacity
    PROVE  Bounded'
<1>1. size' = size + 1 /\ capacity' = capacity /\ size \in Int /\ capacity \in Int
  BY DEF Link, IInv, TypeOK
<1> QED BY <1>1 DEF Bounded

(* Every step keeps the bound.                                             *)
LEMMA StepBounded ==
    ASSUME RaisedOnce, IInv, Bounded, NEW t \in Threads, Step(t)
    PROVE  Bounded'
<1>0. size \in Int /\ capacity \in Int /\ capacity >= 0
  BY QueueAssumption DEF IInv, TypeOK, Bounded, RaisedOnce
<1>1. CASE Push(t) \/ TryPush(t)
  <2>1. size # capacity
    BY <1>0, <1>1 DEF Push, TryPush, Full
  <2> QED BY <1>1, <2>1, LinkBounded DEF Push, TryPush
<1>2. CASE Pop(t) \/ TryPop(t)
  BY <1>0, <1>2 DEF Pop, TryPop, Take, Bounded
<1>3. CASE PopEnter(t)
  BY <1>0, <1>3 DEF PopEnter, Bounded
<1>4. CASE UNCHANGED <<size, capacity>>
  BY <1>4 DEF Bounded
<1> QED BY <1>1, <1>2, <1>3, <1>4 DEF Step, MutexLock, SpuriousWakeup, Relock, PushWait, PopWait,
       Wait, TryPushFull, TryPopEmpty, TryPopNull, MutexUnlock, Signal, SecondUnlock, listVars

(* The bound is inductive when the capacity is only raised.                *)
LEMMA NextBounded == RaisedOnce /\ IInv /\ Bounded /\ [Next]_vars => Bounded'
<1> SUFFICES ASSUME RaisedOnce, IInv, Bounded, [Next]_vars PROVE Bounded'
  OBVIOUS
<1>1. ASSUME NEW c \in Capacities, SetCapacity(c) PROVE Bounded'
  <2>1. size \in Int /\ capacity \in Int /\ c \in Int /\ capacity <= c
    BY QueueAssumption DEF IInv, TypeOK, Bounded, RaisedOnce
  <2> QED BY <1>1, <2>1 DEF SetCapacity, Bounded
<1>2. CASE \/ \E t \in Threads, o \in Ops : Call(t, o) \/ \E e \in Elements : CallPush(t, o, e)
           \/ UNCHANGED vars
  BY <1>2 DEF Call, CallPush, vars, listVars, Bounded
<1> QED BY <1>1, <1>2, StepBounded DEF Next

(* A new queue is within its bound.                                        *)
LEMMA InitBounded == RaisedOnce /\ Init => Bounded
BY QueueAssumption DEF Init, Bounded, RaisedOnce

(* What is in order has no more elements than what it was taken from.      *)
LEMMA WithinShorter ==
    ASSUME NEW S, NEW s \in Seq(S), NEW p \in Seq(S), Within(s, p)
    PROVE  Len(s) <= Len(p)
<1>1. PICK f \in [1..Len(s) -> 1..Len(p)] : \A m, n \in 1..Len(s) : m < n => f[m] < f[n]
  BY DEF Within
<1>2. Len(s) \in Nat /\ Len(p) \in Nat
  OBVIOUS
<1>3. ASSUME NEW m \in 1..Len(s), NEW n \in 1..Len(s), f[m] = f[n] PROVE m = n
  <2>1. f[m] \in 1..Len(p) /\ f[n] \in 1..Len(p) /\ (m < n \/ n < m \/ m = n)
    BY <1>2
  <2> QED BY <1>1, <1>2, <1>3, <2>1
<1>4. f \in Injection(1..Len(s), 1..Len(p))
  BY <1>3 DEF Injection, IsInjective
<1>5. IsFiniteSet(1..Len(p)) /\ Cardinality(1..Len(p)) = Len(p) /\ Cardinality(1..Len(s)) = Len(s)
  <2>1. \A k \in Nat : IsFiniteSet(1..k) /\ Cardinality(1..k) = k
    BY FS_Interval
  <2> QED BY <1>2, <2>1
<1>6. Cardinality(1..Len(s)) <= Cardinality(1..Len(p))
  BY <1>4, <1>5, FS_Injection
<1> QED BY <1>5, <1>6

(* The list has no more elements than were linked and not popped.          *)
LEMMA ListFits ==
    ASSUME IInv, SizeExact, InOrder
    PROVE  Len(list) <= size + Cardinality(Owed)
<1>1. out \in Seq(Elements) /\ list \in Seq(Elements) /\ pushed \in Seq(Elements) /\ size \in Int
  BY DEF IInv, TypeOK
<1>2. /\ out \o list \in Seq(Elements) /\ Len(out \o list) = Len(out) + Len(list)
      /\ Len(out) \in Nat /\ Len(list) \in Nat /\ Len(pushed) \in Nat
  BY <1>1
<1>3. Len(out \o list) <= Len(pushed)
  BY <1>1, <1>2, InOrderWithin, WithinShorter
<1> QED BY <1>1, <1>2, <1>3, OwedFinite DEF SizeExact

(* No more elements are in the list of such a queue than its capacity and  *)
(* one for each consumer blocked in queue_pop, up to a foreign unlock,     *)
(* although producers wait for room outside the mutex (queue_push) and any *)
(* of them, or none, may be woken.                                         *)
THEOREM BoundKeptRaised ==
    ASSUME RaisedOnce
    PROVE  Spec => []BoundKept
<1>1. IInv /\ SizeExact /\ InOrder /\ Bounded => BoundKept
  <2> SUFFICES ASSUME IInv, SizeExact, InOrder, Bounded PROVE BoundKept
    OBVIOUS
  <2>1. size <= capacity /\ size \in Int /\ capacity \in Int /\ Len(list) \in Nat
    BY DEF Bounded, IInv, TypeOK
  <2> QED BY <2>1, ListFits, OwedFinite DEF BoundKept
<1>2. Init => Bounded
  BY InitBounded
<1>3. IInv /\ Bounded /\ [Next]_vars => Bounded'
  BY NextBounded
<1> QED BY <1>1, <1>2, <1>3, InitIInv, NextIInv, SizeExactAlways, InOrderAlways, PTL DEF Spec

-----------------------------------------------------------------------------
(* A queue that is only used by queue_try_push and queue_try_pop.          *)
OnlyTries == Ops \subseteq {"try_push", "try_pop"}

(* Then size counts the list and tail points to its last element.          *)
ListOK ==
    /\ \A t \in Threads : op[t] \in {"none", "try_push", "try_pop"} /\ pc[t] # "enter"
    /\ size = Len(list)
    /\ tail = "last" <=> list # <<>>

(* Every step keeps the list consistent with its size.                     *)
LEMMA StepListOK ==
    ASSUME IInv, ListOK, NEW t \in Threads, Step(t)
    PROVE  ListOK'
<1> USE DEF IInv, ListOK, listVars, waitVars, Goto
<1>1. CASE MutexLock(t) \/ Relock(t) \/ MutexUnlock(t) \/ SpuriousWakeup(t) \/ SecondUnlock(t)
  BY <1>1 DEF MutexLock, Relock, MutexUnlock, SpuriousWakeup, SecondUnlock, TypeOK
<1>2. CASE PushWait(t) \/ PopWait(t) \/ Push(t) \/ Pop(t) \/ PopEnter(t)
  BY <1>2 DEF PushWait, PopWait, Push, Pop, PopEnter
<1>3. CASE TryPushFull(t) \/ TryPopEmpty(t) \/ TryPopNull(t)
  BY <1>3 DEF TryPushFull, TryPopEmpty, TryPopNull, TypeOK
<1>4. CASE Signal(t)
  <2>1. CASE pc' = [pc EXCEPT ![t] = IF sig[t] = "full_queue" THEN "unlock2" ELSE "idle"]
    BY <1>4, <2>1 DEF Signal, TypeOK
  <2>2. ASSUME NEW u \in Waiting(sig[t]),
               pc' = [pc EXCEPT ![t] = IF sig[t] = "full_queue" THEN "unlock2" ELSE "idle",
                                ![u] = "woken"]
        PROVE  ListOK'
    <3>1. u \in Threads
      BY <1>4 DEF Waiting, TypeOK
    <3>2. \A v \in Threads : pc'[v] \in {"idle", "unlock2", "woken"} \/ pc'[v] = pc[v]
      BY <2>2, <3>1 DEF TypeOK
    <3> QED BY <1>4, <3>2 DEF Signal
  <2> QED BY <1>4, <2>1, <2>2 DEF Signal
<1>5. CASE TryPush(t)
  <2>1. list \in Seq(Elements) /\ Len(list) \in Nat /\ (list = <<>> <=> Len(list) = 0)
    BY DEF TypeOK
  <2>2. /\ Len(<<el[t]>>) = 1 /\ <<el[t]>> # <<>>
        /\ Len(Append(list, el[t])) = Len(list) + 1 /\ Append(list, el[t]) # <<>>
    BY <2>1
  <2>3. CASE size <= 0
    BY <1>5, <2>1, <2>2, <2>3 DEF TryPush, Link, TypeOK
  <2>4. CASE ~(size <= 0)
    BY <1>5, <2>1, <2>2, <2>4 DEF TryPush, Link, TypeOK
  <2> QED BY <2>3, <2>4
<1>6. CASE TryPop(t)
  <2>1. list \in Seq(Elements) /\ Len(list) \in Nat /\ list # <<>>
    BY <1>6 DEF TryPop, TypeOK
  <2>2. Len(Tail(list)) = Len(list) - 1 /\ (Tail(list) = <<>> <=> Len(list) = 1)
    <3>1. Tail(list) \in Seq(Elements) /\ Len(Tail(list)) = Len(list) - 1
      BY <2>1
    <3>2. Tail(list) = <<>> <=> Len(Tail(list)) = 0
      BY <3>1, SMTT(30)
    <3> QED BY <2>1, <3>1, <3>2
  <2> QED BY <1>6, <2>1, <2>2 DEF TryPop, Take, TypeOK
<1> QED BY <1>1, <1>2, <1>3, <1>4, <1>5, <1>6 DEF Step

(* Without blocking operations the list is the queue.                      *)
LEMMA NextListOK == OnlyTries /\ IInv /\ ListOK /\ [Next]_vars => ListOK'
<1> SUFFICES ASSUME OnlyTries, IInv, ListOK, [Next]_vars PROVE ListOK'
  OBVIOUS
<1>1. ASSUME NEW t \in Threads, NEW o \in Ops, Call(t, o) \/ \E e \in Elements : CallPush(t, o, e)
      PROVE  ListOK'
  BY <1>1 DEF Call, CallPush, Goto, ListOK, listVars, OnlyTries, IInv, TypeOK
<1>2. CASE (\E c \in Capacities : SetCapacity(c)) \/ UNCHANGED vars
  BY <1>2 DEF SetCapacity, vars, listVars, ListOK
<1> QED BY <1>1, <1>2, StepListOK DEF Next

(* A new list is consistent.                                               *)
LEMMA InitListOK == Init => ListOK
<1> SUFFICES ASSUME Init PROVE ListOK
  OBVIOUS
<1>1. size = 0 /\ list = <<>> /\ Len(<<>>) = 0 /\ tail = "null"
  BY DEF Init
<1>2. \A t \in Threads : op[t] = "none" /\ pc[t] = "idle"
  BY DEF Init
<1> QED BY <1>1, <1>2 DEF ListOK

(* A step of another thread changes where t is only if t waits.            *)
LEMMA OthersStay ==
    ASSUME IInv, NEW t \in Threads, pc[t] = "body", NEW u \in Threads, u # t, Step(u)
    PROVE  pc'[t] = "body"
<1> USE DEF IInv, TypeOK, Goto
<1>1. CASE Signal(u)
  <2>1. CASE \E l : Goto(u, l)
    BY <2>1
  <2>2. ASSUME NEW v \in Waiting(sig[u]), NEW l, pc' = [pc EXCEPT ![u] = l, ![v] = "woken"]
        PROVE  pc'[t] = "body"
    <3>1. pc[v] = "wait"
      BY DEF Waiting, WaitOK
    <3> QED BY <2>2, <3>1
  <2> QED BY <1>1, <2>1, <2>2 DEF Signal
<1>2. CASE ~Signal(u)
  <2>1. \E l : pc' = [pc EXCEPT ![u] = l]
    BY <1>2 DEF Step, MutexLock, SpuriousWakeup, Relock, PushWait, Push, Link, PopWait, Wait,
       TryPushFull, TryPush, PopEnter, Pop, TryPop, Take, TryPopEmpty, TryPopNull, MutexUnlock,
       SecondUnlock
  <2> QED BY <2>1
<1> QED BY <1>1, <1>2

(* queue_try_pop and queue_try_push (queue.c) refuse only when the list is *)
(* really empty, or holds as many elements as the capacity, although they  *)
(* look at the counter: for every queue that only they use, up to a        *)
(* foreign unlock.                                                         *)
THEOREM TryHonestKept ==
    ASSUME OnlyTries
    PROVE  Spec => TryHonest
<1> DEFINE Honest(t) == /\ EmptyAnswer(t) => list = <<>>
                        /\ FullAnswer(t) => capacity >= 0 /\ Len(list) >= capacity
<1>1. ASSUME IInv, ListOK, [Next]_vars, NEW t \in Threads PROVE Honest(t)
  <2> SUFFICES ASSUME pc[t] = "body", pc'[t] = "unlock" PROVE Honest(t)
    BY DEF EmptyAnswer, FullAnswer
  <2>0. /\ list \in Seq(Elements) /\ Len(list) \in Nat /\ (list = <<>> <=> Len(list) = 0)
        /\ out \in Seq(Elements) /\ pushed \in Seq(Elements) /\ size = Len(list)
        /\ op[t] \in {"none", "try_push", "try_pop"} /\ DOMAIN pc = Threads
        /\ capacity \in Int
    <3>1. /\ list \in Seq(Elements) /\ out \in Seq(Elements) /\ pushed \in Seq(Elements)
          /\ DOMAIN pc = Threads /\ capacity \in Int
      BY <1>1 DEF IInv, TypeOK
    <3>2. size = Len(list) /\ op[t] \in {"none", "try_push", "try_pop"}
      BY <1>1 DEF ListOK
    <3> QED BY <3>1, <3>2
  <2>1. PICK u \in Threads : Step(u)
    <3>1. pc' # pc
      OBVIOUS
    <3>2. ~(\E c \in Capacities : SetCapacity(c)) /\ ~UNCHANGED vars
      BY <3>1 DEF SetCapacity, vars
    <3>3. ASSUME NEW u \in Threads, NEW o \in Ops,
                 Call(u, o) \/ \E e \in Elements : CallPush(u, o, e)
          PROVE  FALSE
      <4>1. pc[u] = "idle" /\ pc' = [pc EXCEPT ![u] = "lock"]
        BY <3>3 DEF Call, CallPush, Goto
      <4> QED BY <2>0, <4>1
    <3> QED BY <1>1, <3>2, <3>3 DEF Next
  <2>2. u = t
    BY <1>1, <2>1, OthersStay
  <2>3. TryPopEmpty(t) \/ TryPushFull(t) \/ TryPush(t) \/ TryPop(t)
    <3>1. ~MutexLock(t) /\ ~SpuriousWakeup(t) /\ ~Relock(t) /\ ~PopEnter(t) /\ ~MutexUnlock(t)
          /\ ~Signal(t) /\ ~SecondUnlock(t)
      BY DEF MutexLock, SpuriousWakeup, Relock, PopEnter, MutexUnlock, Signal, SecondUnlock
    <3>2. ~PushWait(t) /\ ~Push(t) /\ ~PopWait(t) /\ ~Pop(t)
      BY <2>0 DEF PushWait, Push, PopWait, Pop
    <3>3. ~TryPopNull(t)
      BY <2>0 DEF TryPopNull
    <3> QED BY <2>1, <2>2, <3>1, <3>2, <3>3 DEF Step
  <2>4. CASE TryPopEmpty(t)
    BY <2>0, <2>4 DEF TryPopEmpty, EmptyAnswer, FullAnswer
  <2>5. CASE TryPushFull(t)
    BY <2>0, <2>5 DEF TryPushFull, EmptyAnswer, FullAnswer
  <2>6. CASE TryPush(t)
    <3>1. pushed' # pushed /\ op[t] = "try_push"
      <4>1. pushed' = Append(pushed, el[t]) /\ el[t] \in Elements /\ op[t] = "try_push"
        BY <1>1, <2>6 DEF TryPush, Link, IInv, ElOK
      <4>2. Len(Append(pushed, el[t])) = Len(pushed) + 1 /\ Len(pushed) \in Nat
        BY <2>0, <4>1
      <4> QED BY <4>1, <4>2
    <3> QED BY <3>1 DEF EmptyAnswer, FullAnswer
  <2>7. CASE TryPop(t)
    <3>1. out' # out /\ op[t] = "try_pop"
      <4>1. out' = Append(out, Head(list)) /\ list # <<>> /\ op[t] = "try_pop"
        BY <2>7 DEF TryPop, Take
      <4>2. Len(Append(out, Head(list))) = Len(out) + 1 /\ Len(out) \in Nat
        BY <2>0, <4>1
      <4> QED BY <4>1, <4>2
    <3> QED BY <3>1 DEF EmptyAnswer, FullAnswer
  <2> QED BY <2>3, <2>4, <2>5, <2>6, <2>7
<1>2. IInv /\ ListOK /\ [Next]_vars
        => [\A t \in Threads :
              /\ EmptyAnswer(t) => list = <<>>
              /\ FullAnswer(t) => capacity >= 0 /\ Len(list) >= capacity]_vars
  <2> SUFFICES ASSUME IInv, ListOK, [Next]_vars
               PROVE  \A t \in Threads : /\ EmptyAnswer(t) => list = <<>>
                                         /\ FullAnswer(t) => capacity >= 0 /\ Len(list) >= capacity
    OBVIOUS
  <2>1. \A t \in Threads : Honest(t)
    BY <1>1
  <2> QED BY <2>1
<1>3. IInv /\ ListOK /\ [Next]_vars => IInv' /\ ListOK'
  BY NextIInv, NextListOK
<1>4. Init => IInv /\ ListOK
  BY InitIInv, InitListOK
<1> QED BY <1>2, <1>3, <1>4, PTL DEF Spec, TryHonest

(* A queue that is never given a capacity, or one for more elements than   *)
(* there are.                                                              *)
Roomy(c) == c < 0 \/ (IsFiniteSet(Elements) /\ c > Cardinality(Elements))

Spacious == \A c \in Capacities \cup {InitialCapacity} : Roomy(c)

(* There is room, or the bound is kept.                                    *)
Fits == (Spacious /\ Roomy(capacity)) \/ (RaisedOnce /\ Bounded)

(* A new queue fits the abstract one.                                      *)
LEMMA InitFits == (Spacious \/ RaisedOnce) /\ Init => Fits
<1>1. Spacious /\ Init => Roomy(capacity)
  BY DEF Spacious, Init
<1> QED BY <1>1, InitBounded DEF Fits

(* The fit is inductive.                                                   *)
LEMMA NextFits == IInv /\ Fits /\ [Next]_vars => Fits'
<1> SUFFICES ASSUME IInv, Fits, [Next]_vars PROVE Fits'
  OBVIOUS
<1>1. CASE RaisedOnce /\ Bounded
  BY <1>1, NextBounded DEF Fits
<1>2. CASE Spacious /\ Roomy(capacity)
  <2>1. Roomy(capacity)'
    <3>1. CASE \E c \in Capacities : SetCapacity(c)
      BY <1>2, <3>1 DEF SetCapacity, Spacious, Roomy
    <3>2. CASE ~ \E c \in Capacities : SetCapacity(c)
      <4>1. UNCHANGED capacity
        BY <3>2 DEF Next, Step, MutexLock, SpuriousWakeup, Relock, PushWait, Push, Link, PopWait,
           Wait, TryPushFull, TryPush, PopEnter, Pop, TryPop, Take, TryPopEmpty, TryPopNull,
           MutexUnlock, Signal, SecondUnlock, Call, CallPush, listVars, vars
      <4> QED BY <1>2, <4>1 DEF Roomy
    <3> QED BY <3>1, <3>2
  <2> QED BY <1>2, <2>1 DEF Fits
<1> QED BY <1>1, <1>2 DEF Fits

(* queue_try_push links an element when there is room, and queue_try_pop   *)
(* takes the first one; every other step leaves the list as it is.         *)
LEMMA TryPushAbstract ==
    ASSUME IInv, Once, SizeExact, ListOK, Fits, NEW t \in Threads, TryPush(t)
    PROVE  Abstract!Push(el[t]) /\ el[t] \in Elements
<1>1. /\ el[t] \in Elements /\ list \in Seq(Elements) /\ size \in Int /\ capacity \in Int
      /\ Len(list) \in Nat /\ (list = <<>> <=> Len(list) = 0)
  BY DEF IInv, TypeOK, ElOK, TryPush
<1>2. capacity < 0 \/ Len(list) < capacity
  <2>1. CASE Roomy(capacity)
    BY <1>1, <2>1, Few DEF Roomy, ListOK, TryPush
  <2>2. CASE Bounded
    BY <1>1, <2>2 DEF Bounded, ListOK, TryPush
  <2> QED BY <2>1, <2>2 DEF Fits
<1>3. list' = Append(list, el[t])
  <2>1. CASE size <= 0
    <3>1. list = <<>> /\ list' = <<el[t]>>
      BY <1>1, <2>1 DEF ListOK, TryPush, Link
    <3>2. <<el[t]>> = Append(<<>>, el[t])
      OBVIOUS
    <3> QED BY <3>1, <3>2
  <2>2. CASE ~(size <= 0)
    BY <1>1, <2>2 DEF ListOK, TryPush, Link
  <2> QED BY <2>1, <2>2
<1>4. pushed' = Append(pushed, el[t]) /\ UNCHANGED <<capacity, out>>
  BY DEF TryPush, Link
<1> QED BY <1>1, <1>2, <1>3, <1>4 DEF Abstract!Push

(* Every step is one of the abstract queue, or none.                       *)
LEMMA NextAbstract ==
    ASSUME IInv, Once, SizeExact, ListOK, Fits, [Next]_vars
    PROVE  [Abstract!Next]_(Abstract!vars)
<1>1. ASSUME NEW t \in Threads, TryPush(t) PROVE Abstract!Next
  BY <1>1, TryPushAbstract DEF Abstract!Next
<1>2. ASSUME NEW t \in Threads, TryPop(t) PROVE Abstract!Next
  BY <1>2 DEF TryPop, Take, Abstract!Next, Abstract!Pop
<1>3. ASSUME NEW c \in Capacities, SetCapacity(c) PROVE Abstract!Next
  BY <1>3 DEF SetCapacity, Abstract!Next, Abstract!SetCapacity
<1>4. ASSUME NEW t \in Threads, Step(t), ~TryPush(t), ~TryPop(t) PROVE UNCHANGED Abstract!vars
  <2>1. ~Push(t) /\ ~Pop(t)
    BY DEF ListOK, Push, Pop
  <2> QED BY <1>4, <2>1 DEF Step, MutexLock, SpuriousWakeup, Relock, PushWait, PopWait, Wait,
        TryPushFull, PopEnter, TryPopEmpty, TryPopNull, MutexUnlock, Signal, SecondUnlock,
        listVars, Abstract!vars
<1>5. CASE \/ \E t \in Threads, o \in Ops : Call(t, o) \/ \E e \in Elements : CallPush(t, o, e)
           \/ UNCHANGED vars
  BY <1>5 DEF Call, CallPush, vars, listVars, Abstract!vars
<1> QED BY <1>1, <1>2, <1>3, <1>4, <1>5 DEF Next

(* Used by queue_try_push and queue_try_pop only, with room for everything *)
(* or with a capacity that is raised once, the queue does what             *)
(* BoundedQueue promises, up to a foreign unlock.                          *)
LEMMA TriesAbstract ==
    ASSUME OnlyTries, Spacious \/ RaisedOnce
    PROVE  Spec => ImplementsQueue
<1>1. Init => Abstract!Init
  BY DEF Init, Abstract!Init
<1>2. Init => IInv /\ Once /\ ListOK /\ Fits
  BY InitIInv, InitOnce, InitListOK, InitFits
<1>3. IInv /\ Once /\ ListOK /\ Fits /\ [Next]_vars => IInv' /\ Once' /\ ListOK' /\ Fits'
  BY NextIInv, NextOnce, NextListOK, NextFits
<1>4. IInv /\ Once /\ SizeExact /\ ListOK /\ Fits /\ [Next]_vars => [Abstract!Next]_(Abstract!vars)
  BY NextAbstract
<1> QED BY <1>1, <1>2, <1>3, <1>4, SizeExactAlways, PTL DEF Spec, ImplementsQueue, Abstract!Spec

(* Used by queue_try_push and queue_try_pop (queue.c) only, with room for  *)
(* everything, the queue keeps what BoundedQueue promises: first in, first *)
(* out, nothing lost or doubled.  The mutex is never unlocked under a      *)
(* thread, so this is all that such a queue does.  (queue_pop breaks it:   *)
(* tail stays on a freed element, see Link.)                               *)
THEOREM QueueKept ==
    ASSUME OnlyTries, Spacious
    PROVE  Spec => ImplementsQueue /\ []MutualExclusion
<1>1. NeverFull
  BY QueueAssumption DEF Spacious, Roomy, NeverFull, Large
<1>2. Spec => ImplementsQueue
  BY TriesAbstract
<1>3. Spec => []MutualExclusion
  BY <1>1, MutualExclusionNeverFull
<1> QED BY <1>2, <1>3

(* So does a queue that gets full, if its capacity is raised once at most, *)
(* up to the moment at which the second unlock of queue_try_pop            *)
(* (queue.c:206-209) releases the mutex under another thread; the bound is *)
(* respected.  Nothing is said of the queue after that.                    *)
THEOREM FullQueueKept ==
    ASSUME OnlyTries, RaisedOnce
    PROVE  Spec => ImplementsQueue
BY TriesAbstract
=============================================================================
