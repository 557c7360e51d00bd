---------------------------- MODULE KernelCounts ----------------------------
(***************************************************************************)
(* Proofs that the counters of a Leda process are exact, for every value   *)
(* of the constants.                                                       *)
(***************************************************************************)
EXTENDS KernelProofs, FiniteSetTheorems

(* The only steps that allocate or free an instance, or change its stage.  *)
LEMMA StageSteps ==
    ASSUME IInv, [Next]_vars
    PROVE  \/ UNCHANGED <<ninst, stage>>
           \/ \E a \in Actors : Others /\ (AquireCreate(a) \/ AquireInitError(a) \/ Destroy(a))
<1> USE DEF queueVars, countVars, instVars, localVars, instanceVars, schedulerVars
<1>1. ASSUME NEW a \in Actors, ThreadStep(a), Frame
      PROVE  \/ UNCHANGED <<ninst, stage>>
             \/ Others /\ (AquireCreate(a) \/ AquireInitError(a) \/ Destroy(a))
  BY <1>1 DEF Frame, Others, ThreadStep, InstanceStep, AquireStep, ReleaseStep, FetchStep, EmmitStep, AquireRecycled, AquireActive, AquireEmpty,
     AquireReadCount, AquireCheckLimit, AquireInitOk, Requeue, ReleaseTakeEvent, ReleaseNoEvent,
     ReleaseInactive, ReleasePark, PeekEvent, WaitEvent, FetchEvent, TakeEvent, EmmitDeliver, EmmitCopyError,
     EmmitPending, EmmitQueueFull, EmmitExtractError, CohortDeliver, CohortRejected, Refuse
<1>2. ASSUME NEW w \in Workers, HandlerStep(w) \/ PopStep(w)
      PROVE  UNCHANGED <<ninst, stage>>
  BY <1>2 DEF HandlerStep, PopStep, Emmit, Cohort, StartEmit, Ended, UnknownStatus, Nice, EventSleep, EventWaitIo,
     EventDoFileAio, Failed, Suspend, SuspendError, BackToReady, PopInstance, PopKill
<1>3. ASSUME EventThreadStep
      PROVE  UNCHANGED <<ninst, stage>>
  BY <1>3 DEF EventThreadStep, IoReady, EmmitPackedEvent, StartEmit
<1>4. ASSUME RunStep \/ ControllerStep, ~MainStep
      PROVE  UNCHANGED <<ninst, stage>>
  BY <1>4 DEF RunStep, ControllerStep, EmmitPendingSend, CallControllerInit, PoolSetMaxpar, ThreadNew, Dispatch, LoopExit, ThreadKill,
     Join, InstanceEnd, EventEnd, ControllerSend, ControllerMaxpar, ControllerSetCapacity, StartEmit, MaxparCapacity, 
     SetReadyCapacity, SetEventCapacity
<1>5. Main \in Actors /\ EventThread \in Actors /\ Workers \subseteq Actors
  BY DEF Actors
<1>6. CASE MainStep
  BY <1>1, <1>5, <1>6 DEF MainStep, MaxparLimit, Frame
<1>7. CASE EventLoopStep
  BY <1>1, <1>3, <1>5, <1>7 DEF EventLoopStep, Frame
<1>8. CASE \E w \in Workers : WorkerStep(w)
  BY <1>1, <1>2, <1>5, <1>8 DEF WorkerStep, Frame
<1>9. CASE UNCHANGED vars
  BY <1>9 DEF vars
<1> QED BY <1>4, <1>6, <1>7, <1>8, <1>9 DEF Next

(* The only step that starts an init chunk, and what an actor that runs    *)
(* one keeps meanwhile.                                                    *)
LEMMA InitSteps ==
    ASSUME IInv, [Next]_vars, NEW x \in Actors, pc'[x] = "init"
    PROVE  AquireCreate(x) \/ (pc[x] = "init" /\ got'[x] = got[x] /\ dst'[x] = dst[x])
<1> USE DEF queueVars, countVars, instVars, localVars, instanceVars, schedulerVars, Goto, Home, Resume
<1>0. /\ pc \in [Actors -> Labels] /\ got \in [Actors -> Inst \cup {NULL}]
      /\ dst \in [Actors -> Stages \cup {NoStage}]
  BY DEF IInv, TypeOK, LocalTypes
<1>1. ASSUME NEW a \in Actors, ThreadStep(a), Frame
      PROVE  AquireCreate(x) \/ (pc[x] = "init" /\ got'[x] = got[x] /\ dst'[x] = dst[x])
  <2>1. CASE AquireCreate(a)
    BY <2>1, <1>0 DEF AquireCreate
  <2>2. CASE ~AquireCreate(a)
    BY <1>0, <1>1, <2>2 DEF ThreadStep, InstanceStep, AquireStep, ReleaseStep, FetchStep, EmmitStep,
       AquireRecycled, AquireActive, AquireEmpty, AquireInitError, Destroy,
       AquireReadCount, AquireCheckLimit, AquireInitOk, Requeue, ReleaseTakeEvent, ReleaseNoEvent,
       ReleaseInactive, ReleasePark, PeekEvent, WaitEvent, FetchEvent, TakeEvent, EmmitDeliver, EmmitCopyError,
       EmmitPending, EmmitQueueFull, EmmitExtractError, CohortDeliver, CohortRejected, Refuse
  <2> QED BY <2>1, <2>2
<1>2. ASSUME NEW w \in Workers, HandlerStep(w) \/ PopStep(w)
      PROVE  pc[x] = "init" /\ got'[x] = got[x] /\ dst'[x] = dst[x]
  BY <1>0, <1>2 DEF HandlerStep, PopStep, Emmit, Cohort, StartEmit, Ended, UnknownStatus, Nice, EventSleep, EventWaitIo,
     EventDoFileAio, Failed, Suspend, SuspendError, BackToReady, PopInstance, PopKill
<1>3. ASSUME EventThreadStep
      PROVE  pc[x] = "init" /\ got'[x] = got[x] /\ dst'[x] = dst[x]
  BY <1>0, <1>3 DEF EventThreadStep, IoReady, EmmitPackedEvent, StartEmit
<1>4. ASSUME RunStep \/ ControllerStep, ~MainStep
      PROVE  pc[x] = "init" /\ got'[x] = got[x] /\ dst'[x] = dst[x]
  BY <1>0, <1>4 DEF RunStep, ControllerStep, EmmitPendingSend, CallControllerInit, PoolSetMaxpar, ThreadNew, Dispatch, LoopExit, ThreadKill,
     Join, InstanceEnd, EventEnd, ControllerSend, ControllerMaxpar, ControllerSetCapacity, StartEmit, MaxparCapacity, 
     SetReadyCapacity, SetEventCapacity
<1>5. Main \in Actors /\ EventThread \in Actors /\ Workers \subseteq Actors
  BY DEF Actors
<1>6. CASE MainStep
  BY <1>0, <1>1, <1>5, <1>6 DEF MainStep, Frame, MaxparLimit
<1>7. CASE EventLoopStep
  BY <1>1, <1>3, <1>5, <1>7 DEF EventLoopStep, Frame
<1>8. CASE \E w \in Workers : WorkerStep(w)
  BY <1>1, <1>2, <1>5, <1>8 DEF WorkerStep, Frame
<1>9. CASE UNCHANGED vars
  BY <1>9 DEF vars
<1> QED BY <1>4, <1>6, <1>7, <1>8, <1>9 DEF Next

-----------------------------------------------------------------------------
(* One more or one fewer element in a finite set.                          *)
LEMMA CountAdd ==
    ASSUME NEW S, IsFiniteSet(S), NEW x, x \notin S, NEW T, T = S \cup {x}
    PROVE  Cardinality(T) = Cardinality(S) + 1 /\ Cardinality(S) \in Nat
BY FS_AddElement, FS_CardinalityType

(* Removing a member takes one off the cardinality.                        *)
LEMMA CountRemove ==
    ASSUME NEW S, IsFiniteSet(S), NEW x \in S, NEW T, T = S \ {x}
    PROVE  Cardinality(T) = Cardinality(S) - 1 /\ Cardinality(S) \in Nat
BY FS_RemoveElement, FS_CardinalityType

(* The instance whose init chunk runs belongs to the stage that will be    *)
(* decremented if the chunk fails.                                         *)
InitStage == \A a \in Actors : pc[a] = "init" => stage[got[a]] = dst[a]

(* The instances of a stage are finitely many.                             *)
LEMMA FiniteStage == ASSUME NEW s PROVE IsFiniteSet({i \in Inst : stage[i] = s})
<1>1. {i \in Inst : stage[i] = s} \in SUBSET Inst
  OBVIOUS
<1> QED BY <1>1, FS_Subset, ConstantsAssumption

(* Nothing frees or takes over the instance while its init chunk runs.     *)
LEMMA NextInitStage ==
    ASSUME IInv, InitStage, [Next]_vars
    PROVE  InitStage'
<1> SUFFICES ASSUME NEW x \in Actors, pc'[x] = "init"
             PROVE  stage'[got'[x]] = dst'[x]
  BY DEF InitStage
<1>0. /\ got \in [Actors -> Inst \cup {NULL}] /\ stage \in [Inst -> Stages \cup {NoStage}]
      /\ cur \in [Actors -> Inst \cup {NULL}] /\ pc \in [Actors -> Labels]
  BY DEF IInv, TypeOK, LocalTypes, InstTypes
<1>1. CASE AquireCreate(x)
  <2>1. PICK i \in Inst : /\ stage' = [stage EXCEPT ![i] = dst[x]]
                          /\ got' = [got EXCEPT ![x] = i] /\ dst' = dst
    BY <1>1 DEF AquireCreate
  <2> QED BY <2>1, <1>0
<1>2. CASE pc[x] = "init" /\ got'[x] = got[x] /\ dst'[x] = dst[x]
  <2>1. got[x] \in Inst /\ stage[got[x]] = dst[x] /\ stage[got[x]] \in Stages
    BY <1>0, <1>2, CarriedStage DEF IInv, Control, PointersOK, InitStage
  <2>2. CASE UNCHANGED stage
    BY <2>1, <2>2, <1>2
  <2>3. ASSUME NEW a \in Actors, Others, AquireCreate(a)  PROVE stage'[got[x]] = stage[got[x]]
    BY <2>1, <2>3, <1>0, ConstantsAssumption DEF AquireCreate
  <2>4. ASSUME NEW a \in Actors, Others, AquireInitError(a)  PROVE stage'[got[x]] = stage[got[x]]
    <3>1. a # x
      BY <1>0, <2>4 DEF AquireInitError, Goto
    <3> QED BY <3>1, <2>1, <2>4, <1>0, ConstantsAssumption DEF AquireInitError, IInv, OneOwner, NoDuplicates
  <2>5. ASSUME NEW a \in Actors, Others, Destroy(a)  PROVE stage'[got[x]] = stage[got[x]]
    BY <2>1, <2>5, <1>0, ConstantsAssumption DEF Destroy, IInv, OneOwner, NoDuplicates
  <2> QED BY <1>2, <2>1, <2>2, <2>3, <2>4, <2>5, StageSteps
<1> QED BY <1>1, <1>2, InitSteps

(* number_of_instances goes up and down with the instances.                *)
LEMMA NextCountExact ==
    ASSUME IInv, InitStage, CountExact, [Next]_vars
    PROVE  CountExact'
<1> DEFINE Of(s) == {i \in Inst : stage[i] = s}
<1>0. /\ got \in [Actors -> Inst \cup {NULL}] /\ stage \in [Inst -> Stages \cup {NoStage}]
      /\ cur \in [Actors -> Inst \cup {NULL}] /\ ninst \in [Stages -> Int]
  BY DEF IInv, TypeOK, LocalTypes, InstTypes, CountTypes
<1>1. ASSUME NEW i \in Inst, NEW s \in Stages, stage[i] = NoStage,
             stage' = [stage EXCEPT ![i] = s], ninst' = [ninst EXCEPT ![s] = @ + 1]
      PROVE  CountExact'
  <2>1. Of(s)' = Of(s) \cup {i} /\ i \notin Of(s)
    BY <1>0, <1>1, ConstantsAssumption
  <2>2. \A t \in Stages : t # s => Of(t)' = Of(t)
    BY <1>0, <1>1, ConstantsAssumption
  <2>3. Cardinality(Of(s)') = Cardinality(Of(s)) + 1
    BY <2>1, FiniteStage, CountAdd
  <2> QED BY <1>0, <1>1, <2>2, <2>3 DEF CountExact
<1>2. ASSUME NEW i \in Inst, NEW s \in Stages, stage[i] = s,
             stage' = [stage EXCEPT ![i] = NoStage], ninst' = [ninst EXCEPT ![s] = @ - 1]
      PROVE  CountExact'
  <2>1. Of(s)' = Of(s) \ {i} /\ i \in Of(s)
    BY <1>0, <1>2, ConstantsAssumption
  <2>2. \A t \in Stages : t # s => Of(t)' = Of(t)
    BY <1>0, <1>2, ConstantsAssumption
  <2>3. Cardinality(Of(s)') = Cardinality(Of(s)) - 1
    BY <2>1, FiniteStage, CountRemove
  <2> QED BY <1>0, <1>2, <2>2, <2>3 DEF CountExact
<1>3. CASE UNCHANGED <<ninst, stage>>
  BY <1>3 DEF CountExact
<1>4. ASSUME NEW a \in Actors, AquireCreate(a)  PROVE CountExact'
  <2>1. dst[a] \in Stages
    BY <1>4 DEF AquireCreate, IInv, Control, EmitOK, EmitLabels
  <2> QED BY <1>1, <1>4, <2>1 DEF AquireCreate
<1>5. ASSUME NEW a \in Actors, AquireInitError(a)  PROVE CountExact'
  <2>1. dst[a] \in Stages /\ got[a] \in Inst /\ stage[got[a]] = dst[a]
    BY <1>0, <1>5 DEF AquireInitError, IInv, Control, EmitOK, EmitLabels, PointersOK, InitStage
  <2> QED BY <1>2, <1>5, <2>1 DEF AquireInitError
<1>6. ASSUME NEW a \in Actors, Destroy(a)  PROVE CountExact'
  <2>1. cur[a] \in Inst
    BY <1>0, <1>6 DEF Destroy, IInv, Control, PointersOK, RunLabels
  <2>2. stage[cur[a]] \in Stages
    BY <2>1, CarriedStage
  <2> QED BY <1>2, <1>6, <2>1, <2>2 DEF Destroy
<1> QED BY <1>3, <1>4, <1>5, <1>6, StageSteps

(* number_of_instances[s] is the number of instances of s that exist, at   *)
(* every moment and whatever threads are in the middle of instance_aquire, *)
(* instance_release or a failed init chunk: the counter that limits the    *)
(* parallelism of a stage never drifts, for any number of stages,          *)
(* instances, events and threads.                                          *)
THEOREM CountExactAlways == Spec => []CountExact
<1>1. Init => InitStage /\ CountExact
  <2> SUFFICES ASSUME Init PROVE InitStage /\ CountExact
    OBVIOUS
  <2> USE DEF Init, SchedulerInit, InstanceInit
  <2>1. InitStage
    BY DEF InitStage
  <2>2. \A s \in Stages : {i \in Inst : stage[i] = s} = {}
    BY ConstantsAssumption
  <2> QED BY <2>1, <2>2, FS_EmptySet DEF CountExact
<1> QED BY <1>1, InitIInv, NextIInv, NextInitStage, NextCountExact, PTL DEF Spec

-----------------------------------------------------------------------------
(* How a step can treat the ready queue and the life of the workers when   *)
(* it neither starts a thread nor asks one to exit nor grants that.        *)
Undisturbed ==
    /\ UNCHANGED <<kills, pool_size>>
    /\ \A w \in Workers : /\ pc'[w] = "unborn" <=> pc[w] = "unborn"
                          /\ pc'[w] = "done" <=> pc[w] = "done"
    /\ \/ UNCHANGED ready
       \/ \E i \in Inst : ready' = Append(ready, i)
       \/ ready # <<>> /\ Head(ready) # NULL /\ ready' = Tail(ready)

(* The steps that touch the number of requests to exit.                    *)
LEMMA PoolSteps ==
    ASSUME IInv, [Next]_vars
    PROVE  Undisturbed \/ ThreadNew \/ ThreadKill \/ \E w \in Workers : PopKill(w) /\ UNCHANGED kills
<1> USE DEF queueVars, countVars, instVars, localVars, instanceVars, schedulerVars, Goto, Home, Resume
<1>0. pc \in [Actors -> Labels] /\ Workers \subseteq Actors /\ Main \notin Workers /\ EventThread \notin Workers
  BY ConstantsAssumption DEF IInv, TypeOK, LocalTypes, Actors
<1>1. ASSUME NEW a \in Actors, ThreadStep(a), Frame
      PROVE  Undisturbed
  <2>1. /\ pc[a] \in {"deliver", "init", "recycled"} => got[a] \in Inst
        /\ pc[a] \in RunLabels => cur[a] \in Inst
        /\ pc[a] = "deliver" /\ how[a] = "cohort" => cur[a] \in Inst
    BY DEF IInv, TypeOK, LocalTypes, Control, PointersOK, EmitOK, EmitLabels, RunLabels
  <2>2. UNCHANGED <<kills, pool_size>> /\ (UNCHANGED ready \/ \E i \in Inst : ready' = Append(ready, i))
    BY <2>1, <1>1 DEF Frame, ThreadStep, InstanceStep, AquireStep, ReleaseStep, FetchStep, EmmitStep,
       AquireRecycled, AquireActive, AquireEmpty, AquireInitError, AquireCreate, Destroy, RunLabels,
       AquireReadCount, AquireCheckLimit, AquireInitOk, Requeue, ReleaseTakeEvent, ReleaseNoEvent,
       ReleaseInactive, ReleasePark, PeekEvent, WaitEvent, FetchEvent, TakeEvent, EmmitDeliver, EmmitCopyError,
       EmmitPending, EmmitQueueFull, EmmitExtractError, CohortDeliver, CohortRejected, Refuse
  <2>3. pc[a] \notin {"unborn", "done"}
        /\ pc'[a] \notin {"unborn", "done"} /\ \A b \in Actors \ {a} : pc'[b] = pc[b]
    <3>1. CASE AquireStep(a)
      BY <1>0, <3>1 DEF AquireStep, AquireRecycled, AquireActive, AquireEmpty, AquireInitError, AquireCreate,
         AquireReadCount, AquireCheckLimit, AquireInitOk
    <3>2. CASE ReleaseStep(a)
      BY <1>0, <3>2 DEF ReleaseStep, Requeue, ReleaseTakeEvent, ReleaseNoEvent, ReleaseInactive, ReleasePark, Destroy
    <3>3. CASE FetchStep(a)
      BY <1>0, <3>3 DEF FetchStep, PeekEvent, WaitEvent, FetchEvent
    <3>4. CASE EmmitStep(a)
      BY <1>0, <3>4 DEF EmmitStep, EmmitDeliver, EmmitCopyError, EmmitPending, EmmitQueueFull,
         EmmitExtractError, CohortDeliver, CohortRejected, Refuse
    <3> QED BY <1>1, <3>1, <3>2, <3>3, <3>4 DEF ThreadStep, InstanceStep
  <2> QED BY <1>0, <2>2, <2>3 DEF Undisturbed
<1>2. ASSUME NEW w \in Workers, Frame, HandlerStep(w) \/ PopInstance(w)
      PROVE  Undisturbed
  BY <1>0, <1>2 DEF HandlerStep, PopStep, Emmit, Cohort, StartEmit, Ended, UnknownStatus, Nice, EventSleep, EventWaitIo,
     EventDoFileAio, Failed, Suspend, SuspendError, BackToReady, PopInstance, Undisturbed, Frame
<1>3. ASSUME EventThreadStep, Frame
      PROVE  Undisturbed
  BY <1>0, <1>3 DEF EventThreadStep, IoReady, EmmitPackedEvent, StartEmit, Undisturbed, Frame
<1>4. ASSUME RunStep \/ ControllerStep, ~MainStep, ~ThreadNew, ~ThreadKill
      PROVE  Undisturbed
  BY <1>0, <1>4 DEF RunStep, ControllerStep, EmmitPendingSend, CallControllerInit, PoolSetMaxpar, Dispatch, LoopExit,
     Join, InstanceEnd, EventEnd, ControllerSend, ControllerMaxpar, ControllerSetCapacity, StartEmit, MaxparCapacity, 
     SetReadyCapacity, SetEventCapacity, Undisturbed
<1>5. Main \in Actors /\ EventThread \in Actors /\ Workers \subseteq Actors
  BY DEF Actors
<1>6. CASE MainStep
  BY <1>0, <1>1, <1>5, <1>6 DEF MainStep, Frame, MaxparLimit, Undisturbed
<1>7. CASE EventLoopStep
  BY <1>1, <1>3, <1>5, <1>7 DEF EventLoopStep, Frame
<1>8. CASE \E w \in Workers : WorkerStep(w)
  BY <1>1, <1>2, <1>5, <1>8 DEF WorkerStep, Frame, PopStep
<1>9. CASE UNCHANGED vars
  BY <1>9 DEF vars, Undisturbed
<1> QED BY <1>4, <1>6, <1>7, <1>8, <1>9 DEF Next

(* Where the NULLs of a queue are, when something is pushed or popped.     *)
Nulls(q) == {n \in 1..Len(q) : q[n] = NULL}

(* The requests to exit in a queue can be counted.                         *)
LEMMA NullsFinite ==
    ASSUME NEW S, NEW q \in Seq(S)
    PROVE  IsFiniteSet(Nulls(q)) /\ Cardinality(Nulls(q)) \in Nat
<1>1. Nulls(q) \in SUBSET (1..Len(q)) /\ Len(q) \in Nat
  BY DEF Nulls
<1>2. IsFiniteSet(1..Len(q))
  BY <1>1, FS_Interval
<1> QED BY <1>1, <1>2, FS_Subset, FS_CardinalityType

(* A push adds one to the requests if it is one.                           *)
LEMMA NullsAppend ==
    ASSUME NEW S, NEW q \in Seq(S), NEW e \in S
    PROVE  Cardinality(Nulls(Append(q, e)))
             = IF e = NULL THEN Cardinality(Nulls(q)) + 1 ELSE Cardinality(Nulls(q))
<1>1. /\ Len(Append(q, e)) = Len(q) + 1 /\ Len(q) \in Nat
      /\ \A n \in 1..Len(q) : Append(q, e)[n] = q[n]
      /\ Append(q, e)[Len(q) + 1] = e
  OBVIOUS
<1>2. CASE e = NULL
  <2>1. Nulls(Append(q, e)) = Nulls(q) \cup {Len(q) + 1} /\ Len(q) + 1 \notin Nulls(q)
    BY <1>1, <1>2 DEF Nulls
  <2> QED BY <1>2, <2>1, NullsFinite, CountAdd
<1>3. CASE e # NULL
  <2>1. Nulls(Append(q, e)) = Nulls(q)
    BY <1>1, <1>3 DEF Nulls
  <2> QED BY <1>3, <2>1
<1> QED BY <1>2, <1>3

(* A pop takes one off the requests if it was one.                         *)
LEMMA NullsTail ==
    ASSUME NEW S, NEW q \in Seq(S), q # <<>>
    PROVE  Cardinality(Nulls(q))
             = IF Head(q) = NULL THEN Cardinality(Nulls(Tail(q))) + 1 ELSE Cardinality(Nulls(Tail(q)))
<1>1. /\ Len(Tail(q)) = Len(q) - 1 /\ Len(q) \in Nat \ {0}
      /\ \A n \in 1..Len(Tail(q)) : Tail(q)[n] = q[n + 1]
      /\ Head(q) = q[1] /\ Tail(q) \in Seq(S)
  OBVIOUS
<1> DEFINE Later == {n \in 2..Len(q) : q[n] = NULL}
<1> DEFINE f == [n \in Nulls(Tail(q)) |-> n + 1]
<1>2. f \in Bijection(Nulls(Tail(q)), Later)
  <2>1. f \in [Nulls(Tail(q)) -> Later]
    BY <1>1 DEF Nulls
  <2>2. \A m, n \in Nulls(Tail(q)) : f[m] = f[n] => m = n
    BY <1>1 DEF Nulls
  <2>3. \A n \in Later : n - 1 \in Nulls(Tail(q)) /\ f[n - 1] = n
    BY <1>1 DEF Nulls
  <2> QED BY <2>1, <2>2, <2>3 DEF Bijection, Injection, Surjection, IsInjective
<1>3. IsFiniteSet(Later) /\ Cardinality(Later) = Cardinality(Nulls(Tail(q)))
  BY <1>1, <1>2, NullsFinite, FS_Bijection DEF ExistsBijection
<1>4. CASE Head(q) = NULL
  <2>1. Nulls(q) = Later \cup {1} /\ 1 \notin Later
    BY <1>1, <1>4 DEF Nulls
  <2> QED BY <1>3, <1>4, <2>1, CountAdd
<1>5. CASE Head(q) # NULL
  <2>1. Nulls(q) = Later
    BY <1>1, <1>5 DEF Nulls
  <2> QED BY <1>3, <1>5, <2>1
<1> QED BY <1>4, <1>5

(* Every request to exit is in the ready queue or was granted.             *)
LEMMA NextKillsMatched ==
    ASSUME IInv, KillsMatched, [Next]_vars
    PROVE  KillsMatched'
<1> DEFINE Gone == {w \in Workers : pc[w] = "done"}
           Live == {w \in Workers : pc[w] \notin {"unborn", "done"}}
<1>0. /\ ready \in Seq(Inst \cup {NULL}) /\ kills \in Nat /\ pool_size \in Int
      /\ pc \in [Actors -> Labels] /\ Workers \subseteq Actors
  BY DEF IInv, TypeOK, LocalTypes, QueueTypes, CountTypes, Actors
<1>1. /\ kills = Cardinality(Nulls(ready)) + Cardinality(Gone)
      /\ pool_size = Cardinality(Live)
  BY DEF KillsMatched, Nulls
<1>2. /\ IsFiniteSet(Gone) /\ IsFiniteSet(Live)
      /\ Cardinality(Gone) \in Nat /\ Cardinality(Live) \in Nat /\ Cardinality(Nulls(ready)) \in Nat
  <2>1. Gone \in SUBSET Workers /\ Live \in SUBSET Workers
    OBVIOUS
  <2> QED BY <1>0, <2>1, FS_Subset, FS_CardinalityType, NullsFinite, ControllerAssumption
<1> SUFFICES /\ kills' = Cardinality(Nulls(ready')) + Cardinality(Gone')
             /\ pool_size' = Cardinality(Live')
  BY DEF KillsMatched, Nulls
<1>3. CASE Undisturbed
  <2>1. Gone' = Gone /\ Live' = Live
    BY <1>3 DEF Undisturbed
  <2>2. Cardinality(Nulls(ready')) = Cardinality(Nulls(ready))
    <3>1. ASSUME NEW i \in Inst, ready' = Append(ready, i)
          PROVE  Cardinality(Nulls(ready')) = Cardinality(Nulls(ready))
      <4>1. i \in Inst \cup {NULL} /\ i # NULL
        BY ConstantsAssumption
      <4> QED BY <1>0, <3>1, <4>1, NullsAppend
    <3>2. ASSUME ready # <<>>, Head(ready) # NULL, ready' = Tail(ready)
          PROVE  Cardinality(Nulls(ready')) = Cardinality(Nulls(ready))
      BY <1>0, <3>2, NullsTail
    <3> QED BY <1>3, <3>1, <3>2 DEF Undisturbed
  <2>3. UNCHANGED <<kills, pool_size>>
    BY <1>3 DEF Undisturbed
  <2> QED BY <1>1, <2>1, <2>2, <2>3
<1>4. CASE ThreadNew
  <2>1. PICK w \in Workers : pc[w] = "unborn" /\ pc' = [pc EXCEPT ![w] = "wait"]
    BY <1>4 DEF ThreadNew, Goto
  <2>2. Gone' = Gone /\ Live' = Live \cup {w} /\ w \notin Live
    BY <1>0, <2>1
  <2>3. Cardinality(Live') = Cardinality(Live) + 1
    BY <1>2, <2>2, CountAdd
  <2>4. kills' = kills /\ ready' = ready /\ pool_size' = pool_size + 1
    BY <1>4 DEF ThreadNew, queueVars
  <2> QED BY <1>1, <2>2, <2>3, <2>4
<1>5. CASE ThreadKill
  <2>1. /\ ready' = Append(ready, NULL) /\ kills' = kills + 1
        /\ UNCHANGED <<pc, pool_size>>
    BY <1>5 DEF ThreadKill, localVars
  <2>2. Cardinality(Nulls(ready')) = Cardinality(Nulls(ready)) + 1
    BY <1>0, <2>1, NullsAppend
  <2> QED BY <1>1, <1>2, <2>1, <2>2
<1>6. ASSUME NEW w \in Workers, PopKill(w), UNCHANGED kills
      PROVE  /\ kills' = Cardinality(Nulls(ready')) + Cardinality(Gone')
             /\ pool_size' = Cardinality(Live')
  <2>1. /\ pc[w] = "wait" /\ pc' = [pc EXCEPT ![w] = "done"] /\ pool_size' = pool_size - 1
        /\ ready # <<>> /\ Head(ready) = NULL /\ ready' = Tail(ready)
    BY <1>6 DEF PopKill, Goto
  <2>2. Gone' = Gone \cup {w} /\ w \notin Gone /\ Live' = Live \ {w} /\ w \in Live
    BY <1>0, <2>1
  <2>3. Cardinality(Gone') = Cardinality(Gone) + 1
    BY <1>2, <2>2, CountAdd
  <2>4. Cardinality(Live') = Cardinality(Live) - 1
    BY <1>2, <2>2, CountRemove
  <2>5. Cardinality(Nulls(ready)) = Cardinality(Nulls(ready')) + 1
    BY <1>0, <2>1, NullsTail
  <2>6. Cardinality(Nulls(ready')) \in Nat
    <3>1. Tail(ready) \in Seq(Inst \cup {NULL})
      BY <1>0, <2>1
    <3> QED BY <2>1, <3>1, NullsFinite
  <2> QED BY <1>1, <1>2, <1>6, <2>1, <2>3, <2>4, <2>5, <2>6
<1> QED BY <1>3, <1>4, <1>5, <1>6, PoolSteps

(* Each NULL the controller's finish pushes is still in the ready queue or *)
(* has stopped exactly one worker, and pool_size is the number of workers  *)
(* that run: however pushes of NULL, pushes of instances and pops are      *)
(* interleaved, no request to exit is lost or taken twice, so finish,      *)
(* which pushes one per worker, stops all of them and no more.             *)
THEOREM KillsMatchedAlways == Spec => []KillsMatched
<1>1. Init => KillsMatched
  <2> SUFFICES ASSUME Init PROVE KillsMatched
    OBVIOUS
  <2>1. /\ {n \in 1..Len(ready) : ready[n] = NULL} = {}
        /\ {w \in Workers : pc[w] = "done"} = {}
        /\ {w \in Workers : pc[w] \notin {"unborn", "done"}} = {}
        /\ kills = 0 /\ pool_size = 0
    BY DEF Init, SchedulerInit, InstanceInit, Actors
  <2>2. /\ Cardinality({n \in 1..Len(ready) : ready[n] = NULL}) = 0
        /\ Cardinality({w \in Workers : pc[w] = "done"}) = 0
        /\ Cardinality({w \in Workers : pc[w] \notin {"unborn", "done"}}) = 0
    BY <2>1, FS_EmptySet, Zenon
  <2> QED BY <2>1, <2>2 DEF KillsMatched
<1> QED BY <1>1, InitIInv, NextIInv, NextKillsMatched, PTL DEF Spec

-----------------------------------------------------------------------------
(* An instance a thread has popped and not yet counted as active, or has   *)
(* already counted as inactive.  A killed event thread may be at either.   *)
Aside(i) == \E x \in Actors : \/ cur[x] = i /\ pc[x] \in {"park", "destroy"}
                              \/ got[x] = i /\ pc[x] \in {"recycled", "killed"}

(* Steps that change no counter and set no instance to work.               *)
Quiet ==
    /\ UNCHANGED <<active, stage, recycle>>
    /\ \A x \in Actors :
         /\ pc[x] \in {"park", "destroy"} => pc'[x] \in {"park", "destroy"} /\ cur'[x] = cur[x]
         /\ pc[x] \in {"recycled", "killed"} => pc'[x] \in {"recycled", "killed"} /\ got'[x] = got[x]

Shift(a) ==
    \/ AquireRecycled(a) \/ AquireActive(a) \/ AquireCreate(a)
    \/ ReleaseInactive(a) \/ ReleasePark(a) \/ Destroy(a)
    \/ AquireInitError(a)
    \/ a \in Workers /\ (UnknownStatus(a) \/ \E status \in Calls : Failed(a, status))

(* A step leaves active alone or moves one instance.                       *)
LEMMA ActiveSteps ==
    ASSUME IInv, [Next]_vars
    PROVE  Quiet \/ \E a \in Actors : Shift(a)
<1> USE DEF queueVars, countVars, instVars, localVars, instanceVars, schedulerVars, Goto, Home, Resume, Quiet
<1>0. /\ pc \in [Actors -> Labels] /\ cur \in [Actors -> Inst \cup {NULL}]
      /\ got \in [Actors -> Inst \cup {NULL}]
      /\ pc[EventThread] \notin {"park", "destroy"} /\ pc[Main] \notin {"park", "destroy"}
      /\ Main \in Actors /\ EventThread \in Actors /\ Workers \subseteq Actors
  BY DEF IInv, TypeOK, LocalTypes, Actors, Control, LabelsOK, EmitLabels
<1>1. ASSUME NEW a \in Actors, ThreadStep(a), ~Shift(a)
      PROVE  Quiet
  <2>1. CASE AquireStep(a)
    BY <1>0, <1>1, <2>1 DEF Shift, AquireStep, AquireEmpty, AquireReadCount, AquireCheckLimit, AquireInitOk
  <2>2. CASE ReleaseStep(a)
    BY <1>0, <1>1, <2>2 DEF Shift, ReleaseStep, Requeue, ReleaseTakeEvent, ReleaseNoEvent
  <2>3. CASE FetchStep(a)
    BY <1>0, <2>3 DEF FetchStep, PeekEvent, WaitEvent, FetchEvent, TakeEvent
  <2>4. CASE EmmitStep(a)
    BY <1>0, <2>4 DEF EmmitStep, EmmitDeliver, EmmitCopyError, EmmitPending, EmmitQueueFull,
         EmmitExtractError, CohortDeliver, CohortRejected, Refuse
  <2> QED BY <1>1, <2>1, <2>2, <2>3, <2>4 DEF ThreadStep, InstanceStep
<1>2. ASSUME NEW w \in Workers, HandlerStep(w) \/ PopStep(w), ~Shift(w)
      PROVE  Quiet
  BY <1>0, <1>2 DEF HandlerStep, PopStep, Emmit, Cohort, StartEmit, Ended, Nice, EventSleep, EventWaitIo,
     EventDoFileAio, Suspend, SuspendError, BackToReady, PopInstance, PopKill, Shift
<1>3. ASSUME EventThreadStep
      PROVE  Quiet
  BY <1>0, <1>3 DEF EventThreadStep, IoReady, EmmitPackedEvent, StartEmit
<1>4. ASSUME RunStep \/ ControllerStep, ~MainStep
      PROVE  Quiet
  BY <1>0, <1>4 DEF RunStep, ControllerStep, EmmitPendingSend, CallControllerInit, PoolSetMaxpar, ThreadNew, Dispatch, LoopExit, ThreadKill,
     Join, InstanceEnd, EventEnd, ControllerSend, ControllerMaxpar, ControllerSetCapacity, StartEmit, MaxparCapacity, 
     SetReadyCapacity, SetEventCapacity
<1>6. CASE MainStep
  BY <1>0, <1>1, <1>6 DEF MainStep, MaxparLimit
<1>7. CASE EventLoopStep
  BY <1>0, <1>1, <1>3, <1>7 DEF EventLoopStep
<1>8. CASE \E w \in Workers : WorkerStep(w)
  BY <1>0, <1>1, <1>2, <1>8 DEF WorkerStep
<1>9. CASE UNCHANGED vars
  BY <1>9 DEF vars
<1> QED BY <1>4, <1>6, <1>7, <1>8, <1>9 DEF Next

(* The instances that are counted as active: those that exist and neither  *)
(* idle in a recycle queue nor are on their way out of it or into it.      *)
Counted(s) == {i \in Inst : stage[i] = s /\ ~InRecycle(i) /\ ~Aside(i)}

CountedCovers == \A s \in Stages : active[s] >= Cardinality(Counted(s))

(* What a step does to the counted instances decides what it must do to    *)
(* the counter.                                                            *)
LEMMA FiniteCounted ==
    ASSUME NEW s
    PROVE  /\ IsFiniteSet(Counted(s)) /\ Cardinality(Counted(s)) \in Nat
           /\ Cardinality(Counted(s)') \in Nat
<1>1. Counted(s) \in SUBSET Inst /\ Counted(s)' \in SUBSET Inst
  BY DEF Counted
<1> QED BY <1>1, FS_Subset, FS_CardinalityType, ConstantsAssumption

(* A smaller set of instances is no larger a number.                       *)
LEMMA CoverLess ==
    ASSUME NEW S \in SUBSET Inst, NEW T \in SUBSET S
    PROVE  Cardinality(S) \in Nat /\ Cardinality(T) \in Nat /\ Cardinality(T) <= Cardinality(S)
BY FS_Subset, FS_CardinalityType, ConstantsAssumption

(* An instance that gets to work is counted.                               *)
LEMMA CoverUp ==
    ASSUME IInv, CountedCovers, NEW s \in Stages, NEW i \in Inst, i \notin Counted(s),
           active' = [active EXCEPT ![s] = @ + 1], Counted(s)' \subseteq Counted(s) \cup {i},
           \A t \in Stages \ {s} : Counted(t)' \subseteq Counted(t)
    PROVE  CountedCovers'
<1>1. active \in [Stages -> Int] /\ \A t : Counted(t) \in SUBSET Inst
  BY DEF IInv, TypeOK, CountTypes, Counted
<1>2. Cardinality(Counted(s) \cup {i}) = Cardinality(Counted(s)) + 1
  BY FiniteCounted, CountAdd
<1>3. Cardinality(Counted(s)') <= Cardinality(Counted(s) \cup {i})
  BY <1>1, CoverLess
<1>4. \A t \in Stages \ {s} : Cardinality(Counted(t)') <= Cardinality(Counted(t))
  BY <1>1, CoverLess
<1>5. \A t : Cardinality(Counted(t)) \in Nat /\ Cardinality(Counted(t)') \in Nat
  BY FiniteCounted
<1> QED BY <1>1, <1>2, <1>3, <1>4, <1>5 DEF CountedCovers

(* An instance that was counted is discounted.                             *)
LEMMA CoverDown ==
    ASSUME IInv, CountedCovers, NEW s \in Stages, NEW i \in Counted(s),
           active' = [active EXCEPT ![s] = @ - 1], Counted(s)' \subseteq Counted(s) \ {i},
           \A t \in Stages \ {s} : Counted(t)' \subseteq Counted(t)
    PROVE  CountedCovers'
<1>1. active \in [Stages -> Int] /\ \A t : Counted(t) \in SUBSET Inst
  BY DEF IInv, TypeOK, CountTypes, Counted
<1>2. Cardinality(Counted(s) \ {i}) = Cardinality(Counted(s)) - 1
  BY FiniteCounted, CountRemove
<1>3. Cardinality(Counted(s)') <= Cardinality(Counted(s) \ {i})
  BY <1>1, CoverLess
<1>4. \A t \in Stages \ {s} : Cardinality(Counted(t)') <= Cardinality(Counted(t))
  BY <1>1, CoverLess
<1>5. \A t : Cardinality(Counted(t)) \in Nat /\ Cardinality(Counted(t)') \in Nat
  BY FiniteCounted
<1> QED BY <1>1, <1>2, <1>3, <1>4, <1>5 DEF CountedCovers

(* Nothing gets to work that was not counted.                              *)
LEMMA CoverSame ==
    ASSUME IInv, CountedCovers, active' = active,
           \A t \in Stages : Counted(t)' \subseteq Counted(t)
    PROVE  CountedCovers'
<1>1. active \in [Stages -> Int] /\ \A t : Counted(t) \in SUBSET Inst
  BY DEF IInv, TypeOK, CountTypes, Counted
<1>2. \A t \in Stages : Cardinality(Counted(t)') <= Cardinality(Counted(t))
  BY <1>1, CoverLess
<1>3. \A t : Cardinality(Counted(t)) \in Nat /\ Cardinality(Counted(t)') \in Nat
  BY FiniteCounted
<1> QED BY <1>1, <1>2, <1>3 DEF CountedCovers

(* An idle instance is in the queue of its own stage.                      *)
RecycledStage == \A s \in Stages, i \in Inst : In(recycle[s], i) => stage[i] = s

(* What instance_release does when it finds no event.                      *)
LEMMA ParkFacts ==
    ASSUME IInv, NEW a \in Actors, ReleasePark(a)
    PROVE  \E i \in Inst, s \in Stages :
             /\ cur[a] = i /\ stage[i] = s /\ pc[a] = "park"
             /\ UNCHANGED <<active, stage>>
             /\ \/ /\ recycle' = [recycle EXCEPT ![s] = Append(@, i)]
                   /\ cur' = [cur EXCEPT ![a] = NULL]
                   /\ pc' = [pc EXCEPT ![a] = Home(a)]
                \/ /\ UNCHANGED <<recycle, cur>>
                   /\ pc' = [pc EXCEPT ![a] = "destroy"]
<1>1. PICK i \in Inst : i = cur[a]
  BY DEF ReleasePark, IInv, TypeOK, LocalTypes, Control, PointersOK, RunLabels
<1>2. stage[i] \in Stages
  BY <1>1, CarriedStage
<1> QED BY <1>1, <1>2 DEF ReleasePark, countVars, instVars, Goto

(* Idle instances stay in the queue of their stage.                        *)
LEMMA NextRecycledStage ==
    ASSUME IInv, RecycledStage, [Next]_vars
    PROVE  RecycledStage'
<1>0. /\ recycle \in [Stages -> Seq(Inst)] /\ stage \in [Inst -> Stages \cup {NoStage}]
      /\ cur \in [Actors -> Inst \cup {NULL}] /\ got \in [Actors -> Inst \cup {NULL}]
  BY DEF IInv, TypeOK, QueueTypes, InstTypes, LocalTypes
<1>1. CASE UNCHANGED <<stage, recycle>>
  BY <1>1 DEF RecycledStage
<1>2. ASSUME NEW i \in Inst, NEW s, ~InRecycle(i), stage' = [stage EXCEPT ![i] = s], UNCHANGED recycle
      PROVE  RecycledStage'
  BY <1>0, <1>2 DEF RecycledStage, InRecycle
<1>3. ASSUME NEW a \in Actors, AquireRecycled(a)  PROVE RecycledStage'
  <2>1. PICK s \in Stages : s = dst[a]
    BY <1>3 DEF IInv, Control, EmitOK, EmitLabels, AquireRecycled
  <2>2. /\ recycle[s] # <<>> /\ recycle' = [recycle EXCEPT ![s] = Tail(recycle[s])] /\ UNCHANGED stage
    BY <1>3, <2>1 DEF AquireRecycled, instVars
  <2>3. \A x \in Inst : In(recycle'[s], x) => In(recycle[s], x)
    BY <1>0, <2>2, InTail
  <2> QED BY <1>0, <2>2, <2>3 DEF RecycledStage
<1>4. ASSUME NEW a \in Actors, ReleasePark(a)  PROVE RecycledStage'
  <2>1. PICK i \in Inst, s \in Stages :
          /\ stage[i] = s /\ UNCHANGED stage
          /\ recycle' = [recycle EXCEPT ![s] = Append(recycle[s], i)] \/ UNCHANGED recycle
    BY <1>4, ParkFacts
  <2>2. CASE recycle' = [recycle EXCEPT ![s] = Append(recycle[s], i)]
    <3>1. \A x \in Inst : In(recycle'[s], x) <=> In(recycle[s], x) \/ x = i
      BY <1>0, <2>2, InAppend
    <3> QED BY <1>0, <2>1, <2>2, <3>1 DEF RecycledStage
  <2> QED BY <1>1, <2>1, <2>2
<1>5. ASSUME NEW a \in Actors, AquireCreate(a)  PROVE RecycledStage'
  BY <1>0, <1>2, <1>5 DEF AquireCreate, queueVars, IInv, OneOwner, OnePlace, Allocated
<1>6. ASSUME NEW a \in Actors, AquireInitError(a)  PROVE RecycledStage'
  <2>1. got[a] \in Inst
    BY <1>0, <1>6 DEF AquireInitError, IInv, Control, PointersOK
  <2> QED BY <1>2, <1>6, <2>1, CarriedStage DEF AquireInitError, queueVars
<1>7. ASSUME NEW a \in Actors, Destroy(a)  PROVE RecycledStage'
  <2>1. cur[a] \in Inst
    BY <1>0, <1>7 DEF Destroy, IInv, Control, PointersOK, RunLabels
  <2> QED BY <1>2, <1>7, <2>1, CarriedStage DEF Destroy, queueVars
<1> QED BY <1>1, <1>3, <1>4, <1>5, <1>6, <1>7, ActiveSteps
        DEF Quiet, Shift, AquireActive, ReleaseInactive, UnknownStatus, Failed, queueVars, instVars

-----------------------------------------------------------------------------
(* An acquired instance is in nobody else's hands.                         *)
LEMMA GotInst ==
    ASSUME IInv, NEW a \in Actors, pc[a] \in {"recycled", "init", "deliver"}
    PROVE  /\ got[a] \in Inst /\ stage[got[a]] \in Stages
           /\ ~InReady(got[a]) /\ ~InRecycle(got[a]) /\ got[a] \notin parked /\ got[a] \notin lost
           /\ \A b \in Actors : cur[b] # got[a] /\ (b # a => got[b] # got[a])
<1>1. got[a] \in Inst
  BY DEF IInv, TypeOK, LocalTypes, Control, PointersOK
<1> QED BY <1>1, CarriedStage, ConstantsAssumption DEF IInv, OneOwner, NoDuplicates

(* An acquired instance belongs to the stage that is to be given the event.*)
GotStage == \A a \in Actors : pc[a] \in {"recycled", "init", "deliver"} => stage[got[a]] = dst[a]

(* How a thread comes by the instance it is about to give an event.        *)
LEMMA DeliverSteps ==
    ASSUME IInv, [Next]_vars, NEW x \in Actors, pc'[x] \in {"recycled", "deliver"}
    PROVE  AquireRecycled(x) \/ (pc[x] \in {"recycled", "init", "deliver"} /\ got'[x] = got[x] /\ dst'[x] = dst[x])
<1> USE DEF queueVars, countVars, instVars, localVars, instanceVars, schedulerVars, Goto, Home, Resume
<1> DEFINE Kept == pc[x] \in {"recycled", "init", "deliver"} /\ got'[x] = got[x] /\ dst'[x] = dst[x]
<1>0. /\ pc \in [Actors -> Labels] /\ got \in [Actors -> Inst \cup {NULL}]
      /\ dst \in [Actors -> Stages \cup {NoStage}]
      /\ Main \in Actors /\ EventThread \in Actors /\ Workers \subseteq Actors
  BY DEF IInv, TypeOK, LocalTypes, Actors
<1>1. ASSUME NEW a \in Actors, ThreadStep(a)
      PROVE  AquireRecycled(x) \/ Kept
  <2>1. CASE AquireRecycled(a)
    BY <1>0, <2>1 DEF AquireRecycled
  <2>2. CASE AquireStep(a) /\ ~AquireRecycled(a)
    BY <1>0, <2>2 DEF AquireStep, AquireActive, AquireEmpty, AquireReadCount, AquireCheckLimit, AquireCreate,
       AquireInitOk, AquireInitError
  <2>3. CASE ReleaseStep(a) \/ FetchStep(a)
    BY <1>0, <2>3 DEF ReleaseStep, FetchStep, Requeue, ReleaseTakeEvent, ReleaseNoEvent, ReleaseInactive, ReleasePark, Destroy,
       PeekEvent, WaitEvent, FetchEvent, TakeEvent
  <2>4. CASE EmmitStep(a)
    BY <1>0, <2>4 DEF EmmitStep, EmmitDeliver, EmmitCopyError, EmmitPending, EmmitQueueFull,
       EmmitExtractError, CohortDeliver, CohortRejected, Refuse
  <2> QED BY <1>1, <2>1, <2>2, <2>3, <2>4 DEF ThreadStep, InstanceStep
<1>2. ASSUME NEW w \in Workers, HandlerStep(w) \/ PopStep(w)
      PROVE  Kept
  BY <1>0, <1>2 DEF HandlerStep, PopStep, Emmit, Cohort, StartEmit, Ended, UnknownStatus, Nice, EventSleep, EventWaitIo,
     EventDoFileAio, Failed, Suspend, SuspendError, BackToReady, PopInstance, PopKill
<1>3. ASSUME EventThreadStep
      PROVE  Kept
  BY <1>0, <1>3 DEF EventThreadStep, IoReady, EmmitPackedEvent, StartEmit
<1>4. ASSUME RunStep \/ ControllerStep, ~MainStep
      PROVE  Kept
  BY <1>0, <1>4 DEF RunStep, ControllerStep, EmmitPendingSend, CallControllerInit, PoolSetMaxpar, ThreadNew, Dispatch, LoopExit, ThreadKill,
     Join, InstanceEnd, EventEnd, ControllerSend, ControllerMaxpar, ControllerSetCapacity, StartEmit, MaxparCapacity,
     SetReadyCapacity, SetEventCapacity
<1>6. CASE MainStep
  BY <1>0, <1>1, <1>6 DEF MainStep, MaxparLimit
<1>7. CASE EventLoopStep
  BY <1>0, <1>1, <1>3, <1>7 DEF EventLoopStep
<1>8. CASE \E w \in Workers : WorkerStep(w)
  BY <1>0, <1>1, <1>2, <1>8 DEF WorkerStep
<1>9. CASE UNCHANGED vars
  BY <1>9 DEF vars
<1> QED BY <1>4, <1>6, <1>7, <1>8, <1>9 DEF Next

(* An instance keeps its stage until it is freed, which happens only to    *)
(* one that a thread has acquired and not yet initialised, or is about to  *)
(* destroy.                                                                *)
LEMMA StageKept ==
    ASSUME IInv, [Next]_vars, NEW i \in Inst, stage[i] # NoStage, stage'[i] # stage[i]
    PROVE  \E a \in Actors : \/ got[a] = i /\ pc[a] = "init" /\ pc'[a] = "nothing"
                             \/ cur[a] = i /\ pc[a] = "destroy"
<1>0. /\ stage \in [Inst -> Stages \cup {NoStage}] /\ pc \in [Actors -> Labels]
  BY DEF IInv, TypeOK, LocalTypes, InstTypes
<1>1. ASSUME NEW a \in Actors, AquireCreate(a)  PROVE FALSE
  BY <1>0, <1>1 DEF AquireCreate
<1> QED BY <1>0, <1>1, StageSteps DEF AquireInitError, Destroy, Goto

(* The thread that acquired an instance keeps it until it hands it over.   *)
LEMMA NextGotStage ==
    ASSUME IInv, RecycledStage, GotStage, [Next]_vars
    PROVE  GotStage'
<1> SUFFICES ASSUME NEW x \in Actors, pc'[x] \in {"recycled", "init", "deliver"}
             PROVE  stage'[got'[x]] = dst'[x]
  BY DEF GotStage
<1>0. /\ got \in [Actors -> Inst \cup {NULL}] /\ stage \in [Inst -> Stages \cup {NoStage}]
      /\ pc \in [Actors -> Labels] /\ NULL \notin Inst /\ NoStage \notin Stages
  BY ConstantsAssumption DEF IInv, TypeOK, LocalTypes, InstTypes
<1>1. CASE AquireCreate(x)
  <2>1. PICK i \in Inst : /\ stage' = [stage EXCEPT ![i] = dst[x]]
                          /\ got' = [got EXCEPT ![x] = i] /\ dst' = dst
    BY <1>1 DEF AquireCreate
  <2> QED BY <2>1, <1>0
<1>2. CASE AquireRecycled(x)
  <2>1. PICK s \in Stages : s = dst[x]
    BY <1>2 DEF IInv, Control, EmitOK, EmitLabels, AquireRecycled
  <2>2. recycle[s] \in Seq(Inst) /\ recycle[s] # <<>> /\ got'[x] = Head(recycle[s])
        /\ dst' = dst /\ stage' = stage
    BY <1>0, <1>2, <2>1 DEF AquireRecycled, IInv, TypeOK, QueueTypes, instVars
  <2>3. Head(recycle[s]) \in Inst /\ In(recycle[s], Head(recycle[s]))
    BY <2>2, InTail
  <2> QED BY <2>1, <2>2, <2>3 DEF RecycledStage
<1>3. CASE pc[x] \in {"recycled", "init", "deliver"} /\ got'[x] = got[x] /\ dst'[x] = dst[x]
  <2>1. got[x] \in Inst /\ stage[got[x]] = dst[x] /\ stage[got[x]] \in Stages
        /\ \A b \in Actors : cur[b] # got[x] /\ (b # x => got[b] # got[x])
    BY <1>3, GotInst DEF GotStage
  <2>2. stage'[got[x]] = stage[got[x]]
    BY <1>0, <1>3, <2>1, StageKept
  <2> QED BY <1>3, <2>1, <2>2
<1> QED BY <1>1, <1>2, <1>3, InitSteps, DeliverSteps

-----------------------------------------------------------------------------
(* What a step does to the instances that stand aside.                     *)
LEMMA CountedMember ==
    ASSUME NEW s, NEW i \in Inst
    PROVE  /\ i \in Counted(s) <=> stage[i] = s /\ ~InRecycle(i) /\ ~Aside(i)
           /\ i \in Counted(s)' <=> stage'[i] = s /\ ~InRecycle(i)' /\ ~Aside(i)'
           /\ Counted(s) \subseteq Inst /\ Counted(s)' \subseteq Inst
BY DEF Counted, Aside

(* A set of counted instances shrinks if nothing new is counted.           *)
LEMMA CountedShrinks ==
    ASSUME NEW s, \A i \in Inst : i \in Counted(s)' => i \in Counted(s)
    PROVE  Counted(s)' \subseteq Counted(s)
BY DEF Counted

(* Every instance that gets to work is counted first.                      *)
LEMMA NextCountedCovers ==
    ASSUME IInv, RecycledStage, GotStage, CountedCovers, [Next]_vars
    PROVE  CountedCovers'
<1>0. /\ recycle \in [Stages -> Seq(Inst)] /\ stage \in [Inst -> Stages \cup {NoStage}]
      /\ cur \in [Actors -> Inst \cup {NULL}] /\ got \in [Actors -> Inst \cup {NULL}]
      /\ pc \in [Actors -> Labels] /\ NULL \notin Inst /\ NoStage \notin Stages
  BY ConstantsAssumption DEF IInv, TypeOK, QueueTypes, InstTypes, LocalTypes
<1>1. CASE Quiet
  <2>1. \A i \in Inst : (InRecycle(i)' <=> InRecycle(i)) /\ (Aside(i) => Aside(i)')
    BY <1>1 DEF Quiet, InRecycle, Aside
  <2>2. ASSUME NEW t \in Stages  PROVE Counted(t)' \subseteq Counted(t)
    <3>1. ASSUME NEW x \in Inst, x \in Counted(t)'  PROVE x \in Counted(t)
      BY <1>1, <2>1, <3>1, CountedMember DEF Quiet
    <3> QED BY <3>1, CountedShrinks
  <2> QED BY <1>1, <2>2, CoverSame DEF Quiet
<1>2. ASSUME NEW a \in Actors, AquireRecycled(a)  PROVE CountedCovers'
  <2>1. PICK s \in Stages : s = dst[a]
    BY <1>2 DEF IInv, Control, EmitOK, EmitLabels, AquireRecycled
  <2>2. PICK i \in Inst : i = Head(recycle[s])
    BY <1>0, <1>2, <2>1 DEF AquireRecycled
  <2>3. /\ recycle[s] # <<>> /\ recycle' = [recycle EXCEPT ![s] = Tail(recycle[s])]
        /\ pc[a] = "aquire" /\ pc' = [pc EXCEPT ![a] = "recycled"]
        /\ got' = [got EXCEPT ![a] = i] /\ UNCHANGED <<stage, cur, active>>
    BY <1>2, <2>1, <2>2 DEF AquireRecycled, countVars, instVars, Goto
  <2>4. \A x \in Inst : In(recycle[s], x) <=> In(recycle'[s], x) \/ x = i
    BY <1>0, <2>2, <2>3, InTail
  <2>5. \A x \in Inst : InRecycle(x) => InRecycle(x)' \/ x = i
    BY <1>0, <2>3, <2>4 DEF InRecycle
  <2>6. Aside(i)'
    BY <1>0, <2>3 DEF Aside
  <2>7. \A x \in Inst : Aside(x) => Aside(x)'
    BY <1>0, <2>3 DEF Aside
  <2>8. ASSUME NEW t \in Stages  PROVE Counted(t)' \subseteq Counted(t)
    <3>1. ASSUME NEW x \in Inst, x \in Counted(t)'  PROVE x \in Counted(t)
      BY <2>3, <2>5, <2>6, <2>7, <3>1, CountedMember
    <3> QED BY <3>1, CountedShrinks
  <2> QED BY <2>3, <2>8, CoverSame
<1>3. ASSUME NEW a \in Actors, AquireActive(a)  PROVE CountedCovers'
  <2>1. PICK i \in Inst : got[a] = i /\ stage[i] = dst[a] /\ stage[i] \in Stages
    BY <1>3, GotInst DEF AquireActive, GotStage
  <2>2. /\ pc[a] = "recycled" /\ pc' = [pc EXCEPT ![a] = "deliver"]
        /\ active' = [active EXCEPT ![stage[i]] = @ + 1] /\ UNCHANGED <<recycle, stage, cur, got>>
    BY <1>3, <2>1 DEF AquireActive, queueVars, instVars, Goto
  <2>3. \A x \in Inst : (InRecycle(x)' <=> InRecycle(x)) /\ (Aside(x) => Aside(x)' \/ x = i)
    BY <1>0, <2>1, <2>2 DEF InRecycle, Aside
  <2>4. Aside(i)
    BY <2>1, <2>2 DEF Aside
  <2>5. i \notin Counted(stage[i])
    BY <2>4, CountedMember
  <2>6. Counted(stage[i])' \subseteq Counted(stage[i]) \cup {i}
    BY <2>2, <2>3, CountedMember
  <2>7. ASSUME NEW t \in Stages \ {stage[i]}  PROVE Counted(t)' \subseteq Counted(t)
    BY <2>2, <2>3, CountedMember
  <2> QED BY <2>1, <2>2, <2>5, <2>6, <2>7, CoverUp
<1>4. ASSUME NEW a \in Actors, AquireCreate(a)  PROVE CountedCovers'
  <2>1. PICK s \in Stages : s = dst[a]
    BY <1>4 DEF IInv, Control, EmitOK, EmitLabels, AquireCreate
  <2>2. PICK i \in Inst : /\ stage[i] = NoStage /\ stage' = [stage EXCEPT ![i] = s]
                          /\ got' = [got EXCEPT ![a] = i]
    BY <1>4, <2>1 DEF AquireCreate
  <2>3. /\ active' = [active EXCEPT ![s] = @ + 1] /\ pc[a] = "create"
        /\ pc' = [pc EXCEPT ![a] = "init"] /\ UNCHANGED <<recycle, cur>>
    BY <1>4, <2>1 DEF AquireCreate, queueVars, Goto
  <2>4. \A x \in Inst : (Aside(x) => Aside(x)') /\ (InRecycle(x)' <=> InRecycle(x))
    BY <1>0, <2>2, <2>3 DEF Aside, InRecycle
  <2>5. i \notin Counted(s)
    BY <1>0, <2>2, CountedMember
  <2>6. Counted(s)' \subseteq Counted(s) \cup {i}
    BY <1>0, <2>2, <2>4, CountedMember
  <2>7. ASSUME NEW t \in Stages \ {s}  PROVE Counted(t)' \subseteq Counted(t)
    BY <1>0, <2>2, <2>4, CountedMember
  <2> QED BY <2>3, <2>5, <2>6, <2>7, CoverUp
<1>5. ASSUME NEW i \in Inst, NEW a \in Actors, cur[a] = i,
             pc[a] \in {"inactive", "run"}, pc'[a] \in {"park", "destroy"},
             \A x \in Actors \ {a} : pc'[x] = pc[x], UNCHANGED <<stage, recycle, cur, got>>,
             active' = active \/ active' = [active EXCEPT ![stage[i]] = @ - 1]
      PROVE  CountedCovers'
  <2>1. stage[i] \in Stages /\ ~InRecycle(i)
    BY <1>5, CarriedStage
  <2>2. ~Aside(i)
    BY <1>0, <1>5 DEF Aside, IInv, OneOwner, NoDuplicates
  <2>3. i \in Counted(stage[i])
    BY <2>1, <2>2, CountedMember
  <2>4. \A x \in Inst : (Aside(x) => Aside(x)') /\ (InRecycle(x)' <=> InRecycle(x))
    BY <1>5 DEF Aside, InRecycle
  <2>5. Aside(i)'
    BY <1>5 DEF Aside
  <2>6. Counted(stage[i])' \subseteq Counted(stage[i]) \ {i}
    BY <1>5, <2>4, <2>5, CountedMember
  <2>7. \A t \in Stages : Counted(t)' \subseteq Counted(t)
    BY <1>5, <2>4, CountedMember
  <2>8. CASE active' = active
    BY <2>7, <2>8, CoverSame
  <2>9. CASE active' = [active EXCEPT ![stage[i]] = @ - 1]
    <3>1. PICK s \in Stages : s = stage[i]
      BY <2>1
    <3>2. i \in Counted(s) /\ Counted(s)' \subseteq Counted(s) \ {i}
      BY <2>3, <2>4, <2>5, <1>5, <3>1, CountedMember
    <3>3. active' = [active EXCEPT ![s] = @ - 1]
      BY <2>9, <3>1
    <3>4. \A t \in Stages \ {s} : Counted(t)' \subseteq Counted(t)
      BY <2>7
    <3> QED BY <3>2, <3>3, <3>4, CoverDown
  <2> QED BY <1>5, <2>8, <2>9
<1>6. ASSUME NEW a \in Actors, ReleaseInactive(a)  PROVE CountedCovers'
  <2>1. PICK i \in Inst : cur[a] = i
    BY <1>0, <1>6 DEF ReleaseInactive, IInv, Control, PointersOK, RunLabels
  <2>2. /\ pc[a] = "inactive" /\ pc' = [pc EXCEPT ![a] = "park"]
        /\ active' = [active EXCEPT ![stage[i]] = @ - 1] /\ UNCHANGED <<recycle, stage, cur, got>>
    BY <1>6, <2>1 DEF ReleaseInactive, queueVars, instVars, Goto
  <2>3. pc'[a] = "park" /\ \A x \in Actors \ {a} : pc'[x] = pc[x]
    BY <1>0, <2>2
  <2> QED BY <1>5, <2>1, <2>2, <2>3
<1>7. ASSUME NEW a \in Actors, ReleasePark(a)  PROVE CountedCovers'
  <2>1. PICK i \in Inst, s \in Stages :
             /\ cur[a] = i /\ stage[i] = s /\ pc[a] = "park"
             /\ UNCHANGED <<active, stage>>
             /\ \/ /\ recycle' = [recycle EXCEPT ![s] = Append(@, i)]
                   /\ cur' = [cur EXCEPT ![a] = NULL]
                   /\ pc' = [pc EXCEPT ![a] = Home(a)]
                \/ /\ UNCHANGED <<recycle, cur>>
                   /\ pc' = [pc EXCEPT ![a] = "destroy"]
    BY <1>7, ParkFacts
  <2>2. got' = got
    BY <1>7 DEF ReleasePark
  <2>3. \A x \in Inst : InRecycle(x) \/ Aside(x) => InRecycle(x)' \/ Aside(x)'
    <3>1. CASE /\ recycle' = [recycle EXCEPT ![s] = Append(@, i)]
               /\ cur' = [cur EXCEPT ![a] = NULL]
               /\ pc' = [pc EXCEPT ![a] = Home(a)]
      <4>1. \A x \in Inst : In(recycle'[s], x) <=> In(recycle[s], x) \/ x = i
        BY <1>0, <3>1, InAppend
      <4>2. \A x \in Inst : InRecycle(x)' <=> InRecycle(x) \/ x = i
        BY <1>0, <3>1, <4>1 DEF InRecycle
      <4>3. \A x \in Inst \ {i} : Aside(x) => Aside(x)'
        BY <1>0, <2>1, <2>2, <3>1 DEF Aside
      <4> QED BY <4>2, <4>3
    <3>2. CASE UNCHANGED <<recycle, cur>> /\ pc' = [pc EXCEPT ![a] = "destroy"]
      BY <1>0, <2>1, <2>2, <3>2 DEF Aside, InRecycle
    <3> QED BY <2>1, <3>1, <3>2
  <2>4. \A t \in Stages : Counted(t)' \subseteq Counted(t)
    BY <2>1, <2>3, CountedMember
  <2> QED BY <2>1, <2>4, CoverSame
<1>8. ASSUME NEW a \in Actors, Destroy(a)  PROVE CountedCovers'
  <2>1. PICK i \in Inst : cur[a] = i
    BY <1>0, <1>8 DEF Destroy, IInv, Control, PointersOK, RunLabels
  <2>2. /\ pc[a] = "destroy" /\ stage' = [stage EXCEPT ![i] = NoStage]
        /\ cur' = [cur EXCEPT ![a] = NULL] /\ pc' = [pc EXCEPT ![a] = Home(a)]
        /\ UNCHANGED <<recycle, active, got>>
    BY <1>8, <2>1 DEF Destroy, Goto, queueVars
  <2>3. \A x \in Inst \ {i} : (Aside(x) => Aside(x)') /\ (InRecycle(x)' <=> InRecycle(x))
    BY <1>0, <2>1, <2>2 DEF Aside, InRecycle
  <2>4. \A t \in Stages : Counted(t)' \subseteq Counted(t)
    BY <1>0, <2>2, <2>3, CountedMember
  <2> QED BY <2>2, <2>4, CoverSame
<1>9. ASSUME NEW a \in Actors, AquireInitError(a)  PROVE CountedCovers'
  <2>1. PICK i \in Inst : got[a] = i
    BY <1>0, <1>9 DEF AquireInitError, IInv, Control, PointersOK
  <2>2. /\ pc[a] = "init" /\ stage' = [stage EXCEPT ![i] = NoStage]
        /\ got' = [got EXCEPT ![a] = NULL]
        /\ pc' = [pc EXCEPT ![a] = "nothing"] /\ UNCHANGED <<recycle, active, cur>>
    BY <1>9, <2>1 DEF AquireInitError, Goto, queueVars
  <2>3. \A x \in Inst : (Aside(x) => Aside(x)') /\ (InRecycle(x)' <=> InRecycle(x))
    BY <1>0, <2>1, <2>2 DEF Aside, InRecycle
  <2>4. \A t \in Stages : Counted(t)' \subseteq Counted(t)
    BY <1>0, <2>2, <2>3, CountedMember
  <2> QED BY <2>2, <2>4, CoverSame
<1>10. ASSUME NEW a \in Workers, UnknownStatus(a) \/ \E status \in Calls : Failed(a, status)
       PROVE  CountedCovers'
  <2>1. a \in Actors
    BY DEF Actors
  <2>2. PICK i \in Inst : cur[a] = i
    BY <1>0, <1>10, <2>1 DEF UnknownStatus, Failed, IInv, Control, PointersOK, RunLabels
  <2>3. /\ pc[a] = "run" /\ pc' = [pc EXCEPT ![a] = "destroy"] /\ UNCHANGED <<recycle, cur, stage, got>>
        /\ active' = active \/ active' = [active EXCEPT ![stage[i]] = @ - 1]
    BY <1>10, <2>2 DEF UnknownStatus, Failed, Goto, queueVars, countVars
  <2>4. pc'[a] = "destroy" /\ \A x \in Actors \ {a} : pc'[x] = pc[x]
    BY <1>0, <2>1, <2>3
  <2> QED BY <1>5, <2>1, <2>2, <2>3, <2>4
<1> QED BY <1>1, <1>2, <1>3, <1>4, <1>6, <1>7, <1>8, <1>9, <1>10, ActiveSteps DEF Shift

(* What is queued, suspended or run by a thread is counted.                *)
LEMMA BusyCounted == IInv /\ CountedCovers => ActiveCovers
<1> SUFFICES ASSUME IInv, CountedCovers, NEW s \in Stages
             PROVE  active[s] >= Cardinality(Busy(s))
  BY DEF ActiveCovers
<1>1. ASSUME NEW i \in Inst, InReady(i) \/ i \in parked  PROVE ~InRecycle(i) /\ ~Aside(i)
  BY <1>1 DEF Aside, IInv, OneOwner, OnePlace, Carried
<1>2. ASSUME NEW i \in Inst, NEW w \in Workers, cur[w] = i, pc[w] \notin {"park", "destroy"}
      PROVE  ~InRecycle(i) /\ ~Aside(i)
  <2>1. w \in Actors
    BY DEF Actors
  <2> QED BY <1>2, <2>1, CarriedStage, ConstantsAssumption DEF Aside, IInv, OneOwner, NoDuplicates
<1>3. Busy(s) \in SUBSET Counted(s) /\ Counted(s) \in SUBSET Inst
  BY <1>1, <1>2 DEF Busy, Counted
<1>4. /\ Cardinality(Counted(s)) \in Nat /\ Cardinality(Busy(s)) \in Nat
      /\ Cardinality(Busy(s)) <= Cardinality(Counted(s))
  BY <1>3, CoverLess
<1> QED BY <1>4 DEF CountedCovers, IInv, TypeOK, CountTypes

(* sstats[s].active is never below the number of instances of s that are   *)
(* queued, suspended or run by a thread: however the increments that       *)
(* instance_aquire makes after its pop and the decrements that             *)
(* instance_release makes before its push interleave, no instance is at    *)
(* work without having been counted.                                       *)
THEOREM ActiveCoversAlways == Spec => []ActiveCovers
<1>1. Init => RecycledStage /\ GotStage /\ CountedCovers
  <2> SUFFICES ASSUME Init PROVE RecycledStage /\ GotStage /\ CountedCovers
    OBVIOUS
  <2> USE DEF Init, SchedulerInit, InstanceInit
  <2>1. RecycledStage /\ GotStage
    BY DEF RecycledStage, GotStage, In
  <2>2. \A s \in Stages : Counted(s) = {}
    BY ConstantsAssumption DEF Counted
  <2>3. \A s \in Stages : Cardinality(Counted(s)) = 0
    BY <2>2, FS_EmptySet, Zenon
  <2> QED BY <2>1, <2>3 DEF CountedCovers
<1> QED BY <1>1, InitIInv, NextIInv, NextRecycledStage, NextGotStage, NextCountedCovers, BusyCounted,
           PTL DEF Spec
=============================================================================
