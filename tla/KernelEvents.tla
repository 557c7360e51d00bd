---------------------------- MODULE KernelEvents ----------------------------
(***************************************************************************)
(* Proofs that a Leda process neither loses nor duplicates an event, and   *)
(* that an instance is idle or has something to do according to where it   *)
(* is, for every value of the constants.                                   *)
(***************************************************************************)
EXTENDS KernelCounts

(* The labels of a thread whose instance has finished its event.           *)
DoneLabels == {"release", "inactive", "park", "destroy"}

(* Idle instances hold no event, and the others at least one.              *)
IdleInst ==
    \A i \in Inst : /\ stage[i] = NoStage \/ InRecycle(i) => held[i] = {}
                    /\ InReady(i) \/ i \in parked => held[i] # {}

IdleLocal ==
    \A a \in Actors : /\ got[a] # NULL => held[got[a]] = {}
                      /\ cur[a] # NULL => (held[cur[a]] = {} <=> pc[a] \in DoneLabels)

Idle == IdleInst /\ IdleLocal

(* Steps that move no instance, except from a thread to nowhere.           *)
Still ==
    /\ UNCHANGED <<stage, held, ready, recycle, parked>>
    /\ \A a \in Actors : /\ got'[a] \in {got[a], NULL} /\ cur'[a] \in {cur[a], NULL}
                         /\ cur'[a] # NULL => (pc'[a] \in DoneLabels <=> pc[a] \in DoneLabels)

(* A step that moves no instance keeps the invariant.                      *)
LEMMA StillIdle == ASSUME Idle, Still PROVE Idle'
BY DEF Idle, Still, IdleInst, IdleLocal, InReady, InRecycle

(* The steps that do move one.                                             *)
Move(a) ==
    \/ AquireRecycled(a) \/ AquireCreate(a) \/ AquireInitError(a) \/ Destroy(a)
    \/ ReleasePark(a) \/ ReleaseTakeEvent(a) \/ Requeue(a)
    \/ EmmitDeliver(a) \/ CohortDeliver(a)
    \/ a \in Workers /\ pc[a] \in {"run", "fetch"} /\ TakeEvent(a) /\ pc' = [pc EXCEPT ![a] = "run"]
    \/ a \in Workers /\ (Ended(a) \/ UnknownStatus(a) \/ \E status \in Calls : Failed(a, status))
    \/ a \in Workers /\ (PopInstance(a) \/ PopKill(a))

(* The ways in which a step moves an instance.                             *)
LEMMA MoveSteps ==
    ASSUME IInv, [Next]_vars
    PROVE  \/ Still
           \/ ThreadKill
           \/ \E a \in Actors : Move(a) /\ UNCHANGED parked
           \/ \E a \in Workers : pc[a] = "run" /\ Suspend(a)
           \/ \E i \in Inst : IoReady(i)
<1> USE DEF queueVars, countVars, instVars, localVars, instanceVars, schedulerVars, Goto, Home, Resume, Still, DoneLabels
<1>0. /\ pc \in [Actors -> Labels] /\ cur \in [Actors -> Inst \cup {NULL}] /\ got \in [Actors -> Inst \cup {NULL}]
      /\ Main \in Actors /\ EventThread \in Actors /\ Workers \subseteq Actors
      /\ pc[EventThread] \notin {"destroy", "release", "inactive", "park"}
  BY DEF IInv, TypeOK, LocalTypes, Actors, Control, LabelsOK, EmitLabels
<1>1. ASSUME NEW a \in Actors, ThreadStep(a), ~Move(a)
      PROVE  Still
  <2>1. CASE AquireStep(a) /\ UNCHANGED parked
    BY <1>0, <1>1, <2>1 DEF Move, AquireStep, AquireActive, AquireEmpty, AquireReadCount, AquireCheckLimit, AquireInitOk
  <2>2. CASE ReleaseStep(a) /\ UNCHANGED parked
    BY <1>0, <1>1, <2>2 DEF Move, ReleaseStep, ReleaseNoEvent, ReleaseInactive
  <2>3. CASE a \in Workers /\ FetchStep(a) /\ UNCHANGED parked
    BY <1>0, <1>1, <2>3 DEF Move, FetchStep, PeekEvent, WaitEvent, FetchEvent
  <2>4. CASE EmmitStep(a)
    BY <1>0, <1>1, <2>4 DEF Move, EmmitStep, EmmitCopyError, EmmitPending, EmmitQueueFull,
         EmmitExtractError, CohortRejected, Refuse
  <2> QED BY <1>1, <2>1, <2>2, <2>3, <2>4 DEF ThreadStep, InstanceStep
<1>2. ASSUME NEW w \in Workers, HandlerStep(w) \/ PopStep(w), ~Move(w)
      PROVE  Still \/ (pc[w] = "run" /\ Suspend(w))
  BY <1>0, <1>2 DEF HandlerStep, PopStep, Emmit, Cohort, StartEmit, Nice, EventSleep, EventWaitIo,
     EventDoFileAio, SuspendError, BackToReady, Move
<1>3. ASSUME EventThreadStep
      PROVE  Still \/ \E i \in Inst : IoReady(i)
  BY <1>0, <1>3 DEF EventThreadStep, EmmitPackedEvent, StartEmit
<1>4. ASSUME RunStep \/ ControllerStep, ~MainStep, ~ThreadKill
      PROVE  Still
  BY <1>0, <1>4 DEF RunStep, ControllerStep, EmmitPendingSend, CallControllerInit, PoolSetMaxpar, ThreadNew, Dispatch, LoopExit,
     Join, InstanceEnd, EventEnd, ControllerSend, ControllerMaxpar, ControllerSetCapacity, StartEmit, MaxparCapacity, 
     SetReadyCapacity, SetEventCapacity
<1>5. ASSUME NEW a \in Actors, ThreadStep(a)
      PROVE  UNCHANGED parked
  BY <1>5 DEF ThreadStep, InstanceStep, EmmitStep, EmmitDeliver, EmmitCopyError, EmmitPending, EmmitQueueFull,
         EmmitExtractError, CohortDeliver, CohortRejected, Refuse
<1>6. CASE MainStep
  BY <1>0, <1>1, <1>5, <1>6 DEF MainStep, MaxparLimit
<1>7. CASE EventLoopStep
  BY <1>0, <1>1, <1>3, <1>5, <1>7 DEF EventLoopStep
<1>8. CASE \E w \in Workers : WorkerStep(w)
  <2>1. PICK w \in Workers : WorkerStep(w)
    BY <1>8
  <2>2. UNCHANGED parked \/ (pc[w] = "run" /\ Suspend(w))
    BY <1>0, <1>5, <2>1 DEF WorkerStep, HandlerStep, PopStep, Emmit, Cohort, StartEmit, Ended, UnknownStatus,
       Failed, Nice, EventSleep, EventWaitIo, EventDoFileAio, SuspendError, BackToReady, PopInstance, PopKill
  <2> QED BY <1>0, <1>1, <1>2, <2>1, <2>2 DEF WorkerStep
<1>9. CASE UNCHANGED vars
  BY <1>9 DEF vars
<1> QED BY <1>4, <1>6, <1>7, <1>8, <1>9 DEF Next

(* What the ready queue lists after a push or a pop.                       *)
LEMMA ReadyAppend ==
    ASSUME IInv, NEW i \in Inst \cup {NULL}, ready' = Append(ready, i)
    PROVE  \A x \in Inst : InReady(x)' <=> InReady(x) \/ x = i
BY InAppend DEF InReady, IInv, TypeOK, QueueTypes

(* A pop takes one instance out of the ready queue.                        *)
LEMMA ReadyTail ==
    ASSUME IInv, ready # <<>>, ready' = Tail(ready)
    PROVE  \A x \in Inst : InReady(x) <=> InReady(x)' \/ x = Head(ready)
BY InTail DEF InReady, IInv, TypeOK, QueueTypes

(* Which instance a thread at a given label carries.                       *)
LEMMA CurInst ==
    ASSUME IInv, NEW a \in Actors, pc[a] \in RunLabels \/ (a \in Workers /\ pc[a] \in EmitLabels)
    PROVE  /\ cur[a] \in Inst /\ stage[cur[a]] \in Stages
           /\ ~InReady(cur[a]) /\ ~InRecycle(cur[a]) /\ cur[a] \notin parked /\ cur[a] \notin lost
           /\ \A b \in Actors : got[b] # cur[a] /\ (b # a => cur[b] # cur[a])
<1>1. cur[a] \in Inst
  BY DEF IInv, TypeOK, LocalTypes, Control, PointersOK, RunLabels, EmitLabels
<1> QED BY <1>1, CarriedStage, ConstantsAssumption DEF IInv, OneOwner, NoDuplicates

(* Every instance that moves has, or has not, an event as its new place    *)
(* requires.                                                               *)
LEMMA NextIdle ==
    ASSUME IInv, Idle, [Next]_vars
    PROVE  Idle'
<1> USE DEF Idle, IdleInst, IdleLocal, DoneLabels, queueVars, countVars, instVars, Goto
<1>0. /\ stage \in [Inst -> Stages \cup {NoStage}] /\ held \in [Inst -> SUBSET Events]
      /\ cur \in [Actors -> Inst \cup {NULL}] /\ got \in [Actors -> Inst \cup {NULL}]
      /\ pc \in [Actors -> Labels] /\ NULL \notin Inst /\ NoStage \notin Stages
      /\ EventThread \in Actors /\ Workers \subseteq Actors
  BY ConstantsAssumption DEF IInv, TypeOK, QueueTypes, InstTypes, LocalTypes, Actors
<1>r. recycle' = recycle => \A x \in Inst : InRecycle(x)' <=> InRecycle(x)
  BY DEF InRecycle
<1>q. ready' = ready => \A x \in Inst : InReady(x)' <=> InReady(x)
  BY DEF InReady
<1>1. ASSUME NEW a \in Actors, AquireRecycled(a), UNCHANGED parked  PROVE Idle'
  <2>1. PICK s \in Stages : s = dst[a]
    BY <1>1 DEF IInv, Control, EmitOK, EmitLabels, AquireRecycled
  <2>2. recycle \in [Stages -> Seq(Inst)] /\ recycle[s] # <<>>
        /\ recycle' = [recycle EXCEPT ![s] = Tail(recycle[s])] /\ got' = [got EXCEPT ![a] = Head(recycle[s])]
    BY <1>1, <2>1 DEF AquireRecycled, IInv, TypeOK, QueueTypes
  <2>3. PICK i \in Inst : i = Head(recycle[s])
    BY <2>2
  <2>4. \A x \in Inst : In(recycle[s], x) <=> In(recycle'[s], x) \/ x = i
    BY <2>2, <2>3, InTail
  <2>5. InRecycle(i) /\ \A x \in Inst : InRecycle(x)' => InRecycle(x)
    BY <2>2, <2>4 DEF InRecycle
  <2> QED BY <1>0, <1>1, <1>q, <2>2, <2>3, <2>5 DEF AquireRecycled
<1>2. ASSUME NEW a \in Actors, AquireCreate(a), UNCHANGED parked  PROVE Idle'
  BY <1>0, <1>2, <1>q, <1>r DEF AquireCreate
<1>3. ASSUME NEW a \in Actors, AquireInitError(a), UNCHANGED parked  PROVE Idle'
  BY <1>0, <1>3, <1>q, <1>r, GotInst DEF AquireInitError
<1>4. ASSUME NEW a \in Actors, Destroy(a), UNCHANGED parked  PROVE Idle'
  BY <1>0, <1>4, <1>q, <1>r, CurInst DEF Destroy, RunLabels, Home
<1>5. ASSUME NEW a \in Actors, ReleasePark(a), UNCHANGED parked  PROVE Idle'
  <2>1. PICK i \in Inst, s \in Stages :
             /\ cur[a] = i /\ stage[i] = s /\ pc[a] = "park" /\ UNCHANGED stage
             /\ \/ /\ recycle' = [recycle EXCEPT ![s] = Append(recycle[s], i)]
                   /\ cur' = [cur EXCEPT ![a] = NULL]
                   /\ pc' = [pc EXCEPT ![a] = Home(a)]
                \/ /\ UNCHANGED <<recycle, cur>>
                   /\ pc' = [pc EXCEPT ![a] = "destroy"]
    BY <1>5, ParkFacts
  <2>2. \A x \in Inst : InRecycle(x)' => InRecycle(x) \/ x = i
    <3>1. recycle \in [Stages -> Seq(Inst)]
      BY DEF IInv, TypeOK, QueueTypes
    <3>2. CASE recycle' = [recycle EXCEPT ![s] = Append(recycle[s], i)]
      <4>1. \A x \in Inst : In(recycle'[s], x) <=> In(recycle[s], x) \/ x = i
        BY <3>1, <3>2, InAppend
      <4> QED BY <3>1, <3>2, <4>1 DEF InRecycle
    <3> QED BY <1>r, <2>1, <3>2
  <2>3. UNCHANGED <<held, ready, got>>
    BY <1>5 DEF ReleasePark
  <2> QED BY <1>0, <1>5, <1>q, <2>1, <2>2, <2>3 DEF Home
<1>6. ASSUME NEW a \in Actors, ReleaseTakeEvent(a), UNCHANGED parked  PROVE Idle'
  <2>1. /\ pc[a] = "release" /\ pc' = [pc EXCEPT ![a] = "requeue"]
        /\ \E e : held' = [held EXCEPT ![cur[a]] = {e}]
        /\ UNCHANGED <<ready, recycle, stage, cur, got>>
    BY <1>6 DEF ReleaseTakeEvent
  <2> QED BY <1>0, <1>6, <1>q, <1>r, <2>1, CurInst DEF RunLabels
<1>7. ASSUME NEW a \in Actors, Requeue(a), UNCHANGED parked  PROVE Idle'
  <2>1. /\ pc[a] = "requeue" /\ pc' = [pc EXCEPT ![a] = Home(a)] /\ ready' = Append(ready, cur[a])
        /\ cur' = [cur EXCEPT ![a] = NULL]
        /\ UNCHANGED <<recycle, stage, held, got>> /\ cur[a] \in Inst
    BY <1>7, CurInst DEF Requeue, RunLabels
  <2> QED BY <1>0, <1>7, <1>r, <2>1, ReadyAppend DEF Home
<1>8. ASSUME NEW a \in Actors, EmmitDeliver(a), UNCHANGED parked  PROVE Idle'
  <2>1. /\ pc[a] = "deliver" /\ pc' = [pc EXCEPT ![a] = Resume(a)] /\ ready' = Append(ready, got[a])
        /\ held' = [held EXCEPT ![got[a]] = {msg[a]}] /\ got' = [got EXCEPT ![a] = NULL]
        /\ UNCHANGED <<recycle, stage, cur>>
    BY <1>8 DEF EmmitDeliver
  <2>2. got[a] \in Inst
    BY <2>1, GotInst
  <2>3. \A x \in Inst : InReady(x)' <=> InReady(x) \/ x = got[a]
    BY <2>1, <2>2, ReadyAppend
  <2>4. IdleInst'
    <3>1. ~InRecycle(got[a]) /\ stage[got[a]] # NoStage
      BY <1>0, <2>1, GotInst
    <3>2. ASSUME NEW x \in Inst, x # got[a]  PROVE held'[x] = held[x]
      BY <1>0, <2>1, <2>2, <3>2
    <3>3. held'[got[a]] # {}
      BY <1>0, <2>1, <2>2
    <3>4. UNCHANGED <<parked, stage, recycle>>
      BY <1>8, <2>1
    <3> QED BY <1>r, <2>3, <3>1, <3>2, <3>3, <3>4
  <2>5. IdleLocal'
    BY <1>0, <2>1, <2>2, GotInst DEF Resume
  <2> QED BY <2>4, <2>5
<1>9. ASSUME NEW a \in Actors, CohortDeliver(a), UNCHANGED parked  PROVE Idle'
  <2>1. /\ pc[a] = "deliver" /\ pc' = [pc EXCEPT ![a] = "run"] /\ ready' = Append(ready, cur[a])
        /\ held' = [held EXCEPT ![got[a]] = {msg[a]}] /\ got' = [got EXCEPT ![a] = NULL]
        /\ cur' = [cur EXCEPT ![a] = got[a]] /\ UNCHANGED <<recycle, stage>>
        /\ a \in Workers
    BY <1>9 DEF CohortDeliver, IInv, Control, EmitOK, EmitLabels
  <2>2. got[a] \in Inst /\ cur[a] \in Inst /\ got[a] # cur[a]
    BY <2>1, GotInst, CurInst DEF EmitLabels
  <2>3. \A x \in Inst : InReady(x)' <=> InReady(x) \/ x = cur[a]
    BY <2>1, <2>2, ReadyAppend
  <2>4. held[cur[a]] # {}
    BY <1>0, <2>1, <2>2
  <2>5. IdleInst'
    BY <1>0, <1>9, <1>r, <2>1, <2>2, <2>3, <2>4, GotInst
  <2>6. IdleLocal'
    BY <1>0, <2>1, <2>2, GotInst, ZenonT(60)
  <2> QED BY <2>5, <2>6
<1>10. ASSUME NEW a \in Workers, pc[a] \in {"run", "fetch"}, TakeEvent(a), 
              pc' = [pc EXCEPT ![a] = "run"], UNCHANGED parked  PROVE Idle'
  <2>1. /\ \E e : held' = [held EXCEPT ![cur[a]] = @ \cup {e}]
        /\ UNCHANGED <<ready, recycle, stage, cur, got>>
    BY <1>10 DEF TakeEvent
  <2>2. a \in Actors
    BY <1>0
  <2> QED BY <1>0, <1>10, <1>q, <1>r, <2>1, <2>2, CurInst DEF RunLabels
<1>11. ASSUME NEW a \in Workers, UNCHANGED parked,
              Ended(a) \/ UnknownStatus(a) \/ \E status \in Calls : Failed(a, status)
       PROVE  Idle'
  <2>1. /\ pc[a] = "run" /\ held' = [held EXCEPT ![cur[a]] = {}]
        /\ pc' = [pc EXCEPT ![a] = "release"] \/ pc' = [pc EXCEPT ![a] = "destroy"]
        /\ UNCHANGED <<ready, recycle, stage, cur, got>>
    BY <1>11 DEF Ended, UnknownStatus, Failed, Settle
  <2>2. a \in Actors
    BY <1>0
  <2> QED BY <1>0, <1>11, <1>q, <1>r, <2>1, <2>2, CurInst DEF RunLabels
<1>12. ASSUME NEW a \in Workers, PopInstance(a) \/ PopKill(a), UNCHANGED parked  PROVE Idle'
  <2>1. /\ ready # <<>> /\ ready' = Tail(ready) /\ pc[a] = "wait"
        /\ UNCHANGED <<recycle, stage, held, got>>
        /\ \/ Head(ready) # NULL /\ cur' = [cur EXCEPT ![a] = Head(ready)] /\ pc' = [pc EXCEPT ![a] = "run"]
           \/ UNCHANGED cur /\ pc' = [pc EXCEPT ![a] = "done"]
    BY <1>12 DEF PopInstance, PopKill
  <2>2. Head(ready) \in Inst \cup {NULL}
    BY <2>1 DEF IInv, TypeOK, QueueTypes
  <2>3. \A x \in Inst : InReady(x) <=> InReady(x)' \/ x = Head(ready)
    BY <2>1, ReadyTail
  <2> QED BY <1>0, <1>12, <1>r, <2>1, <2>2, <2>3
<1>13. ASSUME NEW a \in Workers, pc[a] = "run", Suspend(a)  PROVE Idle'
  <2>1. a \in Actors
    BY <1>0
  <2> QED BY <1>0, <1>13, <1>q, <1>r, <2>1, CurInst DEF Suspend, RunLabels
<1>14. ASSUME NEW i \in Inst, IoReady(i)  PROVE Idle'
  BY <1>0, <1>14, <1>q, <1>r DEF IoReady
<1>15. CASE ThreadKill
  <2>1. ready' = Append(ready, NULL) /\ UNCHANGED <<recycle, stage, held, got, cur, pc, parked>>
    BY <1>15 DEF ThreadKill, localVars
  <2> QED BY <1>0, <1>r, <2>1, ReadyAppend
<1>16. ASSUME NEW a \in Actors, Move(a), UNCHANGED parked  PROVE Idle'
  BY <1>1, <1>2, <1>3, <1>4, <1>5, <1>6, <1>7, <1>8, <1>9, <1>10, <1>11, <1>12, <1>16 DEF Move
<1> QED BY <1>13, <1>14, <1>15, <1>16, StillIdle, MoveSteps

(* An instance in the recycle queue of a stage belongs to that stage and   *)
(* holds no event, and one in the ready queue or registered with libevent  *)
(* holds one: whatever the interleaving of emmit, instance_release, the    *)
(* handlers and the event thread, no worker resumes a handler without      *)
(* arguments and no instance is reused while it has something to do.       *)
THEOREM IdleOrBusyAlways == Spec => []IdleOrBusy
<1>1. Init => RecycledStage /\ Idle
  <2> SUFFICES ASSUME Init PROVE RecycledStage /\ Idle
    OBVIOUS
  <2> USE DEF Init, SchedulerInit, InstanceInit
  <2>1. RecycledStage
    BY DEF RecycledStage, In
  <2>2. IdleInst /\ IdleLocal
    BY DEF IdleInst, IdleLocal, InReady, In
  <2> QED BY <2>1, <2>2 DEF Idle
<1>2. IInv /\ RecycledStage /\ Idle => IdleOrBusy
  <2> SUFFICES ASSUME IInv, RecycledStage, Idle PROVE IdleOrBusy
    OBVIOUS
  <2>1. ASSUME NEW s \in Stages, NEW n \in 1..Len(recycle[s])
        PROVE  stage[recycle[s][n]] = s /\ held[recycle[s][n]] = {}
    <3>1. recycle[s][n] \in Inst /\ In(recycle[s], recycle[s][n])
      BY DEF IInv, TypeOK, QueueTypes, In
    <3> QED BY <3>1 DEF RecycledStage, Idle, IdleInst, InRecycle
  <2> QED BY <2>1 DEF IdleOrBusy, Idle, IdleInst
<1> QED BY <1>1, <1>2, InitIInv, NextIInv, NextRecycledStage, NextIdle, PTL DEF Spec

-----------------------------------------------------------------------------
(* The places an event can be in.                                          *)
Queued(e)  == \E s \in Stages : In(evq[s], e)
Held(e)    == \E i \in Inst : e \in held[i]
Sending(e) == \E a \in Actors : msg[a] = e

Distinct(q) == \A m, n \in 1..Len(q) : q[m] = q[n] => m = n

(* No queue, instance or thread lists an event twice ...                   *)
EventSingle ==
    /\ \A s \in Stages : Distinct(evq[s])
    /\ \A s, t \in Stages, e \in Events : In(evq[s], e) /\ In(evq[t], e) => s = t
    /\ \A i, j \in Inst, e \in Events : e \in held[i] /\ e \in held[j] => i = j
    /\ \A a, b \in Actors : msg[a] = msg[b] /\ msg[a] # NoEvent => a = b

(* ... the places exclude each other, and only what was sent is in one.    *)
EventPlace ==
    \A e \in Events : /\ Queued(e) => ~Held(e) /\ ~Sending(e)
                      /\ Held(e) => ~Sending(e)
                      /\ Queued(e) \/ Held(e) \/ Sending(e) <=> fate[e] = "sent"

(* A thread has an event in hand only inside emmit.                        *)
MsgLocal == \A a \in Actors : pc[a] \notin EmitLabels \cup {"killed"} => msg[a] = NoEvent

(* What a step can do to events: one is emitted by a thread to a stage,    *)
(* given to an instance of that stage, pushed to its pending queue or      *)
(* refused, or an instance takes one from the pending queue of its stage   *)
(* or is finished with the ones it has.                                    *)
Emits(a, e) ==
    /\ fate[e] = "new" /\ msg[a] = NoEvent /\ dst'[a] \in Stages
    /\ fate' = [fate EXCEPT ![e] = "sent"] /\ msg' = [msg EXCEPT ![a] = e]
    /\ UNCHANGED <<evq, held>>
Delivers(a, i) ==
    /\ msg[a] \in Events /\ held[i] = {} /\ stage[i] = dst[a] /\ dst[a] \in Stages
    /\ held' = [held EXCEPT ![i] = {msg[a]}] /\ msg' = [msg EXCEPT ![a] = NoEvent]
    /\ UNCHANGED <<evq, fate>>
Pushes(a, s) ==
    /\ msg[a] \in Events /\ s = dst[a]
    /\ evq' = [evq EXCEPT ![s] = Append(@, msg[a])] /\ msg' = [msg EXCEPT ![a] = NoEvent]
    /\ UNCHANGED <<held, fate>>
Refuses(a) ==
    /\ msg[a] \in Events /\ dst[a] \in Stages
    /\ fate' = [fate EXCEPT ![msg[a]] = "rejected"] /\ msg' = [msg EXCEPT ![a] = NoEvent]
    /\ UNCHANGED <<evq, held>>
Takes(i, s) ==
    /\ evq[s] # <<>> /\ stage[i] = s
    /\ held' = [held EXCEPT ![i] = @ \cup {Head(evq[s])}] /\ evq' = [evq EXCEPT ![s] = Tail(@)]
    /\ UNCHANGED <<msg, fate>>
Finishes(i) ==
    /\ stage[i] \in Stages
    /\ \E f \in {"done", "failed"} : fate' = [e \in Events |-> IF e \in held[i] THEN f ELSE fate[e]]
    /\ held' = [held EXCEPT ![i] = {}]
    /\ UNCHANGED <<msg, evq>>

EventMove ==
    \/ UNCHANGED <<evq, held, msg, fate>>
    \/ \E a \in Actors, e \in Events : Emits(a, e)
    \/ \E a \in Actors, i \in Inst : Delivers(a, i)
    \/ \E a \in Actors, s \in Stages : Pushes(a, s)
    \/ \E a \in Actors : Refuses(a)
    \/ \E i \in Inst, s \in Stages : Takes(i, s)
    \/ \E i \in Inst : Finishes(i)

(* A step moves at most one event.                                         *)
LEMMA EventMoves ==
    ASSUME IInv, GotStage, Idle, MsgLocal, [Next]_vars
    PROVE  EventMove
<1> USE DEF queueVars, countVars, instVars, localVars, instanceVars, schedulerVars, EventMove
<1>0. /\ Main \in Actors /\ EventThread \in Actors /\ Workers \subseteq Actors
      /\ \A a \in Actors : pc[a] \in EmitLabels => msg[a] \in Events /\ dst[a] \in Stages
      /\ \A a \in Actors : pc[a] = "deliver" => got[a] \in Inst /\ held[got[a]] = {} /\ stage[got[a]] = dst[a]
      /\ \A a \in Actors : pc[a] \in RunLabels => cur[a] \in Inst /\ stage[cur[a]] \in Stages
      /\ \A a \in Actors : pc[a] = "release" => held[cur[a]] = {}
      /\ held \in [Inst -> SUBSET Events] /\ NULL \notin Inst /\ dst \in [Actors -> Stages \cup {NoStage}]
  <2>1. \A a \in Actors : pc[a] \in EmitLabels => msg[a] \in Events /\ dst[a] \in Stages
    BY DEF IInv, Control, EmitOK
  <2>2. \A a \in Actors : pc[a] = "deliver" => got[a] \in Inst /\ held[got[a]] = {} /\ stage[got[a]] = dst[a]
    BY GotInst, ConstantsAssumption DEF Idle, IdleLocal, GotStage
  <2>3. \A a \in Actors : pc[a] \in RunLabels => cur[a] \in Inst /\ stage[cur[a]] \in Stages
    BY CurInst
  <2>4. \A a \in Actors : pc[a] = "release" => held[cur[a]] = {}
    BY <2>3, ConstantsAssumption DEF Idle, IdleLocal, DoneLabels, RunLabels
  <2> QED BY <2>1, <2>2, <2>3, <2>4, ConstantsAssumption DEF Actors, IInv, TypeOK, InstTypes, LocalTypes
<1>1. ASSUME NEW a \in Actors, ThreadStep(a)
      PROVE  EventMove
  <2>1. CASE AquireStep(a)
    BY <2>1 DEF AquireStep, AquireRecycled, AquireActive, AquireEmpty, AquireReadCount, AquireCheckLimit, AquireCreate,
       AquireInitOk, AquireInitError
  <2>2. CASE ReleaseStep(a) /\ ~ReleaseTakeEvent(a)
    BY <2>2 DEF ReleaseStep, Requeue, ReleaseNoEvent, ReleaseInactive, ReleasePark, Destroy
  <2>3. CASE ReleaseTakeEvent(a)
    <3>1. Takes(cur[a], stage[cur[a]])
      BY <1>0, <2>3 DEF ReleaseTakeEvent, Takes, RunLabels
    <3> QED BY <1>0, <2>3, <3>1 DEF ReleaseTakeEvent, RunLabels
  <2>4. CASE a \in Workers /\ FetchStep(a)
    <3>1. pc[a] \in {"run", "fetch"}
      BY <2>4 DEF FetchStep, PeekEvent, WaitEvent, FetchEvent
    <3>2. UNCHANGED <<evq, held, msg, fate>> \/ Takes(cur[a], stage[cur[a]])
      BY <2>4 DEF FetchStep, PeekEvent, WaitEvent, FetchEvent, TakeEvent, Takes
    <3> QED BY <1>0, <3>1, <3>2 DEF RunLabels
  <2>5. CASE EmmitDeliver(a) \/ CohortDeliver(a)
    <3>1. Delivers(a, got[a])
      BY <1>0, <2>5 DEF EmmitDeliver, CohortDeliver, Delivers, EmitLabels
    <3> QED BY <1>0, <2>5, <3>1 DEF EmmitDeliver, CohortDeliver
  <2>6. CASE EmmitPending(a)
    <3>1. Pushes(a, dst[a])
      BY <1>0, <2>6 DEF EmmitPending, Pushes, EmitLabels
    <3> QED BY <1>0, <2>6, <3>1 DEF EmmitPending, EmitLabels
  <2>7. CASE EmmitCopyError(a) \/ EmmitQueueFull(a) \/ EmmitExtractError(a) \/ CohortRejected(a)
    <3>1. Refuses(a)
      BY <1>0, <2>7 DEF EmmitCopyError, EmmitQueueFull, EmmitExtractError, CohortRejected, Refuse, Refuses, EmitLabels
    <3> QED BY <3>1
  <2> QED BY <1>1, <2>1, <2>2, <2>3, <2>4, <2>5, <2>6, <2>7 DEF ThreadStep, InstanceStep, EmmitStep, ReleaseStep
<1>2. ASSUME NEW a \in Actors, NEW e \in Events, NEW s \in Stages, NEW k, StartEmit(a, e, s, k)
      PROVE  EventMove
  <2>1. Emits(a, e)
    BY <1>0, <1>2 DEF StartEmit, Emits, MsgLocal, Resume, EmitLabels
  <2> QED BY <2>1
<1>3. ASSUME NEW w \in Workers, Ended(w) \/ UnknownStatus(w) \/ \E status \in Calls : Failed(w, status)
      PROVE  EventMove
  <2>1. Finishes(cur[w]) /\ pc[w] = "run"
    BY <1>0, <1>3 DEF RunLabels, Ended, UnknownStatus, Failed, Settle, Finishes
  <2> QED BY <1>0, <2>1 DEF RunLabels
<1>4. ASSUME NEW w \in Workers, HandlerStep(w) \/ PopStep(w)
      PROVE  EventMove
  BY <1>0, <1>2, <1>3, <1>4 DEF HandlerStep, PopStep, Emmit, Cohort, Nice, EventSleep, EventWaitIo,
     EventDoFileAio, Suspend, SuspendError, BackToReady, PopInstance, PopKill, Events
<1>5. ASSUME EventThreadStep
      PROVE  EventMove
  BY <1>0, <1>2, <1>5 DEF EventThreadStep, IoReady, EmmitPackedEvent, Events
<1>6. ASSUME RunStep \/ ControllerStep, ~MainStep
      PROVE  EventMove
  BY <1>0, <1>2, <1>6 DEF RunStep, ControllerStep, EmmitPendingSend, CallControllerInit, PoolSetMaxpar, ThreadNew, Dispatch, LoopExit,
     Join, InstanceEnd, EventEnd, ControllerSend, ControllerMaxpar, ControllerSetCapacity, MaxparCapacity, 
     SetReadyCapacity, SetEventCapacity, ThreadKill, Events
<1>7. CASE MainStep
  BY <1>0, <1>1, <1>7 DEF MainStep, MaxparLimit
<1>8. CASE EventLoopStep
  BY <1>0, <1>1, <1>5, <1>8 DEF EventLoopStep
<1>9. CASE \E w \in Workers : WorkerStep(w)
  BY <1>0, <1>1, <1>4, <1>9 DEF WorkerStep
<1>10. CASE UNCHANGED vars
  BY <1>10 DEF vars
<1> QED BY <1>6, <1>7, <1>8, <1>9, <1>10 DEF Next

(* A thread leaves emmit only with its event handed over.                  *)
LEMMA NextMsgLocal ==
    ASSUME IInv, MsgLocal, [Next]_vars
    PROVE  MsgLocal'
<1> USE DEF queueVars, countVars, instVars, localVars, instanceVars, schedulerVars, Goto, Home, Resume, MsgLocal, EmitLabels
<1>0. /\ pc \in [Actors -> Labels] /\ msg \in [Actors -> Events \cup {NoEvent}]
      /\ Main \in Actors /\ EventThread \in Actors /\ Workers \subseteq Actors
  BY DEF IInv, TypeOK, LocalTypes, Actors
<1>1. ASSUME NEW a \in Actors, ThreadStep(a)
      PROVE  MsgLocal'
  <2>1. CASE AquireStep(a)
    BY <1>0, <2>1 DEF AquireStep, AquireRecycled, AquireActive, AquireEmpty, AquireReadCount, AquireCheckLimit, AquireCreate,
       AquireInitOk, AquireInitError
  <2>2. CASE ReleaseStep(a)
    BY <1>0, <2>2 DEF ReleaseStep, Requeue, ReleaseTakeEvent, ReleaseNoEvent, ReleaseInactive, ReleasePark, Destroy
  <2>3. CASE FetchStep(a)
    BY <1>0, <2>3 DEF FetchStep, PeekEvent, WaitEvent, FetchEvent, TakeEvent
  <2>4. CASE EmmitStep(a)
    BY <1>0, <2>4 DEF EmmitStep, EmmitDeliver, EmmitCopyError, EmmitPending, EmmitQueueFull,
         EmmitExtractError, CohortDeliver, CohortRejected, Refuse
  <2> QED BY <1>1, <2>1, <2>2, <2>3, <2>4 DEF ThreadStep, InstanceStep
<1>2. ASSUME NEW w \in Workers, HandlerStep(w) \/ PopStep(w)
      PROVE  MsgLocal'
  BY <1>0, <1>2 DEF HandlerStep, PopStep, Emmit, Cohort, StartEmit, Ended, UnknownStatus, Nice, EventSleep, EventWaitIo,
     EventDoFileAio, Failed, Suspend, SuspendError, BackToReady, PopInstance, PopKill
<1>3. ASSUME EventThreadStep
      PROVE  MsgLocal'
  BY <1>0, <1>3 DEF EventThreadStep, IoReady, EmmitPackedEvent, StartEmit
<1>4. ASSUME RunStep \/ ControllerStep, ~MainStep
      PROVE  MsgLocal'
  BY <1>0, <1>4 DEF RunStep, ControllerStep, EmmitPendingSend, CallControllerInit, PoolSetMaxpar, ThreadNew, Dispatch, LoopExit, ThreadKill,
     Join, InstanceEnd, EventEnd, ControllerSend, ControllerMaxpar, ControllerSetCapacity, StartEmit, MaxparCapacity, 
     SetReadyCapacity, SetEventCapacity
<1>6. CASE MainStep
  BY <1>0, <1>1, <1>6 DEF MainStep, MaxparLimit
<1>7. CASE EventLoopStep
  BY <1>0, <1>1, <1>3, <1>7 DEF EventLoopStep
<1>8. CASE \E w \in Workers : WorkerStep(w)
  BY <1>0, <1>1, <1>2, <1>8 DEF WorkerStep
<1>9. CASE UNCHANGED vars
  BY <1>9 DEF vars
<1> QED BY <1>4, <1>6, <1>7, <1>8, <1>9 DEF Next

(* A queue without duplicates stays so when it is pushed or popped.        *)
LEMMA DistinctAppend ==
    ASSUME NEW S, NEW q \in Seq(S), NEW e \in S, Distinct(q), ~In(q, e)
    PROVE  Distinct(Append(q, e))
<1>1. /\ Len(Append(q, e)) = Len(q) + 1 /\ Len(q) \in Nat
      /\ \A n \in 1..Len(q) : Append(q, e)[n] = q[n]
      /\ Append(q, e)[Len(q) + 1] = e
  OBVIOUS
<1> QED BY <1>1 DEF Distinct, In

(* A queue without duplicates stays so after a pop.                        *)
LEMMA DistinctTail ==
    ASSUME NEW S, NEW q \in Seq(S), q # <<>>, Distinct(q)
    PROVE  Distinct(Tail(q)) /\ ~In(Tail(q), Head(q))
<1>1. /\ Len(Tail(q)) = Len(q) - 1 /\ Len(q) \in Nat \ {0}
      /\ \A n \in 1..Len(Tail(q)) : Tail(q)[n] = q[n + 1]
      /\ Head(q) = q[1]
  OBVIOUS
<1> QED BY <1>1 DEF Distinct, In

(* Each of these moves keeps every event in one place.                     *)
LEMMA MovesEvents ==
    ASSUME IInv, EventSingle, EventPlace, EventMove
    PROVE  EventSingle' /\ EventPlace'
<1> USE DEF EventSingle, EventPlace
<1>0. /\ evq \in [Stages -> Seq(Events)] /\ held \in [Inst -> SUBSET Events]
      /\ msg \in [Actors -> Events \cup {NoEvent}] /\ fate \in [Events -> Fates] /\ NoEvent \notin Events
  BY ConstantsAssumption DEF IInv, TypeOK, QueueTypes, InstTypes, LocalTypes
<1>1. CASE UNCHANGED <<evq, held, msg, fate>>
  BY <1>1 DEF Queued, Held, Sending
<1>2. ASSUME NEW a \in Actors, NEW e \in Events, Emits(a, e)  PROVE EventSingle' /\ EventPlace'
  <2>1. ~Queued(e) /\ ~Held(e) /\ ~Sending(e)
    BY <1>2 DEF Emits
  <2>2. \A x \in Events : /\ Queued(x)' <=> Queued(x)
                          /\ Held(x)' <=> Held(x)
                          /\ Sending(x)' <=> Sending(x) \/ x = e
    BY <1>0, <1>2 DEF Emits, Queued, Held, Sending
  <2>3. EventPlace'
    BY <1>0, <1>2, <2>1, <2>2 DEF Emits
  <2>4. EventSingle'
    BY <1>0, <1>2, <2>1 DEF Emits, Sending
  <2> QED BY <2>3, <2>4
<1>3. ASSUME NEW a \in Actors, NEW i \in Inst, Delivers(a, i)  PROVE EventSingle' /\ EventPlace'
  <2>1. PICK e \in Events : e = msg[a]
    BY <1>3 DEF Delivers
  <2>2. Sending(e) /\ ~Queued(e) /\ ~Held(e)
    BY <2>1 DEF Sending
  <2>3. \A x \in Events : /\ Queued(x)' <=> Queued(x)
                          /\ Held(x)' <=> Held(x) \/ x = e
                          /\ Sending(x)' <=> Sending(x) /\ x # e
    BY <1>0, <1>3, <2>1 DEF Delivers, Queued, Held, Sending
  <2>4. EventPlace'
    BY <1>3, <2>2, <2>3 DEF Delivers
  <2>5. EventSingle'
    BY <1>0, <1>3, <2>1, <2>2 DEF Delivers, Held
  <2> QED BY <2>4, <2>5
<1>4. ASSUME NEW a \in Actors, NEW s \in Stages, Pushes(a, s)  PROVE EventSingle' /\ EventPlace'
  <2>1. PICK e \in Events : e = msg[a]
    BY <1>4 DEF Pushes
  <2>2. Sending(e) /\ ~Queued(e) /\ ~Held(e)
    BY <2>1 DEF Sending
  <2>3. evq' = [evq EXCEPT ![s] = Append(evq[s], e)] /\ evq[s] \in Seq(Events)
    BY <1>0, <1>4, <2>1 DEF Pushes
  <2>4. \A x \in Events : In(evq'[s], x) <=> In(evq[s], x) \/ x = e
    BY <1>0, <2>3, InAppend
  <2>5. Distinct(evq'[s])
    BY <1>0, <2>2, <2>3, DistinctAppend DEF Queued
  <2>6. \A x \in Events : /\ Queued(x)' <=> Queued(x) \/ x = e
                          /\ Held(x)' <=> Held(x)
                          /\ Sending(x)' <=> Sending(x) /\ x # e
    <3>1. \A x \in Events : Queued(x)' <=> Queued(x) \/ x = e
      BY <1>0, <2>3, <2>4 DEF Queued
    <3> QED BY <1>0, <1>4, <2>1, <3>1 DEF Pushes, Held, Sending
  <2>7. EventPlace'
    BY <1>4, <2>2, <2>6 DEF Pushes
  <2>8. EventSingle'
    <3>1. \A t, u \in Stages, x \in Events : In(evq'[t], x) /\ In(evq'[u], x) => t = u
      BY <1>0, <2>2, <2>3, <2>4 DEF Queued
    <3> QED BY <1>0, <1>4, <2>1, <2>3, <2>5, <3>1 DEF Pushes
  <2> QED BY <2>7, <2>8
<1>5. ASSUME NEW a \in Actors, Refuses(a)  PROVE EventSingle' /\ EventPlace'
  <2>1. PICK e \in Events : e = msg[a]
    BY <1>5 DEF Refuses
  <2>2. Sending(e) /\ ~Queued(e) /\ ~Held(e)
    BY <2>1 DEF Sending
  <2>3. \A x \in Events : /\ Queued(x)' <=> Queued(x)
                          /\ Held(x)' <=> Held(x)
                          /\ Sending(x)' <=> Sending(x) /\ x # e
    BY <1>0, <1>5, <2>1 DEF Refuses, Queued, Held, Sending
  <2>4. EventPlace'
    BY <1>0, <1>5, <2>1, <2>2, <2>3 DEF Refuses
  <2>5. EventSingle'
    BY <1>0, <1>5 DEF Refuses
  <2> QED BY <2>4, <2>5
<1>6. ASSUME NEW i \in Inst, NEW s \in Stages, Takes(i, s)  PROVE EventSingle' /\ EventPlace'
  <2>1. PICK e \in Events : e = Head(evq[s])
    BY <1>0, <1>6 DEF Takes
  <2>2. evq' = [evq EXCEPT ![s] = Tail(evq[s])] /\ evq[s] \in Seq(Events) /\ evq[s] # <<>>
    BY <1>0, <1>6 DEF Takes
  <2>3. \A x \in Events : In(evq[s], x) <=> In(evq'[s], x) \/ x = e
    BY <1>0, <2>1, <2>2, InTail
  <2>4. Distinct(evq'[s]) /\ ~In(evq'[s], e)
    BY <1>0, <2>1, <2>2, DistinctTail
  <2>5. Queued(e) /\ ~Held(e) /\ ~Sending(e)
    BY <2>3 DEF Queued
  <2>6. \A x \in Events : /\ Queued(x)' <=> Queued(x) /\ x # e
                          /\ Held(x)' <=> Held(x) \/ x = e
                          /\ Sending(x)' <=> Sending(x)
    <3>1. \A x \in Events : Queued(x)' <=> Queued(x) /\ x # e
      BY <1>0, <2>2, <2>3, <2>4 DEF Queued
    <3>2. \A x \in Events : Held(x)' <=> Held(x) \/ x = e
      BY <1>0, <1>6, <2>1 DEF Takes, Held
    <3> QED BY <1>6, <3>1, <3>2 DEF Takes, Sending
  <2>7. EventPlace'
    BY <1>6, <2>5, <2>6 DEF Takes
  <2>8. EventSingle'
    <3>1. \A t, u \in Stages, x \in Events : In(evq'[t], x) /\ In(evq'[u], x) => t = u
      BY <1>0, <2>2, <2>3
    <3>2. \A j, k \in Inst, x \in Events : x \in held'[j] /\ x \in held'[k] => j = k
      BY <1>0, <1>6, <2>1, <2>5 DEF Takes, Held
    <3> QED BY <1>0, <1>6, <2>2, <2>4, <3>1, <3>2 DEF Takes
  <2> QED BY <2>7, <2>8
<1>7. ASSUME NEW i \in Inst, Finishes(i)  PROVE EventSingle' /\ EventPlace'
  <2>1. \A x \in Events : /\ Queued(x)' <=> Queued(x)
                          /\ Held(x)' <=> Held(x) /\ x \notin held[i]
                          /\ Sending(x)' <=> Sending(x)
    BY <1>0, <1>7 DEF Finishes, Queued, Held, Sending
  <2>2. EventPlace'
    BY <1>0, <1>7, <2>1 DEF Finishes, Held
  <2>3. EventSingle'
    BY <1>0, <1>7 DEF Finishes
  <2> QED BY <2>2, <2>3
<1> QED BY <1>1, <1>2, <1>3, <1>4, <1>5, <1>6, <1>7 DEF EventMove

(* A set is empty or has one element when its members are all equal.       *)
LEMMA AtMostOneMember ==
    ASSUME NEW S, \A x, y \in S : x = y
    PROVE  Cardinality(S) = IF S = {} THEN 0 ELSE 1
<1>1. CASE S = {}
  BY <1>1, FS_EmptySet
<1>2. CASE S # {}
  <2>1. PICK x : S = {x}
    BY <1>2
  <2> QED BY <1>2, <2>1, FS_Singleton
<1> QED BY <1>1, <1>2

(* The three places of an event, counted.                                  *)
LEMMA CountPlaces ==
    ASSUME IInv, EventSingle, EventPlace
    PROVE  EventOnce
<1> SUFFICES ASSUME NEW e \in Events
             PROVE  Cardinality(QueuedAt(e)) + Cardinality(HeldBy(e)) + Cardinality(CarriedBy(e))
                      = (IF fate[e] = "sent" THEN 1 ELSE 0)
  BY DEF EventOnce
<1>0. evq \in [Stages -> Seq(Events)] /\ NoEvent \notin Events
  BY ConstantsAssumption DEF IInv, TypeOK, QueueTypes
<1>1. Cardinality(QueuedAt(e)) = IF Queued(e) THEN 1 ELSE 0
  <2>1. \A p : p \in QueuedAt(e) <=> \E s \in Stages : \E n \in 1..Len(evq[s]) : p = <<s, n>> /\ evq[s][n] = e
    BY DEF QueuedAt
  <2>2. QueuedAt(e) # {} <=> Queued(e)
    BY <2>1 DEF Queued, In
  <2>3. \A s, t \in Stages : \A m \in 1..Len(evq[s]), n \in 1..Len(evq[t]) :
           evq[s][m] = e /\ evq[t][n] = e => s = t /\ m = n
    BY DEF EventSingle, In, Distinct
  <2>4. \A p, q \in QueuedAt(e) : p = q
    BY <2>1, <2>3
  <2> QED BY <2>2, <2>4, AtMostOneMember
<1>2. Cardinality(HeldBy(e)) = IF Held(e) THEN 1 ELSE 0
  <2>1. HeldBy(e) # {} <=> Held(e)
    BY DEF HeldBy, Held
  <2>2. \A i, j \in HeldBy(e) : i = j
    BY DEF HeldBy, EventSingle
  <2> QED BY <2>1, <2>2, AtMostOneMember
<1>3. Cardinality(CarriedBy(e)) = IF Sending(e) THEN 1 ELSE 0
  <2>1. CarriedBy(e) # {} <=> Sending(e)
    BY DEF CarriedBy, Sending
  <2>2. \A a, b \in CarriedBy(e) : a = b
    BY <1>0 DEF CarriedBy, EventSingle
  <2> QED BY <2>1, <2>2, AtMostOneMember
<1> QED BY <1>1, <1>2, <1>3 DEF EventPlace

(* Together these are inductive.                                           *)
EventInv == IInv /\ RecycledStage /\ GotStage /\ Idle /\ MsgLocal /\ EventSingle /\ EventPlace

(* Nothing is in any place before the first event is emitted.              *)
LEMMA InitEventInv == Init => EventInv
<1> SUFFICES ASSUME Init PROVE EventInv
  OBVIOUS
<1>0. IInv
  BY InitIInv
<1> USE DEF Init, SchedulerInit, InstanceInit
<1>1. IdleInst /\ IdleLocal
  BY DEF IdleInst, IdleLocal, InReady, In
<1>2. MsgLocal
  BY DEF MsgLocal
<1>3. EventSingle
  BY DEF EventSingle, Distinct, In
<1>4. EventPlace
  BY ConstantsAssumption DEF EventPlace, Queued, Held, Sending, In
<1>5. RecycledStage /\ GotStage
  BY DEF RecycledStage, GotStage, In
<1> QED BY <1>0, <1>1, <1>2, <1>3, <1>4, <1>5 DEF EventInv, Idle

(* No step breaks the invariant.                                           *)
LEMMA NextEventInv ==
    ASSUME EventInv, [Next]_vars
    PROVE  EventInv'
<1>1. EventSingle' /\ EventPlace'
  BY EventMoves, MovesEvents DEF EventInv
<1> QED BY <1>1, NextIInv, NextRecycledStage, NextGotStage, NextIdle, NextMsgLocal DEF EventInv

(* An event that emmit, emmit_cohort, leda_run, the controller or a remote *)
(* process has sent is, until it is answered for, in exactly one pending   *)
(* queue, instance or emitting thread, and any other event is in none: for *)
(* any number of threads, stages and instances none is duplicated, and     *)
(* none vanishes between two queues.                                       *)
THEOREM EventOnceAlways == Spec => []EventOnce
<1>1. EventInv => EventOnce
  BY CountPlaces DEF EventInv
<1> QED BY <1>1, InitEventInv, NextEventInv, PTL DEF Spec

-----------------------------------------------------------------------------
(* A thread that has an event in hand keeps the stage it is for.           *)
DstKept == \A a \in Actors : msg[a] # NoEvent => dst'[a] = dst[a]

(* Only a thread that begins to emit, or to set a limit, has a new one.    *)
LEMMA NextDstKept ==
    ASSUME IInv, MsgLocal, [Next]_vars
    PROVE  DstKept
<1> USE DEF queueVars, countVars, instVars, localVars, instanceVars, schedulerVars, Resume, MsgLocal, EmitLabels, DstKept
<1>0. /\ dst \in [Actors -> Stages \cup {NoStage}] /\ msg \in [Actors -> Events \cup {NoEvent}]
      /\ Main \in Actors /\ EventThread \in Actors /\ Workers \subseteq Actors
  BY DEF IInv, TypeOK, LocalTypes, Actors
<1>1. ASSUME NEW a \in Actors, ThreadStep(a)
      PROVE  UNCHANGED dst
  BY <1>1 DEF ThreadStep, InstanceStep, AquireStep, ReleaseStep, FetchStep, EmmitStep,
       AquireRecycled, AquireActive, AquireEmpty, AquireInitError, AquireCreate, Destroy,
       AquireReadCount, AquireCheckLimit, AquireInitOk, Requeue, ReleaseTakeEvent, ReleaseNoEvent, ReleaseInactive,
       ReleasePark, PeekEvent, WaitEvent, FetchEvent, TakeEvent, EmmitDeliver, EmmitCopyError,
       EmmitPending, EmmitQueueFull, EmmitExtractError, CohortDeliver, CohortRejected, Refuse
<1>2. ASSUME NEW w \in Workers, HandlerStep(w) \/ PopStep(w)
      PROVE  DstKept
  BY <1>0, <1>2 DEF HandlerStep, PopStep, Emmit, Cohort, StartEmit, Ended, UnknownStatus, Nice, EventSleep, EventWaitIo,
     EventDoFileAio, Failed, Suspend, SuspendError, BackToReady, PopInstance, PopKill
<1>3. ASSUME EventThreadStep
      PROVE  DstKept
  BY <1>0, <1>3 DEF EventThreadStep, IoReady, EmmitPackedEvent, StartEmit
<1>4. ASSUME RunStep \/ ControllerStep, ~MainStep
      PROVE  DstKept
  BY <1>0, <1>4 DEF RunStep, ControllerStep, EmmitPendingSend, CallControllerInit, PoolSetMaxpar, ThreadNew, Dispatch, LoopExit, ThreadKill,
     Join, InstanceEnd, EventEnd, ControllerSend, ControllerMaxpar, ControllerSetCapacity, StartEmit, MaxparCapacity,
     SetReadyCapacity, SetEventCapacity
<1>6. CASE MainStep
  BY <1>0, <1>1, <1>6 DEF MainStep, MaxparLimit
<1>7. CASE EventLoopStep
  BY <1>0, <1>1, <1>3, <1>7 DEF EventLoopStep
<1>8. CASE \E w \in Workers : WorkerStep(w)
  BY <1>0, <1>1, <1>2, <1>8 DEF WorkerStep
<1>9. CASE UNCHANGED vars
  BY <1>9 DEF vars
<1> QED BY <1>4, <1>6, <1>7, <1>8, <1>9 DEF Next

(* An instance has no event before and after a step that creates or frees  *)
(* it.                                                                     *)
LEMMA BusyStageKept ==
    ASSUME EventInv, [Next]_vars, NEW i \in Inst, held[i] # {} \/ held'[i] # {}
    PROVE  stage'[i] = stage[i]
<1>0. /\ stage \in [Inst -> Stages \cup {NoStage}] /\ pc \in [Actors -> Labels]
      /\ NULL \notin Inst /\ NoStage \notin Stages
  BY ConstantsAssumption DEF EventInv, IInv, TypeOK, LocalTypes, InstTypes
<1>1. held' = held \/ UNCHANGED stage
  BY StageSteps DEF AquireCreate, AquireInitError, Destroy, EventInv
<1>2. stage[i] = NoStage => held[i] = {}
  BY DEF EventInv, Idle, IdleInst
<1>3. ASSUME NEW a \in Actors, got[a] = i  PROVE held[i] = {}
  BY <1>0, <1>3 DEF EventInv, Idle, IdleLocal
<1>4. ASSUME NEW a \in Actors, cur[a] = i, pc[a] = "destroy"  PROVE held[i] = {}
  BY <1>0, <1>4 DEF EventInv, Idle, IdleLocal, DoneLabels
<1> QED BY <1>1, <1>2, <1>3, <1>4, StageKept DEF EventInv

(* The mapping, elementwise.                                               *)
LEMMA Mapping ==
    ASSUME NEW s \in Stages, NEW e
    PROVE  /\ e \in Offered[s] <=> e # NoEvent /\ \E a \in Actors : dst[a] = s /\ msg[a] = e
           /\ e \in Offered'[s] <=> e # NoEvent /\ \E a \in Actors : dst'[a] = s /\ msg'[a] = e
           /\ e \in Working[s] <=> \E i \in Inst : stage[i] = s /\ e \in held[i]
           /\ e \in Working'[s] <=> \E i \in Inst : stage'[i] = s /\ e \in held'[i]
<1>1. e \in Offered[s] <=> e # NoEvent /\ \E a \in Actors : dst[a] = s /\ msg[a] = e
  BY DEF Offered
<1>2. e \in Offered'[s] <=> e # NoEvent /\ \E a \in Actors : dst'[a] = s /\ msg'[a] = e
  BY DEF Offered
<1>3. e \in Working[s] <=> \E i \in Inst : stage[i] = s /\ e \in held[i]
  BY DEF Working
<1>4. e \in Working'[s] <=> \E i \in Inst : stage'[i] = s /\ e \in held'[i]
  BY DEF Working
<1> QED BY <1>1, <1>2, <1>3, <1>4

(* The mapped variables are functions on the stages, before and after.     *)
LEMMA MappedFunctions ==
    /\ Offered = [s \in Stages |-> Offered[s]] /\ Offered' = [s \in Stages |-> Offered'[s]]
    /\ Working = [s \in Stages |-> Working[s]] /\ Working' = [s \in Stages |-> Working'[s]]
BY DEF Offered, Working

(* What is on offer follows the events the threads have in hand.           *)
LEMMA OfferedSame == ASSUME DstKept, UNCHANGED msg PROVE Offered' = Offered
<1>1. \A s \in Stages : \A e : e \in Offered'[s] <=> e \in Offered[s]
  BY Mapping DEF DstKept
<1> QED BY <1>1, MappedFunctions

(* A thread that begins to emit adds its event to those on offer ...       *)
LEMMA OfferedMore ==
    ASSUME EventInv, DstKept, NEW a \in Actors, NEW e \in Events, NEW s \in Stages,
           msg[a] = NoEvent, msg' = [msg EXCEPT ![a] = e], dst'[a] = s
    PROVE  Offered' = [Offered EXCEPT ![s] = @ \cup {e}]
<1>0. msg \in [Actors -> Events \cup {NoEvent}] /\ NoEvent \notin Events
  BY ConstantsAssumption DEF EventInv, IInv, TypeOK, LocalTypes
<1>1. msg'[a] = e /\ \A b \in Actors : b # a => msg'[b] = msg[b]
  BY <1>0
<1>2. \A t \in Stages : \A x : x \in Offered'[t] <=> x \in Offered[t] \/ (t = s /\ x = e)
  BY <1>0, <1>1, Mapping DEF DstKept
<1>3. \A t \in Stages : Offered'[t] = IF t = s THEN Offered[t] \cup {e} ELSE Offered[t]
  BY <1>2
<1> QED BY <1>3, MappedFunctions

(* ... and one that is rid of it takes it away.                            *)
LEMMA OfferedLess ==
    ASSUME EventInv, DstKept, NEW a \in Actors, NEW e \in Events, NEW s \in Stages,
           msg[a] = e, msg' = [msg EXCEPT ![a] = NoEvent], dst[a] = s
    PROVE  e \in Offered[s] /\ Offered' = [Offered EXCEPT ![s] = @ \ {e}]
<1>0. msg \in [Actors -> Events \cup {NoEvent}] /\ NoEvent \notin Events
  BY ConstantsAssumption DEF EventInv, IInv, TypeOK, LocalTypes
<1>1. msg'[a] = NoEvent /\ \A b \in Actors : b # a => msg'[b] = msg[b] /\ msg[b] # e
  BY <1>0 DEF EventInv, EventSingle
<1>2. \A t \in Stages : \A x : x \in Offered'[t] <=> x \in Offered[t] /\ x # e
  BY <1>0, <1>1, Mapping DEF DstKept
<1>3. \A t \in Stages : e \in Offered[t] <=> t = s
  BY <1>0, <1>1, Mapping
<1>4. Offered'[s] = Offered[s] \ {e}
  BY <1>2
<1>5. ASSUME NEW t \in Stages, t # s  PROVE Offered'[t] = Offered[t]
  <2>1. e \notin Offered[t]
    BY <1>3, <1>5
  <2>2. \A x : x \in Offered'[t] <=> x \in Offered[t]
    BY <1>2, <2>1
  <2> QED BY <2>2
<1> QED BY <1>3, <1>4, <1>5, MappedFunctions

(* What the instances of a stage were given follows their `held'.          *)
LEMMA WorkingSame == ASSUME EventInv, [Next]_vars, UNCHANGED held PROVE Working' = Working
<1>1. \A s \in Stages : \A e : e \in Working'[s] <=> e \in Working[s]
  BY Mapping, BusyStageKept
<1> QED BY <1>1, MappedFunctions

(* An instance that is given an event ...                                  *)
LEMMA WorkingMore ==
    ASSUME EventInv, [Next]_vars, NEW i \in Inst, NEW e \in Events, NEW s \in Stages,
           held' = [held EXCEPT ![i] = @ \cup {e}], stage[i] = s
    PROVE  Working' = [Working EXCEPT ![s] = @ \cup {e}]
<1>0. held \in [Inst -> SUBSET Events]
  BY DEF EventInv, IInv, TypeOK, InstTypes
<1>1. held'[i] = held[i] \cup {e} /\ \A j \in Inst : j # i => held'[j] = held[j]
  BY <1>0
<1>2. \A j \in Inst : \A x : x \in held'[j] => stage'[j] = stage[j]
  BY BusyStageKept
<1>3. \A j \in Inst : \A x : x \in held[j] => stage'[j] = stage[j]
  BY BusyStageKept
<1>4. \A t \in Stages : \A x : x \in Working'[t] <=> x \in Working[t] \/ (t = s /\ x = e)
  BY <1>1, <1>2, <1>3, Mapping
<1>5. \A t \in Stages : Working'[t] = IF t = s THEN Working[t] \cup {e} ELSE Working[t]
  BY <1>4
<1> QED BY <1>5, MappedFunctions

(* ... and one that is finished with all it has.                           *)
LEMMA WorkingLess ==
    ASSUME EventInv, [Next]_vars, NEW i \in Inst, NEW s \in Stages,
           held' = [held EXCEPT ![i] = {}], stage[i] = s
    PROVE  held[i] \subseteq Working[s] /\ Working' = [Working EXCEPT ![s] = @ \ held[i]]
<1>0. held \in [Inst -> SUBSET Events]
  BY DEF EventInv, IInv, TypeOK, InstTypes
<1>1. held'[i] = {} /\ \A j \in Inst : j # i => held'[j] = held[j]
  BY <1>0
<1>2. \A j \in Inst : \A x : x \in held[j] => x \in Events /\ stage'[j] = stage[j]
  BY <1>0, BusyStageKept
<1>3. \A j \in Inst : \A x : x \in held[j] /\ x \in held[i] => j = i
  BY <1>0 DEF EventInv, EventSingle
<1>4. \A t \in Stages : \A x : x \in Working'[t] <=> x \in Working[t] /\ x \notin held[i]
  BY <1>1, <1>2, <1>3, Mapping
<1>5. \A t \in Stages : \A x : x \in Working[t] /\ x \in held[i] => t = s
  BY <1>3, Mapping
<1>6. \A t \in Stages : Working'[t] = IF t = s THEN Working[t] \ held[i] ELSE Working[t]
  BY <1>4, <1>5
<1>7. held[i] \subseteq Working[s]
  BY Mapping
<1> QED BY <1>6, <1>7, MappedFunctions

(* Every step of the process is a step of the service, or no step at all.  *)
LEMMA NextService ==
    ASSUME EventInv, [Next]_vars
    PROVE  [Service!Next]_(Service!vars)
<1>0. /\ evq \in [Stages -> Seq(Events)] /\ held \in [Inst -> SUBSET Events]
      /\ msg \in [Actors -> Events \cup {NoEvent}]
  BY DEF EventInv, IInv, TypeOK, QueueTypes, InstTypes, LocalTypes
<1>1. DstKept
  BY NextDstKept DEF EventInv
<1>2. CASE UNCHANGED <<evq, held, msg, fate>>
  BY <1>1, <1>2, OfferedSame, WorkingSame DEF Service!vars
<1>3. ASSUME NEW a \in Actors, NEW e \in Events, Emits(a, e)  PROVE Service!Next
  <2>1. PICK s \in Stages : s = dst'[a]
    BY <1>3 DEF Emits
  <2>2. Service!Emit(e, s)
    BY <1>1, <1>3, <2>1, OfferedMore, WorkingSame DEF Emits, Service!Emit
  <2> QED BY <2>2 DEF Service!Next
<1>4. ASSUME NEW a \in Actors, NEW i \in Inst, Delivers(a, i)  PROVE Service!Next
  <2>1. PICK e \in Events, s \in Stages : e = msg[a] /\ s = dst[a] /\ s = stage[i]
    BY <1>4 DEF Delivers
  <2>2. Working' = [Working EXCEPT ![s] = @ \cup {e}]
    <3>1. held' = [held EXCEPT ![i] = @ \cup {e}]
      BY <1>0, <1>4, <2>1 DEF Delivers
    <3> QED BY <2>1, <3>1, WorkingMore
  <2>3. Service!Deliver(e, s)
    BY <1>1, <1>4, <2>1, <2>2, OfferedLess DEF Delivers, Service!Deliver, Service!Settled
  <2> QED BY <2>3 DEF Service!Next
<1>5. ASSUME NEW a \in Actors, NEW s \in Stages, Pushes(a, s)  PROVE Service!Next
  <2>1. PICK e \in Events : e = msg[a]
    BY <1>5 DEF Pushes
  <2>2. Service!Postpone(e, s)
    BY <1>1, <1>5, <2>1, OfferedLess, WorkingSame DEF Pushes, Service!Postpone, Service!Settled
  <2> QED BY <2>2 DEF Service!Next
<1>6. ASSUME NEW a \in Actors, Refuses(a)  PROVE Service!Next
  <2>1. PICK e \in Events, s \in Stages : e = msg[a] /\ s = dst[a]
    BY <1>6 DEF Refuses
  <2>2. Service!Refuse(e, s)
    BY <1>1, <1>6, <2>1, OfferedLess, WorkingSame DEF Refuses, Service!Refuse, Service!Settled
  <2> QED BY <2>2 DEF Service!Next
<1>7. ASSUME NEW i \in Inst, NEW s \in Stages, Takes(i, s)  PROVE Service!Next
  <2>1. PICK e \in Events : e = Head(evq[s])
    BY <1>0, <1>7 DEF Takes
  <2>2. Working' = [Working EXCEPT ![s] = @ \cup {e}] /\ Offered' = Offered
    BY <1>1, <1>7, <2>1, WorkingMore, OfferedSame DEF Takes
  <2>3. Service!Take(s)
    BY <1>7, <2>1, <2>2 DEF Takes, Service!Take
  <2> QED BY <2>3 DEF Service!Next
<1>8. ASSUME NEW i \in Inst, Finishes(i)  PROVE Service!Next
  <2>0. PICK s \in Stages, es \in SUBSET Events : s = stage[i] /\ es = held[i]
    BY <1>0, <1>8 DEF Finishes
  <2>1. PICK f \in {"done", "failed"} : fate' = [e \in Events |-> IF e \in es THEN f ELSE fate[e]]
    BY <1>8, <2>0 DEF Finishes
  <2>2. es \in SUBSET Working[s] /\ Working' = [Working EXCEPT ![s] = @ \ es] /\ Offered' = Offered
    BY <1>1, <1>8, <2>0, WorkingLess, OfferedSame DEF Finishes
  <2>3. Service!Finish(s, es, f)
    BY <1>8, <2>0, <2>1, <2>2 DEF Finishes, Service!Finish
  <2> QED BY <2>1, <2>2, <2>3 DEF Service!Next
<1>9. EventMove
  BY EventMoves DEF EventInv
<1> QED BY <1>2, <1>3, <1>4, <1>5, <1>6, <1>7, <1>8, <1>9 DEF EventMove

(* A Leda process implements EventService, for any number of stages,       *)
(* instances, events and threads: whatever emmit, instance_aquire,         *)
(* instance_release, the handlers, the controller and the event thread do  *)
(* at the same time, an event is given to an instance of the stage it was  *)
(* emitted to, waits in that stage's pending queue, which is first in,     *)
(* first out, or is refused to its sender; only what an instance was given *)
(* is ever done or failed; and nothing that was answered for comes back.   *)
THEOREM ServiceKept == Spec => ImplementsService
<1>1. Init => Service!Init
  <2> SUFFICES ASSUME Init PROVE Service!Init
    OBVIOUS
  <2>1. Offered = [s \in Stages |-> {}]
    <3>1. \A s \in Stages : Offered[s] = {}
      BY DEF Init, SchedulerInit, InstanceInit, Offered
    <3> QED BY <3>1, MappedFunctions
  <2>2. Working = [s \in Stages |-> {}]
    <3>1. \A s \in Stages : Working[s] = {}
      BY DEF Init, SchedulerInit, InstanceInit, Working
    <3> QED BY <3>1, MappedFunctions
  <2> QED BY <2>1, <2>2 DEF Service!Init, Init, SchedulerInit, InstanceInit
<1> QED BY <1>1, InitEventInv, NextEventInv, NextService, PTL DEF Spec, ImplementsService, Service!Spec
=============================================================================
