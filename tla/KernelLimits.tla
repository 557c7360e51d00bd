---------------------------- MODULE KernelLimits ----------------------------
(***************************************************************************)
(* Proofs of what a Leda process guarantees while only one thread emits:   *)
(* no stage has more instances than its limit, no released instance is     *)
(* thrown away, and no pending event is forgotten.  With two emitters none *)
(* of this holds, as the runs serial_race and stranded show.               *)
(***************************************************************************)
EXTENDS KernelEvents

(* The hypotheses, on the constants.  Only one thread emits at a time: the *)
(* one worker there is, after the main thread has emitted the pending      *)
(* events; or the controller, whatever the number of workers; or the event *)
(* thread.                                                                 *)
SingleEmitter ==
    /\ HandlerEvents = {} \/ \A v, w \in Workers : v = w
    /\ HandlerEvents = {} \/ MainEvents \cup RemoteEvents = {}
    /\ RemoteEvents = {} \/ PendingEvents \cup MainEvents = {}

(* The limit y allows all that the limit x does; a negative one allows     *)
(* everything.                                                             *)
Raises(x, y) == y < 0 \/ (0 <= x /\ x <= y)
Fits(n, cap) == cap < 0 \/ n <= cap

(* Nothing is emitted before the controller has set the limits.            *)
LateStart == PendingEvents \cup RemoteEvents = {}

(* Limits are not lowered once there may be instances.                     *)
LimitsRaised ==
    /\ LateStart \/ Raises(DefaultMaxpar, PoolMaxpar)
    /\ \A c \in MaxparValues : Raises(PoolMaxpar, c) /\ \A d \in MaxparValues : c = d

-----------------------------------------------------------------------------
(* Which events each thread emits, and when.                               *)
Sources ==
    /\ \A a \in Actors : pc[a] \in EmitLabels =>
         \/ a \in Workers /\ msg[a] \in HandlerEvents
         \/ a = Main /\ phase = "boot" /\ msg[a] \in PendingEvents
         \/ a = Main /\ phase = "dispatch" /\ msg[a] \in MainEvents
         \/ a = EventThread /\ msg[a] \in RemoteEvents
    /\ phase = "boot" => \A w \in Workers : pc[w] = "unborn"

Alone == \A a, b \in Actors : pc[a] \in EmitLabels /\ pc[b] \in EmitLabels => a = b

(* The limits of the stages and the capacities of their recycle queues are *)
(* equal, except while instance_set_maxpar is between the two.             *)
Given(s) ==
    IF s \in Serial THEN {1}
    ELSE IF phase = "boot" \/ (phase = "init" /\ s \in todo) THEN {DefaultMaxpar}
    ELSE IF phase = "init" THEN {PoolMaxpar}
    ELSE {PoolMaxpar} \cup MaxparValues

Early == LateStart /\ phase \in {"boot", "init"}

Limits ==
    /\ \A s \in Stages : recap[s] \in Given(s)
    /\ \A s \in Stages : limit[s] = recap[s] \/ (pc[Main] = "maxpar" /\ dst[Main] = s)
    /\ pc[Main] = "maxpar" =>
         /\ phase \in {"init", "dispatch"}
         /\ dst[Main] \in Stages \ Serial /\ recap[dst[Main]] = seen[Main]
         /\ Early \/ Raises(limit[dst[Main]], seen[Main])

(* While nothing was emitted there are no instances.                       *)
Nobody == Early => \A i \in Inst : stage[i] = NoStage

(* The number of instances fits, and the one an emitter is about to create *)
(* as well.                                                                *)
CountFits ==
    /\ \A s \in Stages : Fits(ninst[s], limit[s]) /\ Fits(ninst[s], recap[s])
    /\ \A a \in Actors : pc[a] = "limit" => ninst[dst[a]] <= seen[a] /\ Fits(seen[a], limit[dst[a]])
    /\ \A a \in Actors : pc[a] = "create" => Fits(ninst[dst[a]] + 1, limit[dst[a]])

LimitInv == Sources /\ Limits /\ Nobody /\ CountFits
-----------------------------------------------------------------------------
(* A step that leaves the limits and leda_run alone.                       *)
Plain ==
    /\ UNCHANGED <<limit, recap, phase, todo>>
    /\ pc'[Main] = "maxpar" <=> pc[Main] = "maxpar"
    /\ pc[Main] = "maxpar" => dst'[Main] = dst[Main] /\ seen'[Main] = seen[Main]

(* A step that takes leda_run on.                                          *)
PhaseStep ==
    /\ UNCHANGED <<limit, recap, dst, seen>> /\ pc'[Main] = pc[Main]
    /\ phase \in {"boot", "init", "dispatch"} => pc[Main] = "idle"
    /\ \/ phase = "boot" /\ phase' = "init" /\ todo' = Stages \ Serial
       \/ phase = "init" /\ phase' = "dispatch" /\ todo = {} /\ todo' = {}
       \/ phase \in {"dispatch", "finish", "joined", "freed"} /\ phase' \in {"finish", "joined", "freed", "ended"} /\ UNCHANGED todo

(* The steps that do something to the limits, to leda_run or to the        *)
(* counters.                                                               *)
LEMMA LimitSteps ==
    ASSUME IInv, [Next]_vars
    PROVE  Plain \/ PhaseStep \/ PoolSetMaxpar \/ ControllerMaxpar \/ (MaxparLimit(Main) /\ UNCHANGED <<phase, todo>>)
<1> USE DEF queueVars, countVars, instVars, localVars, instanceVars, schedulerVars, Goto, Home, Resume, Plain
<1>0. /\ pc \in [Actors -> Labels] /\ dst \in [Actors -> Stages \cup {NoStage}] /\ seen \in [Actors -> Int]
      /\ Main \in Actors /\ EventThread \in Actors /\ Workers \subseteq Actors
      /\ Main \notin Workers /\ Main # EventThread
  BY ConstantsAssumption DEF IInv, TypeOK, LocalTypes, Actors
<1>1. ASSUME NEW a \in Actors, ThreadStep(a)
      PROVE  /\ UNCHANGED <<limit, recap>> /\ pc[a] # "maxpar" /\ pc'[a] # "maxpar"
             /\ \A b \in Actors : b # a => pc'[b] = pc[b] /\ dst'[b] = dst[b] /\ seen'[b] = seen[b]
  <2>1. CASE AquireStep(a)
    BY <1>0, <2>1 DEF AquireStep, AquireRecycled, AquireActive, AquireEmpty, AquireReadCount, AquireCheckLimit, AquireCreate,
       AquireInitOk, AquireInitError
  <2>2. CASE ReleaseStep(a) \/ FetchStep(a)
    BY <1>0, <2>2 DEF ReleaseStep, FetchStep, Requeue, ReleaseTakeEvent, ReleaseNoEvent, ReleaseInactive, ReleasePark, Destroy,
       PeekEvent, WaitEvent, FetchEvent, TakeEvent
  <2>3. CASE EmmitStep(a)
    BY <1>0, <2>3 DEF EmmitStep, EmmitDeliver, EmmitCopyError, EmmitPending, EmmitQueueFull,
       EmmitExtractError, CohortDeliver, CohortRejected, Refuse
  <2> QED BY <1>1, <2>1, <2>2, <2>3 DEF ThreadStep, InstanceStep
<1>2. ASSUME NEW w \in Workers, HandlerStep(w) \/ PopStep(w)
      PROVE  /\ UNCHANGED <<limit, recap>> /\ pc'[Main] = pc[Main]
             /\ dst'[Main] = dst[Main] /\ seen'[Main] = seen[Main]
  BY <1>0, <1>2 DEF HandlerStep, PopStep, Emmit, Cohort, StartEmit, Ended, UnknownStatus, Nice, EventSleep, EventWaitIo,
     EventDoFileAio, Failed, Suspend, SuspendError, BackToReady, PopInstance, PopKill
<1>3. ASSUME EventThreadStep
      PROVE  /\ UNCHANGED <<limit, recap>> /\ pc'[Main] = pc[Main]
             /\ dst'[Main] = dst[Main] /\ seen'[Main] = seen[Main]
  BY <1>0, <1>3 DEF EventThreadStep, IoReady, EmmitPackedEvent, StartEmit
<1>4. ASSUME CallControllerInit \/ Dispatch \/ LoopExit \/ Join \/ InstanceEnd \/ EventEnd
      PROVE  PhaseStep
  BY <1>0, <1>4 DEF PhaseStep, CallControllerInit, Dispatch, LoopExit, Join, InstanceEnd, EventEnd
<1>5. ASSUME EmmitPendingSend \/ ThreadNew \/ ThreadKill \/ ControllerSend \/ ControllerSetCapacity
      PROVE  Plain
  BY <1>0, <1>5 DEF EmmitPendingSend, ThreadNew, ThreadKill, ControllerSend, ControllerSetCapacity, StartEmit,
     SetReadyCapacity, SetEventCapacity
<1>6. CASE MainStep
  BY <1>0, <1>1, <1>6 DEF MainStep
<1>7. CASE EventLoopStep
  BY <1>0, <1>1, <1>3, <1>7 DEF EventLoopStep
<1>8. CASE \E w \in Workers : WorkerStep(w)
  BY <1>0, <1>1, <1>2, <1>8 DEF WorkerStep
<1>9. CASE UNCHANGED vars
  BY <1>9 DEF vars
<1> QED BY <1>4, <1>5, <1>6, <1>7, <1>8, <1>9 DEF Next, RunStep, ControllerStep

(* Who begins to emit, what and when; a thread that emits keeps its event  *)
(* and the stage it is for.                                                *)
LEMMA EmitSteps ==
    ASSUME IInv, [Next]_vars, NEW x \in Actors, pc'[x] \in EmitLabels
    PROVE  \/ pc[x] \in EmitLabels /\ msg'[x] = msg[x] /\ dst'[x] = dst[x]
           \/ /\ pc[x] \notin EmitLabels /\ pc[x] # "unborn" /\ UNCHANGED phase
              /\ \/ x \in Workers /\ msg'[x] \in HandlerEvents
                 \/ x = Main /\ phase = "boot" /\ msg'[x] \in PendingEvents
                 \/ x = Main /\ phase = "dispatch" /\ msg'[x] \in MainEvents
                 \/ x = EventThread /\ msg'[x] \in RemoteEvents
<1> USE DEF queueVars, countVars, instVars, localVars, instanceVars, schedulerVars, Goto, Home, Resume, EmitLabels
<1> DEFINE Kept == pc[x] \in EmitLabels /\ msg'[x] = msg[x] /\ dst'[x] = dst[x]
<1>0. /\ pc \in [Actors -> Labels] /\ dst \in [Actors -> Stages \cup {NoStage}]
      /\ msg \in [Actors -> Events \cup {NoEvent}]
      /\ Main \in Actors /\ EventThread \in Actors /\ Workers \subseteq Actors
      /\ Main \notin Workers /\ Main # EventThread /\ EventThread \notin Workers
  BY ConstantsAssumption DEF IInv, TypeOK, LocalTypes, Actors
<1>1. ASSUME NEW a \in Actors, ThreadStep(a)
      PROVE  Kept
  <2>1. CASE AquireStep(a)
    BY <1>0, <2>1 DEF AquireStep, AquireRecycled, AquireActive, AquireEmpty, AquireReadCount, AquireCheckLimit, AquireCreate,
       AquireInitOk, AquireInitError
  <2>2. CASE ReleaseStep(a) \/ FetchStep(a)
    BY <1>0, <2>2 DEF ReleaseStep, FetchStep, Requeue, ReleaseTakeEvent, ReleaseNoEvent, ReleaseInactive, ReleasePark, Destroy,
       PeekEvent, WaitEvent, FetchEvent, TakeEvent
  <2>3. CASE EmmitStep(a)
    BY <1>0, <2>3 DEF EmmitStep, EmmitDeliver, EmmitCopyError, EmmitPending, EmmitQueueFull,
       EmmitExtractError, CohortDeliver, CohortRejected, Refuse
  <2> QED BY <1>1, <2>1, <2>2, <2>3 DEF ThreadStep, InstanceStep
<1>2. ASSUME NEW w \in Workers, HandlerStep(w) \/ PopStep(w)
      PROVE  Kept \/ (x = w /\ pc[x] = "run" /\ msg'[x] \in HandlerEvents)
  BY <1>0, <1>2 DEF HandlerStep, PopStep, Emmit, Cohort, StartEmit, Ended, UnknownStatus, Nice, EventSleep, EventWaitIo,
     EventDoFileAio, Failed, Suspend, SuspendError, BackToReady, PopInstance, PopKill
<1>3. ASSUME EventThreadStep
      PROVE  Kept \/ (x = EventThread /\ pc[x] = "idle" /\ msg'[x] \in RemoteEvents)
  BY <1>0, <1>3 DEF EventThreadStep, IoReady, EmmitPackedEvent, StartEmit
<1>4. ASSUME EmmitPendingSend
      PROVE  Kept \/ (x = Main /\ phase = "boot" /\ phase' = phase /\ pc[x] = "idle" /\ msg'[x] \in PendingEvents)
  BY <1>0, <1>4 DEF EmmitPendingSend, StartEmit
<1>5. ASSUME ControllerSend
      PROVE  Kept \/ (x = Main /\ phase = "dispatch" /\ phase' = phase /\ pc[x] = "idle" /\ msg'[x] \in MainEvents)
  BY <1>0, <1>5 DEF ControllerSend, StartEmit
<1>6. ASSUME CallControllerInit \/ PoolSetMaxpar \/ ThreadNew \/ Dispatch \/ LoopExit \/ ThreadKill \/ Join
             \/ InstanceEnd \/ EventEnd \/ ControllerMaxpar \/ ControllerSetCapacity
      PROVE  Kept
  BY <1>0, <1>6 DEF CallControllerInit, PoolSetMaxpar, ThreadNew, Dispatch, LoopExit, ThreadKill, Join, InstanceEnd,
     EventEnd, ControllerMaxpar, ControllerSetCapacity, MaxparCapacity, SetReadyCapacity, SetEventCapacity
<1>7. CASE MainStep
  BY <1>0, <1>1, <1>7 DEF MainStep, MaxparLimit
<1>8. CASE EventLoopStep
  BY <1>0, <1>1, <1>3, <1>8 DEF EventLoopStep
<1>9. CASE \E w \in Workers : WorkerStep(w)
  BY <1>0, <1>1, <1>2, <1>9 DEF WorkerStep
<1>10. CASE UNCHANGED vars
  BY <1>10 DEF vars
<1> QED BY <1>4, <1>5, <1>6, <1>7, <1>8, <1>9, <1>10 DEF Next, RunStep, ControllerStep

(* A step that takes leda_run on finds the main thread outside emmit.      *)
LEMMA NextSources ==
    ASSUME IInv, Sources, [Next]_vars
    PROVE  Sources'
<1>0. Main \notin Workers /\ Main # EventThread /\ EventThread \notin Workers /\ Main \in Actors
      /\ Workers \subseteq Actors /\ pc \in [Actors -> Labels]
  BY ConstantsAssumption DEF Actors, IInv, TypeOK, LocalTypes
<1>1. UNCHANGED phase \/ pc'[Main] \notin EmitLabels
  <2>1. PhaseStep => pc'[Main] \notin EmitLabels
    <3>1. phase \notin {"boot", "init", "dispatch"} => pc[Main] \notin EmitLabels
      BY <1>0 DEF Sources
    <3> QED BY <3>1 DEF PhaseStep, EmitLabels
  <2> QED BY <2>1, LimitSteps DEF Plain, PoolSetMaxpar, ControllerMaxpar
<1>2. ASSUME NEW a \in Actors, pc'[a] \in EmitLabels
      PROVE  \/ a \in Workers /\ msg'[a] \in HandlerEvents
             \/ a = Main /\ phase' = "boot" /\ msg'[a] \in PendingEvents
             \/ a = Main /\ phase' = "dispatch" /\ msg'[a] \in MainEvents
             \/ a = EventThread /\ msg'[a] \in RemoteEvents
  BY <1>0, <1>1, <1>2, EmitSteps DEF Sources
<1>3. ASSUME phase' = "boot", NEW w \in Workers  PROVE pc'[w] = "unborn"
  <2>1. phase = "boot" /\ phase' = phase
    BY <1>3, LimitSteps DEF Plain, PhaseStep, PoolSetMaxpar, ControllerMaxpar
  <2>2. pc[w] = "unborn"
    BY <2>1 DEF Sources
  <2>3. Undisturbed => pc'[w] = "unborn"
    BY <2>2 DEF Undisturbed
  <2>4. ~ThreadNew /\ ~ThreadKill
    BY <2>1 DEF ThreadNew, ThreadKill
  <2>5. ASSUME NEW v \in Workers, PopKill(v)  PROVE pc'[w] = "unborn"
    BY <1>0, <2>2, <2>5 DEF PopKill, Goto
  <2> QED BY <2>3, <2>4, <2>5, PoolSteps
<1> QED BY <1>2, <1>3 DEF Sources

(* One thread at a time is inside emmit.                                   *)
LEMMA EmitterAlone ==
    ASSUME SingleEmitter, Sources
    PROVE  Alone
<1> SUFFICES ASSUME NEW a \in Actors, NEW b \in Actors, pc[a] \in EmitLabels, pc[b] \in EmitLabels
             PROVE  a = b
  BY DEF Alone
<1>0. Main \notin Workers /\ Main # EventThread /\ EventThread \notin Workers
  BY ConstantsAssumption
<1>1. "unborn" \notin EmitLabels
  BY DEF EmitLabels
<1>2. ASSUME NEW x \in Actors, NEW y \in Actors, x \in Workers, pc[x] \in EmitLabels, pc[y] \in EmitLabels
      PROVE  x = y
  <2>1. HandlerEvents # {} /\ phase # "boot"
    BY <1>0, <1>1, <1>2 DEF Sources
  <2> QED BY <1>2, <2>1 DEF Sources, SingleEmitter
<1>3. CASE a \notin Workers /\ b \notin Workers
  BY <1>0, <1>3 DEF Sources, SingleEmitter
<1> QED BY <1>2, <1>3

(* Raising a limit keeps what fits.                                        *)
LEMMA RaisesFits ==
    ASSUME NEW x \in Int, NEW y \in Int, NEW n \in Int, Raises(x, y), Fits(n, x)
    PROVE  Fits(n, y)
BY DEF Raises, Fits

(* A limit may be replaced by itself.                                      *)
LEMMA RaisesSelf == ASSUME NEW x \in Int PROVE Raises(x, x)
BY DEF Raises

(* instance_set_maxpar changes one limit at a time, and raises it.         *)
LEMMA NextLimits ==
    ASSUME LimitsRaised, IInv, Limits, [Next]_vars
    PROVE  Limits'
<1>0. /\ pc \in [Actors -> Labels] /\ dst \in [Actors -> Stages \cup {NoStage}] /\ seen \in [Actors -> Int]
      /\ limit \in [Stages -> Int] /\ recap \in [Stages -> Int] /\ Main \in Actors
      /\ PoolMaxpar \in Int /\ DefaultMaxpar \in Int /\ MaxparValues \subseteq Int
  BY ConstantsAssumption, ControllerAssumption DEF IInv, TypeOK, QueueTypes, CountTypes, LocalTypes, Actors
<1>1. CASE Plain
  BY <1>1 DEF Plain, Limits, Given, Early
<1>2. CASE PhaseStep
  <2>1. \A s \in Stages : Given(s) \subseteq Given(s)'
    <3>1. \A s \in Stages : s \notin Stages \ Serial => s \in Serial
      OBVIOUS
    <3>2. CASE phase = "boot" /\ phase' = "init" /\ todo' = Stages \ Serial
      BY <3>1, <3>2 DEF Given
    <3>3. CASE phase = "init" /\ phase' = "dispatch" /\ todo = {} /\ todo' = {}
      BY <3>3 DEF Given
    <3>4. CASE phase \in {"dispatch", "finish", "joined", "freed"} /\ phase' \in {"finish", "joined", "freed", "ended"}
      BY <3>4 DEF Given
    <3> QED BY <1>2, <3>2, <3>3, <3>4 DEF PhaseStep
  <2>2. pc[Main] # "maxpar" /\ pc'[Main] # "maxpar" /\ UNCHANGED <<limit, recap>>
    BY <1>2 DEF PhaseStep, Limits
  <2> QED BY <2>1, <2>2 DEF Limits
<1>3. ASSUME NEW s \in Stages \ Serial, NEW c \in Int, MaxparCapacity(Main, s, c),
             phase \in {"init", "dispatch"}, UNCHANGED phase, c \in Given(s)',
             \A t \in Stages : t # s => Given(t) \subseteq Given(t)', Early \/ Raises(limit[s], c)
      PROVE  Limits'
  <2>1. /\ recap' = [recap EXCEPT ![s] = c] /\ limit' = limit /\ pc'[Main] = "maxpar" /\ pc[Main] = "idle"
        /\ dst'[Main] = s /\ seen'[Main] = c
    BY <1>0, <1>3 DEF MaxparCapacity, Goto, countVars
  <2>2. \A t \in Stages : recap'[t] \in Given(t)'
    BY <1>0, <1>3, <2>1 DEF Limits
  <2>3. \A t \in Stages : limit'[t] = recap'[t] \/ (pc'[Main] = "maxpar" /\ dst'[Main] = t)
    BY <1>0, <2>1 DEF Limits
  <2>4. Early' \/ Raises(limit'[dst'[Main]], seen'[Main])
    BY <1>3, <2>1 DEF Early
  <2> QED BY <1>0, <1>3, <2>1, <2>2, <2>3, <2>4 DEF Limits
<1>4. CASE PoolSetMaxpar
  <2>1. PICK s \in todo : MaxparCapacity(Main, s, PoolMaxpar) /\ todo' = todo \ {s}
    BY <1>4 DEF PoolSetMaxpar
  <2>2. s \in Stages \ Serial /\ pc[Main] = "idle" /\ phase = "init" /\ phase' = phase
    BY <1>4, <2>1 DEF MaxparCapacity, PoolSetMaxpar
  <2>3. limit[s] = DefaultMaxpar
    BY <2>1, <2>2 DEF Limits, Given
  <2>4. Early \/ Raises(limit[s], PoolMaxpar)
    BY <2>2, <2>3 DEF LimitsRaised, Early
  <2>5. PoolMaxpar \in Given(s)' /\ \A t \in Stages : t # s => Given(t) \subseteq Given(t)'
    BY <2>1, <2>2 DEF Given
  <2> QED BY <1>0, <1>3, <2>1, <2>2, <2>4, <2>5
<1>5. CASE ControllerMaxpar
  <2>1. PICK s \in Stages, c \in MaxparValues : MaxparCapacity(Main, s, c)
    BY <1>5 DEF ControllerMaxpar
  <2>2. s \in Stages \ Serial /\ pc[Main] = "idle" /\ phase = "dispatch" /\ phase' = phase
    BY <1>5, <2>1 DEF MaxparCapacity, ControllerMaxpar
  <2>3. limit[s] \in {PoolMaxpar} \cup MaxparValues
    BY <2>1, <2>2 DEF Limits, Given
  <2>4. Raises(limit[s], c)
    BY <1>0, <2>1, <2>3, RaisesSelf DEF LimitsRaised
  <2>5. c \in Given(s)' /\ \A t \in Stages : t # s => Given(t) \subseteq Given(t)'
    BY <2>1, <2>2 DEF Given
  <2> QED BY <1>0, <1>3, <2>1, <2>2, <2>4, <2>5
<1>6. CASE MaxparLimit(Main) /\ UNCHANGED <<phase, todo>>
  <2>1. PICK s \in Stages : s = dst[Main] /\ recap[s] = seen[Main]
    BY <1>6 DEF MaxparLimit, Limits
  <2>2. limit' = [limit EXCEPT ![s] = recap[s]] /\ UNCHANGED recap /\ pc'[Main] = "idle"
    BY <1>0, <1>6, <2>1 DEF MaxparLimit, Goto, queueVars
  <2>3. \A t \in Stages : limit'[t] = recap'[t]
    BY <1>0, <2>1, <2>2 DEF Limits
  <2> QED BY <1>6, <2>2, <2>3 DEF Limits, Given
<1> QED BY <1>1, <1>2, <1>4, <1>5, <1>6, LimitSteps

(* Nobody emits before the first instance exists, unless leda_run or a     *)
(* remote process does.                                                    *)
LEMMA EarlyQuiet ==
    ASSUME IInv, Sources, Nobody, Early, NEW a \in Actors
    PROVE  pc[a] \notin EmitLabels
<1> SUFFICES ASSUME pc[a] \in EmitLabels PROVE FALSE
  OBVIOUS
<1>1. a \in Workers
  BY DEF Sources, Early, LateStart
<1> QED BY <1>1, CurInst, ConstantsAssumption DEF Nobody

(* The first instance is created after the limits are set.                 *)
LEMMA NextNobody ==
    ASSUME IInv, Sources, Nobody, [Next]_vars
    PROVE  Nobody'
<1> SUFFICES ASSUME Early', NEW i \in Inst PROVE stage'[i] = NoStage
  BY DEF Nobody
<1>0. stage \in [Inst -> Stages \cup {NoStage}]
  BY DEF IInv, TypeOK, InstTypes
<1>1. Early
  BY LimitSteps DEF Early, Plain, PhaseStep, PoolSetMaxpar, ControllerMaxpar
<1>2. stage[i] = NoStage
  BY <1>1 DEF Nobody
<1>3. ASSUME NEW a \in Actors, AquireCreate(a)  PROVE FALSE
  BY <1>1, <1>3, EarlyQuiet DEF AquireCreate, EmitLabels
<1>4. ASSUME NEW a \in Actors, AquireInitError(a) \/ Destroy(a)  PROVE stage'[i] = NoStage
  BY <1>0, <1>2, <1>4 DEF AquireInitError, Destroy
<1> QED BY <1>2, <1>3, <1>4, StageSteps

(* How a thread comes to compare the count with the limit, and to create.  *)
LEMMA CheckSteps ==
    ASSUME IInv, [Next]_vars, NEW x \in Actors, pc'[x] \in {"limit", "create"}
    PROVE  \/ AquireReadCount(x) \/ AquireCheckLimit(x)
           \/ pc[x] = pc'[x] /\ seen'[x] = seen[x] /\ dst'[x] = dst[x]
<1> USE DEF queueVars, countVars, instVars, localVars, instanceVars, schedulerVars, Goto, Home, Resume
<1> DEFINE Kept == pc[x] = pc'[x] /\ seen'[x] = seen[x] /\ dst'[x] = dst[x]
<1>0. /\ pc \in [Actors -> Labels] /\ dst \in [Actors -> Stages \cup {NoStage}] /\ seen \in [Actors -> Int]
      /\ Main \in Actors /\ EventThread \in Actors /\ Workers \subseteq Actors
  BY DEF IInv, TypeOK, LocalTypes, Actors
<1>1. ASSUME NEW a \in Actors, ThreadStep(a)
      PROVE  AquireReadCount(x) \/ AquireCheckLimit(x) \/ Kept
  <2>0. CASE AquireReadCount(a) \/ AquireCheckLimit(a)
    BY <1>0, <2>0 DEF AquireReadCount, AquireCheckLimit
  <2>1. CASE AquireStep(a) /\ ~AquireReadCount(a) /\ ~AquireCheckLimit(a)
    BY <1>0, <2>1 DEF AquireStep, AquireRecycled, AquireActive, AquireEmpty, AquireCreate, AquireInitOk, AquireInitError
  <2>2. CASE ReleaseStep(a) \/ FetchStep(a)
    BY <1>0, <2>2 DEF ReleaseStep, FetchStep, Requeue, ReleaseTakeEvent, ReleaseNoEvent, ReleaseInactive, ReleasePark, Destroy,
       PeekEvent, WaitEvent, FetchEvent, TakeEvent
  <2>3. CASE EmmitStep(a)
    BY <1>0, <2>3 DEF EmmitStep, EmmitDeliver, EmmitCopyError, EmmitPending, EmmitQueueFull,
       EmmitExtractError, CohortDeliver, CohortRejected, Refuse
  <2> QED BY <1>1, <2>0, <2>1, <2>2, <2>3 DEF ThreadStep, InstanceStep
<1>2. ASSUME NEW w \in Workers, HandlerStep(w) \/ PopStep(w)
      PROVE  Kept
  BY <1>0, <1>2 DEF HandlerStep, PopStep, Emmit, Cohort, StartEmit, Ended, UnknownStatus, Nice, EventSleep, EventWaitIo,
     EventDoFileAio, Failed, Suspend, SuspendError, BackToReady, PopInstance, PopKill
<1>3. ASSUME EventThreadStep
      PROVE  Kept
  BY <1>0, <1>3 DEF EventThreadStep, IoReady, EmmitPackedEvent, StartEmit
<1>4. ASSUME RunStep \/ ControllerStep, ~MainStep
      PROVE  Kept
  BY <1>0, <1>4 DEF RunStep, ControllerStep, EmmitPendingSend, CallControllerInit, PoolSetMaxpar, ThreadNew, Dispatch, LoopExit, ThreadKill,
     Join, InstanceEnd, EventEnd, ControllerSend, ControllerMaxpar, ControllerSetCapacity, StartEmit, MaxparCapacity,
     SetReadyCapacity, SetEventCapacity
<1>6. CASE MainStep
  BY <1>0, <1>1, <1>6 DEF MainStep, MaxparLimit
<1>7. CASE EventLoopStep
  BY <1>0, <1>1, <1>3, <1>7 DEF EventLoopStep
<1>8. CASE \E w \in Workers : WorkerStep(w)
  BY <1>0, <1>1, <1>2, <1>8 DEF WorkerStep
<1>9. CASE UNCHANGED vars
  BY <1>9 DEF vars
<1> QED BY <1>4, <1>6, <1>7, <1>8, <1>9 DEF Next

(* No instances are counted before any exists.                             *)
LEMMA EarlyZero ==
    ASSUME CountExact, Nobody, Early, NEW s \in Stages
    PROVE  ninst[s] = 0
<1>1. {i \in Inst : stage[i] = s} = {}
  BY ConstantsAssumption DEF Nobody
<1> QED BY <1>1, FS_EmptySet DEF CountExact

(* What fits a limit fits the capacity that goes with it.                  *)
LEMMA FitsBoth ==
    ASSUME IInv, Limits, ~Early, NEW s \in Stages, NEW n \in Int, Fits(n, limit[s])
    PROVE  Fits(n, recap[s])
<1>0. limit \in [Stages -> Int] /\ recap \in [Stages -> Int]
  BY DEF IInv, TypeOK, QueueTypes, CountTypes
<1>1. CASE limit[s] = recap[s]
  BY <1>1
<1>2. CASE pc[Main] = "maxpar" /\ dst[Main] = s
  <2>1. Raises(limit[s], recap[s])
    BY <1>2 DEF Limits
  <2> QED BY <1>0, <2>1, RaisesFits
<1> QED BY <1>1, <1>2 DEF Limits

(* The count stays within the limits: it grows only by the instance that   *)
(* the one emitter has found room for, and the limits do not shrink.       *)
LEMMA NextCountFits ==
    ASSUME SingleEmitter, LimitsRaised, IInv, InitStage, CountExact, LimitInv, [Next]_vars
    PROVE  CountFits'
<1>0. /\ pc \in [Actors -> Labels] /\ dst \in [Actors -> Stages \cup {NoStage}] /\ seen \in [Actors -> Int]
      /\ limit \in [Stages -> Int] /\ recap \in [Stages -> Int] /\ ninst \in [Stages -> Int] /\ Main \in Actors
      /\ \A a \in Actors : pc[a] \in EmitLabels => dst[a] \in Stages
  BY DEF IInv, TypeOK, QueueTypes, CountTypes, LocalTypes, Actors, Control, EmitOK
<1>1. Alone /\ Sources /\ Limits /\ Nobody /\ CountFits
  BY EmitterAlone DEF LimitInv
<1> USE DEF EmitLabels
<1>2. ASSUME NEW a \in Actors, AquireCreate(a), UNCHANGED <<limit, recap>>
      PROVE  CountFits'
  <2>1. PICK s \in Stages : s = dst[a] /\ ninst' = [ninst EXCEPT ![s] = @ + 1] /\ pc[a] = "create" /\ pc' = [pc EXCEPT ![a] = "init"]
    BY <1>0, <1>2 DEF AquireCreate, Goto
  <2>2. ~Early
    BY <1>1, <2>1, EarlyQuiet
  <2>3. Fits(ninst[s] + 1, limit[s]) /\ Fits(ninst[s] + 1, recap[s])
    BY <1>0, <1>1, <2>1, <2>2, FitsBoth DEF CountFits
  <2>4. \A t \in Stages : Fits(ninst'[t], limit'[t]) /\ Fits(ninst'[t], recap'[t])
    BY <1>0, <1>1, <1>2, <2>1, <2>3 DEF CountFits
  <2>5. \A b \in Actors : pc'[b] \notin {"limit", "create"}
    BY <1>0, <1>1, <2>1 DEF Alone
  <2> QED BY <2>4, <2>5 DEF CountFits
<1>3. ASSUME NEW s \in Stages, ninst' = [ninst EXCEPT ![s] = @ - 1], UNCHANGED <<limit, recap, dst, seen>>,
             \A b \in Actors : pc'[b] \in {"limit", "create"} => pc'[b] = pc[b]
      PROVE  CountFits'
  <2>1. \A t \in Stages : ninst'[t] \in Int /\ ninst'[t] <= ninst[t]
    BY <1>0, <1>3
  <2>2. \A t \in Stages : Fits(ninst'[t], limit'[t]) /\ Fits(ninst'[t], recap'[t])
    BY <1>0, <1>1, <1>3, <2>1 DEF CountFits, Fits
  <2>3. \A b \in Actors : pc'[b] = "limit" => ninst'[dst[b]] <= seen[b] /\ Fits(seen[b], limit[dst[b]])
    BY <1>0, <1>1, <1>3, <2>1 DEF CountFits
  <2>4. \A b \in Actors : pc'[b] = "create" => Fits(ninst'[dst[b]] + 1, limit[dst[b]])
    BY <1>0, <1>1, <1>3, <2>1 DEF CountFits, Fits
  <2> QED BY <1>3, <2>2, <2>3, <2>4 DEF CountFits
<1>4. ASSUME UNCHANGED <<ninst, limit, recap>>
      PROVE  CountFits'
  <2>1. ASSUME NEW x \in Actors, pc'[x] \in {"limit", "create"}
        PROVE  /\ pc'[x] = "limit" => ninst'[dst'[x]] <= seen'[x] /\ Fits(seen'[x], limit'[dst'[x]])
               /\ pc'[x] = "create" => Fits(ninst'[dst'[x]] + 1, limit'[dst'[x]])
    <3>1. CASE AquireReadCount(x)
      BY <1>0, <1>1, <1>4, <3>1 DEF AquireReadCount, CountFits, Goto
    <3>2. CASE AquireCheckLimit(x)
      <4>1. /\ pc[x] = "limit" /\ dst[x] \in Stages /\ UNCHANGED dst
            /\ pc'[x] = "create" => seen[x] # limit[dst[x]]
            /\ pc'[x] # "limit"
        BY <1>0, <3>2 DEF AquireCheckLimit, Goto
      <4>2. ninst[dst[x]] <= seen[x] /\ Fits(seen[x], limit[dst[x]])
        BY <1>1, <4>1 DEF CountFits
      <4> QED BY <1>0, <1>4, <4>1, <4>2 DEF Fits
    <3>3. CASE pc[x] = pc'[x] /\ seen'[x] = seen[x] /\ dst'[x] = dst[x]
      BY <1>1, <1>4, <2>1, <3>3 DEF CountFits
    <3> QED BY <2>1, <3>1, <3>2, <3>3, CheckSteps
  <2>2. \A t \in Stages : Fits(ninst'[t], limit'[t]) /\ Fits(ninst'[t], recap'[t])
    BY <1>1, <1>4 DEF CountFits
  <2> QED BY <2>1, <2>2 DEF CountFits
<1>5. ASSUME NEW s \in Stages, NEW c \in Int, c >= -1, MaxparCapacity(Main, s, c), Early \/ Raises(limit[s], c)
      PROVE  CountFits'
  <2>1. /\ recap' = [recap EXCEPT ![s] = c] /\ UNCHANGED <<limit, ninst>>
        /\ pc'[Main] = "maxpar" /\ \A b \in Actors : b # Main => pc'[b] = pc[b] /\ dst'[b] = dst[b] /\ seen'[b] = seen[b]
    BY <1>0, <1>5 DEF MaxparCapacity, Goto, countVars
  <2>2. Fits(ninst[s], c)
    <3>1. CASE Early
      BY <1>1, <1>5, <3>1, EarlyZero DEF Fits
    <3>2. CASE Raises(limit[s], c)
      BY <1>0, <1>1, <1>5, <3>2, RaisesFits DEF CountFits
    <3> QED BY <1>5, <3>1, <3>2
  <2>3. \A t \in Stages : Fits(ninst'[t], limit'[t]) /\ Fits(ninst'[t], recap'[t])
    BY <1>0, <1>1, <2>1, <2>2 DEF CountFits
  <2>4. \A b \in Actors : pc'[b] \in {"limit", "create"} => pc'[b] = pc[b] /\ dst'[b] = dst[b] /\ seen'[b] = seen[b]
    BY <2>1
  <2> QED BY <1>1, <2>1, <2>3, <2>4 DEF CountFits
<1>6. ASSUME MaxparLimit(Main)
      PROVE  CountFits'
  <2>1. PICK s \in Stages, c \in Int : s = dst[Main] /\ c = seen[Main] /\ recap[s] = c /\ (Early \/ Raises(limit[s], c))
    BY <1>0, <1>1, <1>6 DEF MaxparLimit, Limits
  <2>2. /\ limit' = [limit EXCEPT ![s] = c] /\ UNCHANGED <<ninst, recap, dst, seen>>
        /\ \A b \in Actors : pc'[b] = pc[b] \/ pc'[b] = "idle"
    BY <1>0, <1>6, <2>1 DEF MaxparLimit, Goto, queueVars
  <2>3. \A t \in Stages : Fits(ninst'[t], limit'[t]) /\ Fits(ninst'[t], recap'[t])
    BY <1>0, <1>1, <2>1, <2>2 DEF CountFits
  <2>4. \A t \in Stages, n \in Int : ~Early /\ Fits(n, limit[t]) => Fits(n, limit'[t])
    BY <1>0, <2>1, <2>2, RaisesFits
  <2>5. ASSUME NEW x \in Actors, pc'[x] \in {"limit", "create"}
        PROVE  /\ pc'[x] = "limit" => ninst'[dst'[x]] <= seen'[x] /\ Fits(seen'[x], limit'[dst'[x]])
               /\ pc'[x] = "create" => Fits(ninst'[dst'[x]] + 1, limit'[dst'[x]])
    <3>1. pc[x] = pc'[x] /\ dst[x] \in Stages
      BY <1>0, <2>2, <2>5
    <3>2. ~Early
      BY <1>1, <2>5, <3>1, EarlyQuiet
    <3> QED BY <1>0, <1>1, <2>2, <2>4, <3>1, <3>2 DEF CountFits
  <2> QED BY <2>3, <2>5 DEF CountFits
<1>7. ASSUME NEW s \in Stages, NEW c \in Int, MaxparCapacity(Main, s, c), UNCHANGED phase
      PROVE  Early \/ Raises(limit[s], c)
  <2>1. Limits'
    BY <1>1, NextLimits
  <2>2. pc'[Main] = "maxpar" /\ dst'[Main] = s /\ seen'[Main] = c /\ limit' = limit
    BY <1>0, <1>7 DEF MaxparCapacity, Goto, countVars
  <2> QED BY <1>7, <2>1, <2>2 DEF Limits, Early
<1>8. ASSUME UNCHANGED <<limit, recap>>
      PROVE  CountFits'
  <2>1. ASSUME NEW a \in Actors, AquireInitError(a)  PROVE CountFits'
    BY <1>0, <1>3, <1>8, <2>1 DEF AquireInitError, Goto
  <2>2. ASSUME NEW a \in Actors, Destroy(a)  PROVE CountFits'
    <3>1. stage[cur[a]] \in Stages
      BY <2>2, CurInst DEF Destroy, RunLabels
    <3>2. \A b \in Actors : pc'[b] \in {"limit", "create"} => pc'[b] = pc[b]
      BY <1>0, <2>2 DEF Destroy, Goto, Home
    <3> QED BY <1>3, <1>8, <2>2, <3>1, <3>2 DEF Destroy
  <2> QED BY <1>2, <1>4, <1>8, <2>1, <2>2, StageSteps
<1>9. CASE PoolSetMaxpar
  <2>1. PICK s \in todo : MaxparCapacity(Main, s, PoolMaxpar)
    BY <1>9 DEF PoolSetMaxpar
  <2> QED BY <1>5, <1>7, <1>9, <2>1, ControllerAssumption DEF PoolSetMaxpar, MaxparCapacity
<1>10. CASE ControllerMaxpar
  <2>1. PICK s \in Stages, c \in MaxparValues : MaxparCapacity(Main, s, c)
    BY <1>10 DEF ControllerMaxpar
  <2> QED BY <1>5, <1>7, <1>10, <2>1, ControllerAssumption DEF ControllerMaxpar
<1> QED BY <1>6, <1>8, <1>9, <1>10, LimitSteps DEF Plain, PhaseStep

(* Everything the limits rest on is inductive.                             *)
FullInv == EventInv /\ InitStage /\ CountExact

(* It holds before anything runs ...                                       *)
LEMMA InitFullInv == Init => FullInv
<1> SUFFICES ASSUME Init PROVE FullInv
  OBVIOUS
<1>1. InitStage
  BY DEF Init, InitStage, SchedulerInit, InstanceInit
<1>2. \A s \in Stages : {i \in Inst : stage[i] = s} = {}
  BY ConstantsAssumption DEF Init, SchedulerInit, InstanceInit
<1>3. CountExact
  BY <1>2, FS_EmptySet DEF CountExact, Init, SchedulerInit, InstanceInit
<1> QED BY <1>1, <1>3, InitEventInv DEF FullInv

(* ... and no step breaks it.                                              *)
LEMMA NextFullInv == ASSUME FullInv, [Next]_vars PROVE FullInv'
BY NextEventInv, NextInitStage, NextCountExact DEF FullInv, EventInv

(* The limits fit the counts, all 0, from the beginning.                   *)
LEMMA InitLimitInv == Init => LimitInv
<1> SUFFICES ASSUME Init PROVE LimitInv
  OBVIOUS
<1> USE DEF Init, SchedulerInit, InstanceInit
<1>0. Main \in Actors /\ Main \notin Workers /\ Workers \subseteq Actors /\ DefaultMaxpar \in Int /\ DefaultMaxpar >= -1
  BY ConstantsAssumption DEF Actors
<1>1. Sources
  BY <1>0 DEF Sources, EmitLabels
<1>2. Limits
  BY <1>0 DEF Limits, Given
<1>3. Nobody
  BY DEF Nobody
<1>4. CountFits
  BY <1>0 DEF CountFits, Fits
<1> QED BY <1>1, <1>2, <1>3, <1>4 DEF LimitInv

(* While one thread at a time emits and limits are not lowered, the        *)
(* invariant is preserved.                                                 *)
LEMMA NextLimitInv ==
    ASSUME SingleEmitter, LimitsRaised, FullInv, LimitInv, [Next]_vars
    PROVE  LimitInv'
<1>1. IInv /\ InitStage /\ CountExact
  BY DEF FullInv, EventInv
<1>2. Sources' /\ Limits' /\ Nobody'
  BY <1>1, NextSources, NextLimits, NextNobody DEF LimitInv
<1>3. CountFits'
  BY <1>1, NextCountFits
<1> QED BY <1>2, <1>3 DEF LimitInv

(* When only one thread at a time emits and no limit is lowered while      *)
(* there are instances, the check of instance_aquire against               *)
(* recycle_queue_limits is enough: no stage ever has more instances than   *)
(* its limit, a serial stage never two, whatever instances are released,   *)
(* fail or are suspended meanwhile and for any number of threads.  With    *)
(* two emitters this fails (run serial_race).                              *)
THEOREM LimitRespectedAlone ==
    ASSUME SingleEmitter, LimitsRaised
    PROVE  Spec => []LimitRespected
<1>1. ASSUME FullInv, LimitInv  PROVE LimitRespected
  <2>1. limit \in [Stages -> Int] /\ ninst \in [Stages -> Int]
    BY <1>1 DEF FullInv, EventInv, IInv, TypeOK, CountTypes
  <2> QED BY <1>1, <2>1 DEF LimitInv, CountFits, Fits, LimitRespected
<1> QED BY <1>1, InitFullInv, NextFullInv, InitLimitInv, NextLimitInv, PTL DEF Spec

(* A recycle queue and one instance more are no longer than the stage has  *)
(* instances.                                                              *)
LEMMA RecycleLength ==
    ASSUME FullInv, NEW i \in Inst, NEW s \in Stages, stage[i] = s, ~InRecycle(i)
    PROVE  Len(recycle[s]) < ninst[s]
<1> DEFINE Of == {j \in Inst : stage[j] = s}
<1> DEFINE f == [n \in 1..Len(recycle[s]) |-> recycle[s][n]]
<1>0. recycle[s] \in Seq(Inst) /\ NULL \notin Inst
  BY ConstantsAssumption DEF FullInv, EventInv, IInv, TypeOK, QueueTypes
<1>1. f \in [1..Len(recycle[s]) -> Of \ {i}]
  <2>1. ASSUME NEW n \in 1..Len(recycle[s])  PROVE recycle[s][n] \in Of \ {i}
    <3>1. recycle[s][n] \in Inst /\ In(recycle[s], recycle[s][n])
      BY <1>0 DEF In
    <3> QED BY <3>1 DEF FullInv, EventInv, RecycledStage, InRecycle
  <2> QED BY <2>1
<1>2. \A m, n \in 1..Len(recycle[s]) : f[m] = f[n] => m = n
  <2>1. Once(recycle[s])
    BY DEF FullInv, EventInv, IInv, OneOwner, NoDuplicates
  <2>2. \A n \in 1..Len(recycle[s]) : recycle[s][n] # NULL
    BY <1>0
  <2> QED BY <2>1, <2>2 DEF Once
<1>3. f \in Injection(1..Len(recycle[s]), Of \ {i})
  BY <1>1, <1>2 DEF Injection, IsInjective
<1>4. IsFiniteSet(Of) /\ IsFiniteSet(Of \ {i})
  BY FiniteStage, FS_Subset
<1>5. Cardinality(Of \ {i}) = Cardinality(Of) - 1 /\ Cardinality(Of) \in Nat
  BY <1>4, CountRemove
<1>6. Cardinality(1..Len(recycle[s])) = Len(recycle[s]) /\ Len(recycle[s]) \in Nat
  BY <1>0, FS_Interval
<1>7. Cardinality(1..Len(recycle[s])) <= Cardinality(Of \ {i})
  BY <1>3, <1>4, FS_Injection
<1>8. ninst[s] = Cardinality(Of)
  BY DEF FullInv, CountExact
<1> QED BY <1>5, <1>6, <1>7, <1>8

(* Under the same conditions instance_release always finds room in the     *)
(* recycle queue: no instance that could be reused is thrown away.         *)
THEOREM ReleaseFitsAlone ==
    ASSUME SingleEmitter, LimitsRaised
    PROVE  Spec => []ReleaseFits
<1>1. ASSUME FullInv, LimitInv  PROVE ReleaseFits
  <2> SUFFICES ASSUME NEW a \in Actors, pc[a] = "park"
               PROVE  HasRoom(recycle[stage[cur[a]]], recap[stage[cur[a]]])
    BY DEF ReleaseFits
  <2>1. PICK i \in Inst, s \in Stages : cur[a] = i /\ stage[i] = s /\ ~InRecycle(i)
    BY <1>1, CurInst DEF RunLabels, FullInv, EventInv
  <2>2. Len(recycle[s]) < ninst[s]
    BY <1>1, <2>1, RecycleLength
  <2>3. Fits(ninst[s], recap[s])
    BY <1>1 DEF LimitInv, CountFits
  <2>4. Len(recycle[s]) \in Nat /\ ninst[s] \in Int /\ recap[s] \in Int
    BY <1>1 DEF FullInv, EventInv, IInv, TypeOK, QueueTypes, CountTypes
  <2> QED BY <2>1, <2>2, <2>3, <2>4 DEF HasRoom, Fits
<1> QED BY <1>1, InitFullInv, NextFullInv, InitLimitInv, NextLimitInv, PTL DEF Spec

(* In particular the handler of a serial stage never has two instances.    *)
THEOREM SerialExclusiveAlone ==
    ASSUME SingleEmitter, LimitsRaised
    PROVE  Spec => []SerialExclusive
<1>1. ASSUME FullInv, LimitInv  PROVE SerialExclusive
  <2> SUFFICES ASSUME NEW s \in Serial PROVE ninst[s] <= 1
    BY DEF SerialExclusive
  <2>1. s \in Stages /\ ninst[s] \in Int
    BY <1>1, ConstantsAssumption DEF FullInv, EventInv, IInv, TypeOK, CountTypes
  <2>2. limit[s] = 1
    BY <1>1, <2>1 DEF LimitInv, Limits, Given
  <2> QED BY <1>1, <2>1, <2>2 DEF LimitInv, CountFits, Fits
<1> QED BY <1>1, InitFullInv, NextFullInv, InitLimitInv, NextLimitInv, PTL DEF Spec

-----------------------------------------------------------------------------
(* The hypotheses under which no wakeup is lost.  There is one worker, and *)
(* it and leda_run before it are the only emitters ...                     *)
OneThread == (\A v, w \in Workers : v = w) /\ MainEvents \cup RemoteEvents = {}

(* ... handlers return or yield, and payloads can be copied: an instance   *)
(* that fails is destroyed without a look at the pending queue ...         *)
NothingFails ==
    BadEvents = {} /\ Calls \subseteq {"EMMIT_COHORT", "NICE", "SLEEP", "wait_event", "get_event"}

(* ... and every stage may have an instance.                               *)
SomeRoom == DefaultMaxpar # 0 /\ PoolMaxpar # 0 /\ 0 \notin MaxparValues

(* The invariant: the limits allow an instance; no instance is lost; one   *)
(* that is put aside leaves no event behind; and what the emitter has seen *)
(* of the stage is still so.                                               *)
NonZero ==
    /\ \A s \in Stages : limit[s] # 0
    /\ pc[Main] = "maxpar" => seen[Main] # 0

Aware ==
    /\ lost = {} /\ got[EventThread] = NULL
    /\ \A w \in Workers : pc[w] \in {"inactive", "park", "destroy"} => evq[stage[cur[w]]] = <<>>
    /\ \A a \in Actors : pc[a] \in {"count", "limit", "nothing"} => recycle[dst[a]] = <<>>
    /\ \A a \in Actors : pc[a] = "limit" => seen[a] = ninst[dst[a]]
    /\ \A a \in Actors : pc[a] = "nothing" => ninst[dst[a]] # 0

AwareInv == Sources /\ NonZero /\ Aware /\ NoneStranded

(* What a step does to the pending queues, and what it loses.              *)
LEMMA PendingSteps ==
    ASSUME IInv, [Next]_vars
    PROVE  \/ UNCHANGED evq
           \/ \E s \in Stages : evq[s] # <<>> /\ evq' = [evq EXCEPT ![s] = Tail(@)]
           \/ \E a \in Actors : EmmitPending(a)
<1> USE DEF queueVars, countVars, instVars, localVars, instanceVars, schedulerVars
<1>0. Main \in Actors /\ EventThread \in Actors /\ Workers \subseteq Actors
  BY DEF Actors
<1>1. ASSUME NEW a \in Actors, ThreadStep(a)
      PROVE  \/ UNCHANGED evq \/ EmmitPending(a)
             \/ \E s \in Stages : evq[s] # <<>> /\ evq' = [evq EXCEPT ![s] = Tail(@)]
  <2>1. CASE AquireStep(a)
    BY <2>1 DEF AquireStep, AquireRecycled, AquireActive, AquireEmpty, AquireReadCount, AquireCheckLimit, AquireCreate,
       AquireInitOk, AquireInitError
  <2>2. CASE ReleaseStep(a)
    <3>1. CASE ReleaseTakeEvent(a)
      <4>1. stage[cur[a]] \in Stages
        BY <3>1, CurInst DEF ReleaseTakeEvent, RunLabels
      <4> QED BY <3>1, <4>1 DEF ReleaseTakeEvent
    <3> QED BY <2>2, <3>1 DEF ReleaseStep, Requeue, ReleaseNoEvent, ReleaseInactive, ReleasePark, Destroy
  <2>3. CASE FetchStep(a)
    <3>1. stage[cur[a]] \in Stages
      BY <2>3, CurInst DEF FetchStep, PeekEvent, WaitEvent, FetchEvent, RunLabels
    <3> QED BY <2>3, <3>1 DEF FetchStep, PeekEvent, WaitEvent, FetchEvent, TakeEvent
  <2>4. CASE EmmitStep(a)
    BY <2>4 DEF EmmitStep, EmmitDeliver, EmmitCopyError, EmmitQueueFull,
       EmmitExtractError, CohortDeliver, CohortRejected, Refuse
  <2> QED BY <1>1, <2>1, <2>2, <2>3, <2>4 DEF ThreadStep, InstanceStep
<1>2. ASSUME NEW w \in Workers, HandlerStep(w) \/ PopStep(w)
      PROVE  UNCHANGED evq
  BY <1>2 DEF HandlerStep, PopStep, Emmit, Cohort, StartEmit, Ended, UnknownStatus, Nice, EventSleep, EventWaitIo,
     EventDoFileAio, Failed, Suspend, SuspendError, BackToReady, PopInstance, PopKill
<1>3. ASSUME EventThreadStep
      PROVE  UNCHANGED evq
  BY <1>3 DEF EventThreadStep, IoReady, EmmitPackedEvent, StartEmit
<1>4. ASSUME RunStep \/ ControllerStep, ~MainStep
      PROVE  UNCHANGED evq
  BY <1>4 DEF RunStep, ControllerStep, EmmitPendingSend, CallControllerInit, PoolSetMaxpar, ThreadNew, Dispatch, LoopExit, ThreadKill,
     Join, InstanceEnd, EventEnd, ControllerSend, ControllerMaxpar, ControllerSetCapacity, StartEmit, MaxparCapacity,
     SetReadyCapacity, SetEventCapacity
<1>6. CASE MainStep
  BY <1>0, <1>1, <1>6 DEF MainStep, MaxparLimit
<1>7. CASE EventLoopStep
  BY <1>0, <1>1, <1>3, <1>7 DEF EventLoopStep
<1>8. CASE \E w \in Workers : WorkerStep(w)
  BY <1>0, <1>1, <1>2, <1>8 DEF WorkerStep
<1>9. CASE UNCHANGED vars
  BY <1>9 DEF vars
<1> QED BY <1>4, <1>6, <1>7, <1>8, <1>9 DEF Next

(* While nothing fails, how a thread comes to look for an instance in vain *)
(* or to put one aside, and what becomes of the instance it runs.          *)
LEMMA ThreadSteps ==
    ASSUME NothingFails, IInv, [Next]_vars, NEW x \in Actors
    PROVE  /\ pc'[x] \in {"count", "limit", "nothing"} =>
                \/ AquireEmpty(x) \/ AquireReadCount(x) \/ AquireCheckLimit(x)
                \/ pc[x] = pc'[x] /\ seen'[x] = seen[x] /\ dst'[x] = dst[x]
           /\ pc'[x] \in {"inactive", "park", "destroy"} =>
                ReleaseNoEvent(x) \/ ReleaseInactive(x) \/ ReleasePark(x) \/ (pc[x] = pc'[x] /\ cur'[x] = cur[x])
           /\ cur[x] # NULL /\ pc[x] \notin {"inactive", "park", "destroy"} =>
                \/ ReleaseNoEvent(x)
                \/ cur'[x] = cur[x] /\ pc'[x] \notin {"inactive", "park", "destroy"}
                \/ ready' = Append(ready, cur[x]) \/ cur[x] \in parked'
<1> USE DEF queueVars, countVars, instVars, localVars, instanceVars, schedulerVars, Goto, Home, Resume
<1> DEFINE Seeks == pc'[x] \in {"count", "limit", "nothing"} =>
                      \/ AquireEmpty(x) \/ AquireReadCount(x) \/ AquireCheckLimit(x)
                      \/ pc[x] = pc'[x] /\ seen'[x] = seen[x] /\ dst'[x] = dst[x]
           Leaves == pc'[x] \in {"inactive", "park", "destroy"} =>
                      ReleaseNoEvent(x) \/ ReleaseInactive(x) \/ ReleasePark(x) \/ (pc[x] = pc'[x] /\ cur'[x] = cur[x])
           Keeps == cur[x] # NULL /\ pc[x] \notin {"inactive", "park", "destroy"} =>
                      \/ ReleaseNoEvent(x)
                      \/ cur'[x] = cur[x] /\ pc'[x] \notin {"inactive", "park", "destroy"}
                      \/ ready' = Append(ready, cur[x]) \/ cur[x] \in parked'
           Same == pc'[x] = pc[x] /\ cur'[x] = cur[x] /\ seen'[x] = seen[x] /\ dst'[x] = dst[x]
<1>0. /\ pc \in [Actors -> Labels] /\ dst \in [Actors -> Stages \cup {NoStage}] /\ seen \in [Actors -> Int]
      /\ cur \in [Actors -> Inst \cup {NULL}]
      /\ Main \in Actors /\ EventThread \in Actors /\ Workers \subseteq Actors
      /\ pc[x] \in {"wait", "idle", "unborn"} => cur[x] = NULL
  BY DEF IInv, TypeOK, LocalTypes, Actors, Control, PointersOK, RunLabels, EmitLabels
<1>s. Same => Seeks /\ Leaves /\ Keeps
  OBVIOUS
<1>f. Calls \cap {"init_error", "WAIT_IO", "FILE_IO", "PCALL_ERROR", "DESTROY", "UNKNOWN", "quit"} = {} /\ BadEvents = {}
  BY DEF NothingFails
<1>1. ASSUME NEW a \in Actors, ThreadStep(a), a # x
      PROVE  Same
  <2>1. CASE AquireStep(a)
    BY <1>0, <1>1, <2>1 DEF AquireStep, AquireRecycled, AquireActive, AquireEmpty, AquireReadCount, AquireCheckLimit, AquireCreate,
       AquireInitOk, AquireInitError
  <2>2. CASE ReleaseStep(a) \/ FetchStep(a)
    BY <1>0, <1>1, <2>2 DEF ReleaseStep, FetchStep, Requeue, ReleaseTakeEvent, ReleaseNoEvent, ReleaseInactive, ReleasePark, Destroy,
       PeekEvent, WaitEvent, FetchEvent, TakeEvent
  <2>3. CASE EmmitStep(a)
    BY <1>0, <1>1, <2>3 DEF EmmitStep, EmmitDeliver, EmmitCopyError, EmmitPending, EmmitQueueFull,
       EmmitExtractError, CohortDeliver, CohortRejected, Refuse
  <2> QED BY <1>1, <2>1, <2>2, <2>3 DEF ThreadStep, InstanceStep
<1>2. ASSUME ThreadStep(x)
      PROVE  Seeks /\ Leaves /\ Keeps
  <2>1. CASE AquireStep(x)
    BY <1>0, <1>f, <2>1 DEF AquireStep, AquireRecycled, AquireActive, AquireEmpty, AquireReadCount, AquireCheckLimit, AquireCreate,
       AquireInitOk
  <2>2. CASE ReleaseStep(x)
    BY <1>0, <2>2 DEF ReleaseStep, Requeue, ReleaseTakeEvent, ReleaseNoEvent, ReleaseInactive, ReleasePark, Destroy
  <2>3. CASE FetchStep(x)
    BY <1>0, <2>3 DEF FetchStep, PeekEvent, WaitEvent, FetchEvent, TakeEvent
  <2>4. CASE EmmitStep(x)
    BY <1>0, <2>4 DEF EmmitStep, EmmitDeliver, EmmitCopyError, EmmitPending, EmmitQueueFull,
       EmmitExtractError, CohortDeliver, CohortRejected, Refuse
  <2> QED BY <1>2, <2>1, <2>2, <2>3, <2>4 DEF ThreadStep, InstanceStep
<1>3. ASSUME NEW w \in Workers, HandlerStep(w) \/ PopStep(w)
      PROVE  Seeks /\ Leaves /\ Keeps
  <2>1. CASE w # x
    <3>1. Same
      BY <1>0, <1>3, <2>1 DEF HandlerStep, PopStep, Emmit, Cohort, StartEmit, Ended, UnknownStatus, Nice, EventSleep,
         EventWaitIo, EventDoFileAio, Failed, Suspend, SuspendError, BackToReady, PopInstance, PopKill
    <3> QED BY <1>s, <3>1
  <2>2. CASE w = x
    BY <1>0, <1>3, <1>f, <2>2 DEF HandlerStep, PopStep, Emmit, Cohort, StartEmit, Ended, UnknownStatus, Nice, EventSleep,
         EventWaitIo, EventDoFileAio, Failed, Suspend, BackToReady, PopInstance, PopKill
  <2> QED BY <2>1, <2>2
<1>4. ASSUME EventThreadStep
      PROVE  Seeks /\ Leaves /\ Keeps
  BY <1>0, <1>4 DEF EventThreadStep, IoReady, EmmitPackedEvent, StartEmit
<1>5. ASSUME RunStep \/ ControllerStep, ~MainStep
      PROVE  Seeks /\ Leaves /\ Keeps
  BY <1>0, <1>5 DEF RunStep, ControllerStep, EmmitPendingSend, CallControllerInit, PoolSetMaxpar, ThreadNew, Dispatch, LoopExit, ThreadKill,
     Join, InstanceEnd, EventEnd, ControllerSend, ControllerMaxpar, ControllerSetCapacity, StartEmit, MaxparCapacity,
     SetReadyCapacity, SetEventCapacity
<1>6. ASSUME MaxparLimit(Main)
      PROVE  Seeks /\ Leaves /\ Keeps
  BY <1>0, <1>6 DEF MaxparLimit
<1>7. CASE MainStep
  BY <1>0, <1>1, <1>2, <1>6, <1>7, <1>s DEF MainStep
<1>8. CASE EventLoopStep
  BY <1>0, <1>1, <1>2, <1>4, <1>8, <1>s DEF EventLoopStep
<1>9. CASE \E w \in Workers : WorkerStep(w)
  BY <1>0, <1>1, <1>2, <1>3, <1>9, <1>s DEF WorkerStep
<1>10. CASE UNCHANGED vars
  BY <1>10, <1>s DEF vars
<1> QED BY <1>5, <1>7, <1>8, <1>9, <1>10 DEF Next

(* An instance that leaves the ready queue is run, and one that leaves     *)
(* libevent is in the hands of the event thread.                           *)
LEMMA QueueSteps ==
    ASSUME IInv, [Next]_vars, NEW i \in Inst, InReady(i) \/ i \in parked
    PROVE  InReady(i)' \/ i \in parked' \/ \E a \in Actors : cur'[a] = i /\ pc'[a] \notin {"inactive", "park", "destroy"}
<1> DEFINE Kept == InReady(i)' \/ i \in parked' \/ \E a \in Actors : cur'[a] = i /\ pc'[a] \notin {"inactive", "park", "destroy"}
<1>0. /\ pc \in [Actors -> Labels] /\ cur \in [Actors -> Inst \cup {NULL}] /\ ready \in Seq(Inst \cup {NULL})
      /\ EventThread \in Actors /\ Workers \subseteq Actors /\ NULL \notin Inst
  BY ConstantsAssumption DEF IInv, TypeOK, LocalTypes, QueueTypes, Actors
<1>1. ASSUME UNCHANGED <<ready, parked>>  PROVE Kept
  BY <1>1 DEF InReady
<1>2. ASSUME NEW x \in Inst \cup {NULL}, ready' = Append(ready, x), UNCHANGED parked  PROVE Kept
  BY <1>2, ReadyAppend
<1>3. ASSUME NEW w \in Workers, PopInstance(w) \/ PopKill(w), UNCHANGED parked  PROVE Kept
  <2>1. /\ ready # <<>> /\ ready' = Tail(ready)
        /\ Head(ready) = NULL \/ (cur'[w] = Head(ready) /\ pc'[w] = "run")
    BY <1>0, <1>3 DEF PopInstance, PopKill, Goto
  <2>2. InReady(i) => InReady(i)' \/ i = Head(ready)
    BY <2>1, ReadyTail
  <2> QED BY <1>0, <1>3, <2>1, <2>2
<1>4. ASSUME NEW a \in Actors, Move(a), UNCHANGED parked  PROVE Kept
  <2>1. CASE Requeue(a)
    BY <1>0, <1>2, <1>4, <2>1 DEF Requeue
  <2>2. CASE EmmitDeliver(a) \/ CohortDeliver(a)
    BY <1>0, <1>2, <1>4, <2>2, GotInst DEF EmmitDeliver, CohortDeliver
  <2>3. CASE a \in Workers /\ (PopInstance(a) \/ PopKill(a))
    BY <1>3, <1>4, <2>3
  <2>4. CASE \/ AquireRecycled(a) \/ AquireCreate(a) \/ AquireInitError(a) \/ Destroy(a)
             \/ ReleasePark(a) \/ ReleaseTakeEvent(a) \/ TakeEvent(a)
             \/ Ended(a) \/ UnknownStatus(a) \/ \E status \in Calls : Failed(a, status)
    BY <1>1, <1>4, <2>4 DEF AquireRecycled, AquireCreate, AquireInitError, Destroy, ReleasePark, ReleaseTakeEvent,
       TakeEvent, Ended, UnknownStatus, Failed, queueVars
  <2> QED BY <1>4, <2>1, <2>2, <2>3, <2>4 DEF Move
<1>5. ASSUME NEW w \in Workers, Suspend(w)  PROVE Kept
  BY <1>5 DEF Suspend, InReady, queueVars
<1>6. ASSUME NEW j \in Inst, IoReady(j)  PROVE Kept
  BY <1>0, <1>6 DEF IoReady, InReady, queueVars, Goto
<1>7. CASE ThreadKill
  BY <1>2, <1>7 DEF ThreadKill
<1>8. Still => Kept
  BY <1>1 DEF Still
<1> QED BY <1>4, <1>5, <1>6, <1>7, <1>8, MoveSteps

(* An instance that will look at the pending queue still will after any    *)
(* step but the one in which it has looked and found nothing.              *)
LEMMA WakeKept ==
    ASSUME NothingFails, IInv, [Next]_vars, NEW i \in Inst, WillRelease(i)
    PROVE  WillRelease(i)' \/ \E a \in Actors : ReleaseNoEvent(a) /\ cur[a] = i
<1>0. cur \in [Actors -> Inst \cup {NULL}] /\ NULL \notin Inst
  BY ConstantsAssumption DEF IInv, TypeOK, LocalTypes
<1>1. CASE InReady(i) \/ i \in parked
  BY <1>1, QueueSteps DEF WillRelease
<1>2. ASSUME NEW a \in Actors, cur[a] = i, pc[a] \notin {"inactive", "park", "destroy"}, ~ReleaseNoEvent(a)
      PROVE  WillRelease(i)'
  <2>1. ready' = Append(ready, i) => InReady(i)'
    BY ReadyAppend
  <2> QED BY <1>0, <1>2, <2>1, ThreadSteps DEF WillRelease
<1> QED BY <1>1, <1>2 DEF WillRelease

(* ... and it still belongs to its stage.                                  *)
LEMMA WakeStage ==
    ASSUME IInv, [Next]_vars, NEW i \in Inst, stage[i] # NoStage, WillRelease(i)
    PROVE  stage'[i] = stage[i]
<1>0. cur \in [Actors -> Inst \cup {NULL}] /\ NULL \notin Inst
  BY ConstantsAssumption DEF IInv, TypeOK, LocalTypes
<1>1. ASSUME NEW a \in Actors, got[a] = i  PROVE FALSE
  BY <1>0, <1>1 DEF WillRelease, IInv, OneOwner, OnePlace, NoDuplicates, Carried
<1>2. ASSUME NEW a \in Actors, cur[a] = i, pc[a] = "destroy"  PROVE FALSE
  BY <1>0, <1>2 DEF WillRelease, IInv, OneOwner, OnePlace, NoDuplicates, Carried
<1> QED BY <1>1, <1>2, StageKept

(* While a thread emits, no other one but the event thread does anything   *)
(* to instances.                                                           *)
LEMMA Solo ==
    ASSUME OneThread, IInv, Sources, NEW a \in Actors, pc[a] \in EmitLabels, NEW b \in Actors, b # a
    PROVE  /\ b \in Workers => pc[b] = "unborn"
           /\ pc[b] \notin EmitLabels \cup {"release", "inactive", "park", "destroy"}
<1>0. Main \notin Workers /\ Main # EventThread /\ EventThread \notin Workers
  BY ConstantsAssumption
<1>1. a \in Workers \/ (a = Main /\ phase = "boot")
  BY DEF Sources, OneThread
<1>2. b \in Workers => pc[b] = "unborn"
  BY <1>0, <1>1 DEF Sources, OneThread
<1>3. SingleEmitter
  BY DEF OneThread, SingleEmitter
<1>4. pc[b] \notin EmitLabels
  BY <1>3, EmitterAlone DEF Alone
<1> QED BY <1>0, <1>2, <1>4 DEF IInv, Control, LabelsOK, EmitLabels, Actors

(* No limit is ever 0.                                                     *)
LEMMA NextNonZero ==
    ASSUME SomeRoom, IInv, NonZero, [Next]_vars
    PROVE  NonZero'
<1>0. /\ pc \in [Actors -> Labels] /\ seen \in [Actors -> Int] /\ limit \in [Stages -> Int] /\ Main \in Actors
  BY DEF IInv, TypeOK, LocalTypes, CountTypes, Actors
<1>1. ASSUME NEW s, NEW c, MaxparCapacity(Main, s, c), c # 0  PROVE NonZero'
  BY <1>0, <1>1 DEF MaxparCapacity, NonZero, countVars
<1>2. CASE Plain \/ PhaseStep
  BY <1>2 DEF Plain, PhaseStep, NonZero
<1>3. CASE PoolSetMaxpar \/ ControllerMaxpar
  BY <1>1, <1>3 DEF PoolSetMaxpar, ControllerMaxpar, SomeRoom
<1>4. CASE MaxparLimit(Main)
  BY <1>0, <1>4 DEF MaxparLimit, NonZero, Goto
<1> QED BY <1>2, <1>3, <1>4, LimitSteps

(* Nothing is lost, and the event thread acquires nothing.                 *)
LEMMA NextKeepsAll ==
    ASSUME OneThread, NothingFails, IInv, Sources, lost = {}, got[EventThread] = NULL, [Next]_vars
    PROVE  lost' = {} /\ got'[EventThread] = NULL
<1> USE DEF queueVars, countVars, instVars, localVars, instanceVars, schedulerVars
<1>0. /\ got \in [Actors -> Inst \cup {NULL}] /\ RemoteEvents = {}
      /\ Main \in Actors /\ EventThread \in Actors /\ Workers \subseteq Actors
      /\ Main \notin Workers /\ Main # EventThread /\ EventThread \notin Workers
  BY ConstantsAssumption DEF IInv, TypeOK, LocalTypes, Actors, OneThread
<1>1. pc[EventThread] \notin EmitLabels
  BY <1>0 DEF Sources
<1>f. Calls \cap {"WAIT_IO", "FILE_IO"} = {} /\ BadEvents = {}
  BY DEF NothingFails
<1>2. ASSUME NEW a \in Actors, ThreadStep(a)
      PROVE  lost' = {} /\ got'[EventThread] = NULL
  <2>1. CASE AquireStep(a)
    BY <1>0, <1>1, <2>1 DEF AquireStep, AquireRecycled, AquireActive, AquireEmpty, AquireReadCount, AquireCheckLimit, AquireCreate,
       AquireInitOk, AquireInitError, EmitLabels
  <2>2. CASE ReleaseStep(a) \/ FetchStep(a)
    BY <2>2 DEF ReleaseStep, FetchStep, Requeue, ReleaseTakeEvent, ReleaseNoEvent, ReleaseInactive, ReleasePark, Destroy,
       PeekEvent, WaitEvent, FetchEvent, TakeEvent
  <2>3. CASE EmmitStep(a)
    BY <1>0, <1>f, <2>3 DEF EmmitStep, EmmitDeliver, EmmitCopyError, EmmitPending, EmmitQueueFull,
       EmmitExtractError, CohortDeliver, CohortRejected, Refuse
  <2> QED BY <1>2, <2>1, <2>2, <2>3 DEF ThreadStep, InstanceStep
<1>3. ASSUME NEW w \in Workers, HandlerStep(w) \/ PopStep(w)
      PROVE  UNCHANGED <<lost, got>>
  BY <1>3, <1>f DEF HandlerStep, PopStep, Emmit, Cohort, StartEmit, Ended, UnknownStatus, Nice, EventSleep, EventWaitIo,
     EventDoFileAio, Failed, Suspend, BackToReady, PopInstance, PopKill
<1>4. ASSUME EventThreadStep
      PROVE  UNCHANGED <<lost, got>>
  BY <1>4 DEF EventThreadStep, IoReady, EmmitPackedEvent, StartEmit
<1>5. ASSUME RunStep \/ ControllerStep, ~MainStep
      PROVE  UNCHANGED <<lost, got>>
  BY <1>5 DEF RunStep, ControllerStep, EmmitPendingSend, CallControllerInit, PoolSetMaxpar, ThreadNew, Dispatch, LoopExit, ThreadKill,
     Join, InstanceEnd, EventEnd, ControllerSend, ControllerMaxpar, ControllerSetCapacity, StartEmit, MaxparCapacity,
     SetReadyCapacity, SetEventCapacity
<1>6. CASE MainStep
  BY <1>0, <1>2, <1>6 DEF MainStep, MaxparLimit
<1>7. CASE EventLoopStep
  BY <1>0, <1>2, <1>4, <1>7 DEF EventLoopStep
<1>8. CASE \E w \in Workers : WorkerStep(w)
  BY <1>0, <1>2, <1>3, <1>8 DEF WorkerStep
<1>9. CASE UNCHANGED vars
  BY <1>9 DEF vars
<1> QED BY <1>5, <1>6, <1>7, <1>8, <1>9 DEF Next

(* Only instance_aquire and instance_release touch the recycle queues.     *)
LEMMA RecycleSteps ==
    ASSUME IInv, [Next]_vars
    PROVE  UNCHANGED recycle \/ \E a \in Actors : AquireRecycled(a) \/ ReleasePark(a)
<1> USE DEF queueVars
<1>1. ASSUME NEW a \in Actors, Move(a)
      PROVE  UNCHANGED recycle \/ AquireRecycled(a) \/ ReleasePark(a)
  BY <1>1 DEF Move, AquireCreate, AquireInitError, Destroy, ReleaseTakeEvent, Requeue, EmmitDeliver, CohortDeliver,
     TakeEvent, Ended, UnknownStatus, Failed, PopInstance, PopKill
<1>2. Still \/ ThreadKill => UNCHANGED recycle
  BY DEF Still, ThreadKill
<1>3. ASSUME NEW w \in Workers, Suspend(w)  PROVE UNCHANGED recycle
  BY <1>3 DEF Suspend
<1>4. ASSUME NEW i \in Inst, IoReady(i)  PROVE UNCHANGED recycle
  BY <1>4 DEF IoReady
<1> QED BY <1>1, <1>2, <1>3, <1>4, MoveSteps

(* What the one emitter has seen stays so until it acts on it.             *)
LEMMA SeenKept ==
    ASSUME OneThread, NothingFails, IInv, Sources, [Next]_vars, NEW x \in Actors,
           pc[x] \in EmitLabels, pc'[x] \in {"count", "limit", "nothing"}
    PROVE  UNCHANGED <<recycle, ninst>>
<1>0. /\ pc \in [Actors -> Labels] /\ "init_error" \notin Calls
  BY DEF IInv, TypeOK, LocalTypes, NothingFails
<1>1. ASSUME NEW a \in Actors, AquireRecycled(a)  PROVE FALSE
  <2>1. a = x
    BY <1>1, Solo DEF AquireRecycled, EmitLabels
  <2> QED BY <1>0, <1>1, <2>1 DEF AquireRecycled, Goto
<1>2. ASSUME NEW a \in Actors, AquireCreate(a)  PROVE FALSE
  <2>1. a = x
    BY <1>2, Solo DEF AquireCreate, EmitLabels
  <2> QED BY <1>0, <1>2, <2>1 DEF AquireCreate, Goto
<1>3. ASSUME NEW a \in Actors, ReleasePark(a) \/ Destroy(a)  PROVE FALSE
  <2>1. pc[a] \in {"inactive", "park", "destroy"}
    BY <1>3 DEF ReleasePark, Destroy
  <2>2. a # x
    BY <2>1 DEF EmitLabels
  <2> QED BY <2>1, <2>2, Solo
<1>4. ASSUME NEW a \in Actors, AquireInitError(a)  PROVE FALSE
  <2>1. a = x
    BY <1>4, Solo DEF AquireInitError, EmitLabels
  <2>2. pc[x] = "init" /\ pc'[x] = "nothing"
    BY <1>0, <1>4, <2>1 DEF AquireInitError, Goto
  <2> QED BY <2>2, ThreadSteps DEF AquireEmpty, AquireReadCount, AquireCheckLimit
<1> QED BY <1>1, <1>2, <1>3, <1>4, RecycleSteps, StageSteps

(* An instance that is put aside leaves no event behind.                   *)
LEMMA NextLeavesNone ==
    ASSUME OneThread, NothingFails, IInv, Sources, Aware, [Next]_vars, NEW w \in Workers, pc'[w] \in {"inactive", "park", "destroy"}
    PROVE  evq'[stage'[cur'[w]]] = <<>>
<1>0. /\ pc \in [Actors -> Labels] /\ w \in Actors /\ evq \in [Stages -> Seq(Events)]
  BY DEF IInv, TypeOK, LocalTypes, QueueTypes, Actors
<1>1. CASE ReleaseNoEvent(w)
  BY <1>1 DEF ReleaseNoEvent, queueVars, instVars
<1>2. CASE ReleaseInactive(w) \/ ReleasePark(w)
  <2>1. pc[w] \in {"inactive", "park"} /\ cur'[w] = cur[w] /\ UNCHANGED <<stage, evq>>
    BY <1>0, <1>2 DEF ReleaseInactive, ReleasePark, Goto, Home, queueVars, instVars
  <2> QED BY <2>1 DEF Aware
<1>3. CASE pc[w] = pc'[w] /\ cur'[w] = cur[w]
  <2>1. evq[stage[cur[w]]] = <<>> /\ pc[w] \in {"inactive", "park", "destroy"}
    BY <1>3 DEF Aware
  <2>2. PICK i \in Inst, s \in Stages : i = cur[w] /\ s = stage[i]
        /\ \A b \in Actors : got[b] # i /\ (b # w => cur[b] # i)
    BY <1>0, <2>1, CurInst DEF RunLabels
  <2>3. stage'[i] = s
    <3>1. ASSUME stage'[i] # s  PROVE FALSE
      <4>1. PICK a \in Actors : Others /\ (AquireCreate(a) \/ AquireInitError(a) \/ Destroy(a))
        BY <2>2, <3>1, StageSteps
      <4>2. CASE AquireCreate(a)
        BY <2>2, <3>1, <4>2, ConstantsAssumption DEF AquireCreate, IInv, TypeOK, InstTypes
      <4>3. CASE AquireInitError(a)
        BY <2>2, <3>1, <4>3 DEF AquireInitError, IInv, TypeOK, InstTypes
      <4>4. CASE Destroy(a)
        <5>1. a = w
          BY <2>2, <3>1, <4>4 DEF Destroy, IInv, TypeOK, InstTypes
        <5> QED BY <1>0, <1>3, <2>1, <4>4, <5>1 DEF Destroy, Goto, Home
      <4> QED BY <4>1, <4>2, <4>3, <4>4
    <3> QED BY <3>1
  <2>4. evq'[s] = <<>>
    <3>1. ASSUME NEW a \in Actors, EmmitPending(a)  PROVE FALSE
      <4>1. a # w /\ pc[a] \in EmitLabels
        BY <2>1, <3>1 DEF EmmitPending, EmitLabels
      <4> QED BY <1>0, <2>1, <4>1, Solo
    <3>2. ASSUME NEW t \in Stages, evq[t] # <<>>, evq' = [evq EXCEPT ![t] = Tail(@)]  PROVE evq'[s] = <<>>
      BY <1>0, <2>1, <2>2, <3>2
    <3> QED BY <2>1, <2>2, <3>1, <3>2, PendingSteps
  <2> QED BY <1>3, <2>2, <2>3, <2>4
<1> QED BY <1>0, <1>1, <1>2, <1>3, ThreadSteps

(* The emitter that finds no instance has found the recycle queue empty    *)
(* and the limit reached, and both are still so.                           *)
LEMMA NextAware ==
    ASSUME OneThread, NothingFails, IInv, Sources, NonZero, Aware, [Next]_vars
    PROVE  Aware'
<1>0. /\ pc \in [Actors -> Labels] /\ seen \in [Actors -> Int]
      /\ \A a \in Actors : pc[a] \in EmitLabels => dst[a] \in Stages
  BY DEF IInv, TypeOK, LocalTypes, Control, EmitOK
<1>1. lost' = {} /\ got'[EventThread] = NULL
  BY NextKeepsAll DEF Aware
<1>2. ASSUME NEW x \in Actors, pc'[x] \in {"count", "limit", "nothing"}
      PROVE  /\ recycle'[dst'[x]] = <<>>
             /\ pc'[x] = "limit" => seen'[x] = ninst'[dst'[x]]
             /\ pc'[x] = "nothing" => ninst'[dst'[x]] # 0
  <2>1. pc[x] \in EmitLabels => UNCHANGED <<recycle, ninst>>
    BY <1>2, SeenKept
  <2>2. CASE AquireEmpty(x)
    BY <1>0, <2>1, <2>2 DEF AquireEmpty, EmitLabels, Goto
  <2>3. CASE AquireReadCount(x)
    BY <1>0, <2>1, <2>3 DEF AquireReadCount, EmitLabels, Goto, Aware
  <2>4. CASE AquireCheckLimit(x)
    <3>1. pc[x] = "limit" /\ dst' = dst /\ pc'[x] # "limit" /\ (pc'[x] = "nothing" => seen[x] = limit[dst[x]])
      BY <1>0, <2>4 DEF AquireCheckLimit, Goto
    <3>2. limit[dst[x]] # 0 /\ seen[x] = ninst[dst[x]] /\ recycle[dst[x]] = <<>>
      BY <1>0, <3>1 DEF EmitLabels, Aware, NonZero
    <3> QED BY <2>1, <3>1, <3>2 DEF EmitLabels
  <2>5. CASE pc[x] = pc'[x] /\ seen'[x] = seen[x] /\ dst'[x] = dst[x]
    BY <1>2, <2>1, <2>5 DEF Aware, EmitLabels
  <2> QED BY <1>2, <2>2, <2>3, <2>4, <2>5, ThreadSteps
<1> QED BY <1>1, <1>2, NextLeavesNone DEF Aware

(* An event becomes pending only while some instance of its stage is       *)
(* queued, suspended or running.                                           *)
LEMMA PendingSeen ==
    ASSUME OneThread, FullInv, Sources, Aware, NEW a \in Actors, EmmitPending(a)
    PROVE  \E i \in Inst : stage[i] = dst[a] /\ WillRelease(i)
<1>0. /\ pc[a] = "nothing" /\ dst[a] \in Stages /\ IInv /\ pc[a] \in EmitLabels
      /\ ninst[dst[a]] # 0 /\ recycle[dst[a]] = <<>> /\ lost = {} /\ got[EventThread] = NULL
      /\ NULL \notin Inst /\ NoStage \notin Stages
  BY ConstantsAssumption DEF EmmitPending, FullInv, EventInv, IInv, Control, EmitOK, EmitLabels, Aware
<1>1. PICK i \in Inst : stage[i] = dst[a]
  <2>1. {j \in Inst : stage[j] = dst[a]} # {}
    BY <1>0, FS_EmptySet DEF FullInv, CountExact
  <2> QED BY <2>1
<1>2. ~InRecycle(i)
  BY <1>0, <1>1 DEF FullInv, EventInv, RecycledStage, InRecycle, In
<1>3. InReady(i) \/ i \in parked \/ Carried(i)
  BY <1>0, <1>1, <1>2 DEF IInv, OneOwner, OnePlace, Allocated
<1>4. ASSUME NEW b \in Actors, got[b] = i  PROVE FALSE
  <2>1. b # EventThread /\ pc[b] \in {"recycled", "init", "deliver"}
    BY <1>0, <1>4, ConstantsAssumption DEF IInv, Control, PointersOK, LabelsOK, Actors, RunLabels, EmitLabels
  <2> QED BY <1>0, <2>1, Solo DEF EmitLabels
<1>5. ASSUME NEW b \in Actors, cur[b] = i  PROVE pc[b] \notin {"inactive", "park", "destroy"}
  BY <1>0, Solo
<1> QED BY <1>1, <1>3, <1>4, <1>5 DEF WillRelease, Carried

(* No step strands a pending event.                                        *)
LEMMA NextNoneStranded ==
    ASSUME OneThread, NothingFails, FullInv, Sources, Aware, NoneStranded, [Next]_vars
    PROVE  NoneStranded'
<1> SUFFICES ASSUME NEW s \in Stages, evq'[s] # <<>>
             PROVE  \E i \in Inst : stage'[i] = s /\ WillRelease(i)'
  BY DEF NoneStranded
<1>0. IInv /\ evq \in [Stages -> Seq(Events)] /\ NoStage \notin Stages
  BY ConstantsAssumption DEF FullInv, EventInv, IInv, TypeOK, QueueTypes
<1>1. ASSUME NEW i \in Inst, stage[i] = s, WillRelease(i), evq[s] # <<>>
      PROVE  stage'[i] = s /\ WillRelease(i)'
  <2>1. ASSUME NEW a \in Actors, ReleaseNoEvent(a), cur[a] = i  PROVE FALSE
    BY <1>1, <2>1 DEF ReleaseNoEvent
  <2> QED BY <1>0, <1>1, <2>1, WakeKept, WakeStage
<1>2. ASSUME NEW a \in Actors, EmmitPending(a), dst[a] = s
      PROVE  \E i \in Inst : stage'[i] = s /\ WillRelease(i)'
  <2>1. PICK i \in Inst : stage[i] = s /\ WillRelease(i)
    BY <1>2, PendingSeen
  <2>2. ASSUME NEW b \in Actors, ReleaseNoEvent(b)  PROVE FALSE
    <3>1. pc[a] \in EmitLabels /\ pc[b] = "release"
      BY <1>2, <2>2 DEF EmmitPending, ReleaseNoEvent, EmitLabels
    <3> QED BY <1>0, <3>1, Solo DEF EmitLabels
  <2> QED BY <1>0, <2>1, <2>2, WakeKept, WakeStage
<1>3. CASE evq[s] # <<>>
  BY <1>1, <1>3 DEF NoneStranded
<1>4. CASE evq[s] = <<>>
  <2>1. ASSUME NEW t \in Stages, evq[t] # <<>>, evq' = [evq EXCEPT ![t] = Tail(@)]  PROVE FALSE
    BY <1>0, <1>4, <2>1
  <2>2. PICK a \in Actors : EmmitPending(a)
    BY <1>4, <2>1, PendingSteps, <1>0
  <2>3. dst[a] = s
    BY <1>0, <1>4, <2>2 DEF EmmitPending
  <2> QED BY <1>2, <2>2, <2>3
<1> QED BY <1>3, <1>4

(* With one worker, while handlers return or yield, no wakeup is lost: an  *)
(* event that emmit leaves in the pending queue of a stage, however the    *)
(* event thread and the worker interleave, always has an instance of that  *)
(* stage queued, suspended or running that will come to instance_release   *)
(* and look at the queue again.  With two emitters this fails (run         *)
(* stranded): the instance is parked between the look and the push.        *)
THEOREM NoneStrandedAlone ==
    ASSUME OneThread, NothingFails, SomeRoom
    PROVE  Spec => []NoneStranded
<1>1. Init => AwareInv
  <2> SUFFICES ASSUME Init PROVE AwareInv
    OBVIOUS
  <2> USE DEF Init, SchedulerInit, InstanceInit
  <2>1. Sources
    BY InitLimitInv DEF LimitInv
  <2>2. NonZero
    BY ConstantsAssumption DEF NonZero, SomeRoom, Actors
  <2>3. Aware
    BY ConstantsAssumption DEF Aware, Actors
  <2>4. NoneStranded
    BY DEF NoneStranded
  <2> QED BY <2>1, <2>2, <2>3, <2>4 DEF AwareInv
<1>2. ASSUME FullInv, AwareInv, [Next]_vars  PROVE AwareInv'
  BY <1>2, NextSources, NextNonZero, NextAware, NextNoneStranded DEF AwareInv, FullInv, EventInv
<1>3. AwareInv => NoneStranded
  BY DEF AwareInv
<1> QED BY <1>1, <1>2, <1>3, InitFullInv, NextFullInv, PTL DEF Spec
=============================================================================
