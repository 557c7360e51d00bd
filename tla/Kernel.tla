------------------------------- MODULE Kernel -------------------------------
(***************************************************************************)
(* A running Leda process: leda_run (src/kernel/kernel.c) on the main      *)
(* thread, the thread_pool controller it calls (leda/controller/           *)
(* thread_pool.lua), the worker threads and the event thread, over the     *)
(* instance subsystem and the scheduler.                                   *)
(***************************************************************************)
EXTENDS Scheduler

CONSTANTS
    PoolMaxpar,      \* the value the controller's init gives to kernel.maxpar
    MaxparValues,    \* values the controller gives to kernel.maxpar later on
    ReadyCapacities, \* values it gives to kernel.set_capacity for the ready queue
    EventCapacities  \* ... and for event queues

ASSUME ControllerAssumption ==
    /\ PoolMaxpar \in Int /\ PoolMaxpar >= -1
    /\ MaxparValues \subseteq {c \in Int : c >= -1}
    /\ ReadyCapacities \subseteq Int /\ EventCapacities \subseteq Int
    /\ IsFiniteSet(Workers)

VARIABLES
    phase,   \* where leda_run is
    todo,    \* stages the controller's init has still to give a limit
    kills    \* how many times the controller's finish has called thread:kill

vars == <<schedulerVars, phase, todo, kills>>

Init ==
    /\ SchedulerInit
    /\ pc = [a \in Actors |-> IF a \in Workers THEN "unborn" ELSE "idle"]
    /\ phase = "boot" /\ todo = {} /\ kills = 0

-----------------------------------------------------------------------------
(* leda_run emits every pending event of every stage ...                   *)
EmmitPendingSend ==
    /\ phase = "boot"
    /\ \E e \in PendingEvents, s \in Stages : StartEmit(Main, e, s, "emmit")
    /\ UNCHANGED <<phase, todo, kills>>

(* ... then calls the controller's init, which sets the limit of every     *)
(* stage that is not serial and creates the threads.                       *)
CallControllerInit ==
    /\ phase = "boot" /\ pc[Main] = "idle"
    /\ \A e \in PendingEvents : fate[e] # "new"
    /\ phase' = "init" /\ todo' = Stages \ Serial
    /\ UNCHANGED <<schedulerVars, kills>>

PoolSetMaxpar ==
    /\ phase = "init"
    /\ \E s \in todo : /\ MaxparCapacity(Main, s, PoolMaxpar)
                       /\ todo' = todo \ {s}
    /\ UNCHANGED <<parked, pool_size, quit, phase, kills>>

ThreadNew ==
    /\ phase = "init" /\ pc[Main] = "idle" /\ todo = {}
    /\ \E w \in Workers : pc[w] = "unborn" /\ Goto(w, "wait")
    /\ pool_size' = pool_size + 1
    /\ UNCHANGED <<queueVars, countVars, instVars, fate, cur, got, dst, how, msg, seen,
                   parked, quit, phase, todo, kills>>

Dispatch ==
    /\ phase = "init" /\ pc[Main] = "idle" /\ todo = {}
    /\ \A w \in Workers : pc[w] # "unborn"
    /\ phase' = "dispatch"
    /\ UNCHANGED <<schedulerVars, todo, kills>>

(* While the main thread is in event_base_dispatch, a callback of the      *)
(* controller may send events and change limits and capacities.            *)
ControllerSend ==
    /\ phase = "dispatch"
    /\ \E e \in MainEvents, s \in Stages : StartEmit(Main, e, s, "emmit")
    /\ UNCHANGED <<phase, todo, kills>>

ControllerMaxpar ==
    /\ phase = "dispatch"
    /\ \E s \in Stages, c \in MaxparValues : MaxparCapacity(Main, s, c)
    /\ UNCHANGED <<parked, pool_size, quit, phase, todo, kills>>

ControllerSetCapacity ==
    /\ phase = "dispatch"
    /\ \/ \E c \in ReadyCapacities : SetReadyCapacity(Main, c)
       \/ \E s \in Stages, c \in EventCapacities : SetEventCapacity(Main, s, c)
    /\ UNCHANGED <<parked, pool_size, quit, phase, todo, kills>>

(* The steps of maxpar and of emmit on the main thread.                    *)
MainStep ==
    /\ \/ ThreadStep(Main)
       \/ MaxparLimit(Main) /\ UNCHANGED <<parked, pool_size, quit>>
    /\ UNCHANGED <<phase, todo, kills>>

-----------------------------------------------------------------------------
(* leda.quit makes the dispatch loop return; the controller's finish asks  *)
(* every thread to exit, with one NULL each, and joins them.               *)
LoopExit ==
    /\ phase = "dispatch" /\ pc[Main] = "idle" /\ quit
    /\ phase' = "finish"
    /\ UNCHANGED <<schedulerVars, todo, kills>>

(* Mutant: the loop of finish stops one thread short.                      *)
ThreadKillShort ==
    /\ phase = "finish" /\ kills < Cardinality(Workers) - 1
    /\ HasRoom(ready, readycap)
    /\ ready' = Append(ready, NULL)
    /\ kills' = kills + 1
    /\ UNCHANGED <<readycap, recycle, recap, evq, evcap, countVars, instVars, fate,
                   localVars, parked, pool_size, quit, phase, todo>>

ThreadKill ==
    /\ phase = "finish" /\ kills < Cardinality(Workers)
    /\ HasRoom(ready, readycap)
    /\ ready' = Append(ready, NULL)
    /\ kills' = kills + 1
    /\ UNCHANGED <<readycap, recycle, recap, evq, evcap, countVars, instVars, fate,
                   localVars, parked, pool_size, quit, phase, todo>>

Join ==
    /\ phase = "finish" /\ kills = Cardinality(Workers)
    /\ \A w \in Workers : pc[w] = "done"
    /\ phase' = "joined"
    /\ UNCHANGED <<schedulerVars, todo, kills>>

(* stats_free and instance_end; only then is the event thread stopped.     *)
InstanceEnd ==
    /\ phase = "joined"
    /\ phase' = "freed"
    /\ UNCHANGED <<schedulerVars, todo, kills>>

EventEnd ==
    /\ phase = "freed"
    /\ phase' = "ended"
    /\ Goto(EventThread, "killed")
    /\ UNCHANGED <<queueVars, countVars, instVars, fate, cur, got, dst, how, msg, seen,
                   parked, pool_size, quit, todo, kills>>

-----------------------------------------------------------------------------
WorkerStep(w) ==
    /\ ThreadStep(w) \/ HandlerStep(w) \/ PopStep(w)
    /\ UNCHANGED <<phase, todo, kills>>

(* What the event thread does to queues that instance_end has freed is     *)
(* undefined, so the model stops it there.                                 *)
EventLoopStep ==
    /\ phase \notin {"freed", "ended"}
    /\ ThreadStep(EventThread) \/ EventThreadStep
    /\ UNCHANGED <<phase, todo, kills>>

RunStep ==
    \/ EmmitPendingSend \/ CallControllerInit \/ PoolSetMaxpar \/ ThreadNew \/ Dispatch
    \/ MainStep \/ LoopExit \/ ThreadKill \/ Join \/ InstanceEnd \/ EventEnd

ControllerStep == ControllerSend \/ ControllerMaxpar \/ ControllerSetCapacity

Next ==
    \/ RunStep \/ ControllerStep \/ EventLoopStep
    \/ \E w \in Workers : WorkerStep(w)

Spec == Init /\ [][Next]_vars

(* Threads are scheduled by the operating system and libevent fires what   *)
(* is due: no thread that can go on stops for ever.  A handler may yield   *)
(* as often as it likes but returns in the end.  Nothing is assumed of the *)
(* controller's callbacks, of leda.quit or of remote processes.            *)
EventLoopProgress ==
    /\ phase \notin {"freed", "ended"}
    /\ ThreadStep(EventThread) \/ \E i \in Inst : IoReady(i)
    /\ UNCHANGED <<phase, todo, kills>>

HandlerReturns(w) == Ended(w) /\ UNCHANGED <<phase, todo, kills>>

Fairness ==
    /\ WF_vars(RunStep) /\ WF_vars(EventLoopProgress)
    /\ \A w \in Workers : WF_vars(WorkerStep(w)) /\ SF_vars(HandlerReturns(w))

FairSpec == Spec /\ Fairness

-----------------------------------------------------------------------------
Labels == {"unborn", "wait", "run", "idle", "aquire", "recycled", "count", "limit", "create",
           "init", "deliver", "nothing", "requeue", "release", "inactive", "park", "destroy",
           "fetch", "maxpar", "done", "killed"}
Fates == {"new", "sent", "done", "failed", "rejected"}
Phases == {"boot", "init", "dispatch", "finish", "joined", "freed", "ended"}

(* Type invariant: what every variable of the process holds.               *)
QueueTypes ==
    /\ ready \in Seq(Inst \cup {NULL}) /\ readycap \in Int
    /\ recycle \in [Stages -> Seq(Inst)] /\ recap \in [Stages -> Int]
    /\ evq \in [Stages -> Seq(Events)] /\ evcap \in [Stages -> Int]

CountTypes ==
    /\ limit \in [Stages -> Int] /\ ninst \in [Stages -> Int] /\ active \in [Stages -> Int]
    /\ pool_size \in Int /\ kills \in Nat

InstTypes ==
    /\ stage \in [Inst -> Stages \cup {NoStage}]
    /\ held \in [Inst -> SUBSET Events]
    /\ lost \subseteq Inst /\ parked \subseteq Inst
    /\ fate \in [Events -> Fates]

LocalTypes ==
    /\ pc \in [Actors -> Labels]
    /\ cur \in [Actors -> Inst \cup {NULL}] /\ got \in [Actors -> Inst \cup {NULL}]
    /\ dst \in [Actors -> Stages \cup {NoStage}]
    /\ how \in [Actors -> {"emmit", "cohort"}]
    /\ msg \in [Actors -> Events \cup {NoEvent}]
    /\ seen \in [Actors -> Int]
    /\ phase \in Phases /\ todo \subseteq Stages

TypeOK == QueueTypes /\ CountTypes /\ InstTypes /\ LocalTypes /\ quit \in BOOLEAN

-----------------------------------------------------------------------------
(* The places that refer to an instance.                                   *)
In(q, x)     == \E n \in 1..Len(q) : q[n] = x
InReady(i)   == In(ready, i)
InRecycle(i) == \E s \in Stages : In(recycle[s], i)
Carried(i)   == \E a \in Actors : cur[a] = i \/ got[a] = i
Allocated(i) == stage[i] # NoStage

(* A queue lists nothing twice, except NULL.                               *)
Once(q) == \A m, n \in 1..Len(q) : q[m] = q[n] /\ q[m] # NULL => m = n

(* No queue lists an instance twice, and no two pointers of the threads    *)
(* (the instance a thread runs, the one it has just acquired) are equal.   *)
NoDuplicates ==
    /\ Once(ready)
    /\ \A s \in Stages : Once(recycle[s])
    /\ \A s, t \in Stages, i \in Inst : In(recycle[s], i) /\ In(recycle[t], i) => s = t
    /\ \A a, b \in Actors : /\ cur[a] = cur[b] /\ cur[a] # NULL => a = b
                            /\ got[a] = got[b] /\ got[a] # NULL => a = b
                            /\ cur[a] = got[b] => cur[a] = NULL

(* The places exclude each other, and only allocated memory is in one.     *)
OnePlace ==
    \A i \in Inst :
      /\ InReady(i) => ~InRecycle(i) /\ i \notin parked /\ i \notin lost /\ ~Carried(i)
      /\ InRecycle(i) => i \notin parked /\ i \notin lost /\ ~Carried(i)
      /\ i \in parked => i \notin lost /\ ~Carried(i)
      /\ i \in lost => ~Carried(i)
      /\ InReady(i) \/ InRecycle(i) \/ i \in parked \/ i \in lost \/ Carried(i) <=> Allocated(i)

(* An instance is owned by exactly one queue, thread or pending operation  *)
(* as long as its memory is allocated: no handler runs on two threads, no  *)
(* freed instance is ever scheduled, and none leaks except through the two *)
(* error paths that fill `lost'.                                           *)
OneOwner == NoDuplicates /\ OnePlace

(* number_of_instances is the number of instances that exist, whatever     *)
(* threads are in the middle of creating or destroying some.               *)
CountExact == \A s \in Stages : ninst[s] = Cardinality({i \in Inst : stage[i] = s})

(* A recycled instance belongs to the stage of its queue and has nothing   *)
(* left to do; a queued or suspended one has an event it was given, so a   *)
(* worker never resumes a handler without arguments.                       *)
IdleOrBusy ==
    /\ \A s \in Stages : \A n \in 1..Len(recycle[s]) :
         stage[recycle[s][n]] = s /\ held[recycle[s][n]] = {}
    /\ \A i \in Inst : InReady(i) \/ i \in parked => held[i] # {}

(* The places that refer to an event.                                      *)
QueuedAt(e)  == UNION {{s} \X {n \in 1..Len(evq[s]) : evq[s][n] = e} : s \in Stages}
HeldBy(e)    == {i \in Inst : e \in held[i]}
CarriedBy(e) == {a \in Actors : msg[a] = e}

(* An event that was sent and not answered for is in exactly one event     *)
(* queue, instance or emitting thread; any other event is in none.  Events *)
(* are not duplicated, and none disappears between two queues.             *)
EventOnce ==
    \A e \in Events :
      Cardinality(QueuedAt(e)) + Cardinality(HeldBy(e)) + Cardinality(CarriedBy(e))
        = (IF fate[e] = "sent" THEN 1 ELSE 0)

(* What each stage is being asked to take, and what its instances have.    *)
Offered == [s \in Stages |-> {msg[a] : a \in {b \in Actors : dst[b] = s}} \ {NoEvent}]
Working == [s \in Stages |-> UNION {held[i] : i \in {j \in Inst : stage[j] = s}}]

Service == INSTANCE EventService WITH offered <- Offered, pending <- evq, working <- Working

(* A process implements EventService: whichever thread emits, creates,     *)
(* recycles, suspends or destroys what, each event is handled by an        *)
(* instance of the stage it was emitted to or refused, pending events are  *)
(* taken in order, and what became of an event is never revised.           *)
ImplementsService == Service!Spec

(* The instances of a stage that are at work: queued to run, suspended, or *)
(* with a handler that a thread is running (which may be inside emmit).    *)
(* Those a thread has in its hands between two queues are not counted: it  *)
(* may be about to call STATS_ACTIVE or have called STATS_INACTIVE.        *)
Busy(s) ==
    {i \in Inst : /\ stage[i] = s
                  /\ \/ InReady(i) \/ i \in parked
                     \/ \E w \in Workers :
                          /\ cur[w] = i
                          /\ pc[w] \notin {"requeue", "release", "inactive", "park", "destroy"}}

(* sstats[].active never counts fewer instances than are at work, whatever *)
(* threads are between taking an instance and counting it.                 *)
ActiveCovers == \A s \in Stages : active[s] >= Cardinality(Busy(s))

(* Shutdown: each request to exit stops exactly one worker, and pool_size  *)
(* counts the workers that are left.                                       *)
KillsMatched ==
    /\ kills = Cardinality({n \in 1..Len(ready) : ready[n] = NULL})
                 + Cardinality({w \in Workers : pc[w] = "done"})
    /\ pool_size = Cardinality({w \in Workers : pc[w] \notin {"unborn", "done"}})

-----------------------------------------------------------------------------
(* A stage has at most as many instances as its limit allows: a serial     *)
(* stage one, any other stage what maxpar says.                            *)
LimitRespected == \A s \in Stages : limit[s] >= 0 => ninst[s] <= limit[s]

(* The same for serial stages alone: their handler is never run by two     *)
(* instances, so its state is neither duplicated nor raced on.             *)
SerialExclusive == \A s \in Serial : ninst[s] <= 1

(* instance_release always finds room in the recycle queue.                *)
ReleaseFits ==
    \A a \in Actors :
      pc[a] = "park" => HasRoom(recycle[stage[cur[a]]], recap[stage[cur[a]]])

(* The instance will come to instance_release and look at the pending      *)
(* queue: it is queued, suspended or run by a thread that is not about to  *)
(* put it aside.                                                           *)
WillRelease(i) ==
    \/ InReady(i) \/ i \in parked
    \/ \E a \in Actors : cur[a] = i /\ pc[a] \notin {"inactive", "park", "destroy"}

(* No wakeup is lost between emmit, which finds no instance and leaves an  *)
(* event in the pending queue, and instance_release, which finds that      *)
(* queue empty and puts its instance aside: while an event waits for a     *)
(* stage, some instance of that stage will look at the queue again.        *)
NoneStranded ==
    \A s \in Stages : evq[s] # <<>> => \E i \in Inst : stage[i] = s /\ WillRelease(i)

(* Every event that emmit accepted reaches a handler that returns or       *)
(* fails: none stays in an event queue for ever.                           *)
EventsHandled == \A e \in Events : fate[e] = "sent" ~> fate[e] # "sent"

(* After leda.quit every worker finishes what it runs and exits, and       *)
(* leda_run returns.                                                       *)
ShutdownCompletes == quit ~> phase = "ended"
=============================================================================
