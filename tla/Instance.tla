------------------------------ MODULE Instance ------------------------------
(***************************************************************************)
(* The instance subsystem of a Leda process (src/kernel/instance.c): stage *)
(* instances, the recycle queue and the pending-event queue of each stage, *)
(* the process-wide ready queue, and the two operations that move an       *)
(* instance between them, instance_aquire and instance_release.            *)
(*                                                                         *)
(* An actor is any thread that runs this code: a worker thread, the main   *)
(* thread (leda_run and the controller) or the event thread (libevent).    *)
(* Every atomic step of the code (one queue operation, one READ, ADD, SUB  *)
(* or STORE of an atomic) is one action; what a thread remembers between   *)
(* two of them is in pc, cur, got, dst, how, msg and seen.                 *)
(*                                                                         *)
(* The queues are tbb::concurrent_bounded_queue objects (tbb_queue.cpp,    *)
(* the default build): linearizable bounded FIFO queues.                   *)
(***************************************************************************)
EXTENDS Integers, Sequences, FiniteSets

CONSTANTS
    Stages,          \* stages of the graph
    Serial,          \* the stages declared serial
    Inst,            \* instance descriptors the allocator can hand out
    HandlerEvents,   \* events emitted by stage handlers
    PendingEvents,   \* stage.pending: events emitted before the controller starts
    MainEvents,      \* events sent by the controller (kernel.send)
    RemoteEvents,    \* events received from other processes
    BadEvents,       \* events with a payload that cannot be copied
    Workers,         \* worker threads
    Main,            \* the thread that called leda_run
    EventThread,     \* the thread in event_main
    DefaultMaxpar,   \* recycle limit of the stages that are not serial
    NULL, NoStage, NoEvent

Events == HandlerEvents \cup PendingEvents \cup MainEvents \cup RemoteEvents
Actors == Workers \cup {Main, EventThread}

ASSUME ConstantsAssumption ==
    /\ Serial \subseteq Stages
    /\ BadEvents \subseteq HandlerEvents
    /\ HandlerEvents \cap (PendingEvents \cup MainEvents \cup RemoteEvents) = {}
    /\ PendingEvents \cap (MainEvents \cup RemoteEvents) = {}
    /\ MainEvents \cap RemoteEvents = {}
    /\ Main \notin Workers /\ EventThread \notin Workers /\ Main # EventThread
    /\ NULL \notin Inst /\ NoStage \notin Stages /\ NoEvent \notin Events
    /\ DefaultMaxpar \in Int /\ DefaultMaxpar >= -1
    /\ IsFiniteSet(Inst)

VARIABLES
    ready,      \* ready_queue: instances to run; NULL asks a worker to exit
    readycap,   \* its capacity (-1: unbounded)
    recycle,    \* recycle_queues: idle instances of each stage
    recap,      \* their capacities
    evq,        \* event_queues: pending events of each stage
    evcap,      \* their capacities
    limit,      \* recycle_queue_limits
    ninst,      \* number_of_instances
    active,     \* sstats[].active
    stage,      \* stage of each allocated instance, NoStage if it is free memory
    held,       \* the events an instance was given and has not finished with
    lost,       \* allocated instances that no thread and no queue refers to
    fate,       \* what became of each event
    pc, cur, got, dst, how, msg, seen   \* locals of each actor

queueVars == <<ready, readycap, recycle, recap, evq, evcap>>
countVars == <<limit, ninst, active>>
instVars  == <<stage, held, lost>>
localVars == <<pc, cur, got, dst, how, msg, seen>>
instanceVars == <<queueVars, countVars, instVars, fate, localVars>>

-----------------------------------------------------------------------------
(* A bounded queue of TBB accepts an element while its size is below its   *)
(* capacity; a negative capacity means no bound.                           *)
HasRoom(q, cap) == cap < 0 \/ Len(q) < cap

(* Where a thread continues after emmit returns, and where it goes when it *)
(* has given its instance away.                                            *)
Resume(a) == IF a \in Workers THEN "run" ELSE "idle"
Home(a)   == IF a \in Workers THEN "wait" ELSE "idle"

Goto(a, l) == pc' = [pc EXCEPT ![a] = l]

(* The state instance_init leaves: empty queues, one recycle slot for a    *)
(* serial stage and the default for the others, unbounded event queues.    *)
InstanceInit ==
    /\ ready = <<>> /\ readycap = -1
    /\ recycle = [s \in Stages |-> <<>>]
    /\ limit = [s \in Stages |-> IF s \in Serial THEN 1 ELSE DefaultMaxpar]
    /\ recap = limit
    /\ evq = [s \in Stages |-> <<>>]
    /\ evcap = [s \in Stages |-> -1]
    /\ ninst = [s \in Stages |-> 0]
    /\ active = [s \in Stages |-> 0]
    /\ stage = [i \in Inst |-> NoStage]
    /\ held = [i \in Inst |-> {}]
    /\ lost = {}
    /\ fate = [e \in Events |-> "new"]
    /\ cur = [a \in Actors |-> NULL]
    /\ got = [a \in Actors |-> NULL]
    /\ dst = [a \in Actors |-> NoStage]
    /\ how = [a \in Actors |-> "emmit"]
    /\ msg = [a \in Actors |-> NoEvent]
    /\ seen = [a \in Actors |-> 0]

-----------------------------------------------------------------------------
(* instance_aquire(dst): an idle instance from the recycle queue, counted  *)
(* as active in a second step ...                                          *)
AquireRecycled(a) ==
    /\ pc[a] = "aquire"
    /\ recycle[dst[a]] # <<>>
    /\ got' = [got EXCEPT ![a] = Head(recycle[dst[a]])]
    /\ recycle' = [recycle EXCEPT ![dst[a]] = Tail(@)]
    /\ Goto(a, "recycled")
    /\ UNCHANGED <<ready, readycap, recap, evq, evcap, countVars, instVars,
                   fate, cur, dst, how, msg, seen>>

(* Mutant: STATS_ACTIVE forgotten for an instance that is reused.          *)
AquireUncounted(a) ==
    /\ pc[a] = "recycled"
    /\ Goto(a, "deliver")
    /\ UNCHANGED <<queueVars, countVars, instVars, fate, cur, got, dst, how, msg, seen>>

AquireActive(a) ==
    /\ pc[a] = "recycled"
    /\ active' = [active EXCEPT ![dst[a]] = @ + 1]
    /\ Goto(a, "deliver")
    /\ UNCHANGED <<queueVars, limit, ninst, instVars, fate, cur, got, dst, how, msg, seen>>

(* ... or, when TRY_POP finds none, the test for one more instance: the    *)
(* counter is read first, and the limit it is compared with later.         *)
AquireEmpty(a) ==
    /\ pc[a] = "aquire"
    /\ recycle[dst[a]] = <<>>
    /\ Goto(a, "count")
    /\ UNCHANGED <<queueVars, countVars, instVars, fate, cur, got, dst, how, msg, seen>>

AquireReadCount(a) ==
    /\ pc[a] = "count"
    /\ seen' = [seen EXCEPT ![a] = ninst[dst[a]]]
    /\ Goto(a, "limit")
    /\ UNCHANGED <<queueVars, countVars, instVars, fate, cur, got, dst, how, msg>>

(* Mutant: one instance too many.                                          *)
AquireCheckLimitLate(a) ==
    /\ pc[a] = "limit"
    /\ Goto(a, IF seen[a] = limit[dst[a]] + 1 THEN "nothing" ELSE "create")
    /\ UNCHANGED <<queueVars, countVars, instVars, fate, cur, got, dst, how, msg, seen>>

AquireCheckLimit(a) ==
    /\ pc[a] = "limit"
    /\ Goto(a, IF seen[a] = limit[dst[a]] THEN "nothing" ELSE "create")
    /\ UNCHANGED <<queueVars, countVars, instVars, fate, cur, got, dst, how, msg, seen>>

(* The counter is incremented and the instance allocated; its init chunk   *)
(* then runs under lua_pcall.                                              *)
AquireCreate(a) ==
    /\ pc[a] = "create"
    /\ \E i \in Inst :
         /\ stage[i] = NoStage
         /\ stage' = [stage EXCEPT ![i] = dst[a]]
         /\ got' = [got EXCEPT ![a] = i]
    /\ ninst' = [ninst EXCEPT ![dst[a]] = @ + 1]
    /\ active' = [active EXCEPT ![dst[a]] = @ + 1]
    /\ Goto(a, "init")
    /\ UNCHANGED <<queueVars, limit, held, lost, fate, cur, dst, how, msg, seen>>

AquireInitOk(a) ==
    /\ pc[a] = "init"
    /\ Goto(a, "deliver")
    /\ UNCHANGED <<queueVars, countVars, instVars, fate, cur, got, dst, how, msg, seen>>

(* instance_destroy without STATS_INACTIVE, and NULL to the caller.        *)
AquireInitError(a) ==
    /\ pc[a] = "init"
    /\ ninst' = [ninst EXCEPT ![dst[a]] = @ - 1]
    /\ stage' = [stage EXCEPT ![got[a]] = NoStage]
    /\ got' = [got EXCEPT ![a] = NULL]
    /\ Goto(a, "nothing")
    /\ UNCHANGED <<queueVars, limit, active, held, lost, fate, cur, dst, how, msg, seen>>

-----------------------------------------------------------------------------
(* push_ready_queue(cur): TRY_PUSH, and the blocking PUSH when it is full. *)
Requeue(a) ==
    /\ pc[a] = "requeue"
    /\ HasRoom(ready, readycap)
    /\ ready' = Append(ready, cur[a])
    /\ cur' = [cur EXCEPT ![a] = NULL]
    /\ Goto(a, Home(a))
    /\ UNCHANGED <<readycap, recycle, recap, evq, evcap, countVars, instVars, fate,
                   got, dst, how, msg, seen>>

(* Mutant: the event is read but stays in the queue.                       *)
ReleaseReadEvent(a) ==
    /\ pc[a] = "release"
    /\ evq[stage[cur[a]]] # <<>>
    /\ held' = [held EXCEPT ![cur[a]] = {Head(evq[stage[cur[a]]])}]
    /\ Goto(a, "requeue")
    /\ UNCHANGED <<queueVars, countVars, stage, lost, fate, cur, got, dst, how, msg, seen>>

(* Mutant: the newest pending event is taken instead of the oldest.        *)
ReleaseTakeNewest(a) ==
    /\ pc[a] = "release"
    /\ LET s == stage[cur[a]] IN
         /\ evq[s] # <<>>
         /\ held' = [held EXCEPT ![cur[a]] = {evq[s][Len(evq[s])]}]
         /\ evq' = [evq EXCEPT ![s] = SubSeq(@, 1, Len(@) - 1)]
    /\ Goto(a, "requeue")
    /\ UNCHANGED <<ready, readycap, recycle, recap, evcap, countVars, stage, lost, fate,
                   cur, got, dst, how, msg, seen>>

(* instance_release: a pending event of the stage is given to the instance,*)
(* which goes back to the ready queue ...                                  *)
ReleaseTakeEvent(a) ==
    /\ pc[a] = "release"
    /\ LET s == stage[cur[a]] IN
         /\ evq[s] # <<>>
         /\ held' = [held EXCEPT ![cur[a]] = {Head(evq[s])}]
         /\ evq' = [evq EXCEPT ![s] = Tail(@)]
    /\ Goto(a, "requeue")
    /\ UNCHANGED <<ready, readycap, recycle, recap, evcap, countVars, stage, lost, fate,
                   cur, got, dst, how, msg, seen>>

(* Mutant: the instance is parked without a look at the event queue.       *)
ReleaseUnchecked(a) ==
    /\ pc[a] = "release"
    /\ Goto(a, "inactive")
    /\ UNCHANGED <<queueVars, countVars, instVars, fate, cur, got, dst, how, msg, seen>>

(* ... or, there being none, STATS_INACTIVE counts it out in a second step *)
(* and a third one parks it, or finds the recycle queue full.              *)
ReleaseNoEvent(a) ==
    /\ pc[a] = "release"
    /\ evq[stage[cur[a]]] = <<>>
    /\ Goto(a, "inactive")
    /\ UNCHANGED <<queueVars, countVars, instVars, fate, cur, got, dst, how, msg, seen>>

ReleaseInactive(a) ==
    /\ pc[a] = "inactive"
    /\ active' = [active EXCEPT ![stage[cur[a]]] = @ - 1]
    /\ Goto(a, "park")
    /\ UNCHANGED <<queueVars, limit, ninst, instVars, fate, cur, got, dst, how, msg, seen>>

ReleasePark(a) ==
    /\ pc[a] = "park"
    /\ LET s == stage[cur[a]] IN
         \/ /\ HasRoom(recycle[s], recap[s])
            /\ recycle' = [recycle EXCEPT ![s] = Append(@, cur[a])]
            /\ cur' = [cur EXCEPT ![a] = NULL]
            /\ Goto(a, Home(a))
         \/ /\ ~HasRoom(recycle[s], recap[s])
            /\ Goto(a, "destroy")
            /\ UNCHANGED <<recycle, cur>>
    /\ UNCHANGED <<ready, readycap, recap, evq, evcap, countVars, instVars, fate,
                   got, dst, how, msg, seen>>

(* Mutant: freed without SUB(number_of_instances).                         *)
DestroyUncounted(a) ==
    /\ pc[a] = "destroy"
    /\ stage' = [stage EXCEPT ![cur[a]] = NoStage]
    /\ cur' = [cur EXCEPT ![a] = NULL]
    /\ Goto(a, Home(a))
    /\ UNCHANGED <<queueVars, countVars, held, lost, fate, got, dst, how, msg, seen>>

(* instance_destroy: the counter goes down and the memory is freed.        *)
Destroy(a) ==
    /\ pc[a] = "destroy"
    /\ ninst' = [ninst EXCEPT ![stage[cur[a]]] = @ - 1]
    /\ stage' = [stage EXCEPT ![cur[a]] = NoStage]
    /\ cur' = [cur EXCEPT ![a] = NULL]
    /\ Goto(a, Home(a))
    /\ UNCHANGED <<queueVars, limit, active, held, lost, fate, got, dst, how, msg, seen>>

-----------------------------------------------------------------------------
(* instance_peek_for_event and instance_wait_for_event take an event of    *)
(* their own stage from inside the handler; the second blocks the thread.  *)
TakeEvent(a) ==
    LET s == stage[cur[a]] IN
      /\ evq[s] # <<>>
      /\ held' = [held EXCEPT ![cur[a]] = @ \cup {Head(evq[s])}]
      /\ evq' = [evq EXCEPT ![s] = Tail(@)]
      /\ UNCHANGED <<ready, readycap, recycle, recap, evcap, countVars, stage, lost, fate,
                     cur, got, dst, how, msg, seen>>

PeekEvent(a) ==
    /\ pc[a] = "run"
    /\ TakeEvent(a)
    /\ UNCHANGED pc

WaitEvent(a) ==
    /\ pc[a] = "run"
    /\ Goto(a, "fetch")
    /\ UNCHANGED <<queueVars, countVars, instVars, fate, cur, got, dst, how, msg, seen>>

FetchEvent(a) ==
    /\ pc[a] = "fetch"
    /\ TakeEvent(a)
    /\ Goto(a, "run")

-----------------------------------------------------------------------------
(* Mutant: the capacity of the recycle queue stays what it was.            *)
MaxparCapacityKept(a, s, c) ==
    /\ pc[a] = "idle"
    /\ s \in Stages \ Serial
    /\ dst' = [dst EXCEPT ![a] = s]
    /\ seen' = [seen EXCEPT ![a] = c]
    /\ Goto(a, "maxpar")
    /\ UNCHANGED <<queueVars, countVars, instVars, fate, cur, got, how, msg>>

(* instance_set_maxpar, of a stage that is not serial: the capacity of the *)
(* recycle queue first, the limit second.                                  *)
MaxparCapacity(a, s, c) ==
    /\ pc[a] = "idle"
    /\ s \in Stages \ Serial
    /\ recap' = [recap EXCEPT ![s] = c]
    /\ dst' = [dst EXCEPT ![a] = s]
    /\ seen' = [seen EXCEPT ![a] = c]
    /\ Goto(a, "maxpar")
    /\ UNCHANGED <<ready, readycap, recycle, evq, evcap, countVars, instVars, fate,
                   cur, got, how, msg>>

MaxparLimit(a) ==
    /\ pc[a] = "maxpar"
    /\ limit' = [limit EXCEPT ![dst[a]] = seen[a]]
    /\ Goto(a, "idle")
    /\ UNCHANGED <<queueVars, ninst, active, instVars, fate, cur, got, dst, how, msg, seen>>

(* leda_set_capacity: of the ready queue, or of one event queue.           *)
SetReadyCapacity(a, c) ==
    /\ pc[a] = "idle"
    /\ readycap' = c
    /\ UNCHANGED <<ready, recycle, recap, evq, evcap, countVars, instVars, fate, localVars>>

SetEventCapacity(a, s, c) ==
    /\ pc[a] = "idle"
    /\ evcap' = [evcap EXCEPT ![s] = c]
    /\ UNCHANGED <<ready, readycap, recycle, recap, evq, countVars, instVars, fate, localVars>>
=============================================================================
