------------------------------ MODULE Scheduler ------------------------------
(***************************************************************************)
(* The scheduler of a Leda process (src/kernel/scheduler.c): how events    *)
(* are emitted, and how worker threads take instances from the ready queue,*)
(* run their handlers and act on the status the handler's coroutine        *)
(* returns.  Also the part of event.c that keeps suspended instances: the  *)
(* timers and descriptors libevent holds, and their callbacks.             *)
(***************************************************************************)
EXTENDS Instance

CONSTANT
    Calls   \* what the handlers do besides emitting and returning

ASSUME CallsAssumption ==
    Calls \subseteq {"init_error", "EMMIT_COHORT", "NICE", "SLEEP", "WAIT_IO",
                     "FILE_IO", "PCALL_ERROR", "DESTROY", "UNKNOWN", "quit",
                     "wait_event", "get_event"}

VARIABLES
    parked,      \* instances registered with libevent or with the kernel's AIO
    pool_size,   \* number of worker threads
    quit         \* a handler has called leda.quit

schedulerVars == <<instanceVars, parked, pool_size, quit>>

SchedulerInit ==
    /\ InstanceInit
    /\ parked = {} /\ pool_size = 0 /\ quit = FALSE

-----------------------------------------------------------------------------
(* emmit and emmit_packed_event to a local stage: the call, up to          *)
(* instance_aquire.  A cohort call differs in what follows.                *)
StartEmit(a, e, s, kind) ==
    /\ pc[a] = Resume(a)
    /\ fate[e] = "new"
    /\ fate' = [fate EXCEPT ![e] = "sent"]
    /\ msg' = [msg EXCEPT ![a] = e]
    /\ dst' = [dst EXCEPT ![a] = s]
    /\ how' = [how EXCEPT ![a] = kind]
    /\ Goto(a, "aquire")
    /\ UNCHANGED <<queueVars, countVars, instVars, cur, got, seen, parked, pool_size, quit>>

Emmit(w, e, s) ==
    /\ w \in Workers /\ e \in HandlerEvents
    /\ StartEmit(w, e, s, "emmit")

Cohort(w, e, s) ==
    /\ "EMMIT_COHORT" \in Calls
    /\ w \in Workers /\ e \in HandlerEvents \ BadEvents
    /\ StartEmit(w, e, s, "cohort")

EmmitPackedEvent(e, s) ==
    /\ e \in RemoteEvents
    /\ StartEmit(EventThread, e, s, "emmit")

(* Mutant: the values are not copied to the instance before it is queued.  *)
EmmitDeliverBare(a) ==
    /\ pc[a] = "deliver" /\ how[a] = "emmit"
    /\ msg[a] \notin BadEvents
    /\ HasRoom(ready, readycap)
    /\ ready' = Append(ready, got[a])
    /\ got' = [got EXCEPT ![a] = NULL]
    /\ msg' = [msg EXCEPT ![a] = NoEvent]
    /\ Goto(a, Resume(a))
    /\ UNCHANGED <<readycap, recycle, recap, evq, evcap, countVars, instVars, fate,
                   cur, dst, how, seen, parked, pool_size, quit>>

(* emmit got an instance: it is given the event and put in the ready queue *)
(* (the thread blocks while that is full).                                 *)
EmmitDeliver(a) ==
    /\ pc[a] = "deliver" /\ how[a] = "emmit"
    /\ msg[a] \notin BadEvents
    /\ HasRoom(ready, readycap)
    /\ held' = [held EXCEPT ![got[a]] = {msg[a]}]
    /\ ready' = Append(ready, got[a])
    /\ got' = [got EXCEPT ![a] = NULL]
    /\ msg' = [msg EXCEPT ![a] = NoEvent]
    /\ Goto(a, Resume(a))
    /\ UNCHANGED <<readycap, recycle, recap, evq, evcap, countVars, stage, lost, fate,
                   cur, dst, how, seen, parked, pool_size, quit>>

(* copy_values_directly raises a Lua error in the sender: nothing gives    *)
(* the acquired instance back.                                             *)
EmmitCopyError(a) ==
    /\ pc[a] = "deliver" /\ how[a] = "emmit"
    /\ msg[a] \in BadEvents
    /\ lost' = lost \cup {got[a]}
    /\ fate' = [fate EXCEPT ![msg[a]] = "rejected"]
    /\ got' = [got EXCEPT ![a] = NULL]
    /\ msg' = [msg EXCEPT ![a] = NoEvent]
    /\ Goto(a, Resume(a))
    /\ UNCHANGED <<queueVars, countVars, stage, held, cur, dst, how, seen,
                   parked, pool_size, quit>>

(* Mutant: the sender's stack is cleared before the event is extracted.    *)
EmmitPendingCleared(a) ==
    /\ pc[a] = "nothing" /\ how[a] = "emmit"
    /\ msg[a] \notin BadEvents
    /\ HasRoom(evq[dst[a]], evcap[dst[a]])
    /\ msg' = [msg EXCEPT ![a] = NoEvent]
    /\ evq' = [evq EXCEPT ![dst[a]] = Append(@, msg'[a])]
    /\ Goto(a, Resume(a))
    /\ UNCHANGED <<ready, readycap, recycle, recap, evcap, countVars, instVars, fate,
                   cur, got, dst, how, seen, parked, pool_size, quit>>

(* emmit got none: the event goes to the pending queue of the stage.       *)
EmmitPending(a) ==
    /\ pc[a] = "nothing" /\ how[a] = "emmit"
    /\ msg[a] \notin BadEvents
    /\ HasRoom(evq[dst[a]], evcap[dst[a]])
    /\ evq' = [evq EXCEPT ![dst[a]] = Append(@, msg[a])]
    /\ msg' = [msg EXCEPT ![a] = NoEvent]
    /\ Goto(a, Resume(a))
    /\ UNCHANGED <<ready, readycap, recycle, recap, evcap, countVars, instVars, fate,
                   cur, got, dst, how, seen, parked, pool_size, quit>>

(* Mutant: the sender takes a push that failed for one that succeeded.     *)
EmmitUnnoticed(a) ==
    /\ pc[a] = "nothing" /\ how[a] = "emmit"
    /\ msg[a] \notin BadEvents
    /\ ~HasRoom(evq[dst[a]], evcap[dst[a]])
    /\ msg' = [msg EXCEPT ![a] = NoEvent]
    /\ Goto(a, Resume(a))
    /\ UNCHANGED <<queueVars, countVars, instVars, fate, cur, got, dst, how, seen,
                   parked, pool_size, quit>>

(* The sender is told that its event went nowhere.                         *)
Refuse(a, l) ==
    /\ fate' = [fate EXCEPT ![msg[a]] = "rejected"]
    /\ msg' = [msg EXCEPT ![a] = NoEvent]
    /\ Goto(a, l)
    /\ UNCHANGED <<queueVars, countVars, instVars, cur, got, dst, how, seen,
                   parked, pool_size, quit>>

(* That queue is full ...                                                  *)
EmmitQueueFull(a) ==
    /\ pc[a] = "nothing" /\ how[a] = "emmit"
    /\ msg[a] \notin BadEvents
    /\ ~HasRoom(evq[dst[a]], evcap[dst[a]])
    /\ Refuse(a, Resume(a))

(* ... or extract_event_from_lua_state raises an error on the payload.     *)
EmmitExtractError(a) ==
    /\ pc[a] = "nothing" /\ how[a] = "emmit"
    /\ msg[a] \in BadEvents
    /\ Refuse(a, Resume(a))

(* Mutant: the callee is queued as well as run, and the caller dropped.    *)
CohortQueuesCallee(w) ==
    /\ pc[w] = "deliver" /\ how[w] = "cohort"
    /\ HasRoom(ready, readycap)
    /\ held' = [held EXCEPT ![got[w]] = {msg[w]}]
    /\ ready' = Append(ready, got[w])
    /\ cur' = [cur EXCEPT ![w] = got[w]]
    /\ got' = [got EXCEPT ![w] = NULL]
    /\ msg' = [msg EXCEPT ![w] = NoEvent]
    /\ Goto(w, "run")
    /\ UNCHANGED <<readycap, recycle, recap, evq, evcap, countVars, stage, lost, fate,
                   dst, how, seen, parked, pool_size, quit>>

(* Mutant: the values are copied to the caller instead of the callee.      *)
CohortDeliversBack(w) ==
    /\ pc[w] = "deliver" /\ how[w] = "cohort"
    /\ HasRoom(ready, readycap)
    /\ held' = [held EXCEPT ![cur[w]] = @ \cup {msg[w]}]
    /\ ready' = Append(ready, cur[w])
    /\ cur' = [cur EXCEPT ![w] = got[w]]
    /\ got' = [got EXCEPT ![w] = NULL]
    /\ msg' = [msg EXCEPT ![w] = NoEvent]
    /\ Goto(w, "run")
    /\ UNCHANGED <<readycap, recycle, recap, evq, evcap, countVars, stage, lost, fate,
                   dst, how, seen, parked, pool_size, quit>>

(* emmit_cohort: the caller goes to the ready queue and the thread goes on *)
(* with the callee, or the caller is told that there is no instance.       *)
CohortDeliver(w) ==
    /\ pc[w] = "deliver" /\ how[w] = "cohort"
    /\ HasRoom(ready, readycap)
    /\ held' = [held EXCEPT ![got[w]] = {msg[w]}]
    /\ ready' = Append(ready, cur[w])
    /\ cur' = [cur EXCEPT ![w] = got[w]]
    /\ got' = [got EXCEPT ![w] = NULL]
    /\ msg' = [msg EXCEPT ![w] = NoEvent]
    /\ Goto(w, "run")
    /\ UNCHANGED <<readycap, recycle, recap, evq, evcap, countVars, stage, lost, fate,
                   dst, how, seen, parked, pool_size, quit>>

CohortRejected(w) ==
    /\ pc[w] = "nothing" /\ how[w] = "cohort"
    /\ Refuse(w, "requeue")

-----------------------------------------------------------------------------
(* thread_main: the next instance, or NULL and the end of the thread.      *)
PopInstance(w) ==
    /\ pc[w] = "wait"
    /\ ready # <<>> /\ Head(ready) # NULL
    /\ cur' = [cur EXCEPT ![w] = Head(ready)]
    /\ ready' = Tail(ready)
    /\ Goto(w, "run")
    /\ UNCHANGED <<readycap, recycle, recap, evq, evcap, countVars, instVars, fate,
                   got, dst, how, msg, seen, parked, pool_size, quit>>

(* Mutant: the thread exits without SUB(pool_size).                        *)
PopKillUncounted(w) ==
    /\ pc[w] = "wait"
    /\ ready # <<>> /\ Head(ready) = NULL
    /\ ready' = Tail(ready)
    /\ Goto(w, "done")
    /\ UNCHANGED <<readycap, recycle, recap, evq, evcap, countVars, instVars, fate,
                   cur, got, dst, how, msg, seen, parked, pool_size, quit>>

PopKill(w) ==
    /\ pc[w] = "wait"
    /\ ready # <<>> /\ Head(ready) = NULL
    /\ ready' = Tail(ready)
    /\ pool_size' = pool_size - 1
    /\ Goto(w, "done")
    /\ UNCHANGED <<readycap, recycle, recap, evq, evcap, countVars, instVars, fate,
                   cur, got, dst, how, msg, seen, parked, quit>>

(* thread_resume_instance, by the status the coroutine returned.  The      *)
(* handler is finished with its events when it returns ENDED, and takes    *)
(* them with it when it fails.                                             *)
Settle(i, f) ==
    /\ fate' = [e \in Events |-> IF e \in held[i] THEN f ELSE fate[e]]
    /\ held' = [held EXCEPT ![i] = {}]

Ended(w) ==
    /\ pc[w] = "run"
    /\ Settle(cur[w], "done")
    /\ Goto(w, "release")
    /\ UNCHANGED <<queueVars, countVars, stage, lost, cur, got, dst, how, msg, seen,
                   parked, pool_size, quit>>

(* PCALL_ERROR, DESTROY (leda.destroy) and leda.quit, which also makes the *)
(* kernel's dispatch loop return.                                          *)
Failed(w, status) ==
    /\ pc[w] = "run"
    /\ status \in Calls \cap {"PCALL_ERROR", "DESTROY", "quit"}
    /\ quit' = (quit \/ status = "quit")
    /\ Settle(cur[w], "failed")
    /\ active' = [active EXCEPT ![stage[cur[w]]] = @ - 1]
    /\ Goto(w, "destroy")
    /\ UNCHANGED <<queueVars, limit, ninst, stage, lost, cur, got, dst, how, msg, seen,
                   parked, pool_size>>

(* Any other status: destroyed without STATS_INACTIVE.                     *)
UnknownStatus(w) ==
    /\ pc[w] = "run"
    /\ "UNKNOWN" \in Calls
    /\ Settle(cur[w], "failed")
    /\ Goto(w, "destroy")
    /\ UNCHANGED <<queueVars, countVars, stage, lost, cur, got, dst, how, msg, seen,
                   parked, pool_size, quit>>

(* The instance goes back to the ready queue: it yielded (NICE), or asked  *)
(* for something with arguments that are refused.                          *)
BackToReady(w) ==
    /\ Goto(w, "requeue")
    /\ UNCHANGED <<queueVars, countVars, instVars, fate, cur, got, dst, how, msg, seen,
                   parked, pool_size, quit>>

(* The instance is handed to libevent or to the kernel's AIO context ...   *)
Suspend(w) ==
    /\ parked' = parked \cup {cur[w]}
    /\ cur' = [cur EXCEPT ![w] = NULL]
    /\ Goto(w, "wait")
    /\ UNCHANGED <<queueVars, countVars, instVars, fate, got, dst, how, msg, seen,
                   pool_size, quit>>

(* ... or that fails, and nobody looks at the result.                      *)
SuspendError(w) ==
    /\ lost' = lost \cup {cur[w]}
    /\ cur' = [cur EXCEPT ![w] = NULL]
    /\ Goto(w, "wait")
    /\ UNCHANGED <<queueVars, countVars, stage, held, fate, got, dst, how, msg, seen,
                   parked, pool_size, quit>>

Nice(w) ==
    /\ pc[w] = "run" /\ "NICE" \in Calls
    /\ BackToReady(w)

(* event_sleep checks the result of event_add; event_wait_io does not      *)
(* check event_base_once, and event_do_file_aio does not check io_submit.  *)
EventSleep(w) ==
    /\ pc[w] = "run" /\ "SLEEP" \in Calls
    /\ Suspend(w) \/ BackToReady(w)

EventWaitIo(w) ==
    /\ pc[w] = "run" /\ "WAIT_IO" \in Calls
    /\ Suspend(w) \/ BackToReady(w) \/ SuspendError(w)

EventDoFileAio(w) ==
    /\ pc[w] = "run" /\ "FILE_IO" \in Calls
    /\ Suspend(w) \/ BackToReady(w) \/ SuspendError(w)

(* Mutant: a persistent registration, which can fire again.                *)
IoReadyPersistent(i) ==
    /\ pc[EventThread] = "idle"
    /\ i \in parked
    /\ cur' = [cur EXCEPT ![EventThread] = i]
    /\ Goto(EventThread, "requeue")
    /\ UNCHANGED <<queueVars, countVars, instVars, fate, got, dst, how, msg, seen,
                   parked, pool_size, quit>>

(* io_ready and event_aio_op_ready: the event thread takes the instance    *)
(* back and pushes it to the ready queue.                                  *)
IoReady(i) ==
    /\ pc[EventThread] = "idle"
    /\ i \in parked
    /\ parked' = parked \ {i}
    /\ cur' = [cur EXCEPT ![EventThread] = i]
    /\ Goto(EventThread, "requeue")
    /\ UNCHANGED <<queueVars, countVars, instVars, fate, got, dst, how, msg, seen,
                   pool_size, quit>>

-----------------------------------------------------------------------------
(* What an actor may do inside the instance subsystem.                     *)
AquireStep(a) ==
    \/ AquireRecycled(a) \/ AquireActive(a)
    \/ AquireEmpty(a) \/ AquireReadCount(a) \/ AquireCheckLimit(a)
    \/ AquireCreate(a) \/ AquireInitOk(a)
    \/ "init_error" \in Calls /\ AquireInitError(a)

ReleaseStep(a) ==
    \/ Requeue(a) \/ ReleaseTakeEvent(a)
    \/ ReleaseNoEvent(a) \/ ReleaseInactive(a) \/ ReleasePark(a) \/ Destroy(a)

FetchStep(a) ==
    \/ "get_event" \in Calls /\ PeekEvent(a)
    \/ "wait_event" \in Calls /\ (WaitEvent(a) \/ FetchEvent(a))

InstanceStep(a) ==
    /\ AquireStep(a) \/ ReleaseStep(a) \/ (a \in Workers /\ FetchStep(a))
    /\ UNCHANGED <<parked, pool_size, quit>>

EmmitStep(a) ==
    \/ EmmitDeliver(a) \/ EmmitCopyError(a)
    \/ EmmitPending(a) \/ EmmitQueueFull(a) \/ EmmitExtractError(a)
    \/ CohortDeliver(a) \/ CohortRejected(a)

(* The steps a thread takes on its own once it has something to do; the    *)
(* rest of what a worker does is the choice of its handler.                *)
ThreadStep(a) == InstanceStep(a) \/ EmmitStep(a)

HandlerStep(w) ==
    \/ \E e \in HandlerEvents, s \in Stages : Emmit(w, e, s) \/ Cohort(w, e, s)
    \/ Ended(w) \/ UnknownStatus(w) \/ Nice(w)
    \/ EventSleep(w) \/ EventWaitIo(w) \/ EventDoFileAio(w)
    \/ \E status \in Calls : Failed(w, status)

PopStep(w) == PopInstance(w) \/ PopKill(w)

EventThreadStep ==
    \/ \E i \in Inst : IoReady(i)
    \/ \E e \in RemoteEvents, s \in Stages : EmmitPackedEvent(e, s)
=============================================================================
