# A verification project for Leda

Leda runs graphs of *stages*: Lua event handlers that are connected by ports.
A process keeps a pool of *instances* of each stage (Lua states, each with one
handler), a pool of worker threads that run them, a thread for timers, descriptors
and remote events, and a *controller* that sizes the pools. Source paths below are
relative to `src/src/`.

## 1. Inventory

### Components

| Component | State | Operations | Correct means |
|---|---|---|---|
| Instances (`kernel/instance.c`) | the ready queue; per stage a recycle queue of idle instances, a queue of pending events, a limit, a counter of instances | `instance_aquire`, `instance_release`, `instance_destroy`, `push_ready_queue`, `instance_wait_for_event`, `instance_peek_for_event`, `instance_set_maxpar`, `leda_set_capacity`, `instance_init`, `instance_end` | each instance has one owner; counters are exact; limits hold; an instance is idle xor has work |
| Scheduler (`kernel/scheduler.c`) | `pool_size`; what each worker runs | `emmit`, `emmit_packed_event`, `emmit_cohort`, `thread_main`, `thread_resume_instance` (every status), `thread_new`, `thread_kill` | no event is duplicated or lost silently; accepted events are handled; each request to exit ends one worker |
| Kernel run (`kernel/kernel.c`, `leda/controller/thread_pool.lua`) | the dispatch loop on the main thread | `leda_run`, `leda_send`, `leda.quit`, the controller's `init` and `finish` | shutdown completes; nothing uses the queues after they are freed |
| Suspended instances (`kernel/event.c`, `kernel/extra/leda-io.c`) | instances registered with libevent or with the AIO context | `event_sleep`, `event_wait_io`, `event_do_file_aio`, `io_ready`, `event_aio_op_ready` | a suspended instance comes back exactly once |
| Locked queue (`kernel/queue.c`) | linked list, size, capacity, mutex, two conditions | `queue_push`, `queue_try_push`, `queue_pop`, `queue_try_pop`, `queue_set_capacity` | it is a bounded FIFO queue |
| TBB queues and atomics (`kernel/tbb_*.cpp`) | library objects | thin wrappers | taken as linearizable |
| Remote events (`kernel/event.c`) | a pool of sockets per destination process, per-connection descriptors | `send_sync_event`, `read_event`, `do_accept`, `do_read` | an event answered with success was accepted exactly once; sockets are not leaked or shared |
| Deployment (`leda/process.lua`) | processes, their graphs | `run`, `prepare_graph`, `send_graph`, `start`, `init` | every process runs the graph, with the code of its own stages; first events arrive |
| Graph construction (`leda.lua`, `leda/leda_*.lua`, `kernel/graph.c`) | stages, connectors, clusters, the indices given to them | constructors, `graph_build` and its conversion to C | the C graph is the declared one, and an index means the same in every process |
| Marshalling (`kernel/extra/lmarshal.c`, used by `event.c`) | buffer, table of seen references | encode, decode; an event queued, copied or sent | the receiver gets the graph of objects that was sent; no address leaves the process |
| Memory arrays (`kernel/extra/memarray.c`, `leda/memarray.lua`) | a buffer and its reference | create, resize, get, set, send by pointer or by copy, collect | one Lua state owns a buffer; nothing uses freed memory |
| Statistics (`kernel/stats.c`) | counters per stage | update macros, snapshots | counters match the events |
| Controllers with a user interface, ready-made stages, threading layer | | | not part of the core |

### Interaction

Three kinds of threads call the instance subsystem concurrently: workers (handlers
that emit, return, fail, sleep), the main thread (pending events at start, and then
the controller's callbacks) and the event thread (timers, descriptors, remote events).
They share the queues and the atomics and nothing else; no operation is atomic as a
whole, since each is a sequence of queue operations and of reads and updates of
atomics. The main thread ends the workers by pushing NULL to the ready queue.

### What is hard

* The test of the limit and the increment of the counter are two steps.
* The decision to queue an event and the push are two steps, and so are the look at
  the event queue and the parking of an instance.
* A cohort call gives the caller away while its thread runs the callee.
* Errors in the middle: a payload that cannot be copied, an init chunk that fails,
  a registration with libevent that fails.
* The controller changes limits and capacities while the threads run.
* Workers are producers and consumers of the same bounded queue.
* Shutdown order: workers, queues, event thread.
* In the locked queue: waiting consumers, wakeups, an unlock too many, a pointer to
  a freed element.
* Between processes: connections that break and processes that crash at any byte of the
  exchange, sockets that are reused, descriptor numbers that are.
* In payloads: cycles, sharing, hooks that give something away, nil.
* At the start of a distributed run: every process numbers what it builds, and the first
  events may overtake the graph.
* In memory arrays: a buffer that has left while its array has not.

`PROJECT.json` lists them as hazards, with source lines and properties.

## 2. Modules

| Module | Models |
|---|---|
| `Instance` | `instance.c`: variables are its queues and arrays; one action per atomic step |
| `Scheduler` (extends `Instance`) | `scheduler.c`, and from `event.c` the suspended instances |
| `EventService` | abstract specification: what a process promises those who emit events |
| `Kernel` (extends `Scheduler`) | `leda_run` and the `thread_pool` controller; the specification and its properties, and how it maps to `EventService` |
| `MCKernel` | finite instances of `Kernel` |
| `KernelProofs` | TLAPS proofs about `Kernel`: types, and who owns an instance |
| `KernelCounts` (extends `KernelProofs`) | proofs: the counters of instances, of active ones and of workers |
| `KernelEvents` (extends `KernelCounts`) | proofs: where events are, and that `Kernel` implements `EventService` |
| `KernelLimits` (extends `KernelEvents`) | proofs: what holds while one thread emits (limits, room for released instances, no lost wakeup) |
| `BoundedQueue` | abstract specification: what a queue promises |
| `LockedQueue` | `queue.c`, the build without TBB, down to mutex and conditions |
| `LockedQueueProofs` | proofs about `LockedQueue`, and that it implements `BoundedQueue` |
| `MCLockedQueue` | finite instances of `LockedQueue` |
| `AtMostOnce` | abstract specification: what sending an event to another process promises |
| `RemoteEvents` | the remote half of `event.c`: senders, connections, event threads, faults |
| `RemoteEventsProofs` | proofs about `RemoteEvents`, and that it implements `AtMostOnce` |
| `MCRemoteEvents` | a finite instance of `RemoteEvents` |
| `Marshal` | `lmarshal.c` as recursive operators on heaps of objects |
| `Payload` (extends `Marshal`) | the three paths by which arguments travel |
| `MCPayload` | the heaps and arguments that are sent |
| `Graph` | `graph.c`: a declared graph and its arrays |
| `Deployment` (extends `Graph`) | `process.lua` and the first events of `leda_run` |
| `DeploymentProofs` | proofs about `Graph` and `Deployment` |
| `MCDeployment` | a graph of three stages |
| `Memarray` | `memarray.c` and the hooks of `memarray.lua` |
| `MemarrayProofs` | proofs about `Memarray` |
| `MCMemarray` | a finite instance of `Memarray` |

### Kernel, Scheduler, Instance

State: `ready`, `recycle[s]`, `evq[s]` are the queues, with capacities `readycap`,
`recap`, `evcap`; `limit`, `ninst`, `active` the atomics; `stage[i]` says which stage a
descriptor was allocated for; `held[i]` which events its Lua state was given and has
not finished with; `parked` the suspended instances. `lost` collects instances that
are allocated but in nobody's hands: the two places where the code forgets one. `fate`
records what became of each event and exists for the properties only. Each thread has
a program counter `pc` and the locals of `emmit` and `instance_aquire`: `cur` (the
instance it runs or releases), `got` (the one it acquired), `dst`, `msg`, `how`, `seen`.

The code's steps appear as follows.

* `emmit(dst)`: `StartEmit`, then `instance_aquire` as `AquireRecycled` and `AquireActive`,
  or `AquireEmpty`, `AquireReadCount`, `AquireCheckLimit`, `AquireCreate`,
  `AquireInitOk`/`AquireInitError`, and then `EmmitDeliver` (an instance was found) or
  `EmmitPending` / `EmmitQueueFull` (none); `EmmitCopyError` and `EmmitExtractError`
  are the Lua errors a payload can raise.
* cohort calls: the same, ending in `CohortDeliver` or `CohortRejected`.
* `thread_main`: `PopInstance`, `PopKill`; then what the handler did: `Ended`,
  `Failed` (error, `leda.destroy`, `leda.quit`), `UnknownStatus`, `Nice`, `EventSleep`,
  `EventWaitIo`, `EventDoFileAio`, `PeekEvent`, `WaitEvent`.
* `instance_release`: `ReleaseTakeEvent` and `Requeue`, or `ReleaseNoEvent`,
  `ReleaseInactive`, `ReleasePark`, perhaps `Destroy`.
* `leda_run`: `EmmitPendingSend`, `CallControllerInit`, `PoolSetMaxpar`/`MaxparLimit`,
  `ThreadNew`, `Dispatch`, then controller callbacks, `LoopExit`, `ThreadKill`, `Join`,
  `InstanceEnd`, `EventEnd`.

`EventService` knows stages and events, and no instances, threads or counters. The mapping:
an event on offer to a stage is the `msg` of a thread on its way through `emmit` or
`emmit_cohort` whose `dst` is that stage (`Offered`), the abstract pending queue is `evq`, and a stage
works on what the Lua states allocated for it hold (`Working`). So `ImplementsService` says that
acquiring, recycling, suspending and destroying instances never moves an event to another stage,
never overtakes one in a pending queue, and never revises what became of one.

`NoneStranded` is the safety half of `EventsHandled`: while an event waits for a stage, some
instance of that stage is queued, suspended or run by a thread that has not yet looked at the
pending queue (`WillRelease`).

`ActiveCovers` compares `active` with the instances that are queued, suspended or run by a
handler (`Busy`). Those in a thread's hands between two queues are not in `Busy`: `STATS_ACTIVE`
comes after the pop from the recycle queue (instance.c:466, 468) and `STATS_INACTIVE` before
the push to it (673, 674), and the property holds in the states between because the thread
passes the instance on only after it has counted it.

Abstractions. Payloads are model values, of which `BadEvents` cannot be copied. The
Lua state of an instance is `held`. These pairs of steps are one: the `STATS_ACTIVE` and `ADD` of a
new instance (instance.c:480, 482; its descriptor is allocated after both and known to one
thread until it is delivered), the pop of a NULL and `ADD(pool_size,-1)` in `thread_main`
(scheduler.c:511, 519) as well as the start of a thread and `ADD(pool_size,1)` (603; the kernel decides
nothing by `pool_size`, so `KillsMatched` is about the balance and not about these windows). The
`STATS_INACTIVE` and `STATS_ACTIVE` that cancel out (instance.c:654, 655) are left out. A failure of
`luaL_loadbuffer` (instance.c:491) means that there is no memory, which is modelled nowhere.
The controller's `init` visits the stages in any order.
A cohort call with a payload that cannot be copied aborts the process (the copy runs
outside `lua_pcall`), so it is not among the calls. Init chunks do not emit. Handlers are
arbitrary: `Calls` bounds which kinds of calls they make. The queues are the TBB ones,
taken as linearizable. After `instance_end` the event thread is stopped, because what it
does to freed queues is undefined.

### LockedQueue

The steps of each operation are: lock, body, unlock, signal, and the second unlock of a
pop that found the queue full. `SIGNAL_WAIT` is three steps, with spurious wakeups. `tail`
is abstracted to what it points to: nothing, the last element, or an element that `head`
does not reach (`stray`). `push` to a stray tail loses the element; a `try_pop` that
finds `size > 0` and a NULL head ends the process (`TryPopNull`). The body under the mutex
is one step. That is what the code does as long as each thread inside has the mutex
(`MutualExclusion`), and no longer after the second unlock of a pop has released it under another
thread (queue.c:178-181, 206-209): from there on two threads update the list at once. So
`MutualExclusion` is a conjunct of `Next`: the specification ends at the first such state and
claims nothing of what follows, in the runs and in the theorems. Elements are pushed once each,
so that `pushed` and `out` can tell them apart.

`size` and the list are not the same: a consumer blocked in `queue_pop` has been subtracted
already, so with one of them two elements fit in a queue of capacity 1. `BoundKept`
speaks of the elements in the list and allows one more for each such consumer (`Owed`).
`TryHonest` is the other side: `queue_try_pop` and `queue_try_push` decide by `size`, and what they answer must
be true of the list.

### RemoteEvents and AtMostOnce

Where `Scheduler` has `EmmitPackedEvent` as something the event thread does, `RemoteEvents`
has the way there. State at the sender: the round robin counter `cur_process`, a queue
`sockets` per destination, and the locals of `send_sync_event` by worker. A connection has a
descriptor at each end, a sequence of chunks each way and a flag `broken`. State at a
destination: the connection whose body its event thread is in (`reading`: that read blocks,
so the thread does nothing else) and the descriptors libevent has an event for (`registered`).
`accepted` counts `emmit_packed_event` calls that succeeded; `told` is what the sender's call
returned.

* `send_sync_event`: `EmmitRemoteSync`, `StoreCur` (read and store of the counter are two
  steps), `PopSocket` or `Connect`, `ConnectRefused` or `ConnectError`, `WriteHead`, `WriteBody` or
  `WriteError`, `ReadAnswer` or `ReadFailed`.
* The destination: `Accept` (`do_accept`), then `do_read` and `read_event` as `ReadHeader`,
  `RejectHeader`, `HeaderFailed`, and the body as `ReadBody` or `BodyFailed`.
* `EventEnd`, and faults: `Break` (whatever was on its way may be cut), `Crash`, `Restart`,
  and a `Stranger` that connects and sends something that is not an event.

`do_read` closes a descriptor without removing its libevent event. When the next connection
gets the same number, libevent believes it watches it already and the kernel does not: the
connection is never served (`watched`). The model has this; `SendEnds` says that every call
ends unless it met such a connection. A socket whose event was refused is neither closed nor
pooled (event.c:565), and one whose `connect` failed is not closed either (event.c:503):
`ConnectRefused` leaves it open for ever and answers "unreachable". `SocketHeldOnce` allows as many
forgotten sockets as there were events answered in one of these two ways. With no descriptor left
(`ConnectError`) nothing was opened and nothing is forgotten.

`AtMostOnce` says what the sender may conclude: success means accepted, refusal means not
accepted, and after an error the event may have been accepted or may be yet, so a stage that
repeats it may duplicate it. After a write error `send_sync_event` returns a negative number of
results, which Lua takes for a yield: the handler does not go on and is told nothing ("silent").

Abstractions. A header arrives whole (it is written in one call and read in one). SIGPIPE is
ignored, as LuaSocket sets it. `send_async_event`, `do_read_ack` and `event_get_process_sock`
are not reachable from any caller.

### Marshal and Payload

A Lua state is a heap: numbers to objects, with entries in the order of a traversal and the
functions its hooks `__wrap` and `__persist` return. `MarEncode` yields a tree of code and the
encoder's state (the index of every object seen); `MarDecode` rebuilds objects and counts
indices as the C code does, which is not always as the encoder did. `Payload` sends arguments
as a pending event (`ExtractEvent`, `RestoreEvent`), directly (`CopyValuesDirectly`) and to
another process (`EmmitRemote`, `RestorePackedEvent`), or drops them (`DestroyEvent`). Its
reference is independent of the coder: `Same` builds the correspondence of objects between
the two heaps and asks that it is one to one.

`PayloadKept` is stated for `Plain` payloads, because the code does lose others: upvalues
after a nil one (restored up to the border of a table), nil arguments of remote events, and
anything shared beside an object with a hook (the encoder numbers userdata before what its
hook captures and the decoder after it; a table with `__persist` is numbered by the decoder
only). The other three properties have no such condition, except that `WrittenOnce` leaves out
tables with `__persist`, which are written again on each visit.

### Graph and Deployment

`Graph` computes the four arrays from the declared graph and from the tables of indices;
without such tables any numbering may result (`Orders`), as with `lua_next`. `Deployment`
has, at the process that calls `run`: `Run` (build), `SendGraph` (strip the code of other
processes' stages, encode, put it back, send; `restore_graph` removes nothing, so an empty `init` may
remain where there was none), `Accepted`, `Start`; at the others
`BuildReceived`; and everywhere the first events by index: `EmitLocal`, `EmitRemote`,
`EmitFails`, then `Running`. What the graph-sending connection carries is one step.

An event to a process that still waits for the graph is taken for the graph: that process
ends with "Invalid request" and the sender's `leda_run` raises an error. `init` sends the
autostart events of all stages in every process, so with autostart this happens;
`EveryoneRuns` is therefore stated without. A stage with `serial=false` is serial
(`graph.c` tests for nil), so `GraphFaithful` speaks of `serial=true` only.

### Memarray

Arrays are userdata of a Lua state, buffers come from `malloc` and are sequences of bytes.
`Call`, `Realloc`, `ReallocFails`, `Inherit` (a view made by `realloc` with an address),
`NewIndex`, `Collect`; inside a process `Emit` (the hook `__wrap`, argument by argument) and
`Receive`; between processes `Persist` and `Restore`; `Clone`, `ToNetstr`, `FromNetstr`; `Drop`
for events that are refused. `IndexFault`, `DividesByZero` and the branches `Undefined` are
the undefined behaviour the code can meet, after which nothing is said. `val` is what the
program believes an array contains.

The properties except views (`exposed`: the code lets a view be sent, and then frees what it
does not own), lengths whose size in bytes wraps around (what `to_netstr` and `from_netstr` do with
those depends on a quotient of the wrapped size, memarray.c:452, and is left out of these two
actions), and, for `NoFault`, network strings
of empty arrays (a division by zero). Buffers in an event that is refused, or whose encoding
fails at a later argument, have no owner any more (`lost`): they leak.

## 3. Runs

Deadlock is not checked: an idle graph, a finished run and a queue nobody uses stop.

| Run | Instance | Checks |
|---|---|---|
| `threads` | 2 workers, a serial and a parallel stage, 3 descriptors, 3 events, all kinds of calls and errors but payloads that cannot be copied, shutdown; symmetric in workers and descriptors | `TypeOK`, `OneOwner`, `CountExact`, `IdleOrBusy`, `EventOnce`, `ActiveCovers`, `KillsMatched`, `ImplementsService` (refinement of `EventService`) |
| `single_thread` | 1 worker, handlers that emit, call, sleep, yield and fetch events, a limit of 1 that the controller raises to 2 at any moment; fairness | `LimitRespected`, `ReleaseFits`, `NoneStranded`, `EventsHandled` |
| `shutdown` | 2 workers, `leda.quit` at any moment, a payload that cannot be copied; fairness | `ShutdownCompletes` |
| `senders` | a worker, the controller and the event thread emit; limits and capacities change to 0 and 1, the ready queue is bounded | `OneOwner`, `EventOnce`, `ImplementsService` |
| `queue_try` | 3 threads, non-blocking operations, capacity 1 raised to 2 | `ImplementsQueue` (refinement of `BoundedQueue`), `TryHonest` |
| `queue_full` | 2 threads, all operations, capacity 1 raised to 2 | `TypeOK`, `SizeExact`, `InOrder`, `BoundKept` |
| `remote` | 2 workers, a cluster of 2 processes, 3 events of which one is too long, 2 connections, a destination with one descriptor, one fault; fairness | `TypeOK`, `SocketHeldOnce`, `PoolQuiet`, `ImplementsAtMostOnce` (refinement), `SendEnds` |
| `payload` | all heaps of 4 objects of the kinds in `MCPayload`, on 3 paths | `PayloadKept`, `ErrorExact`, `NoForeignPointer`, `WrittenOnce` |
| `deployment` | 3 stages, 2 clusters, 3 processes, every order of traversal, with and without autostart; fairness | `TypeOK`, `IdsAgree`, `GraphFaithful`, `Routed`, `EveryoneRuns` |
| `memarray` | 2 Lua states, 2 arrays, 2 buffers, lengths up to 2, one event in flight, a size that wraps at length 2 | `TypeOK`, `OneOwner`, `ValuesPrivate`, `NoFault` |

Both queues get full in `queue_try` and `queue_full`, so their behaviours end where a mutex is unlocked
under another thread (the conjunct `MutualExclusion` of `Next`).

Two runs show where the code does not do what its comments say; `PROJECT.json` quotes
them under "findings".

| Run | Violated | In short |
|---|---|---|
| `serial_race` | `SerialExclusive` | two emitters both create the instance of a serial stage |
| `stranded` | `EventsHandled` | an event is queued just after the last instance looked, which is then idle |

Bounds. Two workers, the main thread and the event thread give every pair of roles that
meet in the code; two stages separate serial from parallel limits and let instances of
both move at once; three descriptors allow two instances of one stage beside one of the
other; three events fill the handler, the pending queue and an emitter at the same time.
A finite pool of descriptors stands for `malloc`: when all are used a creation waits,
which only removes behaviours.

In `LockedQueue` a push that would get full, a blocked producer, a blocked consumer and
a signal that finds nobody all occur within three elements.

In `RemoteEvents` two senders compete for a pool and for the counter; with two connections a
socket is reused by another sender, and a descriptor by another connection; the third event
meets the pool that the first two left. One fault at every possible moment covers each way an
exchange can be cut; further faults meet the same states on another connection. In `Payload`
four objects allow a cycle, sharing, a hook and something that cannot be encoded beneath it.
In `Deployment` two processes share a cluster and one has its own, so that code is stripped
twice and events are local, remote and to a choice of processes. In `Memarray` two bits of
`size_t` put the overflow within reach; two arrays of one event, of which the second is
refused, need two buffers and no more.

Fairness. In `Kernel`: weak fairness of each worker, of `leda_run` and of the event
loop: the operating system schedules threads and libevent fires what is due. Strong
fairness of a handler's return: a handler may yield often but returns in the end, which is
what the stage author owes. Nothing is assumed of controller callbacks, of `leda.quit` or
of remote processes. `EventsHandled` is checked with one worker and handlers that do not
fail; with two workers it is what `stranded` refutes. In `RemoteEvents`: weak fairness of each
sender, of each event thread for every connection it watches (libevent reports descriptors that
are ready until they are read) and of its blocking read; neither faults nor a restart are
assumed. In `Deployment`: weak fairness of each process; TCP delivers to a process that is up.

Each property of a passing run has a mutant of the code (comment "Mutant: ..." in the
modules) that breaks it.

## 4. Proofs

Every theorem holds for all values of the constants that satisfy the named `ASSUME`s, which TLC
evaluates on the instances of section 3. Each inductive invariant below was checked by TLC before
it was proved.

| Module | Theorems |
|---|---|
| `KernelProofs` | `TypeCorrect` (`TypeOK`), `OneOwnerAlways` (`OneOwner`) |
| `KernelCounts` | `CountExactAlways`, `KillsMatchedAlways`, `ActiveCoversAlways` |
| `KernelEvents` | `IdleOrBusyAlways`, `EventOnceAlways`, `ServiceKept` (the refinement) |
| `KernelLimits` | with hypotheses `LimitRespectedAlone`, `ReleaseFitsAlone`, `SerialExclusiveAlone`, `NoneStrandedAlone` |
| `RemoteEventsProofs` | `TypeCorrect`, `PoolQuietAlways`, `SocketHeldOnceAlways`, `AtMostOnceKept` (the refinement) |
| `LockedQueueProofs` | `TypeCorrect`, `SizeExactAlways`, `InOrderAlways`; with hypotheses `MutualExclusionNeverFull`, `BoundKeptRaised`, `TryHonestKept`, `QueueKept` and `FullQueueKept` (the refinement) |
| `DeploymentProofs` | `TypeCorrect`, `IdsAgreeAlways`, `GraphFaithfulAlways`, `RoutedAlways` |
| `MemarrayProofs` | `TypeCorrect`, `OneOwnerAlways`, `ValuesPrivateAlways`, `NoFaultAlways` |

### Kernel

`OneOwner` is not inductive alone. That `EmmitDeliver` may push `got[a]` to the ready queue
needs `got[a]` to be an instance, which depends on the path that led to `pc[a] = "deliver"`; that
`Destroy` leaves no other reference needs to know that no other thread carries the same
pointer. The inductive invariant is `IInv == TypeOK /\ Control /\ OneOwner`, where `Control`
says, for each thread, which program points its kind can be at (a worker is never `idle`,
the event thread never runs a handler), which of `cur` and `got` are NULL at each, and that a
thread on its way through `emmit` has a destination and an event. There is one lemma per action
(`StepRequeue`, `StepReleasePark`, `StepCohortDeliver`, ...), lemmas for what `Append` and
`Tail` do to membership and to absence of duplicates, and `NextIInv` puts them together.

The other theorems rest on `IInv` and sort the actions by what they do to the state in question
before they look at the property.

* `CountExact` needs `InitStage`: an instance whose init chunk runs was allocated for the stage
  that `AquireInitError` will decrement.
* `KillsMatched`: `PoolSteps` shows that any step leaves workers and NULLs alone or is
  `ThreadNew`, `ThreadKill` or `PopKill`; `NullsAppend` and `NullsTail` count.
* `ActiveCovers` is proved through a larger set than `Busy`: the instances of a stage that have been
  counted (`Counted`), which is all but those in a recycle queue and those in the hands of a thread
  that has yet to count them in, or has counted them out (`Aside`). That `active` covers these
  is inductive (`CountedCovers`): each `STATS_` step adds or removes one instance. It needs `GotStage` and
  `RecycledStage` (an instance that is acquired is of the stage it will be counted for) and
  that no instance is in the hands of two threads, which is `OneOwner`.
* `IdleOrBusy` needs `Idle`: an acquired instance holds nothing, and the instance a thread has
  in hand holds nothing exactly at `release`, `park` and `destroy`.
* `EventOnce` counts; its inductive form speaks of places (`EventSingle`, `EventPlace`): no
  place lists an event twice and no two places list the same. `EventMoves` shows that every step
  emits, delivers, queues, refuses, takes or finishes events, or leaves them where they are.

`ServiceKept` needs more than where an event is: whose it is. `EventInv` joins the invariants
above with `GotStage` (the instance an emitter acquired is of the stage it emits to) and
`RecycledStage`; `BusyStageKept` shows that a descriptor which holds events keeps its stage, and
`DstKept` that a thread does not change its destination before it has settled its event. With
these each disjunct of `EventMoves` is a step of `EventService` (lemmas `Offered...`, `Working...`
for what it does to the mapped variables), and every other step of `Next` a stutter.

### One emitter

What `instance_aquire` and `instance_release` are meant to guarantee about limits and wakeups does
not hold in general (runs `serial_race`, `stranded`). `KernelLimits` states under which conditions
it does, as hypotheses on the constants, and proves it for any graph, any number of instances and
events, and, for the limits, any number of workers.

* `SingleEmitter`: one thread emits at a time. Handlers do, on the one worker there is, and
  neither the controller nor remote processes; or the controller does, before and after the
  workers start; or remote processes do. `LimitsRaised`: no limit is lowered once there may be
  instances, and the controller uses one value besides the initial one (`instance_aquire` tests
  for equality). The run `single_thread` satisfies both; so do instances with several workers in
  which only the controller emits.
* `LimitInv`, with `CountExact`: who emits what and when (`Sources`), that the limit of a stage
  and the capacity of its recycle queue agree but for the moment between the two stores of
  `instance_set_maxpar` (`Limits`), and that what an emitter read of the counter and of the limit
  still bounds them when it creates the instance (`CountFits`): other threads may only have
  destroyed instances since. `ReleaseFits` then counts: the instances in a recycle queue and the
  one that comes back are distinct and allocated for the stage, so they are at most `ninst`.
* `NoneStrandedAlone` assumes `OneThread`, `NothingFails` (a handler that fails is destroyed
  without a look at the pending queue, scheduler.c:151, and a failing copy forgets an instance)
  and `SomeRoom` (no limit of 0, which closes a stage and leaves its events waiting by design);
  `single_thread` satisfies them. `AwareInv` says that what the emitter has seen is still so when
  it pushes the event: the recycle queue is empty and an instance exists (`Aware`), which with
  `OneOwner` means that the instance is queued, suspended, or the caller. That an instance about
  to be parked has left its pending queue empty is the other half. Timers of the event thread
  interleave freely, since they only move instances from suspended to ready.

### RemoteEvents

`IInv` relates the two ends of a connection. `SenderOK` says what a sender has at each point of
`send_sync_event`, `WireOK` what can be on its connection there, `ConnOK` that a connection
carries one event at most, cut at any chunk, and which end reads it, `PoolOK` that pooled
sockets carry nothing, and `EventOK` that an event on any connection has not been accepted and is on
no other. The last is what at-most-once needs: without it a socket that was returned to the
pool too early could deliver the rest of an event after its sender was told of a refusal.
`Decays` covers `Break` and `Crash` together: whatever a connection loses, what is left
is one of the contents that `IInv` allows. The number of faults, connections and processes
is arbitrary. `SocketHeldOnce` also needs that each forgotten socket can be blamed on an event
that was refused or whose destination could not be reached (`Blamed`), no two on the same.

### LockedQueue

All theorems are about `Spec`, which ends where a mutex is unlocked under another thread; they say
nothing of what the code does after that. `SizeExact` and `InOrder` hold up to there for every capacity, with
blocking operations and spurious wakeups. The others have hypotheses on the constants:

* `MutualExclusionNeverFull` assumes `NeverFull` (each capacity is not positive, or more than the
  number of elements), as the second unlock of a pop needs a full queue, and shows that the
  end is then never reached: the other theorems say of such a queue all that it does. The proof needs
  `Once` (an element is pushed once), so that `size` never exceeds the number of elements;
* `BoundKeptRaised` assumes `RaisedOnce` (the capacity is changed to one other value at most, and
  not a lower one), because queue.c:128 tests for equality. What is inductive bounds `size` (`Bounded`); the
  list follows because what is in it was pushed and not popped (`ListFits`, from `SizeExact` and `InOrder`);
* `TryHonestKept` assumes `OnlyTries` (the two operations that do not block), from `ListOK`: `size` is
  the length of the list and `tail` its last element. With blocking operations they disagree and
  elements are lost;
* `QueueKept` assumes `OnlyTries` and `Spacious` (each capacity is negative or enough for all elements),
  and concludes both the refinement and that the mutex excludes, so it is about all behaviours of the
  code; `FullQueueKept` assumes `OnlyTries` and `RaisedOnce` and is about those up to the end of `Spec`.

The runs `queue_try` and `queue_full` satisfy `RaisedOnce`, and `queue_try` also `OnlyTries`. The hypotheses
`NeverFull` and `Spacious` are those of the kernel's default, a queue without capacity.

### Graph and Deployment

`BuildFaithful` is about the conversion alone: for every numbering, the arrays that
`build_graph_representation` fills give back the declared graph. `IInv` says for each status of
a process what it has (`Progress`): from `sending` on, the graph built from the indices of
the first process. `Arrived` keeps of each event that its receiver held the graph then, and holds it
still. `GraphAssumption` has that a stage has one connector per port, as `connect` reuses it.

### Memarray

`IInv` says that for every buffer that is not exposed there is at most one holder, an array that owns
it or one argument of one event (`Unique`), that there is one if it is allocated and not
lost (`Kept`), that the holder's length fits the buffer and its value is the content
(`ArraysGood`, `EventsGood`), that an array which does not own its data is exposed or empty (`Views`),
and that copies on their way are what was copied, bytes swapped or not (`CopiesGood`). It is much
stronger than `OneOwner`: that a `malloc` returns a buffer nobody holds needs the contents of held
buffers, and that a wrapped argument is not also held by another argument of the same event needs
`Before`. `malloc` may return an exposed address again; it is no longer exposed when nobody knows it
any more, and `Allocate` shows that then nobody holds it. All operations are instances of four lemmas:
`Allocate`, `GiveBack`, `WriteTo`, `SendCopy`; sending and receiving pointers have their own.
That 2^SizeBits is a positive number and a multiple of the item size is part of
`MemarrayAssumption`: exponentiation could only be treated by induction.

### Only model-checked

* Everything under fairness: `EventsHandled`, `ShutdownCompletes`, `SendEnds`, `EveryoneRuns`. The
  prover has no rules for fairness or `ENABLED`.
* Everything about payloads (`PayloadKept`, `ErrorExact`, `NoForeignPointer`, `WrittenOnce`):
  `Marshal` is recursive, and what a recursive definition computes for every input needs induction
  over data, which is out of the prover's reach.

Every other property of a passing run is stated by a theorem.

Some hazards of `PROJECT.json` name no property: where the code does go wrong (an element overwritten, a view
sent away, nil among the arguments, autostart, a limit of -1), no property holds of the
case, and the properties that hold of the rest are stated without it.

## 5. Not modelled

* `event.c`: start-up of the event thread (its event base is created by the thread itself while
  workers may already use it); the asynchronous send, which nothing calls; a header that arrives
  in pieces; the AIO context's own queue.
* `scheduler.c`, `instance.c`: `emmit_remote` (no handler yields its status), `instance_wait`
  (no caller), `thread_rawkill`, affinity.
* `kernel.c`: argument checks of the Lua interface, such as `leda_send` accepting the index one
  past the last stage (kernel.c:79); a second run of the same graph, which emits the pending
  events of the first again (kernel.c:287).
* `graph.c`: `graph_dump`, `graph_destroy`; of `leda.lua` and `leda/leda_*.lua` the constructors
  and `graph:verify`, whose result `Graph` takes as its constants.
* `lmarshal.c`: byte layout, growth of buffers, `mar_clone` and the table of constants, which the
  kernel does not use.
* `memarray.c`: `memcpy` between raw addresses; `from_ptr` and `to_ptr` called by a handler itself
  (memarray.c:557, 571) rather than by the hook `__wrap`, since the address may then be anything; item
  types, of which only the size matters; network strings of arrays whose size wraps around.
* `queue.c`: `queue_free` and the queries; lowering a capacity below the size (queue.c:128 tests
  for equality, so the queue is then unbounded).
* Statistics other than `active`: they are read by controllers for display and tuning and decide
  nothing in the kernel. `emmit_cohort` reads `caller->stage` for them after the caller was given
  away (scheduler.c:331).
* Controllers with a user interface and the stage library: programs on top of the kernel.
* The threading layer: a portability layer over pthreads and Win32, of which `LockedQueue` has
  the mutexes and conditions.

A bounded ready queue can block all workers at once, since they are its producers and its
consumers; the runs keep it unbounded, the default, except `senders`, which bounds it and checks
safety only. The queues are freed before the event
thread is stopped (kernel.c:381); the model ends there.

## 6. Possible extensions

1. `EventService` composed with `AtMostOnce`: a graph on several processes as one service.
2. Several runs of one graph (kernel.c:287), and the start-up of the event thread (event.c:839).
3. Statistics and the callbacks that report them to a controller.
