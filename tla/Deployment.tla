----------------------------- MODULE Deployment ------------------------------
(***************************************************************************)
(* A graph that runs in several processes (src/leda/process.lua with       *)
(* src/kernel/graph.c and the first part of leda_run).  The process that   *)
(* calls run builds the graph, sends it to the others one after another    *)
(* and then runs it; each of the others waits for one connection, takes    *)
(* what it gets for the graph, answers and runs it.  Running starts with   *)
(* the events that stages were sent before or that autostart asks for,     *)
(* and these may go to any process.                                        *)
(***************************************************************************)
EXTENDS Graph

CONSTANTS
    Main,         \* the process that calls run
    Pending,      \* the stages that were sent an event before
    Autostarts    \* choices for the stages with a field "autostart"

(* run raises an error for any other graph, before it does anything.       *)
ASSUME DeploymentAssumption ==
    /\ Main \in Procs /\ Pending \subseteq Stages /\ Autostarts \subseteq SUBSET Stages
    /\ \A cl \in Clusters : ProcessAddr[cl] # <<>> /\ IsInjective(ProcessAddr[cl])
    /\ \A a, b \in Clusters : a # b => Range(ProcessAddr[a]) \cap Range(ProcessAddr[b]) = {}

VARIABLES
    autostart,
    lua,         \* the Lua graph of each process: saved ids and code of the stages
    cgraph,      \* what graph_build made of it
    status,
    todo,        \* the processes Main has still to send the graph to
    peer,        \* the one whose answer it waits for
    outbox,      \* the stages a process has still to send their first events
    delivered    \* what arrived: for which stage, at which process, as which stage

vars == <<autostart, lua, cgraph, status, todo, peer, outbox, delivered>>

Used == UNION {Range(ProcessAddr[cl]) : cl \in Clusters}
AllCode == [s \in Stages |-> "code"]

(* The other processes already wait for a graph.                           *)
Init ==
    /\ autostart \in Autostarts
    /\ lua = [p \in Procs |-> IF p = Main THEN [ids |-> NULL, handler |-> AllCode] ELSE NULL]
    /\ cgraph = [p \in Procs |-> NULL]
    /\ status = [p \in Procs |-> IF p = Main THEN "run" ELSE "waiting"]
    /\ todo = {} /\ peer = NULL
    /\ outbox = [p \in Procs |-> {}]
    /\ delivered = {}

Set(f, p, v) == [f EXCEPT ![p] = v]

-----------------------------------------------------------------------------
(* The process that calls run.                                             *)

Run ==
    /\ status[Main] = "run"
    /\ \E ids \in {Ids(lua[Main].ids, order) : order \in Orders} :
         /\ lua' = [lua EXCEPT ![Main].ids = ids]
         /\ cgraph' = Set(cgraph, Main, BuildGraph(ids, Main, lua[Main].handler))
    /\ status' = Set(status, Main, "sending")
    /\ todo' = Used \ {Main}
    /\ UNCHANGED <<autostart, peer, outbox, delivered>>

(* prepare_graph, encode, restore_graph: the process d is sent the code of *)
(* its own stages only, and the graph at hand has all code afterwards.     *)
(* (restore_graph puts back what it saved and removes nothing, so a stage  *)
(* declared without init keeps the empty one of prepare_graph, which does  *)
(* as little.  Each stage has a handler.)                                  *)
Prepared(handler, d) == [s \in Stages |-> IF IsLocal(ClusterOf[s], d) THEN handler[s] ELSE ""]

(* Mutant: the stages are not restored.                                    *)
RestoredNot(handler, d) == Prepared(handler, d)

Restored(handler, d) == [s \in Stages |-> handler[s]]

SendGraph(d) ==
    /\ status[Main] = "sending" /\ peer = NULL
    /\ d \in todo
    /\ IF status[d] = "waiting"
       THEN /\ lua' = [lua EXCEPT ![d] = [ids |-> lua[Main].ids,
                                          handler |-> Prepared(lua[Main].handler, d)],
                                  ![Main].handler = Restored(@, d)]
            /\ status' = Set(status, d, "received")
            /\ peer' = d
            /\ UNCHANGED todo
       ELSE /\ status' = Set(status, Main, "dead")   \* cannot connect
            /\ UNCHANGED <<lua, todo, peer>>
    /\ UNCHANGED <<autostart, cgraph, outbox, delivered>>

(* The answer "ACCEPTED".                                                  *)
Accepted ==
    /\ peer # NULL
    /\ status[peer] \notin {"waiting", "received"}
    /\ todo' = todo \ {peer}
    /\ peer' = NULL
    /\ UNCHANGED <<autostart, lua, cgraph, status, outbox, delivered>>

(* init: the first events of every stage, local or not.                    *)
FirstEvents(p) == autostart \cup (IF p = Main THEN Pending ELSE {})

(* Mutant: Main does not wait until every process has the graph.           *)
StartEarly ==
    /\ status[Main] = "sending" /\ peer = NULL
    /\ status' = Set(status, Main, "init")
    /\ outbox' = Set(outbox, Main, FirstEvents(Main))
    /\ UNCHANGED <<autostart, lua, cgraph, todo, peer, delivered>>

Start ==
    /\ status[Main] = "sending" /\ peer = NULL
    /\ todo = {}
    /\ status' = Set(status, Main, "init")
    /\ outbox' = Set(outbox, Main, FirstEvents(Main))
    /\ UNCHANGED <<autostart, lua, cgraph, todo, peer, delivered>>

-----------------------------------------------------------------------------
(* Any other process d: the graph is decoded, built and accepted.          *)
BuildReceived(d) ==
    /\ status[d] = "received"
    /\ \E ids \in {Ids(lua[d].ids, order) : order \in Orders} :
         cgraph' = Set(cgraph, d, BuildGraph(ids, d, lua[d].handler))
    /\ status' = Set(status, d, "init")
    /\ outbox' = Set(outbox, d, FirstEvents(d))
    /\ UNCHANGED <<autostart, lua, todo, peer, delivered>>

-----------------------------------------------------------------------------
(* leda_run in a process p: the event thread runs; the first events are    *)
(* emitted by index.                                                       *)
StageId(p, s) == lua[p].ids.stages[s]
ClusterAt(p, s) == cgraph[p].cl[cgraph[p].s[StageId(p, s)].cluster]

Deliver(p, s, q) ==
    /\ delivered' = delivered \cup {<<p, s, q, cgraph[q].s[StageId(p, s)].name>>}
    /\ outbox' = [outbox EXCEPT ![p] = @ \ {s}]
    /\ UNCHANGED <<autostart, lua, cgraph, status, todo, peer>>

EmitLocal(p, s) ==
    /\ status[p] = "init" /\ s \in outbox[p]
    /\ ClusterAt(p, s).local
    /\ Deliver(p, s, p)

(* To a process that runs, or will when it has built its graph.            *)
EmitRemote(p, s, j) ==
    LET q == cgraph[p].d[ClusterAt(p, s).processes[j]] IN
    /\ status[p] = "init" /\ s \in outbox[p]
    /\ ~ClusterAt(p, s).local
    /\ status[q] \in {"init", "running"}
    /\ Deliver(p, s, q)

(* A process that still waits for the graph takes the event for it and     *)
(* stops ("Invalid request"); one that does not listen refuses.  In both   *)
(* cases leda_run raises an error in the sender.                           *)
EmitFails(p, s, j) ==
    LET q == cgraph[p].d[ClusterAt(p, s).processes[j]] IN
    /\ status[p] = "init" /\ s \in outbox[p]
    /\ ~ClusterAt(p, s).local
    /\ status[q] \in {"waiting", "run", "sending", "dead"}
    /\ status' = [status EXCEPT ![p] = "dead", ![q] = IF @ = "waiting" THEN "dead" ELSE @]
    /\ UNCHANGED <<autostart, lua, cgraph, todo, peer, outbox, delivered>>

Running(p) ==
    /\ status[p] = "init" /\ outbox[p] = {}
    /\ status' = Set(status, p, "running")
    /\ UNCHANGED <<autostart, lua, cgraph, todo, peer, outbox, delivered>>

MainStep == Run \/ (\E d \in Procs : SendGraph(d)) \/ Accepted \/ Start

ProcessStep(p) ==
    \/ BuildReceived(p) \/ Running(p)
    \/ \E s \in Stages : EmitLocal(p, s)
    \/ \E s \in Stages : \E j \in DOMAIN ProcessAddr[ClusterOf[s]] :
         EmitRemote(p, s, j) \/ EmitFails(p, s, j)

Next == MainStep \/ \E p \in Procs : ProcessStep(p)

(* Processes run, and their connections deliver.                           *)
Spec == Init /\ [][Next]_vars /\ WF_vars(MainStep) /\ \A p \in Procs : WF_vars(ProcessStep(p))

-----------------------------------------------------------------------------
(* The values of the variables; every element of an array is filled in.    *)
TypeOK ==
    /\ \A p \in Procs : cgraph[p] # NULL =>
         \A k \in {"d", "cl", "s", "c"} : \A i \in DOMAIN cgraph[p][k] : cgraph[p][k][i] # NULL
    /\ status \in [Procs -> {"waiting", "received", "run", "sending", "init", "running", "dead"}]
    /\ todo \subseteq Procs /\ peer \in Procs \cup {NULL}
    /\ outbox \in [Procs -> SUBSET Stages]

SameButCode(r, s) ==
    r.name = s.name /\ r.serial = s.serial /\ r.cluster = s.cluster /\ r.output = s.output

(* An index means the same in every process, though each traverses its     *)
(* tables in its own order: remote events carry stage indices.             *)
IdsAgree ==
    \A p, q \in Procs :
      cgraph[p] # NULL /\ cgraph[q] # NULL =>
        /\ cgraph[p].d = cgraph[q].d /\ cgraph[p].c = cgraph[q].c
        /\ \A i \in DOMAIN cgraph[p].s : SameButCode(cgraph[p].s[i], cgraph[q].s[i])
        /\ \A i \in DOMAIN cgraph[p].cl : cgraph[p].cl[i].name = cgraph[q].cl[i].name

(* The arrays describe the declared graph: following indices leads from a  *)
(* stage to its cluster, its processes and, by port, to its consumers, and *)
(* a stage declared serial is serial.                                      *)
GraphFaithful ==
    \A p \in Procs : cgraph[p] # NULL =>
      LET g == cgraph[p] IN
      /\ {g.s[i].name : i \in DOMAIN g.s} = Stages
      /\ \A i \in DOMAIN g.s :
           LET s == g.s[i].name
               cl == g.cl[g.s[i].cluster]
           IN /\ cl.name = ClusterOf[s]
              /\ [j \in DOMAIN cl.processes |-> g.d[cl.processes[j]]] = ProcessAddr[cl.name]
              /\ SerialField[s] = "true" => g.s[i].serial
              /\ {<<k, g.s[g.c[g.s[i].output[k]].c].name>> : k \in DOMAIN g.s[i].output}
                   = {<<Port[c], Consumer[c]>> : c \in {b \in Connectors : Producer[b] = s}}

(* An event arrives as an event of the stage it was sent to, at a process  *)
(* of its cluster that was given the code of that stage, although every    *)
(* process is sent a graph from which the code of others was removed.      *)
Routed ==
    \A m \in delivered :
      /\ m[4] = m[2]
      /\ m[3] \in Range(ProcessAddr[ClusterOf[m[2]]])
      /\ cgraph[m[3]].s[lua[m[3]].ids.stages[m[2]]].env = "code"

(* Without autostart every process runs in the end, and no event finds one *)
(* that is not ready.  (With autostart a process that is given the graph   *)
(* early may send events to one that still waits for it.)                  *)
EveryoneRuns == autostart = {} => <>(\A p \in Used : status[p] = "running")
=============================================================================
