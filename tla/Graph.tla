-------------------------------- MODULE Graph --------------------------------
(***************************************************************************)
(* A declared graph and its representation in C (src/kernel/graph.c):      *)
(* arrays of processes, clusters, stages and connectors that refer to each *)
(* other by index.  The indices come from tables in the Lua graph, which   *)
(* are created when the graph has none yet; they then follow the order in  *)
(* which lua_next happens to meet the objects.                             *)
(*                                                                         *)
(* Stages, clusters, connectors and processes stand for their own names    *)
(* and addresses.                                                          *)
(***************************************************************************)
EXTENDS Integers, Sequences, FiniteSets, Functions

CONSTANTS
    Stages, Connectors, Clusters, Procs,
    SerialField,          \* the field "serial" of each stage: "nil", "true" or "false"
    Producer, Consumer,   \* the two stages of each connector
    Port,                 \* the output port of its producer
    ClusterOf,            \* the cluster of each stage, after graph:verify
    ProcessAddr,          \* the processes of each cluster, in order
    NULL

ASSUME GraphAssumption ==
    /\ Producer \in [Connectors -> Stages] /\ Consumer \in [Connectors -> Stages]
    /\ DOMAIN Port = Connectors
    /\ ClusterOf \in [Stages -> Clusters]
    /\ SerialField \in [Stages -> {"nil", "true", "false"}]
    /\ \A cl \in Clusters : ProcessAddr[cl] \in Seq(Procs)
    /\ IsFiniteSet(Stages) /\ IsFiniteSet(Connectors)
    /\ IsFiniteSet(Clusters) /\ IsFiniteSet(Procs)
    /\ \A b, c \in Connectors :   \* connect reuses the connector of a port
         Producer[b] = Producer[c] /\ Port[b] = Port[c] => b = c

(* Numberings of a set from zero, one for each order of a traversal.       *)
Numberings(S) == {f \in [S -> 0..(Cardinality(S) - 1)] : IsInjective(f)}

Orders == [stages : Numberings(Stages), connectors : Numberings(Connectors),
           clusters : Numberings(Clusters), processes : Numberings(Procs)]

(* Mutant: indices are given out again although the graph has some.        *)
IdsCreated(saved, order) == order

(* Mutant: indices are counted from one.                                   *)
IdsFromOne(saved, order) ==
    IF saved = NULL
    THEN [k \in DOMAIN order |-> [x \in DOMAIN order[k] |-> order[k][x] + 1]]
    ELSE saved

(* stagesid, connectorsid, clustersid and processesid are kept in the Lua  *)
(* graph and used when they are there.                                     *)
Ids(saved, order) == IF saved = NULL THEN order ELSE saved

(* lua_gettable and lua_tointeger: 0 for an object that has no index.      *)
Lookup(ids, x) == IF x \in DOMAIN ids THEN ids[x] ELSE 0

(* The array whose element at ids[x] is element[x].                        *)
Array(ids, element) ==
    [i \in 0..(Cardinality(DOMAIN ids) - 1) |->
        IF i \in Range(ids) THEN element[CHOOSE x \in DOMAIN ids : ids[x] = i] ELSE NULL]

BuildProcesses(ids) == Array(ids.processes, [d \in Procs |-> d])

(* cluster:is_local compares the addresses with the one of this process.   *)
IsLocal(cl, here) == here \in Range(ProcessAddr[cl])

BuildClusters(ids, here) ==
    Array(ids.clusters, [cl \in Clusters |->
        [name |-> cl, local |-> IsLocal(cl, here),
         processes |-> [j \in DOMAIN ProcessAddr[cl] |-> Lookup(ids.processes, ProcessAddr[cl][j])]]])

(* The connectors of a stage by port.                                      *)
BuildOutput(ids, s) ==
    [k \in {Port[c] : c \in {b \in Connectors : Producer[b] = s}} |->
        Lookup(ids.connectors, CHOOSE c \in Connectors : Producer[c] = s /\ Port[c] = k)]

(* Any value of the field makes a stage serial, false included.  env is    *)
(* the encoded stage, with the code it has at this moment.                 *)
BuildStages(ids, code) ==
    Array(ids.stages, [s \in Stages |->
        [name |-> s, serial |-> SerialField[s] # "nil",
         cluster |-> Lookup(ids.clusters, ClusterOf[s]),
         output |-> BuildOutput(ids, s), env |-> code[s]]])

(* Mutant: the two ends of a connector are swapped.                        *)
BuildConnectorsSwapped(ids) ==
    Array(ids.connectors, [c \in Connectors |->
        [name |-> c, p |-> Lookup(ids.stages, Consumer[c]), c |-> Lookup(ids.stages, Producer[c])]])

BuildConnectors(ids) ==
    Array(ids.connectors, [c \in Connectors |->
        [name |-> c, p |-> Lookup(ids.stages, Producer[c]), c |-> Lookup(ids.stages, Consumer[c])]])

(* graph_build in the process here, whose stages have this code.           *)
BuildGraph(ids, here, code) ==
    [d |-> BuildProcesses(ids), cl |-> BuildClusters(ids, here),
     s |-> BuildStages(ids, code), c |-> BuildConnectors(ids)]

(* NULL is none of the values above: it stands for what is not there.      *)
ASSUME NullAssumption ==
    /\ NULL \notin Orders /\ NULL \notin Procs
    /\ NULL \notin [name : Clusters, local : BOOLEAN, processes : Seq(Int)]
    /\ NULL \notin [name : Connectors, p : Int, c : Int]
    /\ NULL \notin [name : Stages, serial : BOOLEAN, cluster : Int,
                    output : UNION {[ports -> Int] : ports \in SUBSET Range(Port)},
                    env : {"code", ""}]
=============================================================================
