-------------------------- MODULE DeploymentProofs ---------------------------
(***************************************************************************)
(* Proofs about Deployment and Graph, for every finite graph and any       *)
(* number of processes: indices mean the same everywhere (IdsAgree), the   *)
(* arrays describe the declared graph (GraphFaithful), and the first       *)
(* events reach the stages they are for (Routed).                          *)
(***************************************************************************)
EXTENDS Deployment, FiniteSetTheorems, TLAPS

(* A numbering of a finite set meets every index: it is onto.              *)
LEMMA NumberingOnto ==
    ASSUME NEW S, IsFiniteSet(S), NEW f \in Numberings(S)
    PROVE  \A i \in 0..(Cardinality(S) - 1) : \E x \in S : f[x] = i
<1> DEFINE T == 0..(Cardinality(S) - 1)
<1>1. Cardinality(S) \in Nat
  BY FS_CardinalityType
<1>2. IsFiniteSet(T) /\ Cardinality(T) = Cardinality(S)
  BY <1>1, FS_Interval, SMTT(30)
<1>3. f \in Injection(S, T)
  BY DEF Numberings, Injection
<1>4. f \in Surjection(S, T)
  BY <1>2, <1>3, FS_Injection
<1> QED BY <1>4 DEF Surjection

(* The element of an array at the index of x is the one of x, and every    *)
(* index is the index of something.                                        *)
LEMMA ArrayAt ==
    ASSUME NEW S, NEW f \in Numberings(S), NEW element, NEW x \in S
    PROVE  f[x] \in DOMAIN Array(f, element) /\ Array(f, element)[f[x]] = element[x]
<1>1. f \in [S -> 0..(Cardinality(S) - 1)] /\ IsInjective(f) /\ DOMAIN f = S
  BY DEF Numberings
<1>2. f[x] \in 0..(Cardinality(DOMAIN f) - 1) /\ f[x] \in Range(f)
  BY <1>1 DEF Range
<1>3. (CHOOSE y \in DOMAIN f : f[y] = f[x]) = x
  BY <1>1 DEF IsInjective
<1> QED BY <1>2, <1>3 DEF Array

(* Every slot of an array belongs to a declared element.                   *)
LEMMA ArrayFilled ==
    ASSUME NEW S, IsFiniteSet(S), NEW f \in Numberings(S), NEW element,
           NEW i \in DOMAIN Array(f, element)
    PROVE  \E x \in S : i = f[x] /\ Array(f, element)[i] = element[x]
<1>1. DOMAIN f = S
  BY DEF Numberings
<1>2. i \in 0..(Cardinality(S) - 1)
  BY <1>1 DEF Array
<1> QED BY <1>2, NumberingOnto, ArrayAt

-----------------------------------------------------------------------------
(* What following an index in the arrays of graph_build leads to.          *)
LEMMA OrderParts ==
    ASSUME NEW ids \in Orders
    PROVE  /\ ids.stages \in Numberings(Stages) /\ ids.connectors \in Numberings(Connectors)
           /\ ids.clusters \in Numberings(Clusters) /\ ids.processes \in Numberings(Procs)
BY DEF Orders

(* A numbering that was given is used as it is.                            *)
LEMMA LookupAt ==
    ASSUME NEW S, NEW f \in Numberings(S), NEW x \in S
    PROVE  Lookup(f, x) = f[x]
BY DEF Numberings, Lookup

IsSerial(s) == SerialField[s] # "nil"

StageOf(ids, s, code) ==
    [name |-> s, serial |-> IsSerial(s), cluster |-> Lookup(ids.clusters, ClusterOf[s]),
     output |-> BuildOutput(ids, s), env |-> code[s]]

(* What the conversion stores of a stage.                                  *)
LEMMA StageFields ==
    ASSUME NEW ids, NEW s, NEW code
    PROVE  /\ StageOf(ids, s, code).name = s
           /\ StageOf(ids, s, code).serial = IsSerial(s)
           /\ StageOf(ids, s, code).cluster = Lookup(ids.clusters, ClusterOf[s])
           /\ StageOf(ids, s, code).output = BuildOutput(ids, s)
           /\ StageOf(ids, s, code).env = code[s]
BY DEF StageOf

(* The slot of a stage holds that stage.                                   *)
LEMMA StageAt ==
    ASSUME NEW ids \in Orders, NEW here, NEW code, NEW s \in Stages
    PROVE  /\ ids.stages[s] \in DOMAIN BuildGraph(ids, here, code).s
           /\ BuildGraph(ids, here, code).s[ids.stages[s]] = StageOf(ids, s, code)
<1> DEFINE element == [x \in Stages |-> StageOf(ids, x, code)]
<1>1. BuildGraph(ids, here, code).s = Array(ids.stages, element)
  BY DEF BuildGraph, BuildStages, StageOf, IsSerial
<1>2. element[s] = StageOf(ids, s, code)
  OBVIOUS
<1> HIDE DEF element
<1> QED BY <1>1, <1>2, OrderParts, ArrayAt

(* The slot of a connector holds it, with its ends by index.               *)
LEMMA ConnectorAt ==
    ASSUME NEW ids \in Orders, NEW here, NEW code, NEW c \in Connectors
    PROVE  BuildGraph(ids, here, code).c[ids.connectors[c]] =
             [name |-> c, p |-> ids.stages[Producer[c]], c |-> ids.stages[Consumer[c]]]
<1> DEFINE element == [x \in Connectors |-> [name |-> x, p |-> Lookup(ids.stages, Producer[x]),
                                             c |-> Lookup(ids.stages, Consumer[x])]]
<1>1. BuildGraph(ids, here, code).c = Array(ids.connectors, element)
  BY DEF BuildGraph, BuildConnectors
<1>2. Producer[c] \in Stages /\ Consumer[c] \in Stages
  BY GraphAssumption
<1>3. Lookup(ids.stages, Producer[c]) = ids.stages[Producer[c]]
      /\ Lookup(ids.stages, Consumer[c]) = ids.stages[Consumer[c]]
  BY <1>2, OrderParts, LookupAt
<1>4. element[c] = [name |-> c, p |-> ids.stages[Producer[c]], c |-> ids.stages[Consumer[c]]]
  BY <1>3
<1> HIDE DEF element
<1> QED BY <1>1, <1>4, OrderParts, ArrayAt

(* The slot of a process holds its address.                                *)
LEMMA ProcessAt ==
    ASSUME NEW ids \in Orders, NEW here, NEW code, NEW d \in Procs
    PROVE  BuildGraph(ids, here, code).d[ids.processes[d]] = d
<1> DEFINE element == [x \in Procs |-> x]
<1>1. BuildGraph(ids, here, code).d = Array(ids.processes, element)
  BY DEF BuildGraph, BuildProcesses
<1>2. element[d] = d
  OBVIOUS
<1> HIDE DEF element
<1> QED BY <1>1, <1>2, OrderParts, ArrayAt

ClusterRecord(ids, cl, here) ==
    [name |-> cl, local |-> IsLocal(cl, here),
     processes |-> [j \in DOMAIN ProcessAddr[cl] |-> Lookup(ids.processes, ProcessAddr[cl][j])]]

(* The slot of a cluster holds its record.                                 *)
LEMMA ClusterAtIndex ==
    ASSUME NEW ids \in Orders, NEW here, NEW code, NEW cl \in Clusters
    PROVE  BuildGraph(ids, here, code).cl[ids.clusters[cl]] = ClusterRecord(ids, cl, here)
<1> DEFINE element == [x \in Clusters |-> ClusterRecord(ids, x, here)]
<1>1. BuildGraph(ids, here, code).cl = Array(ids.clusters, element)
  BY DEF BuildGraph, BuildClusters, ClusterRecord
<1>2. element[cl] = ClusterRecord(ids, cl, here)
  OBVIOUS
<1> HIDE DEF element
<1> QED BY <1>1, <1>2, OrderParts, ArrayAt

(* The processes of a cluster, by the indices it keeps.                    *)
LEMMA AddressAt ==
    ASSUME NEW ids \in Orders, NEW here, NEW code, NEW cl \in Clusters,
           NEW j \in DOMAIN ProcessAddr[cl]
    PROVE  /\ ProcessAddr[cl][j] \in Procs
           /\ BuildGraph(ids, here, code).d[ClusterRecord(ids, cl, here).processes[j]] = ProcessAddr[cl][j]
<1>1. ProcessAddr[cl] \in Seq(Procs)
  BY GraphAssumption
<1>2. ProcessAddr[cl][j] \in Procs
  BY <1>1
<1>3. ClusterRecord(ids, cl, here).processes[j] = ids.processes[ProcessAddr[cl][j]]
  <2>1. Lookup(ids.processes, ProcessAddr[cl][j]) = ids.processes[ProcessAddr[cl][j]]
    BY <1>2, OrderParts, LookupAt
  <2> QED BY <2>1 DEF ClusterRecord
<1> QED BY <1>2, <1>3, ProcessAt

(* Every element of the array of stages is the element of a stage.         *)
LEMMA StageFilled ==
    ASSUME NEW ids \in Orders, NEW here, NEW code, NEW i \in DOMAIN BuildGraph(ids, here, code).s
    PROVE  \E s \in Stages : i = ids.stages[s]
<1> DEFINE element == [x \in Stages |-> StageOf(ids, x, code)]
<1>1. BuildGraph(ids, here, code).s = Array(ids.stages, element)
  BY DEF BuildGraph, BuildStages, StageOf, IsSerial
<1>2. IsFiniteSet(Stages) /\ ids.stages \in Numberings(Stages)
  BY GraphAssumption, OrderParts
<1> HIDE DEF element
<1> QED BY <1>1, <1>2, ArrayFilled

(* Every slot of the cluster array belongs to a cluster.                   *)
LEMMA ClusterFilled ==
    ASSUME NEW ids \in Orders, NEW here, NEW code, NEW i \in DOMAIN BuildGraph(ids, here, code).cl
    PROVE  \E cl \in Clusters : i = ids.clusters[cl]
<1> DEFINE element == [x \in Clusters |-> ClusterRecord(ids, x, here)]
<1>1. BuildGraph(ids, here, code).cl = Array(ids.clusters, element)
  BY DEF BuildGraph, BuildClusters, ClusterRecord
<1>2. IsFiniteSet(Clusters) /\ ids.clusters \in Numberings(Clusters)
  BY GraphAssumption, OrderParts
<1> HIDE DEF element
<1> QED BY <1>1, <1>2, ArrayFilled

-----------------------------------------------------------------------------
(* What GraphFaithful says of one process's arrays g.                      *)
Faithful(g) ==
    /\ {g.s[i].name : i \in DOMAIN g.s} = Stages
    /\ \A i \in DOMAIN g.s :
         LET s == g.s[i].name
             cl == g.cl[g.s[i].cluster]
         IN /\ cl.name = ClusterOf[s]
            /\ [j \in DOMAIN cl.processes |-> g.d[cl.processes[j]]] = ProcessAddr[cl.name]
            /\ SerialField[s] = "true" => g.s[i].serial
            /\ {<<k, g.s[g.c[g.s[i].output[k]].c].name>> : k \in DOMAIN g.s[i].output}
                 = {<<Port[c], Consumer[c]>> : c \in {b \in Connectors : Producer[b] = s}}

(* The output ports of a stage lead to the consumers of its connectors.    *)
LEMMA OutputFaithful ==
    ASSUME NEW ids \in Orders, NEW here, NEW code, NEW s \in Stages,
           NEW c \in Connectors, Producer[c] = s
    PROVE  /\ Port[c] \in DOMAIN BuildOutput(ids, s)
           /\ BuildGraph(ids, here, code).s[BuildGraph(ids, here, code).c[BuildOutput(ids, s)[Port[c]]].c].name
                = Consumer[c]
<1>1. (CHOOSE b \in Connectors : Producer[b] = s /\ Port[b] = Port[c]) = c
  BY GraphAssumption
<1>2. Port[c] \in DOMAIN BuildOutput(ids, s) /\ BuildOutput(ids, s)[Port[c]] = ids.connectors[c]
  <2>1. Lookup(ids.connectors, c) = ids.connectors[c]
    BY OrderParts, LookupAt
  <2> QED BY <1>1, <2>1 DEF BuildOutput
<1>3. Consumer[c] \in Stages
  BY GraphAssumption
<1> DEFINE r == [name |-> c, p |-> ids.stages[Producer[c]], c |-> ids.stages[Consumer[c]]]
<1>4. BuildGraph(ids, here, code).c[ids.connectors[c]].c = ids.stages[Consumer[c]]
  <2>1. r.c = ids.stages[Consumer[c]]
    OBVIOUS
  <2>2. BuildGraph(ids, here, code).c[ids.connectors[c]] = r
    BY ConnectorAt
  <2> HIDE DEF r
  <2> QED BY <2>1, <2>2
<1>5. BuildGraph(ids, here, code).s[ids.stages[Consumer[c]]].name = Consumer[c]
  BY <1>3, StageAt, StageFields
<1> QED BY <1>2, <1>4, <1>5

(* What build_graph_representation builds is the declared graph.           *)
LEMMA BuildFaithful ==
    ASSUME NEW ids \in Orders, NEW here, NEW code
    PROVE  Faithful(BuildGraph(ids, here, code))
<1> DEFINE g == BuildGraph(ids, here, code)
<1> HIDE DEF g
<1>1. ASSUME NEW s \in Stages PROVE ids.stages[s] \in DOMAIN g.s /\ g.s[ids.stages[s]] = StageOf(ids, s, code)
  BY StageAt DEF g
<1>2. \A i \in DOMAIN g.s : \E s \in Stages : i = ids.stages[s]
  BY StageFilled DEF g
<1>3. \A s \in Stages : g.s[ids.stages[s]].name = s
  BY <1>1, StageFields
<1>4. {g.s[i].name : i \in DOMAIN g.s} = Stages
  BY <1>1, <1>2, <1>3
<1>5. ASSUME NEW i \in DOMAIN g.s
      PROVE  /\ g.cl[g.s[i].cluster].name = ClusterOf[g.s[i].name]
             /\ [j \in DOMAIN g.cl[g.s[i].cluster].processes |-> g.d[g.cl[g.s[i].cluster].processes[j]]]
                  = ProcessAddr[g.cl[g.s[i].cluster].name]
             /\ SerialField[g.s[i].name] = "true" => g.s[i].serial
             /\ {<<k, g.s[g.c[g.s[i].output[k]].c].name>> : k \in DOMAIN g.s[i].output}
                  = {<<Port[c], Consumer[c]>> : c \in {b \in Connectors : Producer[b] = g.s[i].name}}
  <2>1. PICK s \in Stages : i = ids.stages[s]
    BY <1>2
  <2>2. /\ g.s[i].name = s /\ g.s[i].serial = IsSerial(s)
        /\ g.s[i].cluster = Lookup(ids.clusters, ClusterOf[s])
        /\ g.s[i].output = BuildOutput(ids, s)
    BY <1>1, <2>1, StageFields
  <2> DEFINE cl == ClusterOf[s]
  <2>3. cl \in Clusters
    BY GraphAssumption
  <2>4. Lookup(ids.clusters, cl) = ids.clusters[cl]
    BY <2>3, OrderParts, LookupAt
  <2>5. g.cl[g.s[i].cluster] = ClusterRecord(ids, cl, here)
    BY <2>2, <2>3, <2>4, ClusterAtIndex DEF g
  <2>6. g.cl[g.s[i].cluster].name = cl
    BY <2>5 DEF ClusterRecord
  <2>7. [j \in DOMAIN ClusterRecord(ids, cl, here).processes |-> g.d[ClusterRecord(ids, cl, here).processes[j]]]
          = ProcessAddr[cl]
    <3>1. DOMAIN ClusterRecord(ids, cl, here).processes = DOMAIN ProcessAddr[cl]
      BY DEF ClusterRecord
    <3>2. \A j \in DOMAIN ProcessAddr[cl] :
            g.d[ClusterRecord(ids, cl, here).processes[j]] = ProcessAddr[cl][j]
      BY <2>3, AddressAt DEF g
    <3>3. ProcessAddr[cl] = [j \in DOMAIN ProcessAddr[cl] |-> ProcessAddr[cl][j]]
      <4>1. ProcessAddr[cl] \in Seq(Procs)
        BY <2>3, GraphAssumption
      <4> HIDE DEF cl
      <4> QED BY <4>1
    <3> HIDE DEF cl
    <3> QED BY <3>1, <3>2, <3>3
  <2>8. SerialField[s] = "true" => g.s[i].serial
    BY <2>2 DEF IsSerial
  <2>9. {<<k, g.s[g.c[BuildOutput(ids, s)[k]].c].name>> : k \in DOMAIN BuildOutput(ids, s)}
          = {<<Port[c], Consumer[c]>> : c \in {b \in Connectors : Producer[b] = s}}
    <3>1. \A c \in Connectors : Producer[c] = s =>
            Port[c] \in DOMAIN BuildOutput(ids, s) /\ g.s[g.c[BuildOutput(ids, s)[Port[c]]].c].name = Consumer[c]
      BY OutputFaithful DEF g
    <3>2. \A k \in DOMAIN BuildOutput(ids, s) : \E c \in Connectors : Producer[c] = s /\ Port[c] = k
      BY DEF BuildOutput
    <3> QED BY <3>1, <3>2
  <2> HIDE DEF cl
  <2>10. g.cl[g.s[i].cluster].name = ClusterOf[g.s[i].name]
    BY <2>2, <2>6 DEF cl
  <2>11. [j \in DOMAIN g.cl[g.s[i].cluster].processes |-> g.d[g.cl[g.s[i].cluster].processes[j]]]
           = ProcessAddr[g.cl[g.s[i].cluster].name]
    BY <2>5, <2>6, <2>7
  <2>12. {<<k, g.s[g.c[g.s[i].output[k]].c].name>> : k \in DOMAIN g.s[i].output}
           = {<<Port[c], Consumer[c]>> : c \in {b \in Connectors : Producer[b] = g.s[i].name}}
    BY <2>2, <2>9, ZenonT(60)
  <2>13. SerialField[g.s[i].name] = "true" => g.s[i].serial
    BY <2>2, <2>8
  <2> QED BY <2>10, <2>11, <2>12, <2>13
<1>6. Faithful(g)
  BY <1>4, <1>5 DEF Faithful
<1> QED BY <1>6 DEF g

(* Two processes that number alike build arrays that differ in the code of *)
(* the stages and in which clusters are local, and in nothing else.        *)
LEMMA BuildAgrees ==
    ASSUME NEW ids \in Orders, NEW p, NEW q, NEW code1, NEW code2
    PROVE  LET g == BuildGraph(ids, p, code1)
               h == BuildGraph(ids, q, code2)
           IN /\ g.d = h.d /\ g.c = h.c
              /\ \A i \in DOMAIN g.s : SameButCode(g.s[i], h.s[i])
              /\ \A i \in DOMAIN g.cl : g.cl[i].name = h.cl[i].name
<1> DEFINE g == BuildGraph(ids, p, code1)
           h == BuildGraph(ids, q, code2)
<1>1. g.d = h.d /\ g.c = h.c
  BY DEF BuildGraph
<1>2. ASSUME NEW i \in DOMAIN g.s PROVE SameButCode(g.s[i], h.s[i])
  <2>1. PICK s \in Stages : i = ids.stages[s]
    BY StageFilled
  <2>2. g.s[i] = StageOf(ids, s, code1) /\ h.s[i] = StageOf(ids, s, code2)
    BY <2>1, StageAt
  <2>3. SameButCode(StageOf(ids, s, code1), StageOf(ids, s, code2))
    BY StageFields DEF SameButCode
  <2> HIDE DEF g, h
  <2> QED BY <2>2, <2>3
<1>3. ASSUME NEW i \in DOMAIN g.cl PROVE g.cl[i].name = h.cl[i].name
  <2>1. PICK cl \in Clusters : i = ids.clusters[cl]
    BY ClusterFilled
  <2>2. g.cl[i] = ClusterRecord(ids, cl, p) /\ h.cl[i] = ClusterRecord(ids, cl, q)
    BY <2>1, ClusterAtIndex
  <2> QED BY <2>2 DEF ClusterRecord
<1> QED BY <1>1, <1>2, <1>3

-----------------------------------------------------------------------------
(* The code a process has: Main that of every stage, another process that  *)
(* of the stages of its own clusters.                                      *)
HandlerOf(p) == IF p = Main THEN AllCode ELSE Prepared(AllCode, p)

(* p has got the graph; p has built it from the indices of Main.           *)
Has(p) ==
    /\ lua[Main].ids \in Orders
    /\ lua[p] = [ids |-> lua[Main].ids, handler |-> HandlerOf(p)]

Holds(p) == Has(p) /\ cgraph[p] = BuildGraph(lua[Main].ids, p, HandlerOf(p))

Shape ==
    /\ DOMAIN lua = Procs /\ DOMAIN cgraph = Procs
    /\ lua = [p \in Procs |-> lua[p]] /\ cgraph = [p \in Procs |-> cgraph[p]]
    /\ status \in [Procs -> {"waiting", "received", "run", "sending", "init", "running", "dead"}]
    /\ todo \subseteq Procs /\ peer \in Procs \cup {NULL}
    /\ outbox \in [Procs -> SUBSET Stages]
    /\ autostart \subseteq Stages

(* What each process has, by its status.                                   *)
Progress(p) ==
    /\ status[p] = "run" =>
         /\ p = Main /\ lua[Main] = [ids |-> NULL, handler |-> AllCode] /\ cgraph[Main] = NULL
         /\ \A q \in Procs \ {Main} : status[q] = "waiting"
    /\ status[p] = "waiting" => p # Main /\ cgraph[p] = NULL
    /\ status[p] = "received" => p # Main /\ cgraph[p] = NULL /\ Has(p)
    /\ status[p] = "sending" => p = Main
    /\ status[p] \in {"sending", "init", "running"} => Holds(p)
    /\ status[p] = "dead" => cgraph[p] = NULL \/ Holds(p)

(* An event that arrived did so at a process that held the graph.          *)
Arrived(m) ==
    /\ m[2] \in Stages /\ m[3] \in Procs /\ m[4] = m[2]
    /\ m[3] \in Range(ProcessAddr[ClusterOf[m[2]]])
    /\ status[m[3]] \in {"init", "running", "dead"} /\ Holds(m[3])

IInv == Shape /\ (\A p \in Procs : Progress(p)) /\ (\A m \in delivered : Arrived(m))

(* Only declared processes are used.                                       *)
LEMMA UsedProcs == Used \subseteq Procs
<1> SUFFICES ASSUME NEW cl \in Clusters PROVE Range(ProcessAddr[cl]) \subseteq Procs
  BY DEF Used
<1>1. ProcessAddr[cl] \in Seq(Procs)
  BY GraphAssumption
<1> QED BY <1>1 DEF Range

(* The invariant holds before run is called.                               *)
LEMMA InitIInv == Init => IInv
<1> SUFFICES ASSUME Init PROVE IInv
  OBVIOUS
<1>0. Main \in Procs /\ autostart \subseteq Stages
  BY DeploymentAssumption DEF Init
<1>1. Shape
  BY <1>0 DEF Init, Shape
<1>2. ASSUME NEW p \in Procs PROVE Progress(p)
  BY <1>0 DEF Init, Progress
<1> QED BY <1>1, <1>2 DEF Init, IInv

(* What keeps a process's graph: a step that changes neither the indices   *)
(* of Main nor what the process has.                                       *)
LEMMA HoldsKept ==
    ASSUME NEW p, lua'[Main].ids = lua[Main].ids, lua'[p] = lua[p], Holds(p), cgraph'[p] = cgraph[p]
    PROVE  Holds(p)'
BY DEF Holds, Has

(* A process that is not touched keeps its graph.                          *)
LEMMA HasKept ==
    ASSUME NEW p, lua'[Main].ids = lua[Main].ids, lua'[p] = lua[p], Has(p)
    PROVE  Has(p)'
BY DEF Has

(* A step that leaves every graph alone, and no process back to a status   *)
(* before it had its graph, keeps what processes have and what arrived.    *)
LEMMA StatusStep ==
    ASSUME IInv, UNCHANGED <<lua, cgraph, delivered>>, Shape',
           \A p \in Procs : \/ status'[p] = status[p]
                            \/ /\ status[p] \in {"sending", "init", "running"}
                               /\ status'[p] \in {"init", "running", "dead"}
                            \/ status[p] = "waiting" /\ status'[p] = "dead" /\ status[Main] # "run"
    PROVE  IInv'
<1>1. ASSUME NEW p \in Procs PROVE Progress(p)'
  <2>0. Main \in Procs
    BY DeploymentAssumption
  <2>1. Progress(p) /\ (Holds(p) => Holds(p)') /\ (Has(p) => Has(p)')
    BY HoldsKept, HasKept DEF IInv
  <2>2. CASE status'[p] = "run"
    BY <2>0, <2>1, <2>2 DEF Progress, IInv
  <2>3. CASE status'[p] # "run"
    BY <2>1, <2>3 DEF Progress
  <2> QED BY <2>2, <2>3
<1>2. ASSUME NEW m \in delivered PROVE Arrived(m)'
  <2>1. Arrived(m) /\ (Holds(m[3]) => Holds(m[3])')
    BY HoldsKept DEF IInv
  <2> QED BY <2>1 DEF Arrived
<1> QED BY <1>1, <1>2 DEF IInv

(* run keeps the invariant: the main process builds first.                 *)
LEMMA StepRun ==
    ASSUME IInv, Run
    PROVE  IInv'
<1>0. Main \in Procs /\ status[Main] = "run" /\ Progress(Main)
  BY DeploymentAssumption DEF Run, IInv
<1>1. /\ lua[Main] = [ids |-> NULL, handler |-> AllCode] /\ lua[Main].ids = NULL
      /\ lua[Main].handler = AllCode
      /\ \A q \in Procs \ {Main} : status[q] = "waiting" /\ cgraph[q] = NULL
  BY <1>0 DEF Progress, IInv
<1>2. PICK ids \in {Ids(lua[Main].ids, order) : order \in Orders} :
        /\ lua' = [lua EXCEPT ![Main].ids = ids]
        /\ cgraph' = Set(cgraph, Main, BuildGraph(ids, Main, lua[Main].handler))
  BY DEF Run
<1>3. ids \in Orders
  BY <1>1, <1>2 DEF Ids
<1>4. /\ lua'[Main] = [ids |-> ids, handler |-> AllCode] /\ lua'[Main].ids = ids
      /\ DOMAIN lua' = Procs /\ lua' = [p \in Procs |-> lua'[p]]
  BY <1>0, <1>1, <1>2 DEF IInv, Shape
<1>5. /\ cgraph'[Main] = BuildGraph(ids, Main, AllCode)
      /\ \A q \in Procs \ {Main} : cgraph'[q] = cgraph[q]
      /\ DOMAIN cgraph' = Procs /\ cgraph' = [p \in Procs |-> cgraph'[p]]
  BY <1>0, <1>1, <1>2 DEF IInv, Shape, Set
<1>6. status' = [status EXCEPT ![Main] = "sending"]
  BY DEF Run, Set
<1>7. Shape'
  BY <1>0, <1>4, <1>5, <1>6, UsedProcs DEF Run, IInv, Shape
<1>8. Holds(Main)'
  BY <1>3, <1>4, <1>5 DEF Holds, Has, HandlerOf
<1>9. ASSUME NEW p \in Procs PROVE Progress(p)'
  <2>1. CASE p = Main
    <3>1. status'[p] = "sending"
      BY <1>0, <1>6, <2>1 DEF IInv, Shape
    <3> QED BY <1>8, <2>1, <3>1 DEF Progress
  <2>2. CASE p # Main
    <3>1. status'[p] = "waiting" /\ cgraph'[p] = NULL
      BY <1>1, <1>5, <1>6, <2>2 DEF IInv, Shape
    <3> QED BY <2>2, <3>1 DEF Progress
  <2> QED BY <2>1, <2>2
<1>10. ASSUME NEW m \in delivered PROVE FALSE
  <2>1. m[3] \in Procs /\ status[m[3]] \in {"init", "running", "dead"}
    BY DEF IInv, Arrived
  <2> QED BY <1>0, <1>1, <2>1
<1>11. delivered' = delivered
  BY DEF Run
<1> QED BY <1>7, <1>9, <1>10, <1>11 DEF IInv

(* prepare_graph and restore_graph leave Main the code it had.             *)
LEMMA StepSendGraph ==
    ASSUME IInv, NEW d \in Procs, SendGraph(d)
    PROVE  IInv'
<1>0. Main \in Procs /\ status[Main] = "sending" /\ Holds(Main)
  BY DeploymentAssumption DEF SendGraph, IInv, Progress
<1>1. CASE status[d] # "waiting"
  <2>1. Shape'
    BY <1>0, <1>1 DEF SendGraph, IInv, Shape, Set
  <2>2. UNCHANGED <<lua, cgraph, delivered>> /\ status' = [status EXCEPT ![Main] = "dead"]
    BY <1>1 DEF SendGraph, Set
  <2>3. \A p \in Procs : status'[p] = status[p]
                         \/ (status[p] \in {"sending", "init", "running"}
                             /\ status'[p] \in {"init", "running", "dead"})
    BY <1>0, <2>2 DEF IInv, Shape
  <2> QED BY <2>1, <2>2, <2>3, StatusStep
<1>2. CASE status[d] = "waiting"
  <2>1. d # Main /\ cgraph[d] = NULL
    BY <1>2 DEF IInv, Progress
  <2>2. lua[Main] = [ids |-> lua[Main].ids, handler |-> AllCode] /\ lua[Main].ids \in Orders
        /\ lua[Main].handler = AllCode
    BY <1>0 DEF Holds, Has, HandlerOf
  <2>3. Restored(AllCode, d) = AllCode
    BY DEF Restored, AllCode
  <2> DEFINE got == [ids |-> lua[Main].ids, handler |-> Prepared(lua[Main].handler, d)]
  <2>4. lua' = [lua EXCEPT ![d] = got, ![Main].handler = Restored(@, d)]
        /\ status' = [status EXCEPT ![d] = "received"] /\ UNCHANGED <<cgraph, delivered>>
    BY <1>2 DEF SendGraph, Set
  <2>5. lua'[d] = got
    BY <2>1, <2>4 DEF IInv, Shape
  <2>6. lua'[Main] = lua[Main]
    <3>1. lua'[Main] = [lua[Main] EXCEPT !.handler = Restored(@, d)]
      BY <1>0, <2>1, <2>4 DEF IInv, Shape
    <3>2. lua[Main].handler = Restored(lua[Main].handler, d)
      BY <2>2, <2>3
    <3> QED BY <2>2, <2>3, <3>1, <3>2
  <2>7. \A q \in Procs \ {Main, d} : lua'[q] = lua[q]
    BY <1>0, <2>4 DEF IInv, Shape
  <2>8. DOMAIN lua' = Procs /\ lua' = [q \in Procs |-> lua'[q]]
    BY <2>4 DEF IInv, Shape
  <2>9. Shape'
    BY <1>2, <2>4, <2>8 DEF SendGraph, IInv, Shape
  <2>10. Has(d)'
    BY <2>1, <2>2, <2>5, <2>6 DEF Has, HandlerOf
  <2>11. ASSUME NEW p \in Procs PROVE Progress(p)'
    <3>1. CASE p = d
      <4>1. status'[p] = "received" /\ cgraph'[p] = NULL
        BY <2>1, <2>4, <3>1 DEF IInv, Shape
      <4> QED BY <2>1, <2>10, <3>1, <4>1 DEF Progress
    <3>2. CASE p # d
      <4>1. status'[p] = status[p] /\ cgraph'[p] = cgraph[p] /\ lua'[p] = lua[p]
        BY <2>4, <2>6, <2>7, <3>2 DEF IInv, Shape
      <4>2. Progress(p) /\ (Holds(p) => Holds(p)') /\ (Has(p) => Has(p)')
        BY <2>6, <4>1, HoldsKept, HasKept DEF IInv
      <4>3. status[p] # "run"
        BY <1>0, <4>2 DEF Progress
      <4> QED BY <4>1, <4>2, <4>3 DEF Progress
    <3> QED BY <3>1, <3>2
  <2>12. ASSUME NEW m \in delivered PROVE Arrived(m)'
    <3>1. Arrived(m)
      BY DEF IInv
    <3>2. m[3] \in Procs \ {d}
      BY <1>2, <3>1 DEF Arrived
    <3>3. status'[m[3]] = status[m[3]] /\ cgraph'[m[3]] = cgraph[m[3]] /\ lua'[m[3]] = lua[m[3]]
      BY <2>4, <2>6, <2>7, <3>2 DEF IInv, Shape
    <3> QED BY <2>6, <3>1, <3>3, HoldsKept DEF Arrived
  <2> QED BY <2>4, <2>9, <2>11, <2>12 DEF IInv
<1> QED BY <1>1, <1>2

(* The other steps of Main, and the end of init.                           *)
LEMMA StepAccepted ==
    ASSUME IInv, Accepted
    PROVE  IInv'
<1>1. Shape'
  BY DEF Accepted, IInv, Shape
<1> QED BY <1>1, StatusStep DEF Accepted

(* The main process starts once all have answered.                         *)
LEMMA StepStart ==
    ASSUME IInv, Start
    PROVE  IInv'
<1>0. Main \in Procs /\ Pending \subseteq Stages
  BY DeploymentAssumption
<1>1. Shape'
  BY <1>0 DEF Start, IInv, Shape, Set, FirstEvents
<1>2. \A p \in Procs : status'[p] = status[p] \/ (status[p] = "sending" /\ status'[p] = "init")
  BY <1>0 DEF Start, Set, IInv, Shape
<1> QED BY <1>1, <1>2, StatusStep DEF Start

(* A process that has sent its first events runs.                          *)
LEMMA StepRunning ==
    ASSUME IInv, NEW p \in Procs, Running(p)
    PROVE  IInv'
<1>1. Shape'
  BY DEF Running, IInv, Shape, Set
<1>2. \A q \in Procs : status'[q] = status[q] \/ (status[q] = "init" /\ status'[q] = "running")
  BY DEF Running, Set, IInv, Shape
<1> QED BY <1>1, <1>2, StatusStep DEF Running

(* The graph a process gets has indices: it creates none of its own.       *)
LEMMA StepBuildReceived ==
    ASSUME IInv, NEW d \in Procs, BuildReceived(d)
    PROVE  IInv'
<1>0. status[d] = "received" /\ d # Main /\ cgraph[d] = NULL /\ Has(d)
      /\ Main \in Procs /\ Pending \subseteq Stages
  BY DeploymentAssumption DEF BuildReceived, IInv, Progress
<1>1. lua[d].ids = lua[Main].ids /\ lua[d].handler = HandlerOf(d) /\ lua[Main].ids \in Orders
      /\ lua[Main].ids # NULL
  <2>1. NULL \notin Orders
    BY NullAssumption
  <2> QED BY <1>0, <2>1 DEF Has
<1>2. cgraph' = [cgraph EXCEPT ![d] = BuildGraph(lua[Main].ids, d, HandlerOf(d))]
  <2>1. PICK ids \in {Ids(lua[d].ids, order) : order \in Orders} :
          cgraph' = Set(cgraph, d, BuildGraph(ids, d, lua[d].handler))
    BY DEF BuildReceived
  <2>2. ids = lua[Main].ids
    BY <1>1, <2>1 DEF Ids
  <2> QED BY <1>1, <2>1, <2>2 DEF Set
<1>3. status' = [status EXCEPT ![d] = "init"] /\ UNCHANGED <<lua, delivered>>
  BY DEF BuildReceived, Set
<1>4. Shape'
  <2>1. outbox' = [outbox EXCEPT ![d] = FirstEvents(d)] /\ FirstEvents(d) \subseteq Stages
        /\ UNCHANGED <<autostart, todo, peer>>
    BY <1>0 DEF BuildReceived, Set, FirstEvents, IInv, Shape
  <2> QED BY <1>2, <1>3, <2>1 DEF IInv, Shape
<1>5. Holds(d)'
  <2>1. cgraph'[d] = BuildGraph(lua[Main].ids, d, HandlerOf(d))
    BY <1>2 DEF IInv, Shape
  <2> QED BY <1>0, <1>3, <2>1 DEF Holds, Has
<1>6. \A p \in Procs \ {d} : /\ cgraph'[p] = cgraph[p] /\ status'[p] = status[p]
                             /\ (Holds(p) => Holds(p)') /\ (Has(p) => Has(p)')
  BY <1>2, <1>3, HoldsKept, HasKept DEF IInv, Shape
<1>7. ASSUME NEW p \in Procs PROVE Progress(p)'
  <2>1. CASE p = d
    <3>1. status'[p] = "init"
      BY <1>3, <2>1 DEF IInv, Shape
    <3> QED BY <1>5, <2>1, <3>1 DEF Progress
  <2>2. CASE p # d
    <3>1. Progress(p) /\ status[p] # "run"
      BY <1>0 DEF IInv, Progress
    <3> QED BY <1>6, <2>2, <3>1 DEF Progress
  <2> QED BY <2>1, <2>2
<1>8. ASSUME NEW m \in delivered PROVE Arrived(m)'
  <2>1. Arrived(m) /\ m[3] \in Procs \ {d}
    BY <1>0 DEF IInv, Arrived
  <2> QED BY <1>6, <2>1 DEF Arrived
<1> QED BY <1>3, <1>4, <1>7, <1>8 DEF IInv

-----------------------------------------------------------------------------
(* Where an event goes.                                                    *)
LEMMA HeldStage ==
    ASSUME NEW p, Holds(p), NEW s \in Stages
    PROVE  /\ lua[p].ids = lua[Main].ids /\ StageId(p, s) = lua[Main].ids.stages[s]
           /\ cgraph[p].s[lua[Main].ids.stages[s]].name = s
           /\ cgraph[p].s[lua[Main].ids.stages[s]].env = HandlerOf(p)[s]
           /\ ClusterAt(p, s) = ClusterRecord(lua[Main].ids, ClusterOf[s], p)
<1> DEFINE ids == lua[Main].ids
           g == BuildGraph(ids, p, HandlerOf(p))
<1>1. ids \in Orders /\ cgraph[p] = g /\ lua[p].ids = ids
  BY DEF Holds, Has
<1>2. g.s[ids.stages[s]] = StageOf(ids, s, HandlerOf(p))
  BY <1>1, StageAt
<1>3. ClusterOf[s] \in Clusters
  BY GraphAssumption
<1>4. g.s[ids.stages[s]].cluster = ids.clusters[ClusterOf[s]]
  <2>1. Lookup(ids.clusters, ClusterOf[s]) = ids.clusters[ClusterOf[s]]
    BY <1>1, <1>3, OrderParts, LookupAt
  <2> QED BY <1>2, <2>1, StageFields
<1>5. g.cl[ids.clusters[ClusterOf[s]]] = ClusterRecord(ids, ClusterOf[s], p)
  BY <1>1, <1>3, ClusterAtIndex
<1>6. StageId(p, s) = ids.stages[s]
  BY <1>1 DEF StageId
<1> HIDE DEF ids, g
<1>7. ClusterAt(p, s) = ClusterRecord(ids, ClusterOf[s], p)
  BY <1>1, <1>4, <1>5, <1>6 DEF ClusterAt
<1>8. cgraph[p].s[ids.stages[s]].name = s /\ cgraph[p].s[ids.stages[s]].env = HandlerOf(p)[s]
  BY <1>1, <1>2, StageFields
<1> QED BY <1>1, <1>6, <1>7, <1>8 DEF ids

(* An index in a cluster leads to one of its processes.                    *)
LEMMA Destination ==
    ASSUME NEW p, Holds(p), NEW s \in Stages, NEW j \in DOMAIN ProcessAddr[ClusterOf[s]]
    PROVE  LET q == cgraph[p].d[ClusterAt(p, s).processes[j]]
           IN  q \in Procs /\ q \in Range(ProcessAddr[ClusterOf[s]])
<1>1. ClusterAt(p, s) = ClusterRecord(lua[Main].ids, ClusterOf[s], p)
  BY HeldStage
<1>2. ClusterOf[s] \in Clusters
  BY GraphAssumption
<1>3. lua[Main].ids \in Orders /\ cgraph[p] = BuildGraph(lua[Main].ids, p, HandlerOf(p))
  BY DEF Holds, Has
<1>4. cgraph[p].d[ClusterAt(p, s).processes[j]] = ProcessAddr[ClusterOf[s]][j]
      /\ ProcessAddr[ClusterOf[s]][j] \in Procs
  BY <1>1, <1>2, <1>3, AddressAt
<1> QED BY <1>4 DEF Range

(* A first event that arrives keeps the invariant.                         *)
LEMMA StepDeliver ==
    ASSUME IInv, NEW p \in Procs, NEW s \in Stages, NEW q \in Procs, Deliver(p, s, q),
           status[p] = "init", status[q] \in {"init", "running"},
           q \in Range(ProcessAddr[ClusterOf[s]])
    PROVE  IInv'
<1>1. Holds(p) /\ Holds(q)
  BY DEF IInv, Progress
<1>2. cgraph[q].s[StageId(p, s)].name = s
  BY <1>1, HeldStage
<1>3. delivered' = delivered \cup {<<p, s, q, s>>} /\ UNCHANGED <<autostart, lua, cgraph, status, todo, peer>>
  BY <1>2 DEF Deliver
<1>4. Shape'
  BY <1>3 DEF Deliver, IInv, Shape
<1>5. \A r \in Procs : Progress(r) <=> Progress(r)'
  BY <1>3 DEF Progress, Holds, Has
<1>6. \A r : Holds(r) => Holds(r)'
  BY <1>3 DEF Holds, Has
<1>7. ASSUME NEW m \in delivered' PROVE Arrived(m)'
  <2>1. CASE m \in delivered
    BY <1>3, <1>6, <2>1 DEF IInv, Arrived
  <2>2. CASE m = <<p, s, q, s>>
    <3>1. m[2] = s /\ m[3] = q /\ m[4] = s
      BY <2>2
    <3> QED BY <1>1, <1>3, <1>6, <3>1 DEF Arrived
  <2> QED BY <1>3, <2>1, <2>2
<1> QED BY <1>4, <1>5, <1>7 DEF IInv

(* An autostart event of the own process.                                  *)
LEMMA StepEmitLocal ==
    ASSUME IInv, NEW p \in Procs, NEW s \in Stages, EmitLocal(p, s)
    PROVE  IInv'
<1>1. status[p] = "init" /\ Holds(p)
  BY DEF EmitLocal, IInv, Progress
<1>2. IsLocal(ClusterOf[s], p)
  <2>1. ClusterAt(p, s) = ClusterRecord(lua[Main].ids, ClusterOf[s], p) /\ ClusterAt(p, s).local
    BY <1>1, HeldStage DEF EmitLocal
  <2>2. ClusterRecord(lua[Main].ids, ClusterOf[s], p).local = IsLocal(ClusterOf[s], p)
    BY DEF ClusterRecord
  <2> QED BY <2>1, <2>2
<1> QED BY <1>1, <1>2, StepDeliver DEF EmitLocal, IsLocal

(* An autostart event to another process that has the graph.               *)
LEMMA StepEmitRemote ==
    ASSUME IInv, NEW p \in Procs, NEW s \in Stages, NEW j \in DOMAIN ProcessAddr[ClusterOf[s]],
           EmitRemote(p, s, j)
    PROVE  IInv'
<1>1. status[p] = "init" /\ Holds(p)
  BY DEF EmitRemote, IInv, Progress
<1> DEFINE q == cgraph[p].d[ClusterAt(p, s).processes[j]]
<1>2. q \in Procs /\ q \in Range(ProcessAddr[ClusterOf[s]])
  BY <1>1, Destination
<1>3. status[q] \in {"init", "running"} /\ Deliver(p, s, q)
  BY DEF EmitRemote
<1> HIDE DEF q
<1> QED BY <1>1, <1>2, <1>3, StepDeliver

(* An autostart event to a process without the graph stops both.           *)
LEMMA StepEmitFails ==
    ASSUME IInv, NEW p \in Procs, NEW s \in Stages, NEW j \in DOMAIN ProcessAddr[ClusterOf[s]],
           EmitFails(p, s, j)
    PROVE  IInv'
<1>1. status[p] = "init" /\ Holds(p)
  BY DEF EmitFails, IInv, Progress
<1> DEFINE q == cgraph[p].d[ClusterAt(p, s).processes[j]]
<1>2. q \in Procs
  BY <1>1, Destination
<1>3. /\ status' = [status EXCEPT ![p] = "dead", ![q] = IF @ = "waiting" THEN "dead" ELSE @]
      /\ status[q] \in {"waiting", "run", "sending", "dead"}
      /\ UNCHANGED <<autostart, lua, cgraph, todo, peer, outbox, delivered>>
  BY DEF EmitFails
<1> HIDE DEF q
<1>4. status[Main] # "run"
  <2>1. Main \in Procs
    BY DeploymentAssumption
  <2> QED BY <1>1, <2>1 DEF IInv, Progress
<1>5. Shape'
  BY <1>2, <1>3 DEF IInv, Shape
<1>6. \A r \in Procs : \/ status'[r] = status[r]
                       \/ status[r] = "init" /\ status'[r] = "dead"
                       \/ status[r] = "waiting" /\ status'[r] = "dead"
  BY <1>1, <1>2, <1>3 DEF IInv, Shape
<1> QED BY <1>3, <1>4, <1>5, <1>6, StatusStep

(* Every step keeps the invariant.                                         *)
LEMMA NextIInv == IInv /\ [Next]_vars => IInv'
<1> SUFFICES ASSUME IInv, [Next]_vars PROVE IInv'
  OBVIOUS
<1>1. CASE UNCHANGED vars
  BY <1>1, StatusStep DEF vars, IInv, Shape
<1>2. CASE MainStep
  BY <1>2, StepRun, StepSendGraph, StepAccepted, StepStart DEF MainStep
<1>3. ASSUME NEW p \in Procs, ProcessStep(p) PROVE IInv'
  BY <1>3, StepBuildReceived, StepRunning, StepEmitLocal, StepEmitRemote, StepEmitFails
     DEF ProcessStep
<1> QED BY <1>1, <1>2, <1>3 DEF Next

(* The invariant holds in every state.                                     *)
THEOREM Invariance == Spec => []IInv
BY InitIInv, NextIInv, PTL DEF Spec

(* A process that has a graph built it from the indices of Main.           *)
LEMMA BuiltHolds ==
    ASSUME IInv, NEW p \in Procs, cgraph[p] # NULL
    PROVE  Holds(p)
<1>1. status[p] \in {"waiting", "received", "run", "sending", "init", "running", "dead"} /\ Progress(p)
  BY DEF IInv, Shape
<1> QED BY <1>1 DEF Progress

(* graph_build gives an object the same index in every process, in         *)
(* whatever order each of them traverses its tables: the indices travel    *)
(* with the graph.                                                         *)
THEOREM IdsAgreeAlways == Spec => []IdsAgree
<1>1. IInv => IdsAgree
  <2> SUFFICES ASSUME IInv, NEW p \in Procs, NEW q \in Procs, cgraph[p] # NULL, cgraph[q] # NULL
               PROVE  /\ cgraph[p].d = cgraph[q].d /\ cgraph[p].c = cgraph[q].c
                      /\ \A i \in DOMAIN cgraph[p].s : SameButCode(cgraph[p].s[i], cgraph[q].s[i])
                      /\ \A i \in DOMAIN cgraph[p].cl : cgraph[p].cl[i].name = cgraph[q].cl[i].name
    BY DEF IdsAgree
  <2>1. Holds(p) /\ Holds(q)
    BY BuiltHolds
  <2>2. /\ lua[Main].ids \in Orders
        /\ cgraph[p] = BuildGraph(lua[Main].ids, p, HandlerOf(p))
        /\ cgraph[q] = BuildGraph(lua[Main].ids, q, HandlerOf(q))
    BY <2>1 DEF Holds, Has
  <2> QED BY <2>2, BuildAgrees
<1> QED BY <1>1, Invariance, PTL

(* The arrays graph_build fills lead from every stage to its cluster, the  *)
(* processes of that and the consumers of its ports, as declared.          *)
THEOREM GraphFaithfulAlways == Spec => []GraphFaithful
<1>1. IInv => GraphFaithful
  <2> SUFFICES ASSUME IInv PROVE \A p \in Procs : cgraph[p] # NULL => Faithful(cgraph[p])
    BY DEF GraphFaithful, Faithful
  <2> QED BY BuiltHolds, BuildFaithful DEF Holds, Has
<1> QED BY <1>1, Invariance, PTL

(* The first events arrive at the stage they were sent to, in a process    *)
(* of its cluster that has its code (prepare_graph, restore_graph).        *)
THEOREM RoutedAlways == Spec => []Routed
<1>1. IInv => Routed
  <2> SUFFICES ASSUME IInv, NEW m \in delivered
               PROVE  /\ m[4] = m[2]
                      /\ m[3] \in Range(ProcessAddr[ClusterOf[m[2]]])
                      /\ cgraph[m[3]].s[lua[m[3]].ids.stages[m[2]]].env = "code"
    BY DEF Routed
  <2>1. Arrived(m)
    BY DEF IInv
  <2>2. m[2] \in Stages /\ Holds(m[3]) /\ IsLocal(ClusterOf[m[2]], m[3])
    BY <2>1 DEF Arrived, IsLocal
  <2>3. HandlerOf(m[3])[m[2]] = "code"
    BY <2>2 DEF HandlerOf, AllCode, Prepared
  <2> DEFINE s == m[2]
             q == m[3]
  <2> HIDE DEF s, q
  <2>4. s \in Stages /\ Holds(q) /\ HandlerOf(q)[s] = "code"
    BY <2>2, <2>3 DEF s, q
  <2>5. cgraph[q].s[lua[q].ids.stages[s]].env = "code"
    BY <2>4, HeldStage
  <2> QED BY <2>1, <2>5 DEF Arrived, s, q
<1> QED BY <1>1, Invariance, PTL

-----------------------------------------------------------------------------
(* No element of an array is missing.                                      *)
LEMMA LookupInt ==
    ASSUME NEW S, NEW f \in Numberings(S), NEW x
    PROVE  Lookup(f, x) \in Int
BY DEF Numberings, Lookup

(* The output table maps ports to indices.                                 *)
LEMMA OutputType ==
    ASSUME NEW ids \in Orders, NEW s
    PROVE  BuildOutput(ids, s) \in UNION {[ports -> Int] : ports \in SUBSET Range(Port)}
<1> DEFINE ports == {Port[c] : c \in {b \in Connectors : Producer[b] = s}}
<1>1. ports \in SUBSET Range(Port)
  BY GraphAssumption DEF Range
<1>2. BuildOutput(ids, s) \in [ports -> Int]
  BY OrderParts, LookupInt DEF BuildOutput
<1> QED BY <1>1, <1>2

(* A converted stage is not NULL.                                          *)
LEMMA StagePresent ==
    ASSUME NEW ids \in Orders, NEW s \in Stages, NEW code \in [Stages -> {"code", ""}]
    PROVE  StageOf(ids, s, code) # NULL
<1>1. Lookup(ids.clusters, ClusterOf[s]) \in Int
  BY OrderParts, LookupInt
<1>2. IsSerial(s) \in BOOLEAN
  BY DEF IsSerial
<1>3. StageOf(ids, s, code) \in [name : Stages, serial : BOOLEAN, cluster : Int,
                                 output : UNION {[ports -> Int] : ports \in SUBSET Range(Port)},
                                 env : {"code", ""}]
  BY <1>1, <1>2, OutputType DEF StageOf
<1> QED BY <1>3, NullAssumption

(* A converted cluster is not NULL.                                        *)
LEMMA ClusterPresent ==
    ASSUME NEW ids \in Orders, NEW cl \in Clusters, NEW here
    PROVE  ClusterRecord(ids, cl, here) # NULL
<1> DEFINE procs == [j \in DOMAIN ProcessAddr[cl] |-> Lookup(ids.processes, ProcessAddr[cl][j])]
<1>1. procs \in Seq(Int)
  <2>1. DOMAIN ProcessAddr[cl] = 1..Len(ProcessAddr[cl]) /\ Len(ProcessAddr[cl]) \in Nat
    BY GraphAssumption
  <2>2. procs \in [1..Len(ProcessAddr[cl]) -> Int]
    BY <2>1, OrderParts, LookupInt
  <2> HIDE DEF procs
  <2> QED BY <2>1, <2>2
<1>2. IsLocal(cl, here) \in BOOLEAN
  BY DEF IsLocal
<1> HIDE DEF procs
<1>3. ClusterRecord(ids, cl, here) \in [name : Clusters, local : BOOLEAN, processes : Seq(Int)]
  BY <1>1, <1>2 DEF ClusterRecord, procs
<1> QED BY <1>3, NullAssumption

(* The variables have their types, and graph_build leaves no element of    *)
(* its arrays unset: every index between zero and the count is given out.  *)
THEOREM TypeCorrect == Spec => []TypeOK
<1>1. IInv => TypeOK
  <2> SUFFICES ASSUME IInv PROVE TypeOK
    OBVIOUS
  <2>1. ASSUME NEW p \in Procs, cgraph[p] # NULL, NEW k \in {"d", "cl", "s", "c"},
               NEW i \in DOMAIN cgraph[p][k]
        PROVE  cgraph[p][k][i] # NULL
    <3>1. Holds(p)
      BY <2>1, BuiltHolds
    <3> DEFINE ids == lua[Main].ids
               g == BuildGraph(ids, p, HandlerOf(p))
    <3>2. ids \in Orders /\ cgraph[p] = g
      BY <3>1 DEF Holds, Has
    <3>3. CASE k = "d"
      <4> DEFINE element == [x \in Procs |-> x]
      <4>1. g[k] = Array(ids.processes, element)
        BY <3>3 DEF BuildGraph, BuildProcesses
      <4>2. \A x \in Procs : element[x] # NULL
        BY NullAssumption
      <4> HIDE DEF element, g, ids
      <4> QED BY <2>1, <3>2, <4>1, <4>2, OrderParts, GraphAssumption, ArrayFilled
    <3>4. CASE k = "cl"
      <4> DEFINE element == [x \in Clusters |-> ClusterRecord(ids, x, p)]
      <4>1. g[k] = Array(ids.clusters, element)
        BY <3>4 DEF BuildGraph, BuildClusters, ClusterRecord
      <4>2. \A x \in Clusters : element[x] # NULL
        BY <3>2, ClusterPresent
      <4> HIDE DEF element, g, ids
      <4> QED BY <2>1, <3>2, <4>1, <4>2, OrderParts, GraphAssumption, ArrayFilled
    <3>5. CASE k = "s"
      <4> DEFINE element == [x \in Stages |-> StageOf(ids, x, HandlerOf(p))]
      <4>1. g[k] = Array(ids.stages, element)
        BY <3>5 DEF BuildGraph, BuildStages, StageOf, IsSerial
      <4>2. \A x \in Stages : element[x] # NULL
        <5>1. HandlerOf(p) \in [Stages -> {"code", ""}]
          BY DEF HandlerOf, AllCode, Prepared
        <5> HIDE DEF ids
        <5> QED BY <3>2, <5>1, StagePresent
      <4> HIDE DEF element, g, ids
      <4> QED BY <2>1, <3>2, <4>1, <4>2, OrderParts, GraphAssumption, ArrayFilled
    <3>6. CASE k = "c"
      <4> DEFINE element == [x \in Connectors |-> [name |-> x, p |-> Lookup(ids.stages, Producer[x]),
                                                   c |-> Lookup(ids.stages, Consumer[x])]]
      <4>1. g[k] = Array(ids.connectors, element)
        BY <3>6 DEF BuildGraph, BuildConnectors
      <4>2. ASSUME NEW x \in Connectors PROVE element[x] # NULL
        <5>1. Lookup(ids.stages, Producer[x]) \in Int /\ Lookup(ids.stages, Consumer[x]) \in Int
          BY <3>2, OrderParts, LookupInt
        <5>2. element[x] \in [name : Connectors, p : Int, c : Int]
          BY <5>1
        <5> QED BY <5>2, NullAssumption
      <4> HIDE DEF element, g, ids
      <4> QED BY <2>1, <3>2, <4>1, <4>2, OrderParts, GraphAssumption, ArrayFilled
    <3> QED BY <3>3, <3>4, <3>5, <3>6
  <2> QED BY <2>1 DEF TypeOK, IInv, Shape
<1> QED BY <1>1, Invariance, PTL
=============================================================================
