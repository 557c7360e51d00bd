\* A graph of three stages in three processes, with and without autostart.
SPECIFICATION Spec
CONSTANTS
    s1 = s1  s2 = s2  s3 = s3
    k1 = k1  k2 = k2
    c1 = c1  c2 = c2
    p1 = p1  p2 = p2  p3 = p3
    Stages = {s1, s2, s3}
    Connectors = {k1, k2}
    Clusters = {c1, c2}
    Procs = {p1, p2, p3}
    SerialField <- MCSerialField
    Producer <- MCProducer
    Consumer <- MCConsumer
    Port <- MCPort
    ClusterOf <- MCClusterOf
    ProcessAddr <- MCProcessAddr
    Main = p1
    Pending = {s1, s2}
    Autostarts = {{}, {s2}, {s1, s2}}
    NULL = NULL
INVARIANTS TypeOK IdsAgree GraphFaithful Routed
PROPERTY EveryoneRuns
CHECK_DEADLOCK FALSE
