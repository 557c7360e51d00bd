------------------------- MODULE RemoteEventsProofs --------------------------
(***************************************************************************)
(* Proofs about RemoteEvents, for any number of senders, destinations,     *)
(* events, connections and faults: its type invariant, SocketHeldOnce,     *)
(* PoolQuiet, and that it implements AtMostOnce.                           *)
(***************************************************************************)
EXTENDS RemoteEvents, FiniteSetTheorems, SequenceTheorems, WellFoundedInduction, TLAPS

(* What can be on its way to a destination: the header of an event, all of *)
(* it or, once the header was read, its body; or what a stranger sent.     *)
H(e)  == << <<"head", e>> >>
HB(e) == << <<"head", e>>, <<"body", e>> >>
B(e)  == << <<"body", e>> >>
J(k)  == << <<k, NULL>> >>

OfEvent(q, e) == q \in {H(e), HB(e), B(e)}

Has(c, e)  == OfEvent(conn[c].up, e)
Reading(c) == \E d \in Procs : reading[d] = c

-----------------------------------------------------------------------------
(* The types of the connections and of what senders were told.             *)
Records == [to : Procs \cup {NULL}, cli : {"open", "closed", "stranger"},
            srv : {"queued", "open", "closed"}, fd : 0..MaxConns, watched : BOOLEAN,
            broken : BOOLEAN, up : Seq(Chunks), down : Seq(1..4)]
Told == {"none", "yes", "refused", "unreachable", "error", "silent"}

(* The answers that say that the event was not and will not be accepted.   *)
No == {"refused", "unreachable"}

SenderTypes ==
    /\ cur_process \in 0..(Len(Processes) - 1)
    /\ sockets \in [Procs -> Seq(Conns)]
    /\ pc \in [Senders -> {"idle", "store", "socket", "head", "body", "answer"}]
    /\ ev \in [Senders -> Events \cup {NULL}]
    /\ read \in [Senders -> 0..(Len(Processes) - 1)]
    /\ dst \in [Senders -> Procs \cup {NULL}]
    /\ sockfd \in [Senders -> Conns \cup {NULL}]
    /\ sent \subseteq Events /\ told \in [Events -> Told]

ThreadTypes ==
    /\ registered \in [Procs -> SUBSET Conns]
    /\ reading \in [Procs -> Conns \cup {NULL}]
    /\ running \subseteq Procs
    /\ faults \in 0..MaxFaults
    /\ accepted \in [Events -> Nat]

Types == SenderTypes /\ ThreadTypes /\ conn \in [Conns -> Records]

(* What each end knows about a connection.                                 *)
ConnOK ==
    \A c \in Conns :
      /\ conn[c].to = NULL => conn[c].cli = "closed" /\ conn[c].srv = "closed" /\ conn[c].up = <<>>
      /\ \/ conn[c].up = <<>>
         \/ conn[c].up \in {J("init"), J("junk")} /\ conn[c].cli = "stranger" /\ ~Reading(c)
         \/ \E e \in Events : /\ conn[c].up \in {H(e), HB(e)} /\ ~Reading(c)
                              /\ conn[c].cli # "stranger"
         \/ \E e \in Events : conn[c].up = B(e) /\ Reading(c) /\ conn[c].cli # "stranger"
      /\ \A d \in Procs : reading[d] = c => /\ conn[c].to = d /\ conn[c].srv = "open"
                                            /\ conn[c].cli # "stranger" /\ d \in running
      /\ conn[c].srv = "closed" => conn[c].up = <<>>

(* A socket in the pool is an open connection to its destination on which  *)
(* nothing is under way, and no sender has it.                             *)
PoolOK ==
    /\ \A d \in Procs : IsInjective(sockets[d])
    /\ \A d \in Procs : \A c \in Range(sockets[d]) :
         /\ conn[c].to = d /\ conn[c].cli = "open"
         /\ conn[c].up = <<>> /\ conn[c].down = <<>> /\ ~Reading(c)
         /\ \A s \in Senders : sockfd[s] # c

(* Where a sender is in send_sync_event, and what that says about its      *)
(* connection and its event.                                               *)
Bound(s) ==
    /\ sockfd[s] \in Conns /\ dst[s] \in Procs
    /\ conn[sockfd[s]].to = dst[s] /\ conn[sockfd[s]].cli = "open"
    /\ \A t \in Senders : sockfd[t] = sockfd[s] => t = s

SenderOK ==
    \A s \in Senders :
      /\ pc[s] = "idle" => ev[s] = NULL
      /\ pc[s] # "idle" => ev[s] \in sent /\ told[ev[s]] = "none" /\ ~ended
      /\ pc[s] # "idle" => \A t \in Senders : ev[t] = ev[s] => t = s
      /\ pc[s] = "socket" => dst[s] \in Procs
      /\ pc[s] \in {"idle", "store", "socket"} <=> sockfd[s] = NULL
      /\ pc[s] \in {"head", "body", "answer"} => Bound(s)

(* What is on the connection of a sender.                                  *)
WireOK ==
    \A s \in Senders :
      LET c == sockfd[s]  e == ev[s] IN
      /\ pc[s] = "head" => conn[c].up = <<>> /\ conn[c].down = <<>> /\ ~Reading(c)
      /\ pc[s] = "body" => /\ conn[c].down = <<>>
                           /\ \/ conn[c].up = H(e)
                              \/ conn[c].up = <<>> /\ (Reading(c) \/ ~CanReachServer(c))
      /\ pc[s] = "answer" =>
           /\ conn[c].up \in {<<>>, H(e), HB(e), B(e)}
           /\ \/ conn[c].down = <<>>
              \/ /\ conn[c].up = <<>> /\ ~Reading(c)
                 /\ \/ conn[c].down = <<1>> /\ accepted[e] = 1
                    \/ conn[c].down = <<2>> /\ accepted[e] = 0

(* Which events can still be accepted.                                     *)
EventOK ==
    \A e \in Events :
      /\ accepted[e] \in {0, 1}
      /\ e \notin sent => told[e] = "none" /\ accepted[e] = 0
      /\ told[e] = "yes" => accepted[e] = 1
      /\ told[e] \in No => accepted[e] = 0 /\ \A c \in Conns : ~Has(c, e)
      /\ \A c \in Conns : Has(c, e) => accepted[e] = 0 /\ e \in sent
      /\ \A b, c \in Conns : Has(b, e) /\ Has(c, e) => b = c
      /\ \A s \in Senders : ev[s] = e =>
           /\ pc[s] \in {"store", "socket", "head", "body"} => accepted[e] = 0
           /\ \A c \in Conns : Has(c, e) => c = sockfd[s] /\ pc[s] \in {"body", "answer"}

IInv == Types /\ ConnOK /\ PoolOK /\ SenderOK /\ WireOK /\ EventOK

(* Open sockets nobody has, and the events to blame for them.              *)
Forgotten == {c \in Conns : conn[c].cli = "open" /\ Pooled(c) \cup Holders(c) = {}}
Refused   == {e \in Events : told[e] \in No}

-----------------------------------------------------------------------------
(* Sequences of one and of two elements.                                   *)
LEMMA AppendPair == ASSUME NEW x, NEW y PROVE Append(<<x>>, y) = <<x, y>>
<1>1. <<x>> \in Seq({x, y}) /\ <<x, y>> \in Seq({x, y}) /\ Append(<<x>>, y) \in Seq({x, y})
  OBVIOUS
<1>2. Len(Append(<<x>>, y)) = 2 /\ Len(<<x, y>>) = 2
  OBVIOUS
<1>3. \A i \in 1..2 : Append(<<x>>, y)[i] = <<x, y>>[i]
  OBVIOUS
<1> QED BY <1>1, <1>2, <1>3, SeqEqual

(* What can be left of one chunk.                                          *)
LEMMA CutOne ==
    ASSUME NEW x, NEW m \in 0..1
    PROVE  SubSeq(<<x>>, 1, m) = IF m = 0 THEN <<>> ELSE <<x>>
<1>1. <<x>> \in Seq({x}) /\ Len(<<x>>) = 1
  OBVIOUS
<1>2. SubSeq(<<x>>, 1, 1) = <<x>>
  BY <1>1, SubSeqFull
<1> QED BY <1>2, SubSeqEmpty

(* What can be left of two chunks.                                         *)
LEMMA CutTwo ==
    ASSUME NEW x, NEW y, NEW m \in 0..2
    PROVE  SubSeq(<<x, y>>, 1, m) = IF m = 0 THEN <<>> ELSE IF m = 1 THEN <<x>> ELSE <<x, y>>
<1>1. <<x, y>> \in Seq({x, y}) /\ Len(<<x, y>>) = 2 /\ <<x>> \in Seq({x, y}) /\ Len(<<x>>) = 1
  OBVIOUS
<1>2. SubSeq(<<x, y>>, 1, 2) = <<x, y>>
  BY <1>1, SubSeqFull
<1>3. SubSeq(<<x, y>>, 1, 1) = <<x>>
  <2>1. SubSeq(<<x, y>>, 1, 1) \in Seq({x, y}) /\ Len(SubSeq(<<x, y>>, 1, 1)) = 1
    BY <1>1, SubSeqProperties
  <2>2. SubSeq(<<x, y>>, 1, 1)[1] = x
    BY <1>1, SubSeqProperties
  <2>3. \A i \in 1..1 : SubSeq(<<x, y>>, 1, 1)[i] = <<x>>[i]
    BY <2>2
  <2> QED BY <1>1, <2>1, <2>3, SeqEqual
<1>4. SubSeq(<<x, y>>, 1, 0) = <<>>
  BY SubSeqEmpty
<1>5. m = 0 \/ m = 1 \/ m = 2
  OBVIOUS
<1> QED BY <1>2, <1>3, <1>4, <1>5

(* How the sequences on a wire are built and taken apart.                  *)
LEMMA Wires ==
    ASSUME NEW e, NEW k
    PROVE  /\ Append(<<>>, <<"head", e>>) = H(e)
           /\ Append(H(e), <<"body", e>>) = HB(e)
           /\ Append(<<>>, <<"body", e>>) = B(e)
           /\ Tail(H(e)) = <<>> /\ Tail(HB(e)) = B(e) /\ Tail(B(e)) = <<>>
           /\ Head(H(e)) = <<"head", e>> /\ Head(HB(e)) = <<"head", e>>
           /\ Head(B(e)) = <<"body", e>> /\ Head(J(k)) = <<k, NULL>>
           /\ H(e) # <<>> /\ HB(e) # <<>> /\ B(e) # <<>> /\ J(k) # <<>>
<1>1. Append(H(e), <<"body", e>>) = HB(e)
  BY AppendPair DEF H, HB
<1>2. /\ Append(<<>>, <<"head", e>>) = H(e)
      /\ Append(<<>>, <<"body", e>>) = B(e)
  BY DEF H, B
<1>3. Tail(H(e)) = <<>> /\ Tail(HB(e)) = B(e) /\ Tail(B(e)) = <<>>
  BY DEF H, HB, B
<1>4. /\ Head(H(e)) = <<"head", e>> /\ Head(HB(e)) = <<"head", e>>
      /\ Head(B(e)) = <<"body", e>> /\ Head(J(k)) = <<k, NULL>>
  BY DEF H, HB, B, J
<1>5. H(e) # <<>> /\ HB(e) # <<>> /\ B(e) # <<>> /\ J(k) # <<>>
  BY DEF H, HB, B, J
<1> QED BY <1>1, <1>2, <1>3, <1>4, <1>5

(* The contents of a connection tell events and progress apart.            *)
LEMMA WiresDiffer ==
    ASSUME NEW e, NEW f
    PROVE  /\ H(e) = H(f) => e = f
           /\ HB(e) = HB(f) => e = f
           /\ B(e) = B(f) => e = f
           /\ H(e) # HB(f) /\ H(e) # B(f) /\ HB(e) # B(f)
BY DEF H, HB, B

(* What a stranger sends is not an event.                                  *)
LEMMA WiresStranger ==
    ASSUME NEW e, NEW k \in {"init", "junk"}
    PROVE  J(k) # H(e) /\ J(k) # HB(e) /\ J(k) # B(e)
BY DEF H, HB, B, J

(* Which contents belong to an event.                                      *)
LEMMA WiresOfEvent ==
    ASSUME NEW x
    PROVE  /\ ~OfEvent(<<>>, x) /\ ~OfEvent(J("init"), x) /\ ~OfEvent(J("junk"), x)
           /\ \A e : OfEvent(H(e), x) <=> x = e
           /\ \A e : OfEvent(HB(e), x) <=> x = e
           /\ \A e : OfEvent(B(e), x) <=> x = e
BY Wires, WiresDiffer, WiresStranger DEF OfEvent

(* What a broken connection leaves of each content.                        *)
LEMMA WiresCut ==
    ASSUME NEW e, NEW k
    PROVE  /\ \A m \in 0..Len(<<>>) : SubSeq(<<>>, 1, m) = <<>>
           /\ \A m \in 0..Len(H(e)) : SubSeq(H(e), 1, m) \in {<<>>, H(e)}
           /\ \A m \in 0..Len(HB(e)) : SubSeq(HB(e), 1, m) \in {<<>>, H(e), HB(e)}
           /\ \A m \in 0..Len(B(e)) : SubSeq(B(e), 1, m) \in {<<>>, B(e)}
           /\ \A m \in 0..Len(J(k)) : SubSeq(J(k), 1, m) \in {<<>>, J(k)}
<1>1. Len(<<>>) = 0 /\ Len(H(e)) = 1 /\ Len(HB(e)) = 2 /\ Len(B(e)) = 1 /\ Len(J(k)) = 1
  BY DEF H, HB, B, J
<1>2. \A m \in 0..Len(<<>>) : SubSeq(<<>>, 1, m) = <<>>
  BY <1>1, SubSeqEmpty
<1>3. \A m \in 0..1 : /\ SubSeq(H(e), 1, m) \in {<<>>, H(e)}
                     /\ SubSeq(B(e), 1, m) \in {<<>>, B(e)}
                     /\ SubSeq(J(k), 1, m) \in {<<>>, J(k)}
  BY CutOne DEF H, B, J
<1>4. \A m \in 0..2 : SubSeq(HB(e), 1, m) \in {<<>>, H(e), HB(e)}
  BY CutTwo DEF H, HB
<1> QED BY <1>1, <1>2, <1>3, <1>4

-----------------------------------------------------------------------------
(* The cluster has processes to choose from.                               *)
LEMMA Cluster ==
    /\ Len(Processes) \in Nat \ {0}
    /\ \A n \in 0..(Len(Processes) - 1) : Processes[n + 1] \in Procs
    /\ NULL \notin Procs /\ NULL \notin Conns /\ NULL \notin Events
<1>1. Processes \in Seq(Procs) /\ Processes # <<>>
  BY ClusterAssumption
<1>2. Len(Processes) \in Nat \ {0}
  BY <1>1
<1>3. \A n \in 0..(Len(Processes) - 1) : Processes[n + 1] \in Procs
  BY <1>1, <1>2, ElementOfSeq
<1> QED BY <1>2, <1>3, BoundAssumption

(* They are the types RemoteEvents declares.                               *)
LEMMA TypesTypeOK == Types => TypeOK
<1> SUFFICES ASSUME Types PROVE TypeOK
  OBVIOUS
<1>1. \A c \in Conns :
         /\ conn[c].to \in Procs \cup {NULL}
         /\ conn[c].cli \in {"open", "closed", "stranger"}
         /\ conn[c].srv \in {"queued", "open", "closed"}
         /\ conn[c].up \in Seq(Chunks) /\ conn[c].down \in Seq(1..4)
  BY DEF Types, Records
<1> QED BY <1>1 DEF Types, SenderTypes, ThreadTypes, TypeOK

(* The state event_init_t leaves satisfies the invariant.                  *)
LEMMA InitIInv == Init => IInv
<1> SUFFICES ASSUME Init PROVE IInv
  OBVIOUS
<1> USE DEF Init
<1>0. \A d \in Procs : sockets[d] = <<>> /\ Range(sockets[d]) = {} /\ IsInjective(sockets[d])
  BY DEF Range, IsInjective
<1>1. conn \in [Conns -> Records]
  BY BoundAssumption DEF Unused, Records
<1>2. SenderTypes
  BY Cluster DEF SenderTypes, Told
<1>3. ThreadTypes
  BY BoundAssumption DEF ThreadTypes
<1>4. ConnOK
  BY Cluster DEF ConnOK, Unused, Reading
<1>5. PoolOK
  BY <1>0 DEF PoolOK
<1>6. SenderOK
  BY Cluster DEF SenderOK
<1>7. WireOK
  BY DEF WireOK
<1>8. \A c \in Conns : \A e : ~Has(c, e)
  BY WiresOfEvent DEF Has, Unused
<1>9. EventOK
  BY <1>8, Cluster DEF EventOK
<1> QED BY <1>1, <1>2, <1>3, <1>4, <1>5, <1>6, <1>7, <1>9 DEF IInv, Types

-----------------------------------------------------------------------------
(* The steps of a sender that leave connections alone.                     *)
LEMMA StepEmmit ==
    ASSUME IInv, NEW s \in Senders, NEW e \in Events, EmmitRemoteSync(s, e)
    PROVE  IInv'
<1> USE DEF IInv, Types, EmmitRemoteSync, Goto, threadVars, faultVars
<1>1. SenderTypes'
  BY DEF SenderTypes
<1>2. ThreadTypes' /\ (conn \in [Conns -> Records])'
  BY DEF ThreadTypes
<1>3. ConnOK'
  BY DEF ConnOK, Reading
<1>4. PoolOK'
  BY DEF PoolOK, Reading
<1>5. SenderOK'
  BY Cluster DEF SenderOK, Bound, SenderTypes, EventOK
<1>6. WireOK'
  BY DEF WireOK, SenderTypes, Reading, CanReachServer
<1>7. \A c \in Conns : \A x : Has(c, x)' <=> Has(c, x)
  BY DEF Has
<1>8. EventOK'
  BY <1>7 DEF EventOK, SenderTypes, SenderOK
<1> QED BY <1>1, <1>2, <1>3, <1>4, <1>5, <1>6, <1>8

(* Storing the round robin counter keeps the invariant.                    *)
LEMMA StepStoreCur ==
    ASSUME IInv, NEW s \in Senders, StoreCur(s)
    PROVE  IInv'
<1> USE DEF IInv, Types, StoreCur, Goto, threadVars, faultVars
<1>0. Processes[cur_process + 1] \in Procs
  BY Cluster DEF SenderTypes
<1>a. (read[s] + 1) % Len(Processes) \in 0..(Len(Processes) - 1)
  BY Cluster DEF SenderTypes
<1>1. SenderTypes'
  BY <1>0, <1>a DEF SenderTypes
<1>2. ThreadTypes' /\ (conn \in [Conns -> Records])'
  BY DEF ThreadTypes
<1>3. ConnOK'
  BY DEF ConnOK, Reading
<1>4. PoolOK'
  BY DEF PoolOK, Reading
<1>5. SenderOK'
  BY <1>0 DEF SenderOK, Bound, SenderTypes
<1>6. WireOK'
  BY DEF WireOK, SenderTypes, Reading, CanReachServer
<1>7. \A c \in Conns : \A x : Has(c, x)' <=> Has(c, x)
  BY DEF Has
<1>8. EventOK'
  BY <1>7 DEF EventOK, SenderTypes
<1> QED BY <1>1, <1>2, <1>3, <1>4, <1>5, <1>6, <1>8

-----------------------------------------------------------------------------
(* What a pool without duplicates holds after a push or a pop.             *)
LEMMA RangeTail ==
    ASSUME NEW S, NEW q \in Seq(S), q # <<>>, IsInjective(q)
    PROVE  /\ IsInjective(Tail(q)) /\ Head(q) \in Range(q)
           /\ Range(Tail(q)) = Range(q) \ {Head(q)}
<1>1. /\ Len(Tail(q)) = Len(q) - 1 /\ Len(q) \in Nat \ {0}
      /\ \A n \in 1..Len(Tail(q)) : Tail(q)[n] = q[n + 1]
      /\ Head(q) = q[1] /\ DOMAIN q = 1..Len(q) /\ DOMAIN Tail(q) = 1..Len(Tail(q))
  OBVIOUS
<1>2. IsInjective(Tail(q)) /\ Head(q) \in Range(q)
  BY <1>1 DEF IsInjective, Range
<1>3. ASSUME NEW x \in Range(q), x # Head(q)  PROVE x \in Range(Tail(q))
  <2>1. PICK n \in 1..Len(q) : q[n] = x
    BY <1>1 DEF Range
  <2>2. n - 1 \in 1..Len(Tail(q)) /\ Tail(q)[n - 1] = q[n]
    BY <1>1, <1>3, <2>1
  <2> QED BY <1>1, <2>1, <2>2 DEF Range
<1>4. ASSUME NEW x \in Range(Tail(q))  PROVE x \in Range(q) /\ x # Head(q)
  BY <1>1 DEF Range, IsInjective
<1> QED BY <1>2, <1>3, <1>4

(* A new element at the end keeps a sequence injective.                    *)
LEMMA RangeAppend ==
    ASSUME NEW S, NEW q \in Seq(S), NEW e \in S, IsInjective(q), e \notin Range(q)
    PROVE  IsInjective(Append(q, e)) /\ Range(Append(q, e)) = Range(q) \cup {e}
<1>1. /\ Len(Append(q, e)) = Len(q) + 1 /\ Len(q) \in Nat
      /\ \A n \in 1..Len(q) : Append(q, e)[n] = q[n]
      /\ Append(q, e)[Len(q) + 1] = e
      /\ DOMAIN q = 1..Len(q) /\ DOMAIN Append(q, e) = 1..(Len(q) + 1)
  OBVIOUS
<1>2. IsInjective(Append(q, e))
  BY <1>1 DEF IsInjective, Range
<1>3. \A x : x \in Range(Append(q, e)) <=> x \in Range(q) \/ x = e
  BY <1>1 DEF Range
<1> QED BY <1>2, <1>3

(* What the pools hold are connections.                                    *)
LEMMA PoolConns ==
    ASSUME Types, NEW d \in Procs
    PROVE  Range(sockets[d]) \subseteq Conns
BY DEF Types, SenderTypes, Range

(* A pooled socket becomes the sender's.                                   *)
LEMMA StepPopSocket ==
    ASSUME IInv, NEW s \in Senders, PopSocket(s)
    PROVE  IInv'
<1> USE DEF IInv, Types, PopSocket, Goto, threadVars, faultVars
<1>0. PICK d \in Procs : d = dst[s]
  BY DEF SenderOK
<1>a. sockets[d] \in Seq(Conns) /\ sockets[d] # <<>> /\ IsInjective(sockets[d])
  BY <1>0 DEF SenderTypes, PoolOK
<1>b. PICK c \in Conns : c = Head(sockets[d])
  BY <1>a
<1>c. /\ sockfd' = [sockfd EXCEPT ![s] = c] /\ pc' = [pc EXCEPT ![s] = "head"]
      /\ sockets' = [sockets EXCEPT ![d] = Tail(sockets[d])]
      /\ sockets \in [Procs -> Seq(Conns)] /\ Tail(sockets[d]) \in Seq(Conns)
  BY <1>0, <1>a, <1>b DEF SenderTypes
<1>d. /\ c \in Range(sockets[d]) /\ IsInjective(sockets'[d])
      /\ Range(sockets'[d]) = Range(sockets[d]) \ {c}
      /\ \A x \in Procs \ {d} : sockets'[x] = sockets[x]
  BY <1>a, <1>b, <1>c, RangeTail
<1>e. /\ conn[c].to = d /\ conn[c].cli = "open" /\ conn[c].up = <<>> /\ conn[c].down = <<>> /\ ~Reading(c)
      /\ \A t \in Senders : sockfd[t] # c
  BY <1>d DEF PoolOK
<1>1. SenderTypes'
  BY <1>c DEF SenderTypes
<1>2. ThreadTypes' /\ (conn \in [Conns -> Records])'
  BY DEF ThreadTypes
<1>3. ConnOK'
  BY DEF ConnOK, Reading
<1>4. PoolOK'
  <2>1. \A x \in Procs : IsInjective(sockets'[x]) /\ Range(sockets'[x]) \subseteq Range(sockets[x])
    BY <1>d DEF PoolOK
  <2>2. \A x \in Procs : c \notin Range(sockets'[x])
    BY <1>d, <1>e DEF PoolOK
  <2> QED BY <1>c, <2>1, <2>2 DEF PoolOK, Reading, SenderTypes
<1>5. SenderOK'
  BY <1>0, <1>c, <1>e, Cluster DEF SenderOK, Bound, SenderTypes
<1>6. WireOK'
  <2>1. /\ sockfd'[s] = c /\ pc'[s] = "head"
        /\ \A t \in Senders \ {s} : sockfd'[t] = sockfd[t] /\ pc'[t] = pc[t]
    BY <1>c DEF SenderTypes
  <2>2. /\ UNCHANGED <<conn, ev, accepted>>
        /\ \A b : (Reading(b)' <=> Reading(b)) /\ (CanReachServer(b)' <=> CanReachServer(b))
    BY DEF Reading, CanReachServer
  <2>3. WireOK
    OBVIOUS
  <2> HIDE DEF IInv, Types, PopSocket, Goto, threadVars, faultVars
  <2> QED BY <1>e, <2>1, <2>2, <2>3, ZenonT(60) DEF WireOK
<1>7. \A b \in Conns : \A x : Has(b, x)' <=> Has(b, x)
  BY DEF Has
<1>8. EventOK'
  BY <1>7 DEF EventOK, SenderTypes
<1> QED BY <1>1, <1>2, <1>3, <1>4, <1>5, <1>6, <1>8

(* A connection just opened.                                               *)
LEMMA OpenedIs ==
    ASSUME NEW d \in Procs
    PROVE  /\ Opened(d).to = d /\ Opened(d).cli = "open" /\ Opened(d).srv = "queued"
           /\ Opened(d).up = <<>> /\ Opened(d).down = <<>> /\ Opened(d) \in Records
<1>1. 0 \in 0..MaxConns
  BY BoundAssumption
<1>2. <<>> \in Seq(Chunks) /\ <<>> \in Seq(1..4)
  OBVIOUS
<1>3. Unused \in Records
  BY <1>1, <1>2 DEF Unused, Records
<1>4. Opened(d) \in Records
  BY <1>3 DEF Opened, Records
<1>5. Unused.up = <<>> /\ Unused.down = <<>>
  BY DEF Unused
<1> QED BY <1>3, <1>4, <1>5 DEF Opened, Records

(* A new connection becomes the sender's.                                  *)
LEMMA StepConnect ==
    ASSUME IInv, NEW s \in Senders, NEW c \in Conns, Connect(s, c)
    PROVE  IInv'
<1> USE DEF IInv, Types, Connect, Goto, threadVars, faultVars
<1>0. PICK d \in Procs : d = dst[s]
  BY DEF SenderOK
<1>a. conn[c].to = NULL /\ d # NULL
  BY Cluster DEF Fresh
<1>b. /\ conn' = [conn EXCEPT ![c] = Opened(d)] /\ sockfd' = [sockfd EXCEPT ![s] = c]
      /\ pc' = [pc EXCEPT ![s] = "head"]
  BY <1>0
<1>c. /\ conn'[c] = Opened(d) /\ \A b \in Conns \ {c} : conn'[b] = conn[b]
      /\ Opened(d).to = d /\ Opened(d).cli = "open" /\ Opened(d).srv = "queued"
      /\ Opened(d).up = <<>> /\ Opened(d).down = <<>> /\ Opened(d) \in Records
  BY <1>b, OpenedIs
<1>d. conn[c].cli = "closed" /\ conn[c].up = <<>> /\ ~Reading(c)
  BY <1>a, Cluster DEF ConnOK, Reading
<1>e. \A t \in Senders : sockfd[t] # c
  <2> SUFFICES ASSUME NEW t \in Senders, sockfd[t] = c PROVE FALSE
    OBVIOUS
  <2>1. pc[t] \in {"head", "body", "answer"}
    BY Cluster DEF SenderOK, SenderTypes
  <2> QED BY <1>d, <2>1 DEF SenderOK, Bound
<1>f. \A x \in Procs : c \notin Range(sockets[x])
  BY <1>d DEF PoolOK
<1>1. SenderTypes'
  BY <1>b DEF SenderTypes
<1>2. ThreadTypes' /\ (conn \in [Conns -> Records])'
  BY <1>b, <1>c DEF ThreadTypes
<1>3. ConnOK'
  BY <1>a, <1>c, <1>d DEF ConnOK, Reading
<1>4. PoolOK'
  BY <1>b, <1>c, <1>f, PoolConns DEF PoolOK, Reading, SenderTypes
<1>5. SenderOK'
  BY <1>0, <1>b, <1>c, <1>e, Cluster DEF SenderOK, Bound, SenderTypes
<1>6. WireOK'
  BY <1>b, <1>c, <1>d, <1>e DEF WireOK, SenderTypes, SenderOK, Bound, Reading, CanReachServer
<1>7. \A b \in Conns : \A x : Has(b, x)' <=> Has(b, x)
  BY <1>c, <1>d DEF Has
<1>8. EventOK'
  BY <1>b, <1>7 DEF EventOK, SenderTypes, No
<1> QED BY <1>1, <1>2, <1>3, <1>4, <1>5, <1>6, <1>8

(* A connect that makes no socket keeps the invariant.                     *)
LEMMA StepConnectError ==
    ASSUME IInv, NEW s \in Senders, ConnectError(s)
    PROVE  IInv'
<1> USE DEF IInv, Types, ConnectError, Return, Goto, threadVars, faultVars
<1>0. ev[s] \in Events /\ told[ev[s]] = "none"
  BY DEF SenderOK, SenderTypes
<1>1. SenderTypes'
  BY <1>0, Cluster DEF SenderTypes, Told
<1>2. ThreadTypes' /\ (conn \in [Conns -> Records])'
  BY DEF ThreadTypes
<1>3. ConnOK'
  BY DEF ConnOK, Reading
<1>4. PoolOK'
  <2>1. sockfd'[s] = NULL /\ \A t \in Senders \ {s} : sockfd'[t] = sockfd[t]
    BY DEF SenderTypes
  <2>2. \A c : Reading(c)' <=> Reading(c)
    BY DEF Reading
  <2>3. conn' = conn /\ sockets' = sockets
    OBVIOUS
  <2> HIDE DEF ConnectError, Return
  <2> QED BY <2>1, <2>2, <2>3, PoolConns, Cluster DEF PoolOK
<1>5. SenderOK'
  BY <1>0, Cluster DEF SenderOK, Bound, SenderTypes
<1>6. WireOK'
  BY DEF WireOK, SenderTypes, Reading, CanReachServer
<1>7. \A c \in Conns : \A x : Has(c, x)' <=> Has(c, x)
  BY DEF Has
<1>8. EventOK'
  BY <1>0, <1>7, Cluster DEF EventOK, SenderTypes, SenderOK, No
<1> QED BY <1>1, <1>2, <1>3, <1>4, <1>5, <1>6, <1>8

(* The socket of a connect that failed is open at the client, and that is  *)
(* all.                                                                    *)
Stillborn(d) == [Unused EXCEPT !.to = d, !.cli = "open", !.broken = TRUE]

(* What is known of such a connection.                                     *)
LEMMA StillbornIs ==
    ASSUME NEW d \in Procs
    PROVE  /\ Stillborn(d) \in Records /\ Stillborn(d).to = d /\ Stillborn(d).cli = "open"
           /\ Stillborn(d).srv = "closed" /\ Stillborn(d).up = <<>>
<1>1. 0 \in 0..MaxConns
  BY BoundAssumption
<1>2. <<>> \in Seq(Chunks) /\ <<>> \in Seq(1..4)
  OBVIOUS
<1>3. Unused \in Records
  BY <1>1, <1>2 DEF Unused, Records
<1>4. Unused.srv = "closed" /\ Unused.up = <<>>
  BY DEF Unused
<1> QED BY <1>3, <1>4 DEF Stillborn, Records

(* A connect that fails keeps the invariant: nobody has its socket.        *)
LEMMA StepConnectRefused ==
    ASSUME IInv, NEW s \in Senders, NEW c \in Conns, ConnectRefused(s, c)
    PROVE  IInv'
<1> USE DEF IInv, Types
<1>0. /\ ev[s] \in Events /\ ev[s] \in sent /\ told[ev[s]] = "none" /\ dst[s] \in Procs
      /\ sockfd[s] = NULL /\ pc[s] = "socket" /\ \A t \in Senders \ {s} : ev[t] # ev[s]
  BY DEF ConnectRefused, SenderOK, SenderTypes
<1> DEFINE e == ev[s]
           d == dst[s]
<1>a. conn[c].to = NULL /\ d # NULL
  BY <1>0, Cluster DEF ConnectRefused, Fresh
<1>b. /\ conn' = [conn EXCEPT ![c] = Stillborn(d)] /\ sockets' = sockets
      /\ told' = [told EXCEPT ![e] = "unreachable"] /\ ev' = [ev EXCEPT ![s] = NULL]
      /\ read' = [read EXCEPT ![s] = 0] /\ dst' = [dst EXCEPT ![s] = NULL]
      /\ sockfd' = [sockfd EXCEPT ![s] = NULL] /\ pc' = [pc EXCEPT ![s] = "idle"]
      /\ UNCHANGED <<cur_process, ended, sent, registered, reading, accepted, running, faults>>
  BY DEF ConnectRefused, Return, Goto, threadVars, faultVars, Stillborn
<1>c. /\ conn'[c] = Stillborn(d) /\ \A b \in Conns \ {c} : conn'[b] = conn[b]
      /\ Stillborn(d) \in Records /\ Stillborn(d).to = d /\ Stillborn(d).cli = "open"
      /\ Stillborn(d).srv = "closed" /\ Stillborn(d).up = <<>>
  BY <1>0, <1>b, StillbornIs
<1> HIDE DEF e, d
<1>d. conn[c].cli = "closed" /\ conn[c].up = <<>> /\ ~Reading(c)
  BY <1>a, Cluster DEF ConnOK, Reading
<1>e. \A t \in Senders : sockfd[t] # c
  <2> SUFFICES ASSUME NEW t \in Senders, sockfd[t] = c PROVE FALSE
    OBVIOUS
  <2>1. pc[t] \in {"head", "body", "answer"}
    <3>1. sockfd[t] # NULL /\ pc[t] \in {"idle", "store", "socket", "head", "body", "answer"}
      BY Cluster DEF SenderTypes
    <3>2. pc[t] \notin {"idle", "store", "socket"}
      BY <3>1 DEF SenderOK
    <3> QED BY <3>1, <3>2
  <2>2. Bound(t)
    BY <2>1 DEF SenderOK
  <2> QED BY <1>d, <2>2 DEF Bound
<1>f. \A x \in Procs : c \notin Range(sockets[x])
  BY <1>d DEF PoolOK
<1>z. \A b : Reading(b)' <=> Reading(b)
  BY <1>b DEF Reading
<1>1. SenderTypes'
  <2>1. e \in Events /\ "unreachable" \in Told
    BY <1>0 DEF Told, e
  <2> QED BY <1>b, <2>1, Cluster DEF SenderTypes
<1>2. ThreadTypes' /\ (conn \in [Conns -> Records])'
  BY <1>b, <1>c DEF ThreadTypes
<1>3. ConnOK'
  <2> SUFFICES ASSUME NEW b \in Conns PROVE ConnOK!(b)'
    BY DEF ConnOK
  <2>1. CASE b = c
    BY <1>a, <1>b, <1>c, <1>d, <2>1 DEF Reading
  <2>2. CASE b # c
    BY <1>b, <1>c, <1>z, <2>2 DEF ConnOK
  <2> QED BY <2>1, <2>2
<1>y. /\ pc'[s] = "idle" /\ ev'[s] = NULL /\ sockfd'[s] = NULL /\ told'[e] = "unreachable"
      /\ \A t \in Senders \ {s} : /\ pc'[t] = pc[t] /\ ev'[t] = ev[t] /\ sockfd'[t] = sockfd[t]
                                   /\ dst'[t] = dst[t]
      /\ \A x \in Events \ {e} : told'[x] = told[x]
  BY <1>0, <1>b DEF SenderTypes, e
<1>4. PoolOK'
  BY <1>b, <1>c, <1>f, <1>y, <1>z, PoolConns, Cluster DEF PoolOK
<1>5. SenderOK'
  <2> SUFFICES ASSUME NEW t \in Senders PROVE SenderOK!(t)'
    BY DEF SenderOK
  <2>1. CASE t = s
    BY <1>y, <2>1
  <2>2. CASE t # s
    <3>1. pc[t] # "idle" => ev[t] # e /\ ev[t] \in Events
      BY <1>0, <2>2 DEF SenderOK, SenderTypes, e
    <3>2. pc[t] \in {"head", "body", "answer"} => Bound(t)'
      <4> SUFFICES ASSUME pc[t] \in {"head", "body", "answer"} PROVE Bound(t)'
        OBVIOUS
      <4>1. Bound(t) /\ sockfd[t] # c /\ sockfd[t] # NULL
        BY <1>e, Cluster DEF SenderOK, Bound
      <4>2. conn'[sockfd[t]] = conn[sockfd[t]]
        BY <1>c, <4>1 DEF Bound
      <4> QED BY <1>y, <2>2, <4>1, <4>2 DEF Bound
    <3>3. pc[t] # "idle" => \A u \in Senders : ev'[u] = ev[t] => u = t
      BY <1>y, <3>1, Cluster DEF SenderOK
    <3> QED BY <1>b, <1>y, <2>2, <3>1, <3>2, <3>3 DEF SenderOK
  <2> QED BY <2>1, <2>2
<1>6. WireOK'
  <2> SUFFICES ASSUME NEW t \in Senders PROVE WireOK!(t)'
    BY DEF WireOK
  <2>1. CASE t = s
    BY <1>y, <2>1
  <2>2. CASE t # s /\ pc[t] \in {"head", "body", "answer"}
    <3>1. sockfd[t] \in Conns \ {c} /\ conn'[sockfd[t]] = conn[sockfd[t]]
      BY <1>c, <1>e, <2>2 DEF SenderOK, Bound
    <3> QED BY <1>b, <1>y, <1>z, <2>2, <3>1 DEF WireOK, CanReachServer
  <2>3. CASE t # s /\ pc[t] \notin {"head", "body", "answer"}
    BY <1>y, <2>3
  <2> QED BY <2>1, <2>2, <2>3
<1>7. \A b \in Conns : \A x : Has(b, x)' <=> Has(b, x)
  BY <1>c, <1>d DEF Has
<1>8. EventOK'
  <2>1. accepted[e] = 0 /\ \A b \in Conns : ~Has(b, e)
    BY <1>0 DEF EventOK, e
  <2> SUFFICES ASSUME NEW x \in Events PROVE EventOK!(x)'
    BY DEF EventOK
  <2>2. \A t \in Senders : ev'[t] = x => t # s
    BY <1>y, Cluster
  <2>3. accepted' = accepted /\ sent' = sent
    BY <1>b
  <2>4. CASE x = e
    <3>1. e \in sent /\ \A t \in Senders : ev'[t] # e
      BY <1>0, <1>y, Cluster DEF e
    <3> QED BY <1>7, <1>y, <2>1, <2>3, <2>4, <3>1 DEF No
  <2>5. CASE x # e
    BY <1>7, <1>y, <2>2, <2>3, <2>5 DEF EventOK
  <2> QED BY <2>4, <2>5
<1> QED BY <1>1, <1>2, <1>3, <1>4, <1>5, <1>6, <1>8

-----------------------------------------------------------------------------
(* A sender that has a connection is the only one to have it, or its event. *)
LEMMA Busy ==
    ASSUME IInv, NEW s \in Senders, pc[s] \in {"head", "body", "answer"}
    PROVE  /\ sockfd[s] \in Conns /\ ev[s] \in Events /\ dst[s] \in Procs
           /\ ev[s] \in sent /\ told[ev[s]] = "none" /\ ~ended
           /\ conn[sockfd[s]].to = dst[s] /\ conn[sockfd[s]].cli = "open"
           /\ \A t \in Senders \ {s} : sockfd[t] # sockfd[s] /\ ev[t] # ev[s]
           /\ \A d \in Procs : sockfd[s] \notin Range(sockets[d])
<1>1. /\ sockfd[s] \in Conns /\ dst[s] \in Procs
      /\ conn[sockfd[s]].to = dst[s] /\ conn[sockfd[s]].cli = "open"
      /\ \A t \in Senders \ {s} : sockfd[t] # sockfd[s]
  BY DEF IInv, SenderOK, Bound
<1>2. ev[s] \in sent /\ told[ev[s]] = "none" /\ ~ended /\ \A t \in Senders \ {s} : ev[t] # ev[s]
  BY DEF IInv, SenderOK
<1>3. \A d \in Procs : sockfd[s] \notin Range(sockets[d])
  BY DEF IInv, PoolOK
<1> QED BY <1>1, <1>2, <1>3 DEF IInv, Types, SenderTypes

(* What a connection is whose sequence to the destination was replaced.    *)
LEMMA NewUp ==
    ASSUME conn \in [Conns -> Records], NEW c \in Conns, NEW q \in Seq(Chunks),
           conn' = [conn EXCEPT ![c].up = q]
    PROVE  /\ conn' \in [Conns -> Records]
           /\ \A b \in Conns \ {c} : conn'[b] = conn[b]
           /\ conn'[c].up = q /\ conn'[c].to = conn[c].to /\ conn'[c].cli = conn[c].cli
           /\ conn'[c].srv = conn[c].srv /\ conn'[c].broken = conn[c].broken
           /\ conn'[c].down = conn[c].down /\ conn'[c].watched = conn[c].watched
BY DEF Records

(* The header is written: it is all that is on the connection.             *)
LEMMA StepWriteHead ==
    ASSUME IInv, NEW s \in Senders, WriteHead(s)
    PROVE  IInv'
<1> USE DEF IInv, Types, WriteHead, Write, Goto, threadVars, faultVars
<1> DEFINE c == sockfd[s]
           e == ev[s]
<1>0. /\ c \in Conns /\ e \in Events /\ e \in sent /\ told[e] = "none"
      /\ conn[c].to = dst[s] /\ conn[c].cli = "open" /\ dst[s] \in Procs /\ ~ended
      /\ \A t \in Senders \ {s} : sockfd[t] # c /\ ev[t] # e
      /\ \A d \in Procs : c \notin Range(sockets[d])
  BY Busy
<1>a. conn[c].up = <<>> /\ conn[c].down = <<>> /\ ~Reading(c) /\ ~Reading(c)'
  BY DEF WireOK, Reading
<1>b. /\ conn' \in [Conns -> Records]
      /\ \A b \in Conns \ {c} : conn'[b] = conn[b]
      /\ conn'[c].to = conn[c].to /\ conn'[c].cli = "open" /\ conn'[c].srv = conn[c].srv
      /\ conn'[c].broken = conn[c].broken /\ conn'[c].down = <<>>
      /\ \/ CanReachServer(c) /\ conn'[c].up = H(e)
         \/ ~CanReachServer(c) /\ conn'[c].up = <<>>
  <2>1. CASE CanReachServer(c)
    <3>1. H(e) \in Seq(Chunks) /\ Append(conn[c].up, <<"head", e>>) = H(e)
      BY <1>0, <1>a, Wires DEF H, Chunks
    <3>2. conn' = [conn EXCEPT ![c].up = H(e)]
      BY <2>1, <3>1
    <3> HIDE DEF c, e
    <3> QED BY <1>0, <1>a, <2>1, <3>1, <3>2, NewUp
  <2>2. CASE ~CanReachServer(c)
    BY <1>0, <1>a, <2>2
  <2> QED BY <2>1, <2>2
<1>c. pc[s] = "head" /\ pc' = [pc EXCEPT ![s] = "body"] /\ sockfd' = sockfd /\ ev' = ev
  OBVIOUS
<1> HIDE DEF Write, c, e
<1>1. SenderTypes'
  BY DEF SenderTypes, Write
<1>2. ThreadTypes'
  BY DEF ThreadTypes, Write
<1>z. \A b : Reading(b)' <=> Reading(b)
  BY DEF Reading, Write
<1>y. UNCHANGED <<sockets, dst, ended, sent, told, reading, accepted, running>>
  BY DEF Write
<1>3. ConnOK'
  <2> SUFFICES ASSUME NEW b \in Conns PROVE ConnOK!(b)'
    BY DEF ConnOK
  <2>1. CASE b = c
    BY <1>0, <1>a, <1>b, <1>y, <1>z, <2>1, Cluster DEF ConnOK, CanReachServer, Reading
  <2>2. CASE b # c
    BY <1>b, <1>y, <1>z, <2>2 DEF ConnOK
  <2> QED BY <2>1, <2>2
<1>4. PoolOK'
  BY <1>0, <1>b, <1>c, <1>y, <1>z, PoolConns DEF PoolOK
<1>5. SenderOK'
  BY <1>0, <1>b, <1>c, <1>y DEF SenderOK, Bound, SenderTypes, c
<1>6. WireOK'
  BY <1>0, <1>a, <1>b, <1>c, <1>y, <1>z DEF WireOK, SenderOK, Bound, SenderTypes, CanReachServer, c, e
<1>7. \A b \in Conns : \A x : Has(b, x)' => Has(b, x) \/ (b = c /\ x = e)
  BY <1>a, <1>b, WiresOfEvent DEF Has
<1>8. EventOK'
  BY <1>0, <1>7, <1>c, <1>y, Cluster DEF EventOK, SenderTypes, No, c, e
<1> QED BY <1>1, <1>2, <1>3, <1>4, <1>5, <1>6, <1>8, <1>b

(* The body follows its header, which may have been read.                  *)
LEMMA StepWriteBody ==
    ASSUME IInv, NEW s \in Senders, WriteBody(s)
    PROVE  IInv'
<1> USE DEF IInv, Types, WriteBody, Write, Goto, threadVars, faultVars
<1> DEFINE c == sockfd[s]
           e == ev[s]
<1>0. /\ c \in Conns /\ e \in Events /\ e \in sent /\ told[e] = "none"
      /\ conn[c].to = dst[s] /\ conn[c].cli = "open" /\ dst[s] \in Procs /\ ~ended
      /\ \A t \in Senders \ {s} : sockfd[t] # c /\ ev[t] # e
      /\ \A d \in Procs : c \notin Range(sockets[d])
  BY Busy
<1>a. /\ conn[c].down = <<>>
      /\ \/ conn[c].up = H(e) /\ ~Reading(c)
         \/ conn[c].up = <<>> /\ (Reading(c) \/ ~CanReachServer(c))
  <2>1. conn[c].up = H(e) => ~Reading(c)
    BY <1>0, Wires, WiresDiffer, WiresStranger DEF ConnOK
  <2> QED BY <2>1 DEF WireOK
<1>b. /\ conn' \in [Conns -> Records]
      /\ \A b \in Conns \ {c} : conn'[b] = conn[b]
      /\ conn'[c].to = conn[c].to /\ conn'[c].cli = "open" /\ conn'[c].srv = conn[c].srv
      /\ conn'[c].broken = conn[c].broken /\ conn'[c].down = <<>>
      /\ \/ CanReachServer(c) /\ conn'[c].up = HB(e) /\ ~Reading(c)
         \/ CanReachServer(c) /\ conn'[c].up = B(e) /\ Reading(c)
         \/ conn'[c].up = conn[c].up
  <2>1. CASE CanReachServer(c)
    <3>1. PICK q \in {HB(e), B(e)} : q = Append(conn[c].up, <<"body", e>>)
                                     /\ ((q = HB(e) /\ ~Reading(c)) \/ (q = B(e) /\ Reading(c)))
      BY <1>a, <2>1, Wires
    <3>2. q \in Seq(Chunks)
      <4>1. HB(e) \in Seq(Chunks) /\ B(e) \in Seq(Chunks)
        BY <1>0 DEF HB, B, Chunks
      <4> QED BY <3>1, <4>1
    <3>3. conn' = [conn EXCEPT ![c].up = q]
      BY <2>1, <3>1
    <3> HIDE DEF c, e
    <3> QED BY <1>0, <1>a, <2>1, <3>1, <3>2, <3>3, NewUp
  <2>2. CASE ~CanReachServer(c)
    BY <1>0, <1>a, <2>2
  <2> QED BY <2>1, <2>2
<1>c. pc[s] = "body" /\ pc' = [pc EXCEPT ![s] = "answer"] /\ sockfd' = sockfd /\ ev' = ev
  OBVIOUS
<1> HIDE DEF Write, c, e
<1>1. SenderTypes'
  BY DEF SenderTypes, Write
<1>2. ThreadTypes'
  BY DEF ThreadTypes, Write
<1>z. \A b : Reading(b)' <=> Reading(b)
  BY DEF Reading, Write
<1>y. UNCHANGED <<sockets, dst, ended, sent, told, reading, accepted, running>>
  BY DEF Write
<1>3. ConnOK'
  <2> SUFFICES ASSUME NEW b \in Conns PROVE ConnOK!(b)'
    BY DEF ConnOK
  <2>1. CASE b = c
    BY <1>0, <1>a, <1>b, <1>y, <1>z, <2>1, Cluster DEF ConnOK, CanReachServer
  <2>2. CASE b # c
    BY <1>b, <1>y, <1>z, <2>2 DEF ConnOK
  <2> QED BY <2>1, <2>2
<1>4. PoolOK'
  BY <1>0, <1>b, <1>c, <1>y, <1>z, PoolConns DEF PoolOK
<1>5. SenderOK'
  BY <1>0, <1>b, <1>c, <1>y DEF SenderOK, Bound, SenderTypes, c
<1>6. WireOK'
  BY <1>0, <1>a, <1>b, <1>c, <1>y, <1>z DEF WireOK, SenderOK, Bound, SenderTypes, CanReachServer, c, e
<1>7. \A b \in Conns : \A x : Has(b, x)' => Has(b, x) \/ (b = c /\ x = e)
  BY <1>a, <1>b, WiresOfEvent DEF Has
<1>8. EventOK'
  BY <1>0, <1>7, <1>c, <1>y, Cluster DEF EventOK, SenderTypes, No, c, e
<1> QED BY <1>1, <1>2, <1>3, <1>4, <1>5, <1>6, <1>8, <1>b

-----------------------------------------------------------------------------
(* send_sync_event returns, and its connection is pooled, closed or left.  *)
PutBack(s, c) == sockets' = [sockets EXCEPT ![dst[s]] = Append(@, c)]

(* send_sync_event returns: what that asks of the connection.              *)
LEMMA Returning ==
    ASSUME IInv, NEW s \in Senders, pc[s] \in {"head", "body", "answer"},
           NEW a \in Told \ {"none"}, Return(s, a),
           NEW c, c = sockfd[s], NEW e, e = ev[s],
           conn' \in [Conns -> Records],
           \A b \in Conns \ {c} : conn'[b] = conn[b],
           conn'[c].to = conn[c].to, conn'[c].srv = conn[c].srv, conn'[c].up = conn[c].up,
           conn'[c].broken = conn[c].broken, conn'[c].cli # "stranger",
           \/ sockets' = sockets
           \/ /\ conn'[c].cli = "open" /\ conn[c].up = <<>> /\ conn'[c].down = <<>> /\ ~Reading(c)
              /\ PutBack(s, c),
           a = "yes" => accepted[e] = 1,
           a \in No => accepted[e] = 0 /\ conn[c].up = <<>>
    PROVE  IInv'
<1> USE DEF IInv, Types
<1>0. /\ c \in Conns /\ e \in Events /\ e \in sent /\ told[e] = "none"
      /\ conn[c].to = dst[s] /\ conn[c].cli = "open" /\ dst[s] \in Procs /\ ~ended
      /\ \A t \in Senders \ {s} : sockfd[t] # c /\ ev[t] # e
      /\ \A d \in Procs : c \notin Range(sockets[d])
  BY Busy
<1>a. /\ told' = [told EXCEPT ![e] = a] /\ ev' = [ev EXCEPT ![s] = NULL]
      /\ read' = [read EXCEPT ![s] = 0] /\ dst' = [dst EXCEPT ![s] = NULL]
      /\ sockfd' = [sockfd EXCEPT ![s] = NULL] /\ pc' = [pc EXCEPT ![s] = "idle"]
      /\ UNCHANGED <<cur_process, ended, sent, registered, reading, accepted, running, faults>>
  BY DEF Return, Goto, threadVars, faultVars
<1>z. \A b : Reading(b)' <=> Reading(b)
  BY <1>a DEF Reading
<1>s. /\ sockets' \in [Procs -> Seq(Conns)]
      /\ \A d \in Procs : /\ IsInjective(sockets'[d])
                          /\ \A b \in Range(sockets'[d]) :
                               \/ b \in Range(sockets[d])
                               \/ /\ b = c /\ d = dst[s] /\ conn'[c].cli = "open"
                                  /\ conn[c].up = <<>> /\ conn'[c].down = <<>> /\ ~Reading(c)
  <2>1. CASE sockets' = sockets
    BY <2>1 DEF PoolOK, SenderTypes
  <2>2. CASE /\ conn'[c].cli = "open" /\ conn[c].up = <<>> /\ conn'[c].down = <<>> /\ ~Reading(c)
             /\ PutBack(s, c)
    <3>1. /\ sockets[dst[s]] \in Seq(Conns) /\ IsInjective(sockets[dst[s]])
          /\ sockets \in [Procs -> Seq(Conns)] /\ c \notin Range(sockets[dst[s]])
      BY <1>0 DEF PoolOK, SenderTypes
    <3>2. /\ Append(sockets[dst[s]], c) \in Seq(Conns)
          /\ IsInjective(Append(sockets[dst[s]], c))
          /\ Range(Append(sockets[dst[s]], c)) = Range(sockets[dst[s]]) \cup {c}
      BY <1>0, <3>1, RangeAppend
    <3>3. /\ sockets'[dst[s]] = Append(sockets[dst[s]], c)
          /\ \A d \in Procs \ {dst[s]} : sockets'[d] = sockets[d]
          /\ sockets' \in [Procs -> Seq(Conns)]
      BY <1>0, <2>2, <3>1, <3>2 DEF PutBack
    <3>4. IsInjective(sockets'[dst[s]]) /\ Range(sockets'[dst[s]]) = Range(sockets[dst[s]]) \cup {c}
      BY <3>2, <3>3
    <3>5. \A d \in Procs \ {dst[s]} : /\ IsInjective(sockets'[d])
                                      /\ Range(sockets'[d]) = Range(sockets[d])
      BY <3>3 DEF PoolOK
    <3> QED BY <2>2, <3>3, <3>4, <3>5
  <2> QED BY <2>1, <2>2
<1>1. SenderTypes'
  BY <1>0, <1>a, <1>s, Cluster DEF SenderTypes, Told
<1>2. ThreadTypes'
  BY <1>a DEF ThreadTypes
<1>3. ConnOK'
  <2> SUFFICES ASSUME NEW b \in Conns PROVE ConnOK!(b)'
    BY DEF ConnOK
  <2>1. CASE b = c
    BY <1>0, <1>a, <1>z, <2>1, Cluster DEF ConnOK
  <2>2. CASE b # c
    BY <1>a, <1>z, <2>2 DEF ConnOK
  <2> QED BY <2>1, <2>2
<1>4. PoolOK'
  <2>0. sockfd'[s] = NULL /\ \A t \in Senders \ {s} : sockfd'[t] = sockfd[t]
    BY <1>a DEF SenderTypes
  <2>1. ASSUME NEW d \in Procs, NEW b \in Range(sockets'[d])
        PROVE  /\ conn'[b].to = d /\ conn'[b].cli = "open"
               /\ conn'[b].up = <<>> /\ conn'[b].down = <<>> /\ ~Reading(b)'
               /\ \A t \in Senders : sockfd'[t] # b
    <3>1. CASE b \in Range(sockets[d])
      <4>1. b \in Conns /\ b # c /\ conn'[b] = conn[b]
        BY <1>0, <2>1, <3>1, PoolConns
      <4> QED BY <1>z, <2>0, <2>1, <3>1, <4>1, Cluster DEF PoolOK
    <3>2. CASE /\ b = c /\ d = dst[s] /\ conn'[c].cli = "open"
               /\ conn[c].up = <<>> /\ conn'[c].down = <<>> /\ ~Reading(c)
      BY <1>0, <1>z, <2>0, <3>2, Cluster
    <3> QED BY <1>s, <2>1, <3>1, <3>2
  <2> QED BY <1>s, <2>1 DEF PoolOK
<1>5. SenderOK'
  BY <1>0, <1>a, Cluster DEF SenderOK, Bound, SenderTypes
<1>6. WireOK'
  BY <1>0, <1>a, <1>z DEF WireOK, SenderOK, Bound, SenderTypes, CanReachServer
<1>7. \A b \in Conns : \A x : Has(b, x)' <=> Has(b, x)
  BY DEF Has
<1>8. EventOK'
  <2>1. ~OfEvent(<<>>, e)
    BY WiresOfEvent
  <2>2. \A b \in Conns : Has(b, e) => b = c
    BY <1>0 DEF EventOK
  <2>3. \A b \in Conns : conn[c].up = <<>> => ~Has(b, e)
    BY <2>1, <2>2 DEF Has
  <2>4. told'[e] = a /\ \A x \in Events \ {e} : told'[x] = told[x]
    BY <1>0, <1>a DEF SenderTypes
  <2>5. /\ pc'[s] = "idle" /\ ev'[s] = NULL /\ sockfd'[s] = NULL
        /\ \A t \in Senders \ {s} : pc'[t] = pc[t] /\ ev'[t] = ev[t] /\ sockfd'[t] = sockfd[t]
    BY <1>a DEF SenderTypes
  <2>6. accepted' = accepted /\ sent' = sent
    BY <1>a
  <2> SUFFICES ASSUME NEW x \in Events PROVE EventOK!(x)'
    BY DEF EventOK
  <2>7. \A t \in Senders : ev'[t] = x => t # s
    BY <2>5, Cluster
  <2>8. CASE x = e
    BY <1>0, <1>7, <2>3, <2>4, <2>5, <2>6, <2>7, <2>8 DEF EventOK
  <2>9. CASE x # e
    BY <1>7, <2>4, <2>5, <2>6, <2>7, <2>9 DEF EventOK
  <2> QED BY <2>8, <2>9
<1> QED BY <1>1, <1>2, <1>3, <1>4, <1>5, <1>6, <1>8

(* A connection whose client closed it.                                    *)
LEMMA Closed ==
    ASSUME conn \in [Conns -> Records], NEW c \in Conns, CloseClient(c)
    PROVE  /\ conn' \in [Conns -> Records]
           /\ \A b \in Conns \ {c} : conn'[b] = conn[b]
           /\ conn'[c].up = conn[c].up /\ conn'[c].to = conn[c].to /\ conn'[c].cli = "closed"
           /\ conn'[c].srv = conn[c].srv /\ conn'[c].broken = conn[c].broken
<1>1. <<>> \in Seq(1..4)
  OBVIOUS
<1>2. conn' = [conn EXCEPT ![c] = [conn[c] EXCEPT !.cli = "closed", !.down = <<>>]]
  BY DEF CloseClient
<1>3. [conn[c] EXCEPT !.cli = "closed", !.down = <<>>] \in Records
  BY <1>1 DEF Records
<1> QED BY <1>2, <1>3 DEF Records

(* A write that fails closes the socket.                                   *)
LEMMA StepWriteError ==
    ASSUME IInv, NEW s \in Senders, WriteError(s)
    PROVE  IInv'
<1>1. sockfd[s] \in Conns /\ conn \in [Conns -> Records] /\ pc[s] \in {"head", "body", "answer"}
  BY Busy DEF WriteError, IInv, Types
<1>2. CloseClient(sockfd[s]) /\ Return(s, "silent") /\ sockets' = sockets
  BY DEF WriteError
<1>3. "silent" \in Told \ {"none"} /\ "silent" # "yes" /\ "silent" \notin No
  BY DEF Told, No
<1> QED BY <1>1, <1>2, <1>3, Closed, Returning

(* An answer that cannot be read closes the socket.                        *)
LEMMA StepReadFailed ==
    ASSUME IInv, NEW s \in Senders, ReadFailed(s)
    PROVE  IInv'
<1>1. sockfd[s] \in Conns /\ conn \in [Conns -> Records] /\ pc[s] \in {"head", "body", "answer"}
  BY Busy DEF ReadFailed, IInv, Types
<1>2. CloseClient(sockfd[s]) /\ Return(s, "error") /\ sockets' = sockets
  BY DEF ReadFailed
<1>3. "error" \in Told \ {"none"} /\ "error" # "yes" /\ "error" \notin No
  BY DEF Told, No
<1> QED BY <1>1, <1>2, <1>3, Closed, Returning

(* The answer is the only one on the connection, and says what became of   *)
(* the event.                                                              *)
LEMMA StepReadAnswer ==
    ASSUME IInv, NEW s \in Senders, ReadAnswer(s)
    PROVE  IInv'
<1> DEFINE c == sockfd[s]
<1>1. /\ c \in Conns /\ conn \in [Conns -> Records] /\ pc[s] = "answer"
      /\ conn[c].cli = "open"
  BY Busy DEF ReadAnswer, IInv, Types
<1>2. /\ conn[c].up = <<>> /\ ~Reading(c)
      /\ \/ conn[c].down = <<1>> /\ accepted[ev[s]] = 1
         \/ conn[c].down = <<2>> /\ accepted[ev[s]] = 0
  BY DEF IInv, WireOK, ReadAnswer
<1>3. conn' = [conn EXCEPT ![c].down = <<>>]
  <2>1. Tail(<<1>>) = <<>> /\ Tail(<<2>>) = <<>>
    OBVIOUS
  <2> QED BY <1>2, <2>1 DEF ReadAnswer
<1>4. /\ conn' \in [Conns -> Records] /\ \A b \in Conns \ {c} : conn'[b] = conn[b]
      /\ conn'[c].up = conn[c].up /\ conn'[c].to = conn[c].to /\ conn'[c].cli = conn[c].cli
      /\ conn'[c].srv = conn[c].srv /\ conn'[c].broken = conn[c].broken /\ conn'[c].down = <<>>
  <2>1. <<>> \in Seq(1..4)
    OBVIOUS
  <2> QED BY <1>1, <1>3, <2>1, ZenonT(60) DEF Records
<1>5. "yes" \in Told \ {"none"} /\ "refused" \in Told \ {"none"} /\ "yes" # "refused" /\ "yes" \notin No
  BY DEF Told, No
<1>6. CASE conn[c].down = <<1>> /\ accepted[ev[s]] = 1
  <2>1. Head(conn[c].down) = 1
    BY <1>6
  <2>2. Return(s, "yes") /\ PutBack(s, c)
    BY <2>1 DEF ReadAnswer, PutBack
  <2> QED BY <1>1, <1>2, <1>4, <1>5, <1>6, <2>2, Returning
<1>7. CASE conn[c].down = <<2>> /\ accepted[ev[s]] = 0
  <2>1. Head(conn[c].down) # 1
    BY <1>7
  <2>2. Return(s, "refused") /\ sockets' = sockets
    BY <2>1 DEF ReadAnswer
  <2> QED BY <1>1, <1>2, <1>4, <1>5, <1>7, <2>2, Returning
<1> QED BY <1>2, <1>6, <1>7

(* Every pooled socket is closed while no sender has one.                  *)
LEMMA StepEventEnd ==
    ASSUME IInv, EventEnd
    PROVE  IInv'
<1> USE DEF IInv, Types
<1>0. \A s \in Senders : pc[s] = "idle" /\ ev[s] = NULL /\ sockfd[s] = NULL
  BY DEF EventEnd, SenderOK
<1>a. UNCHANGED <<cur_process, pc, ev, read, dst, sockfd, sent, told, registered, reading,
                  accepted, running, faults>>
  BY DEF EventEnd, threadVars, faultVars
<1>b. sockets' \in [Procs -> Seq(Conns)]
      /\ \A d \in Procs : sockets'[d] = <<>> /\ Range(sockets'[d]) = {} /\ IsInjective(sockets'[d])
  <2>1. sockets' = [d \in Procs |-> <<>>]
    BY DEF EventEnd
  <2>2. <<>> \in Seq(Conns) /\ Range(<<>>) = {} /\ IsInjective(<<>>)
    BY DEF Range, IsInjective
  <2> QED BY <2>1, <2>2
<1>c. ASSUME NEW c \in Conns
      PROVE  /\ conn'[c] \in Records /\ conn'[c].to = conn[c].to /\ conn'[c].srv = conn[c].srv
             /\ conn'[c].up = conn[c].up
             /\ conn'[c].cli = conn[c].cli \/ (conn[c].cli = "open" /\ conn'[c].cli = "closed")
  <2>1. CASE \E d \in Procs : c \in Range(sockets[d])
    <3>1. conn'[c] = [conn[c] EXCEPT !.cli = "closed", !.down = <<>>] /\ conn[c].cli = "open"
      BY <2>1 DEF EventEnd, PoolOK
    <3>2. conn[c] \in Records /\ <<>> \in Seq(1..4)
      OBVIOUS
    <3> QED BY <3>1, <3>2 DEF Records
  <2>2. CASE ~\E d \in Procs : c \in Range(sockets[d])
    BY <2>2 DEF EventEnd
  <2> QED BY <2>1, <2>2
<1>d. conn' \in [Conns -> Records]
  <2>1. conn' = [c \in Conns |-> conn'[c]]
    BY DEF EventEnd
  <2> QED BY <1>c, <2>1
<1>z. \A b : Reading(b)' <=> Reading(b)
  BY <1>a DEF Reading
<1>1. SenderTypes'
  BY <1>a, <1>b DEF SenderTypes
<1>2. ThreadTypes'
  BY <1>a DEF ThreadTypes
<1>3. ConnOK'
  BY <1>a, <1>c, <1>z DEF ConnOK
<1>4. PoolOK'
  BY <1>b DEF PoolOK
<1>5. SenderOK'
  BY <1>0, <1>a DEF SenderOK
<1>6. WireOK'
  BY <1>0, <1>a DEF WireOK
<1>7. \A b \in Conns : \A x : Has(b, x)' <=> Has(b, x)
  BY <1>c DEF Has
<1>8. EventOK'
  BY <1>0, <1>7, <1>a, Cluster DEF EventOK
<1> QED BY <1>1, <1>2, <1>3, <1>4, <1>5, <1>6, <1>8, <1>d

-----------------------------------------------------------------------------
(* The lowest free descriptor of a destination that has a connection to    *)
(* accept exists: that connection has none yet.                            *)
LEMMA NewFdExists ==
    ASSUME IInv, NEW d \in Procs, NEW c \in Conns, conn[c].srv = "queued"
    PROVE  NewFd(d) \in Conns
<1> DEFINE Open == {b \in Conns : conn[b].to = d /\ conn[b].srv = "open"}
           F == [b \in Open |-> conn[b].fd]
<1>1. IsFiniteSet(Conns) /\ Cardinality(Conns) = MaxConns /\ MaxConns \in Nat
  BY BoundAssumption, FS_Interval DEF Conns
<1>2. Open \subseteq Conns \ {c}
  OBVIOUS
<1>3. IsFiniteSet(Conns \ {c}) /\ Cardinality(Conns \ {c}) = MaxConns - 1
  BY <1>1, FS_RemoveElement
<1>4. IsFiniteSet(Open) /\ Cardinality(Open) <= MaxConns - 1
  BY <1>2, <1>3, FS_Subset
<1>5. UsedFds(d) = {F[b] : b \in Open}
  BY DEF UsedFds
<1>6. IsFiniteSet(UsedFds(d)) /\ Cardinality(UsedFds(d)) <= Cardinality(Open)
  <2>1. F \in Surjection(Open, UsedFds(d))
    BY <1>5 DEF Surjection
  <2> QED BY <1>4, <2>1, FS_Surjection
<1>7. Conns \ UsedFds(d) # {}
  <2> SUFFICES ASSUME Conns \subseteq UsedFds(d) PROVE FALSE
    OBVIOUS
  <2>1. Cardinality(Conns) <= Cardinality(UsedFds(d))
    BY <1>6, FS_Subset
  <2>2. Cardinality(Open) \in Nat /\ Cardinality(UsedFds(d)) \in Nat
    BY <1>4, <1>6, FS_CardinalityType
  <2> QED BY <1>1, <1>4, <1>6, <2>1, <2>2
<1>8. \E x \in Conns \ UsedFds(d) : \A y \in Conns \ UsedFds(d) : x <= y
  <2> DEFINE S == Conns \ UsedFds(d)
  <2>1. S \subseteq Nat /\ S # {}
    BY <1>1, <1>7 DEF Conns
  <2>2. PICK y \in S : \A z \in S : ~(<<z, y>> \in OpToRel(<, Nat))
    BY <2>1, NatLessThanWellFounded, WFMin
  <2>3. \A m, n \in Nat : m < n => <<m, n>> \in OpToRel(<, Nat)
    BY DEF OpToRel
  <2> HIDE DEF S
  <2>4. ASSUME NEW z \in S PROVE y <= z
    <3>1. y \in Nat /\ z \in Nat
      BY <2>1
    <3>2. ~(z < y)
      BY <2>2, <2>3, <3>1
    <3> QED BY <3>1, <3>2
  <2> QED BY <2>4 DEF S
<1>9. PICK x \in Conns \ UsedFds(d) : \A y \in Conns \ UsedFds(d) : x <= y
  BY <1>8
<1> QED BY <1>9 DEF NewFd, Min

-----------------------------------------------------------------------------
(* Steps that can only take something away from a connection: accepting or *)
(* closing it at the destination, breaking it, and crashes.                *)
Same(c) ==
    /\ conn'[c].up = conn[c].up /\ conn'[c].down = conn[c].down
    /\ conn'[c].broken = conn[c].broken
    /\ conn'[c].srv = "closed" <=> conn[c].srv = "closed"
    /\ conn[c].srv = "open" => conn'[c].srv = "open"
    /\ Reading(c)' <=> Reading(c)

Loses(c) ==
    /\ conn'[c].srv = "closed" \/ conn'[c].broken
    /\ conn[c].srv = "closed" => conn'[c].srv = "closed"
    /\ conn'[c].srv = "closed" => conn'[c].up = <<>>
    /\ \/ conn'[c].up = <<>>
       \/ conn'[c].up = conn[c].up /\ (Reading(c)' <=> Reading(c))
       \/ \E e \in Events : conn[c].up = HB(e) /\ conn'[c].up = H(e)
    /\ Reading(c)' => conn'[c].srv = "open"
    /\ conn[c].down \in {<<>>, <<1>>, <<2>>} => conn'[c].down \in {conn[c].down, <<>>}

Decays ==
    /\ ThreadTypes' /\ conn' \in [Conns -> Records]
    /\ UNCHANGED senderVars /\ accepted' = accepted
    /\ \A d \in Procs : reading'[d] # NULL => reading'[d] = reading[d] /\ d \in running'
    /\ \A c \in Conns : /\ conn'[c].to = conn[c].to /\ conn'[c].cli = conn[c].cli
                        /\ Same(c) \/ Loses(c)

(* A connection that loses data keeps the invariant.                       *)
LEMMA StepDecays ==
    ASSUME IInv, Decays
    PROVE  IInv'
<1> USE DEF IInv, Types
<1>a. /\ \A c \in Conns : conn'[c].to = conn[c].to /\ conn'[c].cli = conn[c].cli
      /\ UNCHANGED <<cur_process, sockets, pc, ev, read, dst, sockfd, ended, sent, told, accepted>>
  BY DEF Decays, senderVars
<1>b. \A c \in Conns : Reading(c)' => Reading(c)
  BY Cluster DEF Decays, Reading
<1>u. \A c \in Conns : \/ conn'[c].up = <<>>
                       \/ conn'[c].up = conn[c].up /\ (Reading(c)' <=> Reading(c))
                       \/ \E e \in Events : conn[c].up = HB(e) /\ conn'[c].up = H(e)
  BY DEF Decays, Same, Loses
<1>1. SenderTypes'
  BY <1>a DEF SenderTypes
<1>2. ThreadTypes' /\ conn' \in [Conns -> Records]
  BY DEF Decays
<1>3. ConnOK'
  <2> SUFFICES ASSUME NEW c \in Conns PROVE ConnOK!(c)'
    BY DEF ConnOK
  <2>1. /\ conn'[c].srv = "closed" => conn'[c].up = <<>>
        /\ Reading(c)' => conn'[c].srv = "open"
    <3>1. CASE Same(c)
      BY <3>1 DEF ConnOK, Same, Reading
    <3>2. CASE Loses(c)
      BY <3>2 DEF Loses
    <3> QED BY <3>1, <3>2 DEF Decays
  <2>2. conn[c].up # <<>> \/ conn'[c].up = <<>>
    BY <1>u, Wires
  <2>3. conn'[c].to = NULL => /\ conn'[c].cli = "closed" /\ conn'[c].srv = "closed"
                              /\ conn'[c].up = <<>>
    <3> SUFFICES ASSUME conn[c].to = NULL
                 PROVE  conn'[c].cli = "closed" /\ conn'[c].srv = "closed" /\ conn'[c].up = <<>>
      BY <1>a
    <3>1. conn[c].cli = "closed" /\ conn[c].srv = "closed" /\ conn[c].up = <<>>
      BY DEF ConnOK
    <3>2. conn'[c].srv = "closed"
      BY <3>1 DEF Decays, Same, Loses
    <3> QED BY <1>a, <2>1, <3>1, <3>2
  <2>4. \A d \in Procs : reading'[d] = c => /\ conn'[c].to = d /\ conn'[c].srv = "open"
                                            /\ conn'[c].cli # "stranger" /\ d \in running'
    BY <1>a, <2>1, Cluster DEF ConnOK, Decays, Reading
  <2>5. \/ conn'[c].up = <<>>
        \/ conn'[c].up \in {J("init"), J("junk")} /\ conn'[c].cli = "stranger" /\ ~Reading(c)'
        \/ \E e \in Events : /\ conn'[c].up \in {H(e), HB(e)} /\ ~Reading(c)'
                             /\ conn'[c].cli # "stranger"
        \/ \E e \in Events : conn'[c].up = B(e) /\ Reading(c)' /\ conn'[c].cli # "stranger"
    <3>1. CASE conn'[c].up = conn[c].up /\ (Reading(c)' <=> Reading(c))
      BY <1>a, <3>1 DEF ConnOK
    <3>2. ASSUME NEW e \in Events, conn[c].up = HB(e), conn'[c].up = H(e)
          PROVE  ~Reading(c)' /\ conn'[c].cli # "stranger"
      BY <1>a, <1>b, <3>2, Wires, WiresDiffer, WiresStranger DEF ConnOK
    <3> QED BY <1>u, <3>1, <3>2
  <2> QED BY <2>1, <2>3, <2>4, <2>5
<1>4. PoolOK'
  <2>1. \A c \in Conns : conn[c].up = <<>> /\ conn[c].down = <<>> =>
                           conn'[c].up = <<>> /\ conn'[c].down = <<>>
    BY Wires DEF Decays, Same, Loses
  <2> QED BY <1>a, <1>b, <2>1, PoolConns DEF PoolOK
<1>5. SenderOK'
  BY <1>a DEF SenderOK, Bound
<1>6. WireOK'
  <2> SUFFICES ASSUME NEW s \in Senders, pc[s] \in {"head", "body", "answer"}
               PROVE  WireOK!(s)'
    BY <1>a DEF WireOK
  <2>c. PICK c \in Conns : c = sockfd[s]
    BY Busy
  <2>e. PICK e \in Events : e = ev[s]
    BY Busy
  <2>0. sockfd'[s] = c /\ ev'[s] = e /\ pc'[s] = pc[s] /\ accepted' = accepted
    BY <1>a, <2>c, <2>e
  <2>w. /\ pc[s] = "head" => conn[c].up = <<>> /\ conn[c].down = <<>> /\ ~Reading(c)
        /\ pc[s] = "body" => /\ conn[c].down = <<>>
                             /\ \/ conn[c].up = H(e)
                                \/ conn[c].up = <<>> /\ (Reading(c) \/ ~CanReachServer(c))
        /\ pc[s] = "answer" =>
             /\ conn[c].up \in {<<>>, H(e), HB(e), B(e)}
             /\ \/ conn[c].down = <<>>
                \/ /\ conn[c].up = <<>> /\ ~Reading(c)
                   /\ \/ conn[c].down = <<1>> /\ accepted[e] = 1
                      \/ conn[c].down = <<2>> /\ accepted[e] = 0
    BY <2>c, <2>e DEF WireOK
  <2>k. Same(c) \/ Loses(c)
    BY DEF Decays
  <2>d. conn'[c].down = conn[c].down \/ conn'[c].down = <<>>
    <3>1. conn[c].down \in {<<>>, <<1>>, <<2>>}
      BY <2>w
    <3> QED BY <2>k, <3>1 DEF Same, Loses
  <2>x. \A x \in Events : /\ HB(x) # <<>> /\ HB(x) # H(e) /\ HB(x) # B(e)
                          /\ HB(x) = HB(e) => x = e
    BY Wires, WiresDiffer
  <2>1. pc[s] = "head" => conn'[c].up = <<>> /\ conn'[c].down = <<>> /\ ~Reading(c)'
    BY <1>b, <1>u, <2>d, <2>w, <2>x
  <2>2. pc[s] = "body" => /\ conn'[c].down = <<>>
                          /\ \/ conn'[c].up = H(e)
                             \/ conn'[c].up = <<>> /\ (Reading(c)' \/ ~CanReachServer(c)')
    <3>1. CASE Same(c)
      BY <2>w, <3>1 DEF Same, CanReachServer
    <3>2. CASE Loses(c)
      <4>1. ~CanReachServer(c)'
        BY <3>2 DEF Loses, CanReachServer
      <4>2. pc[s] = "body" => conn'[c].up = <<>> \/ conn'[c].up = H(e)
        BY <1>u, <2>w, <2>x
      <4> QED BY <2>d, <2>w, <4>1, <4>2
    <3> QED BY <2>k, <3>1, <3>2
  <2>3. pc[s] = "answer" =>
          /\ conn'[c].up \in {<<>>, H(e), HB(e), B(e)}
          /\ \/ conn'[c].down = <<>>
             \/ /\ conn'[c].up = <<>> /\ ~Reading(c)'
                /\ \/ conn'[c].down = <<1>> /\ accepted[e] = 1
                   \/ conn'[c].down = <<2>> /\ accepted[e] = 0
    <3>1. pc[s] = "answer" => conn'[c].up \in {<<>>, H(e), HB(e), B(e)}
      BY <1>u, <2>w, <2>x
    <3>2. conn[c].up = <<>> => conn'[c].up = <<>>
      BY <1>u, <2>x
    <3> QED BY <1>b, <2>d, <2>w, <3>1, <3>2
  <2> QED BY <2>0, <2>1, <2>2, <2>3 DEF Reading, CanReachServer
<1>7. ASSUME NEW b \in Conns, NEW x, Has(b, x)' PROVE Has(b, x)
  <2>1. /\ ~OfEvent(<<>>, x)
        /\ \A e : OfEvent(HB(e), x) <=> x = e
        /\ \A e : OfEvent(H(e), x) <=> x = e
    BY WiresOfEvent
  <2> QED BY <1>7, <1>u, <2>1 DEF Has
<1>8. EventOK'
  BY <1>7, <1>a DEF EventOK
<1> QED BY <1>1, <1>2, <1>3, <1>4, <1>5, <1>6, <1>8

(* A connection the destination closed, after these answers.               *)
LEMMA ServerClosed ==
    ASSUME conn \in [Conns -> Records], NEW c \in Conns, NEW q \in Seq(1..4), CloseServer(c, q)
    PROVE  /\ conn' \in [Conns -> Records]
           /\ \A b \in Conns \ {c} : conn'[b] = conn[b]
           /\ conn'[c].up = <<>> /\ conn'[c].to = conn[c].to /\ conn'[c].cli = conn[c].cli
           /\ conn'[c].srv = "closed" /\ conn'[c].broken = conn[c].broken
           /\ q = <<>> => conn'[c].down = conn[c].down
<1> DEFINE r == IF CanReachClient(c) THEN conn[c].down \o q ELSE conn[c].down
           v == [conn[c] EXCEPT !.srv = "closed", !.fd = 0, !.watched = FALSE, !.up = <<>>, !.down = r]
<1>1. conn[c].down \in Seq(1..4) /\ conn[c] \in Records
  BY DEF Records
<1>2. r \in Seq(1..4) /\ (q = <<>> => r = conn[c].down)
  <2>1. conn[c].down \o q \in Seq(1..4)
    BY <1>1
  <2>2. conn[c].down \o <<>> = conn[c].down
    BY <1>1, ConcatEmptySeq
  <2> QED BY <1>1, <2>1, <2>2
<1>3. conn' = [conn EXCEPT ![c] = v]
  BY DEF CloseServer
<1>4. <<>> \in Seq(Chunks) /\ 0 \in 0..MaxConns
  BY BoundAssumption
<1> HIDE DEF r
<1>5. /\ v \in Records /\ v.up = <<>> /\ v.to = conn[c].to /\ v.cli = conn[c].cli
      /\ v.srv = "closed" /\ v.broken = conn[c].broken /\ v.down = r
  BY <1>1, <1>2, <1>4 DEF Records
<1> HIDE DEF v
<1> QED BY <1>2, <1>3, <1>5

(* The other connections are not touched when one is.                      *)
LEMMA OthersSame ==
    ASSUME NEW c \in Conns, \A b \in Conns \ {c} : conn'[b] = conn[b],
           \A b \in Conns \ {c} : Reading(b)' <=> Reading(b)
    PROVE  \A b \in Conns \ {c} : /\ conn'[b].to = conn[b].to /\ conn'[b].cli = conn[b].cli
                                  /\ Same(b)
BY DEF Same

(* A descriptor is given to the connection, or it is closed.               *)
LEMMA StepAccept ==
    ASSUME IInv, NEW d \in Procs, NEW c \in Conns, Accept(d, c)
    PROVE  IInv'
<1> DEFINE fd == NewFd(d)
<1>0. conn \in [Conns -> Records] /\ ThreadTypes /\ fd \in Conns /\ conn[c].srv = "queued"
  BY NewFdExists DEF IInv, Types, Accept
<1>a. UNCHANGED senderVars /\ UNCHANGED <<running, faults, reading, accepted>>
  BY DEF Accept, faultVars
<1>b. \A b : Reading(b)' <=> Reading(b)
  BY <1>a DEF Reading
<1>c. ~Reading(c)
  BY <1>0 DEF IInv, ConnOK, Reading
<1>d. \A x \in Procs : reading'[x] # NULL => reading'[x] = reading[x] /\ x \in running'
  BY <1>a, <1>0 DEF IInv, ConnOK, ThreadTypes
<1>1. CASE fd > FD_SETSIZE
  <2>1. conn' = [conn EXCEPT ![c] = [conn[c] EXCEPT !.srv = "closed", !.up = <<>>]]
        /\ registered' = registered
    BY <1>1 DEF Accept
  <2>2. /\ conn' \in [Conns -> Records] /\ \A b \in Conns \ {c} : conn'[b] = conn[b]
        /\ conn'[c].to = conn[c].to /\ conn'[c].cli = conn[c].cli /\ conn'[c].srv = "closed"
        /\ conn'[c].up = <<>> /\ conn'[c].down = conn[c].down
    <3>1. <<>> \in Seq(Chunks)
      OBVIOUS
    <3> QED BY <1>0, <2>1, <3>1, ZenonT(60) DEF Records
  <2>3. Loses(c)
    BY <1>b, <1>c, <2>2 DEF Loses
  <2>4. ThreadTypes'
    BY <1>0, <1>a, <2>1 DEF ThreadTypes
  <2> QED BY <1>a, <1>b, <1>d, <2>2, <2>3, <2>4, OthersSame, StepDecays DEF Decays
<1>2. CASE ~(fd > FD_SETSIZE)
  <2>1. conn' = [conn EXCEPT ![c] = [conn[c] EXCEPT !.srv = "open", !.fd = fd,
                                                    !.watched = fd \notin registered[d]]]
        /\ registered' = [registered EXCEPT ![d] = registered[d] \cup {fd}]
    BY <1>2 DEF Accept
  <2>2. /\ conn' \in [Conns -> Records] /\ \A b \in Conns \ {c} : conn'[b] = conn[b]
        /\ conn'[c].to = conn[c].to /\ conn'[c].cli = conn[c].cli /\ conn'[c].srv = "open"
        /\ conn'[c].up = conn[c].up /\ conn'[c].down = conn[c].down
        /\ conn'[c].broken = conn[c].broken
    <3>1. fd \in 0..MaxConns
      BY <1>0, BoundAssumption DEF Conns
    <3>2. PICK w \in BOOLEAN : w = (fd \notin registered[d])
      BY Zenon
    <3>3. PICK r : r = [conn[c] EXCEPT !.srv = "open", !.fd = fd, !.watched = w]
      OBVIOUS
    <3> HIDE DEF fd
    <3>4. conn' = [conn EXCEPT ![c] = r]
      BY <2>1, <3>2, <3>3
    <3>5. conn[c] \in Records
      BY <1>0
    <3>6. /\ r \in Records /\ r.to = conn[c].to /\ r.cli = conn[c].cli /\ r.srv = "open"
          /\ r.up = conn[c].up /\ r.down = conn[c].down /\ r.broken = conn[c].broken
      BY <3>1, <3>3, <3>5 DEF Records
    <3> HIDE DEF Records
    <3> QED BY <1>0, <3>4, <3>6
  <2>3. Same(c)
    BY <1>0, <1>b, <2>2 DEF Same
  <2>4. ThreadTypes'
    BY <1>0, <1>a, <2>1 DEF ThreadTypes
  <2> QED BY <1>a, <1>b, <1>d, <2>2, <2>3, <2>4, OthersSame, StepDecays DEF Decays
<1> QED BY <1>1, <1>2

(* A destination closes a connection without an answer.                    *)
LEMMA StepCloses ==
    ASSUME IInv, NEW c \in Conns, CloseServer(c, <<>>), ThreadTypes', UNCHANGED senderVars,
           UNCHANGED <<running, accepted>>,
           \A d \in Procs : reading'[d] = IF reading[d] = c THEN NULL ELSE reading[d]
    PROVE  IInv'
<1>0. conn \in [Conns -> Records] /\ ThreadTypes /\ <<>> \in Seq(1..4)
  BY DEF IInv, Types
<1>1. /\ conn' \in [Conns -> Records] /\ \A b \in Conns \ {c} : conn'[b] = conn[b]
      /\ conn'[c].up = <<>> /\ conn'[c].to = conn[c].to /\ conn'[c].cli = conn[c].cli
      /\ conn'[c].srv = "closed" /\ conn'[c].down = conn[c].down
  BY <1>0, ServerClosed
<1>2. ~Reading(c)' /\ \A b \in Conns \ {c} : Reading(b)' <=> Reading(b)
  BY Cluster DEF Reading
<1>3. Loses(c)
  BY <1>1, <1>2 DEF Loses
<1>4. \A d \in Procs : reading'[d] # NULL => reading'[d] = reading[d] /\ d \in running'
  BY <1>0 DEF IInv, ConnOK, ThreadTypes
<1> QED BY <1>1, <1>2, <1>3, <1>4, OthersSame, StepDecays DEF Decays

(* do_read closes a connection without a header.                           *)
LEMMA StepHeaderFailed ==
    ASSUME IInv, NEW d \in Procs, NEW c \in Conns, HeaderFailed(d, c)
    PROVE  IInv'
<1>1. /\ CloseServer(c, <<>>) /\ UNCHANGED senderVars
      /\ UNCHANGED <<running, faults, registered, reading, accepted>>
  BY DEF HeaderFailed, faultVars, threadVars
<1>2. ThreadTypes' /\ \A x \in Procs : reading[x] # c
  BY <1>1, Cluster DEF IInv, Types, ThreadTypes, HeaderFailed, Ready, Free, ConnOK
<1> QED BY <1>1, <1>2, StepCloses

(* do_read closes a connection without a body.                             *)
LEMMA StepBodyFailed ==
    ASSUME IInv, NEW d \in Procs, BodyFailed(d)
    PROVE  IInv'
<1> DEFINE c == reading[d]
<1>1. /\ CloseServer(c, <<>>) /\ UNCHANGED senderVars /\ c \in Conns
      /\ UNCHANGED <<running, faults, registered, accepted>>
      /\ reading' = [reading EXCEPT ![d] = NULL] /\ reading \in [Procs -> Conns \cup {NULL}]
  BY DEF BodyFailed, faultVars, threadVars, IInv, Types, ThreadTypes
<1>2. ThreadTypes'
  BY <1>1 DEF IInv, Types, ThreadTypes
<1>3. \A x \in Procs : reading[x] = c => x = d
  BY <1>1 DEF IInv, ConnOK
<1> QED BY <1>1, <1>2, <1>3, StepCloses

(* A connection breaks, and the end of what was on its way is lost.        *)
LEMMA StepBreak ==
    ASSUME IInv, NEW c \in Conns, Break(c)
    PROVE  IInv'
<1>0. conn \in [Conns -> Records] /\ ThreadTypes /\ conn[c] \in Records
  BY DEF IInv, Types
<1>1. UNCHANGED <<senderVars, registered, reading, accepted, running>> /\ faults' = faults + 1
      /\ faults < MaxFaults
  BY DEF Break, threadVars
<1>2. PICK m \in 0..Len(conn[c].up), n \in 0..Len(conn[c].down) :
        conn' = [conn EXCEPT ![c].broken = TRUE, ![c].up = SubSeq(@, 1, m),
                             ![c].down = SubSeq(@, 1, n)]
  BY DEF Break
<1>3. conn[c].up \in Seq(Chunks) /\ conn[c].down \in Seq(1..4)
  BY <1>0 DEF Records
<1>4. PICK p \in Seq(Chunks), q \in Seq(1..4) :
        p = SubSeq(conn[c].up, 1, m) /\ q = SubSeq(conn[c].down, 1, n)
  <2>1. SubSeq(conn[c].up, 1, m) \in Seq(Chunks)
    BY <1>3, SubSeqProperties
  <2>2. SubSeq(conn[c].down, 1, n) \in Seq(1..4)
    BY <1>3, SubSeqProperties
  <2> QED BY <2>1, <2>2
<1>5. /\ conn' \in [Conns -> Records] /\ \A b \in Conns \ {c} : conn'[b] = conn[b]
      /\ conn'[c].to = conn[c].to /\ conn'[c].cli = conn[c].cli /\ conn'[c].srv = conn[c].srv
      /\ conn'[c].broken = TRUE /\ conn'[c].up = p /\ conn'[c].down = q
  <2>1. conn' = [conn EXCEPT ![c] = [conn[c] EXCEPT !.broken = TRUE, !.up = p, !.down = q]]
    BY <1>2, <1>4
  <2> QED BY <1>0, <1>4, <2>1 DEF Records
<1>6. \A b : Reading(b)' <=> Reading(b)
  BY <1>1 DEF Reading
<1>7. p = <<>> \/ p = conn[c].up \/ \E e \in Events : conn[c].up = HB(e) /\ p = H(e)
  <2>1. CASE conn[c].up = <<>>
    BY <1>4, <2>1, WiresCut
  <2>2. CASE \E k : conn[c].up = J(k)
    BY <1>4, <2>2, WiresCut
  <2>3. CASE \E e \in Events : conn[c].up = H(e) \/ conn[c].up = B(e)
    BY <1>4, <2>3, WiresCut
  <2>4. CASE \E e \in Events : conn[c].up = HB(e)
    BY <1>4, <2>4, WiresCut
  <2> QED BY <2>1, <2>2, <2>3, <2>4 DEF IInv, ConnOK
<1>8. conn[c].down \in {<<>>, <<1>>, <<2>>} => q \in {conn[c].down, <<>>}
  <2>1. CASE conn[c].down = <<>>
    BY <1>4, <2>1, WiresCut
  <2>2. ASSUME NEW x, conn[c].down = <<x>> PROVE q \in {<<x>>, <<>>}
    <3>1. n \in 0..1
      BY <2>2
    <3> QED BY <1>4, <2>2, <3>1, CutOne
  <2> QED BY <2>1, <2>2
<1>9. Loses(c)
  <2>1. conn[c].srv = "closed" => conn[c].up = <<>>
    BY DEF IInv, ConnOK
  <2>2. Reading(c) => conn[c].srv = "open"
    BY DEF IInv, ConnOK, Reading
  <2>3. conn[c].up = <<>> => p = <<>>
    BY <1>7, Wires
  <2> QED BY <1>5, <1>6, <1>7, <1>8, <2>1, <2>2, <2>3 DEF Loses
<1>10. ThreadTypes'
  BY <1>0, <1>1, BoundAssumption DEF ThreadTypes
<1>11. \A x \in Procs : reading'[x] # NULL => reading'[x] = reading[x] /\ x \in running'
  BY <1>0, <1>1 DEF IInv, ConnOK, ThreadTypes
<1> QED BY <1>1, <1>5, <1>6, <1>9, <1>10, <1>11, OthersSame, StepDecays DEF Decays

(* Every connection of a destination that crashes is lost.                 *)
LEMMA StepCrash ==
    ASSUME IInv, NEW d \in Procs, Crash(d)
    PROVE  IInv'
<1>0. conn \in [Conns -> Records] /\ ThreadTypes
  BY DEF IInv, Types
<1>1. /\ UNCHANGED <<senderVars, accepted>> /\ faults' = faults + 1 /\ faults < MaxFaults
      /\ running' = running \ {d} /\ registered' = [registered EXCEPT ![d] = {}]
      /\ reading' = [reading EXCEPT ![d] = NULL]
  BY DEF Crash
<1>2. ThreadTypes'
  BY <1>0, <1>1, BoundAssumption DEF ThreadTypes
<1>3. \A x \in Procs : reading'[x] # NULL => reading'[x] = reading[x] /\ x \in running'
  BY <1>0, <1>1 DEF IInv, ConnOK, ThreadTypes
<1>4. \A c \in Conns : conn[c].to # d => (Reading(c)' <=> Reading(c))
  BY <1>0, <1>1, Cluster DEF IInv, ConnOK, ThreadTypes, Reading
<1>5. \A c \in Conns : conn[c].to = d => ~Reading(c)'
  BY <1>0, <1>1, Cluster DEF IInv, ConnOK, ThreadTypes, Reading
<1>6. ASSUME NEW c \in Conns, conn[c].to = d
      PROVE  /\ conn'[c] \in Records /\ conn'[c].to = conn[c].to /\ conn'[c].cli = conn[c].cli
             /\ conn'[c].srv = "closed" /\ conn'[c].up = <<>> /\ conn'[c].down = conn[c].down
  <2>1. conn'[c] = [conn[c] EXCEPT !.srv = "closed", !.fd = 0, !.watched = FALSE,
                                   !.up = <<>>, !.broken = TRUE]
    BY <1>6 DEF Crash
  <2>2. conn[c] \in Records /\ <<>> \in Seq(Chunks) /\ 0 \in 0..MaxConns
    BY <1>0, BoundAssumption
  <2> QED BY <2>1, <2>2 DEF Records
<1>7. ASSUME NEW c \in Conns, conn[c].to # d
      PROVE  conn'[c] = conn[c]
  BY <1>7 DEF Crash
<1>8. conn' \in [Conns -> Records]
  <2>1. conn' = [c \in Conns |-> conn'[c]]
    BY DEF Crash
  <2> QED BY <1>0, <1>6, <1>7, <2>1
<1>9. \A c \in Conns : conn[c].to = d => Loses(c)
  BY <1>5, <1>6 DEF Loses
<1>10. \A c \in Conns : conn[c].to # d => Same(c)
  BY <1>4, <1>7 DEF Same
<1> QED BY <1>1, <1>2, <1>3, <1>6, <1>7, <1>8, <1>9, <1>10, StepDecays DEF Decays

(* A process that restarts knows no connection.                            *)
LEMMA StepRestart ==
    ASSUME IInv, NEW d \in Procs, Restart(d)
    PROVE  IInv'
<1>0. conn \in [Conns -> Records] /\ ThreadTypes
  BY DEF IInv, Types
<1>1. UNCHANGED <<senderVars, registered, reading, accepted, faults, conn>>
      /\ running' = running \cup {d}
  BY DEF Restart, threadVars
<1>2. ThreadTypes'
  BY <1>0, <1>1 DEF ThreadTypes
<1>3. \A x \in Procs : reading'[x] # NULL => reading'[x] = reading[x] /\ x \in running'
  BY <1>0, <1>1 DEF IInv, ConnOK, ThreadTypes
<1>4. \A c \in Conns : Same(c)
  BY <1>1 DEF Same, Reading
<1> QED BY <1>0, <1>1, <1>2, <1>3, <1>4, StepDecays DEF Decays

-----------------------------------------------------------------------------
(* What the next chunk on a connection says about the rest.                *)
LEMMA HeadOfEvent ==
    ASSUME IInv, NEW c \in Conns, conn[c].up # <<>>, Head(conn[c].up)[1] = "head"
    PROVE  /\ \E e \in Events : conn[c].up \in {H(e), HB(e)} /\ Head(conn[c].up)[2] = e
           /\ ~Reading(c) /\ conn[c].cli # "stranger"
<1>1. ASSUME NEW e
      PROVE  Head(B(e))[1] # "head" /\ Head(J("init"))[1] # "head" /\ Head(J("junk"))[1] # "head"
  <2>1. /\ Head(B(e)) = <<"body", e>> /\ Head(J("init")) = <<"init", NULL>>
        /\ Head(J("junk")) = <<"junk", NULL>>
    BY Wires
  <2> QED BY <2>1
<1>2. \A e : Head(H(e))[2] = e /\ Head(HB(e))[2] = e
  BY Wires
<1> QED BY <1>1, <1>2 DEF IInv, ConnOK

(* What is no event comes from a stranger.                                 *)
LEMMA HeadOfStranger ==
    ASSUME IInv, NEW c \in Conns, conn[c].up # <<>>, Head(conn[c].up)[1] \in {"init", "junk"}
    PROVE  conn[c].cli = "stranger" /\ ~Reading(c)
<1>1. ASSUME NEW e
      PROVE  /\ Head(B(e))[1] \notin {"init", "junk"} /\ Head(H(e))[1] \notin {"init", "junk"}
             /\ Head(HB(e))[1] \notin {"init", "junk"}
  <2>1. /\ Head(B(e)) = <<"body", e>> /\ Head(H(e)) = <<"head", e>>
        /\ Head(HB(e)) = <<"head", e>>
    BY Wires
  <2> QED BY <2>1
<1> QED BY <1>1 DEF IInv, ConnOK

(* A stranger is told what the destination thinks of it.                   *)
LEMMA StepStrangerClosed ==
    ASSUME IInv, NEW c \in Conns, NEW q \in Seq(1..4), CloseServer(c, q),
           conn[c].cli = "stranger", UNCHANGED <<senderVars, registered, reading, accepted, running, faults>>
    PROVE  IInv'
<1> USE DEF IInv, Types
<1>0. /\ conn' \in [Conns -> Records] /\ \A b \in Conns \ {c} : conn'[b] = conn[b]
      /\ conn'[c].up = <<>> /\ conn'[c].to = conn[c].to /\ conn'[c].cli = conn[c].cli
      /\ conn'[c].srv = "closed"
  BY ServerClosed
<1>a. UNCHANGED <<cur_process, sockets, pc, ev, read, dst, sockfd, ended, sent, told, accepted>>
  BY DEF senderVars
<1>b. \A b : Reading(b)' <=> Reading(b)
  BY DEF Reading
<1>c. ~Reading(c)
  BY DEF ConnOK, Reading
<1>d. \A s \in Senders : pc[s] \in {"head", "body", "answer"} => sockfd[s] # c /\ sockfd[s] \in Conns
  BY Busy
<1>e. \A d \in Procs : c \notin Range(sockets[d])
  BY DEF PoolOK
<1>1. SenderTypes'
  BY <1>a DEF SenderTypes
<1>2. ThreadTypes'
  BY DEF ThreadTypes
<1>3. ConnOK'
  <2> SUFFICES ASSUME NEW b \in Conns PROVE ConnOK!(b)'
    BY DEF ConnOK
  <2>1. CASE b = c
    BY <1>0, <1>b, <1>c, <2>1 DEF ConnOK, Reading
  <2>2. CASE b # c
    BY <1>0, <1>b, <2>2 DEF ConnOK
  <2> QED BY <2>1, <2>2
<1>4. PoolOK'
  BY <1>0, <1>a, <1>b, <1>e, PoolConns DEF PoolOK
<1>5. SenderOK'
  BY <1>0, <1>a DEF SenderOK, Bound
<1>6. WireOK'
  BY <1>0, <1>a, <1>b, <1>d DEF WireOK, CanReachServer
<1>7. \A b \in Conns : \A x : Has(b, x)' => Has(b, x)
  BY <1>0, WiresOfEvent DEF Has
<1>8. EventOK'
  BY <1>7, <1>a DEF EventOK
<1> QED BY <1>0, <1>1, <1>2, <1>3, <1>4, <1>5, <1>6, <1>8

(* A header that is no event closes the connection.                        *)
LEMMA StepRejectHeader ==
    ASSUME IInv, NEW d \in Procs, NEW c \in Conns, RejectHeader(d, c)
    PROVE  IInv'
<1>1. UNCHANGED <<senderVars, registered, reading, accepted, running, faults>> /\ conn[c].up # <<>>
  BY DEF RejectHeader, threadVars, faultVars
<1>2. ThreadTypes'
  BY <1>1 DEF IInv, Types, ThreadTypes
<1>3. CASE Head(conn[c].up)[1] = "head" /\ CloseServer(c, <<>>)
  <2>1. ~Reading(c)
    BY <1>1, <1>3, HeadOfEvent
  <2> QED BY <1>1, <1>2, <1>3, <2>1, StepCloses DEF Reading
<1>4. CASE Head(conn[c].up)[1] = "init" /\ CloseServer(c, <<4>>)
  <2>1. <<4>> \in Seq(1..4)
    OBVIOUS
  <2> QED BY <1>1, <1>4, <2>1, HeadOfStranger, StepStrangerClosed
<1>5. CASE Head(conn[c].up)[1] = "junk" /\ CloseServer(c, <<3>>)
  <2>1. <<3>> \in Seq(1..4)
    OBVIOUS
  <2> QED BY <1>1, <1>5, <2>1, HeadOfStranger, StepStrangerClosed
<1> QED BY <1>3, <1>4, <1>5 DEF RejectHeader

(* A header is taken off the wire, and the destination commits to read the *)
(* body.                                                                   *)
LEMMA StepReadHeader ==
    ASSUME IInv, NEW d \in Procs, NEW c \in Conns, ReadHeader(d, c)
    PROVE  IInv'
<1> USE DEF IInv, Types
<1>0. PICK e \in Events : conn[c].up \in {H(e), HB(e)} /\ ~Reading(c) /\ conn[c].cli # "stranger"
  BY HeadOfEvent DEF ReadHeader
<1>a. /\ UNCHANGED <<cur_process, sockets, pc, ev, read, dst, sockfd, ended, sent, told>>
      /\ UNCHANGED <<running, faults, registered, accepted>>
      /\ reading' = [reading EXCEPT ![d] = c] /\ reading[d] = NULL /\ d \in running
      /\ reading \in [Procs -> Conns \cup {NULL}]
      /\ conn[c].srv = "open" /\ conn[c].to = d
  BY DEF ReadHeader, senderVars, faultVars, Ready, Free, ThreadTypes
<1>q. PICK q \in {<<>>, B(e)} : q = Tail(conn[c].up) /\ (conn[c].up = H(e) => q = <<>>)
  BY <1>0, Wires
<1>b. /\ conn' \in [Conns -> Records]
      /\ \A b \in Conns \ {c} : conn'[b] = conn[b]
      /\ conn'[c].up = q /\ conn'[c].to = conn[c].to /\ conn'[c].cli = conn[c].cli
      /\ conn'[c].srv = conn[c].srv /\ conn'[c].broken = conn[c].broken
      /\ conn'[c].down = conn[c].down
  <2>1. <<>> \in Seq(Chunks) /\ B(e) \in Seq(Chunks)
    BY DEF B, Chunks
  <2>2. conn' = [conn EXCEPT ![c].up = q]
    BY <1>q DEF ReadHeader
  <2>3. q \in Seq(Chunks)
    BY <2>1
  <2> QED BY <2>2, <2>3, NewUp
<1>c. Reading(c)' /\ \A b \in Conns \ {c} : Reading(b)' <=> Reading(b)
  BY <1>a, Cluster DEF Reading
<1>d. conn[c].up # <<>> /\ conn[c].up # B(e) /\ \A x \in Events : conn[c].up \in {H(x), HB(x)} => x = e
  BY <1>0, Wires, WiresDiffer
<1>e. \A x \in Procs : c \notin Range(sockets[x])
  BY <1>d DEF PoolOK
<1>1. SenderTypes'
  BY <1>a DEF SenderTypes
<1>2. ThreadTypes'
  BY <1>a DEF ThreadTypes
<1>3. ConnOK'
  <2> SUFFICES ASSUME NEW b \in Conns PROVE ConnOK!(b)'
    BY DEF ConnOK
  <2>1. CASE b = c
    <3>1. \A x \in Procs : reading'[x] = c => x = d
      BY <1>0, <1>a DEF Reading
    <3> QED BY <1>0, <1>a, <1>b, <1>c, <2>1, <3>1, Cluster DEF ConnOK
  <2>2. CASE b # c
    <3>1. \A x \in Procs : reading'[x] = b => reading[x] = b
      BY <1>a, <2>2, Cluster
    <3> QED BY <1>a, <1>b, <1>c, <2>2, <3>1 DEF ConnOK
  <2> QED BY <2>1, <2>2
<1>4. PoolOK'
  BY <1>a, <1>b, <1>c, <1>e, PoolConns DEF PoolOK
<1>5. SenderOK'
  BY <1>a, <1>b DEF SenderOK, Bound
<1>6. WireOK'
  <2> SUFFICES ASSUME NEW s \in Senders, pc[s] \in {"head", "body", "answer"}
               PROVE  WireOK!(s)'
    BY <1>a DEF WireOK
  <2>1. WireOK!(s) /\ sockfd[s] \in Conns
    BY Busy DEF WireOK
  <2>2. CASE sockfd[s] = c
    <3>1. /\ pc[s] # "head" /\ conn[c].down = <<>>
          /\ pc[s] = "body" => conn[c].up = H(ev[s])
          /\ pc[s] = "answer" => conn[c].up \in {H(ev[s]), HB(ev[s]), B(ev[s])}
      BY <1>d, <2>1, <2>2
    <3>2. ev[s] \in Events
      BY Busy
    <3>3. pc[s] = "answer" => conn[c].up # B(ev[s])
      BY <1>0, WiresDiffer
    <3>4. ev[s] = e
      BY <1>d, <3>1, <3>2, <3>3
    <3>5. pc[s] = "body" => q = <<>>
      BY <1>q, <3>1, <3>4
    <3> QED BY <1>a, <1>b, <1>c, <2>2, <3>1, <3>4, <3>5
  <2>3. CASE sockfd[s] # c
    BY <1>a, <1>b, <1>c, <2>1, <2>3 DEF CanReachServer
  <2> QED BY <2>2, <2>3
<1>7. ASSUME NEW b \in Conns, NEW x, Has(b, x)' PROVE Has(b, x)
  <2>1. ~OfEvent(<<>>, x) /\ (OfEvent(B(e), x) <=> x = e) /\ (OfEvent(H(e), x) <=> x = e)
        /\ (OfEvent(HB(e), x) <=> x = e)
    BY WiresOfEvent
  <2> QED BY <1>0, <1>7, <1>b, <2>1 DEF Has
<1>8. EventOK'
  BY <1>7, <1>a DEF EventOK
<1> QED BY <1>1, <1>2, <1>3, <1>4, <1>5, <1>6, <1>8, <1>b

(* The body is taken off the wire, the event is accepted or not, and the   *)
(* answer says which, if it can be sent.                                   *)
LEMMA StepReadBody ==
    ASSUME IInv, NEW d \in Procs, ReadBody(d)
    PROVE  IInv'
<1> USE DEF IInv, Types
<1>c. PICK c \in Conns : c = reading[d]
  BY DEF ReadBody, ThreadTypes
<1>0. PICK e \in Events : conn[c].up = B(e)
  <2>1. conn[c].up # <<>> /\ Reading(c)
    BY <1>c DEF ReadBody, Reading
  <2> QED BY <2>1 DEF ConnOK
<1>a. /\ UNCHANGED <<cur_process, sockets, pc, ev, read, dst, sockfd, ended, sent, told>>
      /\ UNCHANGED <<running, faults, registered>>
      /\ reading' = [reading EXCEPT ![d] = NULL]
      /\ reading \in [Procs -> Conns \cup {NULL}] /\ accepted \in [Events -> Nat]
  BY DEF ReadBody, senderVars, faultVars, ThreadTypes
<1>h. Head(conn[c].up)[2] = e /\ Tail(conn[c].up) = <<>>
  <2>1. Head(B(e)) = <<"body", e>> /\ Tail(B(e)) = <<>>
    BY Wires
  <2> QED BY <1>0, <2>1
<1>k. PICK k \in {1, 2} : /\ Answer(c, k)
                          /\ k = 1 => accepted' = [accepted EXCEPT ![e] = @ + 1]
                          /\ k = 2 => accepted' = accepted
  BY <1>c, <1>h DEF ReadBody
<1>b. /\ conn' \in [Conns -> Records]
      /\ \A b \in Conns \ {c} : conn'[b] = conn[b]
      /\ conn'[c].up = <<>> /\ conn'[c].to = conn[c].to /\ conn'[c].cli = conn[c].cli
      /\ conn'[c].down = conn[c].down \/ conn'[c].down = Append(conn[c].down, k)
  <2>0. conn[c] \in Records /\ <<>> \in Seq(Chunks) /\ <<>> \in Seq(1..4) /\ conn[c].down \in Seq(1..4)
    BY DEF Records
  <2>1. CASE conn' = [conn EXCEPT ![c].up = Tail(@), ![c].down = Append(@, k)]
    <3>0. Append(conn[c].down, k) \in Seq(1..4)
      <4>1. k \in 1..4
        OBVIOUS
      <4> HIDE DEF IInv, Types
      <4> QED BY <2>0, <4>1
    <3>1. PICK q \in Seq(1..4) : q = Append(conn[c].down, k)
      BY <3>0
    <3>2. conn' = [conn EXCEPT ![c] = [conn[c] EXCEPT !.up = <<>>, !.down = q]]
      BY <1>h, <2>1, <3>1
    <3> QED BY <2>0, <3>1, <3>2 DEF Records
  <2>2. CASE conn' = [conn EXCEPT ![c].up = Tail(@)]
    <3>1. conn' = [conn EXCEPT ![c].up = <<>>]
      BY <1>h, <2>2
    <3> QED BY <2>0, <3>1, NewUp
  <2>3. CASE CloseServer(c, <<>>)
    BY <2>0, <2>3, ServerClosed
  <2> QED BY <1>k, <2>1, <2>2, <2>3 DEF Answer
<1>d. ~Reading(c)' /\ \A b \in Conns \ {c} : Reading(b)' <=> Reading(b)
  <2>1. \A x \in Procs : reading[x] = c => x = d
    BY <1>c DEF ConnOK
  <2> QED BY <1>a, <1>c, <2>1, Cluster DEF Reading
<1>e. \A x \in Procs : c \notin Range(sockets[x])
  BY <1>0, Wires DEF PoolOK
<1>f. Has(c, e) /\ \A x \in Events : Has(c, x) => x = e
  <2>1. \A x \in Events : OfEvent(B(e), x) <=> x = e
    BY WiresOfEvent
  <2> QED BY <1>0, <2>1 DEF Has
<1>g. accepted[e] = 0 /\ e \in sent /\ told[e] # "yes" /\ told[e] \notin No
      /\ accepted'[e] = (IF k = 1 THEN 1 ELSE 0)
      /\ accepted' \in [Events -> Nat] /\ \A x \in Events \ {e} : accepted'[x] = accepted[x]
  <2>1. accepted[e] = 0 /\ e \in sent /\ told[e] # "yes" /\ told[e] \notin No
    BY <1>f DEF EventOK
  <2> QED BY <1>a, <1>k, <2>1
<1>s. ASSUME NEW s \in Senders, pc[s] # "idle", sockfd[s] = c \/ ev[s] = e
      PROVE  /\ sockfd[s] = c /\ ev[s] = e /\ pc[s] = "answer" /\ conn[c].down = <<>>
  <2>1. \A x \in Events : B(e) # <<>> /\ B(e) # H(x) /\ B(e) # HB(x) /\ (B(e) = B(x) => x = e)
    BY Wires, WiresDiffer
  <2>2. sockfd[s] = c
    BY <1>f, <1>s DEF EventOK
  <2>3. pc[s] \in {"head", "body", "answer"}
    BY <2>2, Cluster DEF SenderOK, SenderTypes
  <2>4. ev[s] \in Events
    BY <2>3, Busy
  <2> QED BY <1>0, <2>1, <2>2, <2>3, <2>4 DEF WireOK
<1>1. SenderTypes'
  BY <1>a DEF SenderTypes
<1>2. ThreadTypes'
  BY <1>a, <1>g DEF ThreadTypes
<1>3. ConnOK'
  <2> SUFFICES ASSUME NEW b \in Conns PROVE ConnOK!(b)'
    BY DEF ConnOK
  <2>0. \A x \in Procs : reading'[x] = b => reading[x] = b /\ b # c
    BY <1>a, <1>d, Cluster DEF Reading
  <2>1. CASE b = c
    <3>1. conn[c].to # NULL
      BY <1>0, Wires DEF ConnOK
    <3> QED BY <1>b, <2>0, <2>1, <3>1
  <2>2. CASE b # c
    BY <1>a, <1>b, <1>d, <2>0, <2>2 DEF ConnOK
  <2> QED BY <2>1, <2>2
<1>4. PoolOK'
  BY <1>a, <1>b, <1>d, <1>e, PoolConns DEF PoolOK
<1>5. SenderOK'
  BY <1>a, <1>b DEF SenderOK, Bound
<1>6. WireOK'
  <2> SUFFICES ASSUME NEW s \in Senders, pc[s] \in {"head", "body", "answer"}
               PROVE  WireOK!(s)'
    BY <1>a DEF WireOK
  <2>1. CASE sockfd[s] = c
    <3>1. ev[s] = e /\ pc[s] = "answer" /\ conn[c].down = <<>>
      BY <1>s, <2>1
    <3>2. Append(<<>>, 1) = <<1>> /\ Append(<<>>, 2) = <<2>>
      OBVIOUS
    <3>3. \/ conn'[c].down = <<>>
          \/ conn'[c].down = <<1>> /\ accepted'[e] = 1
          \/ conn'[c].down = <<2>> /\ accepted'[e] = 0
      BY <1>b, <1>g, <3>1, <3>2
    <3> QED BY <1>a, <1>b, <1>d, <2>1, <3>1, <3>3
  <2>2. CASE sockfd[s] # c
    <3>1. WireOK!(s) /\ sockfd[s] \in Conns /\ ev[s] \in Events
      BY Busy DEF WireOK
    <3>2. ev[s] # e
      BY <1>s, <2>2
    <3> QED BY <1>a, <1>b, <1>d, <1>g, <2>2, <3>1, <3>2 DEF CanReachServer
  <2> QED BY <2>1, <2>2
<1>7. \A b \in Conns : \A x : Has(b, x)' => Has(b, x) /\ b # c
  BY <1>b, WiresOfEvent DEF Has
<1>8. EventOK'
  <2> SUFFICES ASSUME NEW x \in Events PROVE EventOK!(x)'
    BY DEF EventOK
  <2>1. CASE x = e
    <3>1. \A b \in Conns : ~Has(b, e)'
      BY <1>7, <1>f DEF EventOK
    <3>2. \A s \in Senders : ev[s] = e => pc[s] \notin {"store", "socket", "head", "body"}
      BY <1>s
    <3> QED BY <1>a, <1>g, <2>1, <3>1, <3>2
  <2>2. CASE x # e
    BY <1>7, <1>a, <1>g, <2>2 DEF EventOK
  <2> QED BY <2>1, <2>2
<1> QED BY <1>1, <1>2, <1>3, <1>4, <1>5, <1>6, <1>8, <1>b

(* A stranger's connection is nobody's.                                    *)
LEMMA StepStranger ==
    ASSUME IInv, NEW d \in Procs, NEW c \in Conns, NEW k \in {"init", "junk"}, Stranger(d, c, k)
    PROVE  IInv'
<1> USE DEF IInv, Types
<1>a. /\ UNCHANGED <<cur_process, sockets, pc, ev, read, dst, sockfd, ended, sent, told>>
      /\ UNCHANGED <<running, registered, reading, accepted>>
      /\ faults' = faults + 1 /\ faults < MaxFaults /\ conn[c].to = NULL
  BY DEF Stranger, senderVars, threadVars, Fresh
<1>b. /\ conn' \in [Conns -> Records]
      /\ \A b \in Conns \ {c} : conn'[b] = conn[b]
      /\ conn'[c].up = J(k) /\ conn'[c].to = d /\ conn'[c].cli = "stranger"
      /\ conn'[c].srv = "queued"
  <2>1. J(k) \in Seq(Chunks)
    BY DEF J, Chunks
  <2>2. conn' = [conn EXCEPT ![c] = [Opened(d) EXCEPT !.up = J(k), !.cli = "stranger"]]
    BY DEF Stranger, J
  <2>3. Opened(d) \in Records /\ Opened(d).to = d /\ Opened(d).srv = "queued"
    BY OpenedIs
  <2> QED BY <2>1, <2>2, <2>3 DEF Records
<1>c. \A b : Reading(b)' <=> Reading(b)
  BY <1>a DEF Reading
<1>d. conn[c].cli = "closed" /\ conn[c].up = <<>> /\ ~Reading(c)
  BY <1>a, Cluster DEF ConnOK, Reading
<1>e. \A s \in Senders : pc[s] \in {"head", "body", "answer"} => sockfd[s] # c /\ sockfd[s] \in Conns
  BY <1>d, Busy
<1>f. \A x \in Procs : c \notin Range(sockets[x])
  BY <1>d DEF PoolOK
<1>1. SenderTypes'
  BY <1>a DEF SenderTypes
<1>2. ThreadTypes'
  BY <1>a, BoundAssumption DEF ThreadTypes
<1>3. ConnOK'
  <2> SUFFICES ASSUME NEW b \in Conns PROVE ConnOK!(b)'
    BY DEF ConnOK
  <2>1. CASE b = c
    BY <1>a, <1>b, <1>c, <1>d, <2>1, Cluster DEF Reading
  <2>2. CASE b # c
    BY <1>a, <1>b, <1>c, <2>2 DEF ConnOK
  <2> QED BY <2>1, <2>2
<1>4. PoolOK'
  BY <1>a, <1>b, <1>c, <1>f, PoolConns DEF PoolOK
<1>5. SenderOK'
  BY <1>a, <1>b, <1>e DEF SenderOK, Bound
<1>6. WireOK'
  BY <1>a, <1>b, <1>c, <1>e DEF WireOK, CanReachServer
<1>7. ASSUME NEW b \in Conns, NEW x, Has(b, x)' PROVE Has(b, x)
  <2>1. ~OfEvent(J(k), x)
    BY WiresOfEvent
  <2> QED BY <1>7, <1>b, <2>1 DEF Has
<1>8. EventOK'
  BY <1>7, <1>a DEF EventOK
<1> QED BY <1>1, <1>2, <1>3, <1>4, <1>5, <1>6, <1>8, <1>b

-----------------------------------------------------------------------------
(* The invariant does not depend on anything else.                         *)
LEMMA StutterIInv == IInv /\ UNCHANGED vars => IInv'
<1> SUFFICES ASSUME IInv, UNCHANGED vars PROVE IInv'
  OBVIOUS
<1> USE DEF IInv, Types, vars, senderVars, threadVars, faultVars
<1>1. SenderTypes' /\ ThreadTypes' /\ (conn \in [Conns -> Records])'
  BY DEF SenderTypes, ThreadTypes
<1>2. ConnOK' /\ PoolOK'
  BY DEF ConnOK, PoolOK, Reading
<1>3. SenderOK' /\ WireOK'
  BY DEF SenderOK, WireOK, Bound, Reading, CanReachServer
<1>4. EventOK'
  BY DEF EventOK, Has
<1> QED BY <1>1, <1>2, <1>3, <1>4

(* Every step keeps the invariant.                                         *)
LEMMA NextIInv == IInv /\ [Next]_vars => IInv'
<1> SUFFICES ASSUME IInv, [Next]_vars PROVE IInv'
  OBVIOUS
<1>1. ASSUME NEW s \in Senders, SenderStep(s) PROVE IInv'
  BY <1>1, StepStoreCur, StepPopSocket, StepConnectError, StepConnect, StepConnectRefused, StepWriteHead,
     StepWriteBody, StepWriteError, StepReadAnswer, StepReadFailed DEF SenderStep
<1>2. ASSUME NEW s \in Senders, NEW e \in Events, EmmitRemoteSync(s, e) PROVE IInv'
  BY <1>2, StepEmmit
<1>3. CASE EventEnd
  BY <1>3, StepEventEnd
<1>4. ASSUME NEW d \in Procs, NEW c \in Conns, ThreadStep(d, c) PROVE IInv'
  BY <1>4, StepAccept, StepReadHeader, StepRejectHeader, StepHeaderFailed DEF ThreadStep
<1>5. ASSUME NEW d \in Procs, BodyStep(d) \/ Crash(d) \/ Restart(d) PROVE IInv'
  BY <1>5, StepReadBody, StepBodyFailed, StepCrash, StepRestart DEF BodyStep
<1>6. ASSUME NEW d \in Procs, NEW c \in Conns, Stranger(d, c, "init") \/ Stranger(d, c, "junk")
      PROVE  IInv'
  BY <1>6, StepStranger
<1>7. ASSUME NEW c \in Conns, Break(c) PROVE IInv'
  BY <1>7, StepBreak
<1>8. CASE UNCHANGED vars
  BY <1>8, StutterIInv
<1> QED BY <1>1, <1>2, <1>3, <1>4, <1>5, <1>6, <1>7, <1>8 DEF Next

(* The invariant holds in every reachable state.                           *)
THEOREM Invariance == Spec => []IInv
BY InitIInv, NextIInv, PTL DEF Spec

(* The variables have their types, whatever breaks: the round robin        *)
(* counter of send_sync_event always selects a process of the cluster.     *)
THEOREM TypeCorrect == Spec => []TypeOK
<1>1. IInv => TypeOK
  BY TypesTypeOK DEF IInv
<1> QED BY <1>1, Invariance, PTL

(* A socket in the pool carries nothing (event.c, send_sync_event): the    *)
(* next event sent over it is neither answered for another nor read as the *)
(* rest of another.                                                        *)
THEOREM PoolQuietAlways == Spec => []PoolQuiet
<1>1. IInv => PoolQuiet
  BY DEF IInv, PoolOK, PoolQuiet, Pooled
<1> QED BY <1>1, Invariance, PTL

-----------------------------------------------------------------------------
(* The steps that leave every sender with its socket, every pool as it is, *)
(* and open no socket of a sender.                                         *)
Spectates ==
    /\ UNCHANGED <<sockets, sockfd, told>>
    /\ \A c \in Conns : conn'[c].cli = "open" => conn[c].cli = "open"

(* The event thread does not touch the sender's sockets.                   *)
LEMMA ThreadSpectates ==
    ASSUME IInv, NEW d \in Procs, NEW c \in Conns, ThreadStep(d, c) \/ Break(c)
    PROVE  Spectates
<1>0. conn \in [Conns -> Records]
  BY DEF IInv, Types
<1>1. \A b \in Conns : conn'[b].cli = conn[b].cli
  <2>1. CASE Accept(d, c)
    <3>1. CASE conn' = [conn EXCEPT ![c].srv = "closed", ![c].up = <<>>]
      BY <1>0, <3>1 DEF Records
    <3>2. CASE conn' = [conn EXCEPT ![c].srv = "open", ![c].fd = NewFd(d),
                                    ![c].watched = NewFd(d) \notin registered[d]]
      BY <1>0, <3>2 DEF Records
    <3> QED BY <2>1, <3>1, <3>2 DEF Accept
  <2>2. CASE ReadHeader(d, c)
    BY <1>0, <2>2 DEF ReadHeader, Records
  <2>3. CASE \E q : CloseServer(c, q)
    BY <1>0, <2>3 DEF CloseServer, Records
  <2>4. CASE Break(c)
    <3>1. PICK m \in 0..Len(conn[c].up), n \in 0..Len(conn[c].down) :
            conn' = [conn EXCEPT ![c].broken = TRUE, ![c].up = SubSeq(@, 1, m),
                                 ![c].down = SubSeq(@, 1, n)]
      BY <2>4 DEF Break
    <3> QED BY <1>0, <3>1 DEF Records
  <2> QED BY <2>1, <2>2, <2>3, <2>4 DEF ThreadStep, RejectHeader, HeaderFailed
<1>2. UNCHANGED senderVars
  BY DEF ThreadStep, Accept, ReadHeader, RejectHeader, HeaderFailed, Break
<1> QED BY <1>1, <1>2 DEF Spectates, senderVars

(* Nor do its blocking read, crashes and restarts.                         *)
LEMMA BodySpectates ==
    ASSUME IInv, NEW d \in Procs, BodyStep(d) \/ Crash(d) \/ Restart(d)
    PROVE  Spectates
<1>0. conn \in [Conns -> Records]
  BY DEF IInv, Types
<1>1. \A b \in Conns : conn'[b].cli = conn[b].cli
  <2>1. CASE \E c, q : CloseServer(c, q)
    BY <1>0, <2>1 DEF CloseServer, Records
  <2>2. CASE \E c, k : conn' = [conn EXCEPT ![c].up = Tail(@), ![c].down = Append(@, k)]
    BY <1>0, <2>2 DEF Records
  <2>3. CASE \E c : conn' = [conn EXCEPT ![c].up = Tail(@)]
    BY <1>0, <2>3 DEF Records
  <2>4. CASE Crash(d)
    BY <1>0, <2>4, ZenonT(60) DEF Crash, Records
  <2>5. CASE Restart(d)
    BY <2>5 DEF Restart
  <2> QED BY <2>1, <2>2, <2>3, <2>4, <2>5 DEF BodyStep, ReadBody, BodyFailed, Answer
<1>2. UNCHANGED senderVars
  BY DEF BodyStep, ReadBody, BodyFailed, Crash, Restart
<1> QED BY <1>1, <1>2 DEF Spectates, senderVars

(* Nor does a stranger.                                                    *)
LEMMA StrangerSpectates ==
    ASSUME IInv, NEW d \in Procs, NEW c \in Conns, NEW k, Stranger(d, c, k)
    PROVE  Spectates
<1>0. conn \in [Conns -> Records] /\ Opened(d) \in Records
  BY OpenedIs DEF IInv, Types
<1>1. \A b \in Conns : conn'[b].cli = conn[b].cli \/ conn'[b].cli = "stranger"
  BY <1>0 DEF Stranger, Records
<1> QED BY <1>1 DEF Spectates, Stranger, senderVars

(* Writing keeps the socket with its sender.                               *)
LEMMA WriteSpectates ==
    ASSUME IInv, NEW s \in Senders, WriteHead(s) \/ WriteBody(s)
    PROVE  Spectates
<1>0. conn \in [Conns -> Records] /\ sockfd[s] \in Conns
  BY Busy DEF IInv, Types, WriteHead, WriteBody
<1>1. \A b \in Conns : conn'[b].cli = conn[b].cli
  <2>1. CASE \E x : conn' = [conn EXCEPT ![sockfd[s]].up = Append(@, x)]
    BY <1>0, <2>1 DEF Records
  <2>2. CASE conn' = conn
    BY <2>2
  <2> QED BY <2>1, <2>2 DEF WriteHead, WriteBody, Write
<1> QED BY <1>1 DEF Spectates, WriteHead, WriteBody, Write

(* A step forgets no socket, or one for the event that was refused.        *)
Tracks == Forgotten' \subseteq Forgotten /\ Refused' = Refused
Forgets ==
    \E c \in Conns, e \in Events \ Refused :
      Forgotten' \subseteq Forgotten \cup {c} /\ Refused' = Refused \cup {e}

(* Who does not touch the sockets forgets none.                            *)
LEMMA SpectatesTracks == Spectates => Tracks
<1> SUFFICES ASSUME Spectates PROVE Tracks
  OBVIOUS
<1>1. \A c \in Conns : Pooled(c)' = Pooled(c) /\ Holders(c)' = Holders(c)
  BY DEF Spectates, Pooled, Holders
<1> QED BY <1>1 DEF Spectates, Tracks, Forgotten, Refused

(* A call that returns forgets at most its own socket.                     *)
LEMMA ReturnTracks ==
    ASSUME IInv, NEW s \in Senders, pc[s] \in {"head", "body", "answer"}, NEW a, Return(s, a),
           NEW c, c = sockfd[s], \A b \in Conns \ {c} : conn'[b] = conn[b],
           \A d \in Procs : Range(sockets[d]) \subseteq Range(sockets'[d])
    PROVE  /\ Forgotten' \subseteq Forgotten \cup {c} /\ ev[s] \in Events \ Refused
           /\ a \notin No => Refused' = Refused
           /\ a \in No => Refused' = Refused \cup {ev[s]}
<1>1. c \in Conns /\ ev[s] \in Events /\ told[ev[s]] = "none" /\ told \in [Events -> Told]
  BY Busy DEF IInv, Types, SenderTypes
<1>2. told' = [told EXCEPT ![ev[s]] = a] /\ sockfd' = [sockfd EXCEPT ![s] = NULL]
      /\ sockfd \in [Senders -> Conns \cup {NULL}]
  BY DEF Return, IInv, Types, SenderTypes
<1>3. /\ ev[s] \in Events \ Refused
      /\ a \notin No => Refused' = Refused
      /\ a \in No => Refused' = Refused \cup {ev[s]}
  BY <1>1, <1>2 DEF Refused, No
<1>4. ASSUME NEW b \in Forgotten', b # c PROVE b \in Forgotten
  <2>1. b \in Conns /\ conn[b].cli = "open" /\ (Pooled(b) \cup Holders(b))' = {}
    BY <1>4 DEF Forgotten
  <2>2. Pooled(b) = {}
    BY <2>1 DEF Pooled
  <2>3. Holders(b) = {}
    BY <1>2, <1>4, <2>1 DEF Holders
  <2> QED BY <2>1, <2>2, <2>3 DEF Forgotten
<1> QED BY <1>3, <1>4

(* A socket that is closed is not forgotten.                               *)
LEMMA CloseTracks ==
    ASSUME IInv, NEW s \in Senders, WriteError(s) \/ ReadFailed(s)
    PROVE  Tracks
<1>1. PICK a \in {"silent", "error"} : Return(s, a)
  BY DEF WriteError, ReadFailed
<1>2. /\ pc[s] \in {"head", "body", "answer"} /\ sockets' = sockets /\ CloseClient(sockfd[s])
      /\ conn \in [Conns -> Records]
  BY DEF WriteError, ReadFailed, IInv, Types
<1>3. /\ sockfd[s] \in Conns /\ conn'[sockfd[s]].cli = "closed"
      /\ \A b \in Conns \ {sockfd[s]} : conn'[b] = conn[b]
  BY <1>2, Busy, Closed
<1>4. sockfd[s] \notin Forgotten'
  BY <1>3 DEF Forgotten
<1>5. Forgotten' \subseteq Forgotten \cup {sockfd[s]} /\ Refused' = Refused
  BY <1>1, <1>2, <1>3, ReturnTracks DEF No
<1> QED BY <1>4, <1>5 DEF Tracks

(* An answer other than success forgets the socket.                        *)
LEMMA AnswerTracks ==
    ASSUME IInv, NEW s \in Senders, ReadAnswer(s)
    PROVE  Tracks \/ Forgets
<1> DEFINE c == sockfd[s]
<1>1. /\ pc[s] \in {"head", "body", "answer"} /\ conn \in [Conns -> Records]
      /\ conn' = [conn EXCEPT ![c].down = Tail(@)]
  BY DEF ReadAnswer, IInv, Types
<1>2. /\ c \in Conns /\ dst[s] \in Procs /\ \A d \in Procs : c \notin Range(sockets[d])
      /\ \A b \in Conns \ {c} : conn'[b] = conn[b]
  BY <1>1, Busy
<1>3. CASE sockets' = sockets /\ Return(s, "refused")
  <2>1. /\ Forgotten' \subseteq Forgotten \cup {c} /\ ev[s] \in Events \ Refused
        /\ Refused' = Refused \cup {ev[s]}
    BY <1>1, <1>2, <1>3, ReturnTracks DEF No
  <2> QED BY <1>2, <2>1 DEF Forgets
<1>4. CASE PutBack(s, c) /\ Return(s, "yes")
  <2>1. /\ sockets \in [Procs -> Seq(Conns)] /\ IsInjective(sockets[dst[s]])
        /\ sockets[dst[s]] \in Seq(Conns)
    BY <1>2 DEF IInv, Types, SenderTypes, PoolOK
  <2>2. Range(Append(sockets[dst[s]], c)) = Range(sockets[dst[s]]) \cup {c}
    BY <1>2, <2>1, RangeAppend
  <2>3. /\ \A d \in Procs : Range(sockets[d]) \subseteq Range(sockets'[d])
        /\ c \in Range(sockets'[dst[s]])
    BY <1>2, <1>4, <2>1, <2>2 DEF PutBack
  <2>4. Forgotten' \subseteq Forgotten \cup {c} /\ Refused' = Refused
    BY <1>1, <1>2, <1>4, <2>3, ReturnTracks DEF No
  <2>5. c \notin Forgotten'
    BY <1>2, <2>3 DEF Forgotten, Pooled
  <2> QED BY <2>4, <2>5 DEF Tracks
<1> QED BY <1>3, <1>4 DEF ReadAnswer, PutBack

(* Taking a socket, from the pool or a new one, and giving up without one. *)
LEMMA SocketTracks ==
    ASSUME IInv, NEW s \in Senders,
           PopSocket(s) \/ (\E c \in Conns : Connect(s, c)) \/ ConnectError(s)
    PROVE  Tracks
<1>0. /\ dst[s] \in Procs /\ sockfd[s] = NULL /\ sockfd \in [Senders -> Conns \cup {NULL}]
      /\ sockets \in [Procs -> Seq(Conns)] /\ conn \in [Conns -> Records]
      /\ told \in [Events -> Told] /\ ev[s] \in Events /\ told[ev[s]] = "none"
      /\ NULL \notin Conns
  BY Cluster DEF IInv, Types, SenderTypes, SenderOK, PopSocket, Connect, ConnectError
<1>1. CASE PopSocket(s)
  <2>1. sockets[dst[s]] \in Seq(Conns) /\ sockets[dst[s]] # <<>> /\ IsInjective(sockets[dst[s]])
    BY <1>0, <1>1 DEF PopSocket, IInv, PoolOK
  <2>2. PICK c \in Conns : c = Head(sockets[dst[s]])
    BY <2>1
  <2>3. /\ sockfd' = [sockfd EXCEPT ![s] = c] /\ conn' = conn /\ told' = told
        /\ sockets' = [sockets EXCEPT ![dst[s]] = Tail(sockets[dst[s]])]
    BY <1>1, <2>2 DEF PopSocket
  <2>4. \A d \in Procs : Range(sockets[d]) \subseteq Range(sockets'[d]) \cup {c}
    BY <1>0, <2>1, <2>2, <2>3, RangeTail
  <2>5. ASSUME NEW b \in Forgotten' PROVE b \in Forgotten
    <3>1. b \in Conns /\ conn[b].cli = "open" /\ (Pooled(b) \cup Holders(b))' = {}
      BY <2>3, <2>5 DEF Forgotten
    <3>2. b # c
      BY <1>0, <2>3, <3>1 DEF Holders
    <3>3. Pooled(b) = {}
      BY <2>4, <3>1, <3>2 DEF Pooled
    <3>4. Holders(b) = {}
      BY <1>0, <2>3, <3>1 DEF Holders
    <3> QED BY <3>1, <3>3, <3>4 DEF Forgotten
  <2> QED BY <2>3, <2>5 DEF Tracks, Refused
<1>2. ASSUME NEW c \in Conns, Connect(s, c) PROVE Tracks
  <2>1. /\ sockfd' = [sockfd EXCEPT ![s] = c] /\ told' = told /\ sockets' = sockets
        /\ \A b \in Conns \ {c} : conn'[b] = conn[b]
    BY <1>0, <1>2 DEF Connect
  <2>2. ASSUME NEW b \in Forgotten' PROVE b \in Forgotten
    <3>1. b \in Conns /\ conn'[b].cli = "open" /\ (Pooled(b) \cup Holders(b))' = {}
      BY <2>2 DEF Forgotten
    <3>2. b # c
      BY <1>0, <2>1, <3>1 DEF Holders
    <3>3. Pooled(b) = {}
      BY <2>1, <3>1 DEF Pooled
    <3>4. Holders(b) = {}
      BY <1>0, <2>1, <3>1 DEF Holders
    <3> QED BY <2>1, <3>1, <3>2, <3>3, <3>4 DEF Forgotten
  <2> QED BY <2>1, <2>2 DEF Tracks, Refused
<1>3. CASE ConnectError(s)
  <2>1. /\ sockfd' = [sockfd EXCEPT ![s] = NULL] /\ told' = [told EXCEPT ![ev[s]] = "error"]
        /\ conn' = conn /\ sockets' = sockets
    BY <1>3 DEF ConnectError, Return
  <2>2. sockfd' = sockfd
    BY <1>0, <2>1
  <2>3. Refused' = Refused
    BY <1>0, <2>1 DEF Refused, No
  <2>4. \A b : Pooled(b)' = Pooled(b) /\ Holders(b)' = Holders(b)
    BY <2>1, <2>2 DEF Pooled, Holders
  <2> QED BY <2>1, <2>3, <2>4 DEF Tracks, Forgotten
<1> QED BY <1>1, <1>2, <1>3

(* A connect that failed forgets its socket, for the event it was for.     *)
LEMMA RefusedForgets ==
    ASSUME IInv, NEW s \in Senders, NEW c \in Conns, ConnectRefused(s, c)
    PROVE  Forgets
<1>1. /\ sockfd[s] = NULL /\ sockfd \in [Senders -> Conns \cup {NULL}]
      /\ told \in [Events -> Told] /\ ev[s] \in Events /\ told[ev[s]] = "none"
  BY DEF IInv, Types, SenderTypes, SenderOK, ConnectRefused
<1>2. /\ sockfd' = [sockfd EXCEPT ![s] = NULL] /\ told' = [told EXCEPT ![ev[s]] = "unreachable"]
      /\ sockets' = sockets /\ \A b \in Conns \ {c} : conn'[b] = conn[b]
  BY DEF ConnectRefused, Return, IInv, Types
<1>3. ev[s] \in Events \ Refused /\ Refused' = Refused \cup {ev[s]}
  BY <1>1, <1>2 DEF Refused, No
<1>4. \A b : Pooled(b)' = Pooled(b) /\ Holders(b)' = Holders(b)
  <2>1. sockfd' = sockfd
    BY <1>1, <1>2
  <2> QED BY <1>2, <2>1 DEF Pooled, Holders
<1>5. Forgotten' \subseteq Forgotten \cup {c}
  BY <1>2, <1>4 DEF Forgotten
<1> QED BY <1>3, <1>5 DEF Forgets

(* event_end closes what is in the pools.                                  *)
LEMMA EndTracks ==
    ASSUME IInv, EventEnd
    PROVE  Tracks
<1>1. UNCHANGED <<sockfd, told>>
  BY DEF EventEnd
<1>2. ASSUME NEW b \in Forgotten' PROVE b \in Forgotten
  <2>1. b \in Conns /\ conn'[b].cli = "open" /\ Holders(b) = {}
    BY <1>1, <1>2 DEF Forgotten, Holders
  <2>2. ~\E d \in Procs : b \in Range(sockets[d])
    <3> SUFFICES ASSUME \E d \in Procs : b \in Range(sockets[d]) PROVE conn'[b].cli = "closed"
      BY <2>1
    <3>1. conn'[b] = [conn[b] EXCEPT !.cli = "closed", !.down = <<>>] /\ conn[b] \in Records
      BY <2>1 DEF EventEnd, IInv, Types
    <3> QED BY <3>1 DEF Records
  <2>3. conn'[b] = conn[b] /\ Pooled(b) = {}
    BY <2>1, <2>2 DEF EventEnd, Pooled
  <2> QED BY <2>1, <2>3 DEF Forgotten
<1> QED BY <1>1, <1>2 DEF Tracks, Refused

(* A step forgets no socket, or one for a refused event.                   *)
LEMMA NextTracks == IInv /\ [Next]_vars => Tracks \/ Forgets
<1> SUFFICES ASSUME IInv, [Next]_vars PROVE Tracks \/ Forgets
  OBVIOUS
<1>1. ASSUME NEW s \in Senders, SenderStep(s) PROVE Tracks \/ Forgets
  <2>1. CASE StoreCur(s)
    BY <2>1, SpectatesTracks DEF StoreCur, Spectates
  <2> QED BY <1>1, <2>1, SocketTracks, WriteSpectates, SpectatesTracks, CloseTracks, AnswerTracks,
          RefusedForgets DEF SenderStep
<1>2. ASSUME NEW s \in Senders, NEW e \in Events, EmmitRemoteSync(s, e) PROVE Tracks
  BY <1>2, SpectatesTracks DEF EmmitRemoteSync, Spectates
<1>3. ASSUME NEW d \in Procs, NEW c \in Conns, ThreadStep(d, c) PROVE Tracks
  BY <1>3, ThreadSpectates, SpectatesTracks
<1>4. ASSUME NEW d \in Procs, BodyStep(d) \/ Crash(d) \/ Restart(d) PROVE Tracks
  BY <1>4, BodySpectates, SpectatesTracks
<1>5. ASSUME NEW d \in Procs, NEW c \in Conns, Stranger(d, c, "init") \/ Stranger(d, c, "junk")
      PROVE  Tracks
  BY <1>5, StrangerSpectates, SpectatesTracks
<1>6. ASSUME NEW c \in Conns, Break(c) PROVE Tracks
  <2>1. PICK d \in Procs : TRUE
    BY Cluster
  <2> QED BY <1>6, <2>1, ThreadSpectates, SpectatesTracks
<1>7. CASE UNCHANGED vars
  BY <1>7, SpectatesTracks DEF vars, senderVars, Spectates
<1> QED BY <1>1, <1>2, <1>3, <1>4, <1>5, <1>6, <1>7, EndTracks DEF Next

(* As many events were refused as open sockets were forgotten, or more.    *)
Blamed == IsFiniteSet(Refused) /\ Cardinality(Forgotten) <= Cardinality(Refused)

(* The forgotten sockets can be counted.                                   *)
LEMMA ForgottenFinite ==
    IsFiniteSet(Forgotten) /\ IsFiniteSet(Forgotten') /\ Cardinality(Forgotten) \in Nat
<1>1. IsFiniteSet(Conns)
  BY BoundAssumption, FS_Interval DEF Conns
<1>2. Forgotten \subseteq Conns /\ Forgotten' \subseteq Conns
  BY DEF Forgotten
<1> QED BY <1>1, <1>2, FS_Subset, FS_CardinalityType

(* No more sockets are forgotten than events were refused.                 *)
LEMMA NextBlamed == IInv /\ Blamed /\ [Next]_vars => Blamed'
<1> SUFFICES ASSUME IInv, Blamed, [Next]_vars PROVE Blamed'
  OBVIOUS
<1>0. /\ IsFiniteSet(Forgotten) /\ Cardinality(Forgotten) \in Nat /\ Cardinality(Refused) \in Nat
      /\ IsFiniteSet(Refused) /\ Cardinality(Forgotten) <= Cardinality(Refused)
  BY ForgottenFinite, FS_CardinalityType DEF Blamed
<1>1. CASE Tracks
  <2>1. Cardinality(Forgotten') <= Cardinality(Forgotten) /\ Cardinality(Forgotten') \in Nat
    BY <1>0, <1>1, FS_Subset, FS_CardinalityType DEF Tracks
  <2>2. IsFiniteSet(Refused') /\ Cardinality(Refused') = Cardinality(Refused)
    BY <1>0, <1>1 DEF Tracks
  <2>3. Cardinality(Forgotten') <= Cardinality(Refused')
    BY <1>0, <2>1, <2>2
  <2> QED BY <2>2, <2>3 DEF Blamed
<1>2. CASE Forgets
  <2>1. PICK c \in Conns, e \in Events \ Refused :
          Forgotten' \subseteq Forgotten \cup {c} /\ Refused' = Refused \cup {e}
    BY <1>2 DEF Forgets
  <2>2. /\ IsFiniteSet(Forgotten \cup {c})
        /\ Cardinality(Forgotten \cup {c}) <= Cardinality(Forgotten) + 1
        /\ Cardinality(Forgotten \cup {c}) \in Nat
    <3>1. /\ IsFiniteSet(Forgotten \cup {c})
          /\ \/ Cardinality(Forgotten \cup {c}) = Cardinality(Forgotten)
             \/ Cardinality(Forgotten \cup {c}) = Cardinality(Forgotten) + 1
      BY <1>0, FS_AddElement
    <3> QED BY <1>0, <3>1
  <2>3. /\ Cardinality(Forgotten') <= Cardinality(Forgotten \cup {c})
        /\ Cardinality(Forgotten') \in Nat
    BY <2>1, <2>2, FS_Subset, FS_CardinalityType
  <2>4. IsFiniteSet(Refused') /\ Cardinality(Refused') = Cardinality(Refused) + 1
    BY <1>0, <2>1, FS_AddElement
  <2>5. Cardinality(Forgotten') <= Cardinality(Refused')
    BY <1>0, <2>2, <2>3, <2>4
  <2> QED BY <2>4, <2>5 DEF Blamed
<1> QED BY <1>1, <1>2, NextTracks

(* No socket is forgotten at the start.                                    *)
LEMMA InitBlamed == Init => Blamed
<1> SUFFICES ASSUME Init PROVE Blamed
  OBVIOUS
<1>1. Forgotten = {} /\ Refused = {}
  BY DEF Init, Forgotten, Refused, Unused, No
<1> QED BY <1>1, FS_EmptySet DEF Blamed

(* No socket of send_sync_event is used by two senders, or by one while it *)
(* is in the pool; a pool holds open sockets to its own destination only,  *)
(* none twice; and no more open sockets are lost than events were refused  *)
(* (event.c:565) or could not be sent since connect failed (event.c:503),  *)
(* which are the only ways to lose one.                                    *)
THEOREM SocketHeldOnceAlways == Spec => []SocketHeldOnce
<1>1. IInv /\ Blamed => SocketHeldOnce
  <2> SUFFICES ASSUME IInv, Blamed PROVE SocketHeldOnce
    OBVIOUS
  <2>1. ASSUME NEW c \in Conns PROVE Cardinality(Pooled(c)) + Cardinality(Holders(c)) <= 1
    <3>1. \A d, x \in Pooled(c) : d = x
      BY DEF IInv, PoolOK, Pooled
    <3>2. \A s, t \in Holders(c) : s = t
      <4> SUFFICES ASSUME NEW s \in Senders, NEW t \in Senders, sockfd[s] = c, sockfd[t] = c
                   PROVE  s = t
        BY DEF Holders
      <4>1. pc[s] \in {"head", "body", "answer"}
        BY Cluster DEF IInv, Types, SenderTypes, SenderOK
      <4> QED BY <4>1, Busy
    <3>3. Pooled(c) = {} \/ Holders(c) = {}
      BY DEF IInv, PoolOK, Pooled, Holders
    <3>4. Cardinality(Pooled(c)) \in {0, 1} /\ (Pooled(c) = {} => Cardinality(Pooled(c)) = 0)
      <4>1. Pooled(c) = {} \/ \E d : Pooled(c) = {d}
        BY <3>1
      <4> QED BY <4>1, FS_EmptySet, FS_Singleton
    <3>5. Cardinality(Holders(c)) \in {0, 1} /\ (Holders(c) = {} => Cardinality(Holders(c)) = 0)
      <4>1. Holders(c) = {} \/ \E s : Holders(c) = {s}
        BY <3>2
      <4> QED BY <4>1, FS_EmptySet, FS_Singleton
    <3> QED BY <3>3, <3>4, <3>5
  <2>2. \A d \in Procs :
         /\ IsInjective(sockets[d])
         /\ \A c \in Range(sockets[d]) : conn[c].to = d /\ conn[c].cli = "open"
    BY DEF IInv, PoolOK
  <2> QED BY <2>1, <2>2 DEF SocketHeldOnce, Blamed, Forgotten, Refused, No
<1> QED BY <1>1, InitBlamed, NextBlamed, InitIInv, NextIInv, PTL DEF Spec

-----------------------------------------------------------------------------
(* How a step changes what AtMostOnce is about.                            *)
LEMMA InitPromise == Init => Promise!Init
BY DEF Init, Promise!Init

(* The step that answers a sender.                                         *)
LEMMA TellStep ==
    ASSUME IInv, NEW s \in Senders, pc[s] # "idle", NEW a \in Told \ {"none"}, Return(s, a),
           a = "yes" => accepted[ev[s]] = 1, a \in No => accepted[ev[s]] = 0
    PROVE  Promise!Next
<1>1. ev[s] \in Events /\ ev[s] \in sent /\ told[ev[s]] = "none"
  BY DEF IInv, Types, SenderTypes, SenderOK
<1>2. told' = [told EXCEPT ![ev[s]] = a] /\ UNCHANGED <<sent, accepted>>
  BY DEF Return, threadVars
<1>3. Promise!Tell(ev[s], a)
  BY <1>1, <1>2 DEF Promise!Tell, No
<1>4. a \in Promise!Answers \ {"none"}
  BY DEF Told, Promise!Answers
<1> QED BY <1>1, <1>3, <1>4 DEF Promise!Next

(* Every step of a sender is one of AtMostOnce, or none.                   *)
LEMMA SenderPromise ==
    ASSUME IInv, NEW s \in Senders, SenderStep(s)
    PROVE  Promise!Next \/ UNCHANGED Promise!vars
<1>1. CASE StoreCur(s) \/ PopSocket(s) \/ (\E c \in Conns : Connect(s, c)) \/ WriteHead(s) \/ WriteBody(s)
  BY <1>1 DEF StoreCur, PopSocket, Connect, WriteHead, WriteBody, Write, threadVars, Promise!vars
<1>2. CASE ConnectError(s) \/ WriteError(s) \/ ReadFailed(s)
  <2>1. pc[s] # "idle"
    BY <1>2 DEF ConnectError, WriteError, ReadFailed
  <2>2. PICK a \in {"error", "silent"} : Return(s, a)
    BY <1>2 DEF ConnectError, WriteError, ReadFailed
  <2>3. a \in Told \ {"none"} /\ a # "yes" /\ a \notin No
    BY DEF Told, No
  <2> QED BY <2>1, <2>2, <2>3, TellStep
<1>4. ASSUME NEW c \in Conns, ConnectRefused(s, c) PROVE Promise!Next
  <2>1. pc[s] = "socket" /\ Return(s, "unreachable")
    BY <1>4 DEF ConnectRefused
  <2>2. ev[s] \in Events /\ accepted[ev[s]] = 0
    BY <2>1 DEF IInv, Types, SenderTypes, SenderOK, EventOK
  <2>3. "unreachable" \in Told \ {"none"}
    BY DEF Told
  <2> QED BY <2>1, <2>2, <2>3, TellStep
<1>3. CASE ReadAnswer(s)
  <2>1. pc[s] = "answer" /\ conn[sockfd[s]].down # <<>>
    BY <1>3 DEF ReadAnswer
  <2>2. \/ conn[sockfd[s]].down = <<1>> /\ accepted[ev[s]] = 1
        \/ conn[sockfd[s]].down = <<2>> /\ accepted[ev[s]] = 0
    BY <2>1 DEF IInv, WireOK
  <2>3. "yes" \in Told \ {"none"} /\ "refused" \in Told \ {"none"} /\ "yes" \notin No
    BY DEF Told, No
  <2>4. CASE conn[sockfd[s]].down = <<1>> /\ accepted[ev[s]] = 1
    <3>1. Head(conn[sockfd[s]].down) = 1
      BY <2>4
    <3>2. Return(s, "yes")
      BY <1>3, <3>1 DEF ReadAnswer
    <3> QED BY <2>1, <2>3, <2>4, <3>2, TellStep
  <2>5. CASE conn[sockfd[s]].down = <<2>> /\ accepted[ev[s]] = 0
    <3>1. Head(conn[sockfd[s]].down) # 1
      BY <2>5
    <3>2. Return(s, "refused")
      BY <1>3, <3>1 DEF ReadAnswer
    <3> QED BY <2>1, <2>3, <2>5, <3>2, TellStep
  <2> QED BY <2>2, <2>4, <2>5
<1> QED BY <1>1, <1>2, <1>3, <1>4 DEF SenderStep

(* The step that accepts an event, for the first time.                     *)
LEMMA BodyPromise ==
    ASSUME IInv, NEW d \in Procs, ReadBody(d)
    PROVE  Promise!Next \/ UNCHANGED Promise!vars
<1>1. PICK c \in Conns : c = reading[d] /\ conn[c].up # <<>> /\ Reading(c)
  BY DEF ReadBody, IInv, Types, ThreadTypes, Reading
<1>2. PICK e \in Events : conn[c].up = B(e)
  BY <1>1 DEF IInv, ConnOK
<1>3. Head(conn[c].up)[2] = e /\ Has(c, e)
  <2>1. Head(B(e)) = <<"body", e>> /\ OfEvent(B(e), e)
    BY Wires, WiresOfEvent
  <2> QED BY <1>2, <2>1 DEF Has
<1>4. accepted[e] = 0 /\ e \in sent /\ told[e] \in {"none", "error", "silent"}
  <2>1. accepted[e] = 0 /\ e \in sent /\ told[e] # "yes" /\ told[e] \notin No
    BY <1>3 DEF IInv, EventOK
  <2>2. told[e] \in Told
    BY DEF IInv, Types, SenderTypes
  <2> QED BY <2>1, <2>2 DEF Told, No
<1>5. UNCHANGED <<sent, told>>
  BY DEF ReadBody, senderVars
<1>6. CASE accepted' = [accepted EXCEPT ![e] = @ + 1]
  <2>1. accepted' = [accepted EXCEPT ![e] = 1]
    BY <1>4, <1>6
  <2>2. Promise!Accept(e)
    BY <1>4, <1>5, <2>1 DEF Promise!Accept
  <2> QED BY <2>2 DEF Promise!Next
<1>7. CASE accepted' = accepted
  BY <1>5, <1>7 DEF Promise!vars
<1> QED BY <1>1, <1>3, <1>6, <1>7 DEF ReadBody

(* Every step is one of AtMostOnce, or none.                               *)
LEMMA NextPromise == IInv /\ [Next]_vars => [Promise!Next]_(Promise!vars)
<1> SUFFICES ASSUME IInv, [Next]_vars PROVE Promise!Next \/ UNCHANGED Promise!vars
  OBVIOUS
<1>1. ASSUME NEW s \in Senders, NEW e \in Events, EmmitRemoteSync(s, e) PROVE Promise!Next
  <2>1. Promise!Send(e)
    BY <1>1 DEF EmmitRemoteSync, threadVars, Promise!Send
  <2> QED BY <2>1 DEF Promise!Next
<1>2. CASE EventEnd
  BY <1>2 DEF EventEnd, threadVars, Promise!vars
<1>3. ASSUME NEW d \in Procs, NEW c \in Conns, ThreadStep(d, c) PROVE UNCHANGED Promise!vars
  BY <1>3 DEF ThreadStep, Accept, ReadHeader, RejectHeader, HeaderFailed, senderVars, threadVars,
     Promise!vars
<1>4. ASSUME NEW d \in Procs, BodyFailed(d) \/ Crash(d) \/ Restart(d) PROVE UNCHANGED Promise!vars
  BY <1>4 DEF BodyFailed, Crash, Restart, senderVars, threadVars, Promise!vars
<1>5. ASSUME NEW d \in Procs, NEW c \in Conns, NEW k, Stranger(d, c, k) PROVE UNCHANGED Promise!vars
  BY <1>5 DEF Stranger, senderVars, threadVars, Promise!vars
<1>6. ASSUME NEW c \in Conns, Break(c) PROVE UNCHANGED Promise!vars
  BY <1>6 DEF Break, senderVars, threadVars, Promise!vars
<1>7. CASE UNCHANGED vars
  BY <1>7 DEF vars, senderVars, threadVars, Promise!vars
<1> QED BY <1>1, <1>2, <1>3, <1>4, <1>5, <1>6, <1>7, SenderPromise, BodyPromise DEF Next, BodyStep

(* Sending an event over the network keeps the promise of AtMostOnce,      *)
(* whatever breaks: an event is accepted at most once, send_sync_event     *)
(* says yes only of an event that was accepted, and refused or unreachable *)
(* only of one that was not and never will be.                             *)
THEOREM AtMostOnceKept == Spec => ImplementsAtMostOnce
BY InitPromise, NextPromise, Invariance, PTL DEF Spec, ImplementsAtMostOnce
=============================================================================
