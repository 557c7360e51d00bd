---------------------------- MODULE RemoteEvents -----------------------------
(***************************************************************************)
(* Events for a stage of another process (src/kernel/event.c): the worker  *)
(* that emits one takes a socket from the pool of the destination, or      *)
(* connects, writes the event, blocks until the destination answers with a *)
(* byte, and gives the socket back.  At the destination the event thread   *)
(* accepts connections, reads events and answers.                          *)
(*                                                                         *)
(* A connection carries two sequences.  An event is written as a header    *)
(* and a body, which is all that matters about short writes and reads; the *)
(* first byte says what kind of message it is, and "init" and "junk" stand *)
(* for headers that are not those of an event.  Connections break and      *)
(* destinations crash and start again.                                     *)
(***************************************************************************)
EXTENDS Integers, Sequences, FiniteSets, FiniteSetsExt, SequencesExt

CONSTANTS
    Senders,       \* the workers of the process that emits
    Processes,     \* the processes of the destination's cluster, in order
    Events,
    HugeEvents,    \* those whose length is negative when taken as an int
    MaxConns,      \* how many connections may be opened
    FD_SETSIZE,
    MaxFaults,     \* how many faults and connections of strangers there may be
    NULL

Procs == Range(Processes)
Conns == 1..MaxConns

ASSUME ClusterAssumption == Processes \in Seq(Procs) /\ Processes # <<>>
ASSUME EventAssumption == HugeEvents \subseteq Events
ASSUME BoundAssumption ==
    MaxConns \in Nat /\ MaxFaults \in Nat /\ NULL \notin Events \cup Conns \cup Procs

VARIABLES
    cur_process,   \* round robin counter of the cluster
    sockets,       \* the pool of each destination
    pc, ev, read, dst, sockfd,   \* the locals of send_sync_event, by sender
    conn,          \* the two ends of each connection and what is on its way
    registered,    \* the descriptors an event loop has an event for
    reading,       \* the connection whose body an event thread reads, or NULL
    running,       \* the destinations that run
    ended,         \* leda_event_end_t has been called
    faults,
    sent, accepted, told   \* what was sent, accepted (how often) and answered

senderVars == <<cur_process, sockets, pc, ev, read, dst, sockfd, ended, sent, told>>
threadVars == <<registered, reading, accepted>>
faultVars == <<running, faults>>
vars == <<senderVars, threadVars, faultVars, conn>>

(* The ends of a connection: cli and srv say whether a descriptor is open  *)
(* at either side (srv "queued": not accepted yet); fd is the one of the   *)
(* destination; watched tells whether its event loop reports it.           *)
Unused == [to |-> NULL, cli |-> "closed", srv |-> "closed", fd |-> 0, watched |-> FALSE,
           broken |-> FALSE, up |-> <<>>, down |-> <<>>]

(* event_init_t: empty pools and counters at zero.                         *)
Init ==
    /\ cur_process = 0
    /\ sockets = [d \in Procs |-> <<>>]
    /\ pc = [s \in Senders |-> "idle"]
    /\ ev = [s \in Senders |-> NULL]
    /\ read = [s \in Senders |-> 0]
    /\ dst = [s \in Senders |-> NULL]
    /\ sockfd = [s \in Senders |-> NULL]
    /\ conn = [c \in Conns |-> Unused]
    /\ registered = [d \in Procs |-> {}]
    /\ reading = [d \in Procs |-> NULL]
    /\ running = Procs
    /\ ended = FALSE
    /\ faults = 0
    /\ sent = {} /\ accepted = [e \in Events |-> 0]
    /\ told = [e \in Events |-> "none"]

Goto(s, l) == pc' = [pc EXCEPT ![s] = l]

(* Bytes written now reach the other end.                                  *)
CanReachServer(c) == conn[c].srv # "closed" /\ ~conn[c].broken
CanReachClient(c) == conn[c].cli # "closed" /\ ~conn[c].broken

(* Connections are opened in the order of their numbers.                   *)
Fresh(c) == conn[c].to = NULL /\ \A b \in 1..(c - 1) : conn[b].to # NULL
Opened(d) == [Unused EXCEPT !.to = d, !.cli = "open", !.srv = "queued"]

-----------------------------------------------------------------------------
(* The sender.                                                             *)

(* emmit_remote_sync with a payload that can be encoded (otherwise an      *)
(* error is raised and nothing is sent), up to READ(cur_process), the      *)
(* first half of the choice of a destination.                              *)
EmmitRemoteSync(s, e) ==
    /\ pc[s] = "idle" /\ ~ended
    /\ e \notin sent
    /\ sent' = sent \cup {e}
    /\ ev' = [ev EXCEPT ![s] = e]
    /\ read' = [read EXCEPT ![s] = cur_process]
    /\ Goto(s, "store")
    /\ UNCHANGED <<cur_process, sockets, dst, sockfd, ended, told, threadVars, faultVars, conn>>

(* Mutant: no modulo.                                                      *)
StoreCurUnbounded(s) ==
    /\ pc[s] = "store"
    /\ cur_process' = read[s] + 1
    /\ dst' = [dst EXCEPT ![s] = Processes[cur_process + 1]]
    /\ Goto(s, "socket")
    /\ UNCHANGED <<sockets, ev, read, sockfd, ended, sent, told, threadVars, faultVars, conn>>

(* STORE returns the value it replaces, which may differ from the one read *)
(* when another sender was faster.                                         *)
StoreCur(s) ==
    /\ pc[s] = "store"
    /\ cur_process' = (read[s] + 1) % Len(Processes)
    /\ dst' = [dst EXCEPT ![s] = Processes[cur_process + 1]]
    /\ Goto(s, "socket")
    /\ UNCHANGED <<sockets, ev, read, sockfd, ended, sent, told, threadVars, faultVars, conn>>

PopSocket(s) ==
    /\ pc[s] = "socket"
    /\ sockets[dst[s]] # <<>>
    /\ sockfd' = [sockfd EXCEPT ![s] = Head(sockets[dst[s]])]
    /\ sockets' = [sockets EXCEPT ![dst[s]] = Tail(@)]
    /\ Goto(s, "head")
    /\ UNCHANGED <<cur_process, ev, read, dst, ended, sent, told, threadVars, faultVars, conn>>

Connect(s, c) ==
    /\ pc[s] = "socket"
    /\ sockets[dst[s]] = <<>>
    /\ dst[s] \in running /\ Fresh(c)
    /\ conn' = [conn EXCEPT ![c] = Opened(dst[s])]
    /\ sockfd' = [sockfd EXCEPT ![s] = c]
    /\ Goto(s, "head")
    /\ UNCHANGED <<cur_process, sockets, ev, read, dst, ended, sent, told, threadVars, faultVars>>

(* The call returns to the handler.                                        *)
Return(s, answer) ==
    /\ told' = [told EXCEPT ![ev[s]] = answer]
    /\ ev' = [ev EXCEPT ![s] = NULL]
    /\ read' = [read EXCEPT ![s] = 0]
    /\ dst' = [dst EXCEPT ![s] = NULL]
    /\ sockfd' = [sockfd EXCEPT ![s] = NULL]
    /\ Goto(s, "idle")
    /\ UNCHANGED <<cur_process, ended, sent, threadVars, faultVars>>

(* No socket left.  A bad address does the same.                           *)
ConnectError(s) ==
    /\ pc[s] = "socket"
    /\ sockets[dst[s]] = <<>>
    /\ \A c \in Conns : ~Fresh(c)
    /\ Return(s, "error")
    /\ UNCHANGED <<sockets, conn>>

(* connect fails, always if the destination does not run.  The socket that *)
(* was made for it is not closed.                                          *)
ConnectRefused(s, c) ==
    /\ pc[s] = "socket"
    /\ sockets[dst[s]] = <<>>
    /\ Fresh(c)
    /\ conn' = [conn EXCEPT ![c] = [Unused EXCEPT !.to = dst[s], !.cli = "open", !.broken = TRUE]]
    /\ Return(s, "unreachable")
    /\ UNCHANGED sockets

(* What is written to a connection whose other end is gone disappears, or  *)
(* the write fails.                                                        *)
Write(s, chunk, next) ==
    /\ conn' = IF CanReachServer(sockfd[s])
               THEN [conn EXCEPT ![sockfd[s]].up = Append(@, <<chunk, ev[s]>>)]
               ELSE conn
    /\ Goto(s, next)
    /\ UNCHANGED <<cur_process, sockets, ev, read, dst, sockfd, ended, sent, told, threadVars, faultVars>>

WriteHead(s) == pc[s] = "head" /\ Write(s, "head", "body")
WriteBody(s) == pc[s] = "body" /\ Write(s, "body", "answer")

CloseClient(c) == conn' = [conn EXCEPT ![c].cli = "closed", ![c].down = <<>>]

(* Mutant: the socket of a failed write goes back to the pool.             *)
WriteErrorPooled(s) ==
    /\ pc[s] \in {"head", "body"}
    /\ ~CanReachServer(sockfd[s])
    /\ sockets' = [sockets EXCEPT ![dst[s]] = Append(@, sockfd[s])]
    /\ Return(s, "silent")
    /\ UNCHANGED conn

(* A failed write closes the socket and returns a negative number of       *)
(* results.  Lua takes that for a yield: the handler does not go on from   *)
(* its call, and is told nothing.                                          *)
WriteError(s) ==
    /\ pc[s] \in {"head", "body"}
    /\ ~CanReachServer(sockfd[s])
    /\ CloseClient(sockfd[s])
    /\ Return(s, "silent")
    /\ UNCHANGED sockets

(* A socket that was answered with 1 goes back to the pool, whose queue is *)
(* not bounded; with any other answer it is neither closed nor kept.       *)
ReadAnswer(s) ==
    LET c == sockfd[s] IN
    /\ pc[s] = "answer"
    /\ conn[c].down # <<>>
    /\ conn' = [conn EXCEPT ![c].down = Tail(@)]
    /\ IF Head(conn[c].down) = 1
       THEN /\ sockets' = [sockets EXCEPT ![dst[s]] = Append(@, c)]
            /\ Return(s, "yes")
       ELSE /\ UNCHANGED sockets
            /\ Return(s, "refused")

(* Mutant: the socket is not closed.                                       *)
ReadFailedOpen(s) ==
    LET c == sockfd[s] IN
    /\ pc[s] = "answer"
    /\ conn[c].down = <<>>
    /\ conn[c].broken \/ conn[c].srv = "closed"
    /\ Return(s, "error")
    /\ UNCHANGED <<sockets, conn>>

(* read returned 0 or an error: the answer will never come.                *)
ReadFailed(s) ==
    LET c == sockfd[s] IN
    /\ pc[s] = "answer"
    /\ conn[c].down = <<>>
    /\ conn[c].broken \/ conn[c].srv = "closed"
    /\ CloseClient(c)
    /\ Return(s, "error")
    /\ UNCHANGED sockets

(* leda_event_end_t, after the workers were joined: the pooled sockets are *)
(* closed.                                                                 *)
EventEnd ==
    /\ ~ended
    /\ \A s \in Senders : pc[s] = "idle"
    /\ ended' = TRUE
    /\ conn' = [c \in Conns |->
                  IF \E d \in Procs : c \in Range(sockets[d])
                  THEN [conn[c] EXCEPT !.cli = "closed", !.down = <<>>]
                  ELSE conn[c]]
    /\ sockets' = [d \in Procs |-> <<>>]
    /\ UNCHANGED <<cur_process, pc, ev, read, dst, sockfd, sent, told, threadVars, faultVars>>

-----------------------------------------------------------------------------
(* The event thread of a destination d, which does one thing at a time.    *)

Free(d) == d \in running /\ reading[d] = NULL

UsedFds(d) == {conn[c].fd : c \in {b \in Conns : conn[b].to = d /\ conn[b].srv = "open"}}

(* The lowest descriptor that is not open.                                 *)
NewFd(d) == Min(Conns \ UsedFds(d))

(* event_add of a descriptor that still has an event, since do_read closes *)
(* without event_del, does not make libevent watch it again: epoll forgot  *)
(* the descriptor when it was closed and is not told of the new one.       *)
Accept(d, c) ==
    LET fd == NewFd(d) IN
    /\ Free(d)
    /\ conn[c].to = d /\ conn[c].srv = "queued"
    /\ IF fd > FD_SETSIZE
       THEN /\ conn' = [conn EXCEPT ![c].srv = "closed", ![c].up = <<>>]
            /\ UNCHANGED registered
       ELSE /\ conn' = [conn EXCEPT ![c].srv = "open", ![c].fd = fd,
                                    ![c].watched = fd \notin registered[d]]
            /\ registered' = [registered EXCEPT ![d] = @ \cup {fd}]
    /\ UNCHANGED <<senderVars, faultVars, reading, accepted>>

(* do_read closes the descriptor, having written these answers before.     *)
CloseServer(c, answers) ==
    conn' = [conn EXCEPT ![c].srv = "closed", ![c].fd = 0, ![c].watched = FALSE,
                         ![c].up = <<>>,
                         ![c].down = IF CanReachClient(c) THEN @ \o answers ELSE @]

Ready(d, c) == Free(d) /\ conn[c].to = d /\ conn[c].srv = "open" /\ conn[c].watched

(* The header of an event: its body is read next, whatever else happens.   *)
ReadHeader(d, c) ==
    /\ Ready(d, c)
    /\ conn[c].up # <<>>
    /\ Head(conn[c].up)[1] = "head"
    /\ Head(conn[c].up)[2] \notin HugeEvents
    /\ conn' = [conn EXCEPT ![c].up = Tail(@)]
    /\ reading' = [reading EXCEPT ![d] = c]
    /\ UNCHANGED <<senderVars, faultVars, registered, accepted>>

(* Mutant: read_event returns 0 for a length that is not positive.         *)
RejectHeaderOpen(d, c) ==
    /\ Ready(d, c)
    /\ conn[c].up # <<>>
    /\ LET h == Head(conn[c].up) IN
       \/ /\ h[1] = "head" /\ h[2] \in HugeEvents
          /\ conn' = [conn EXCEPT ![c].up = <<>>]
       \/ h[1] = "init" /\ CloseServer(c, <<4>>)
       \/ h[1] = "junk" /\ CloseServer(c, <<3>>)
    /\ UNCHANGED <<senderVars, faultVars, threadVars>>

(* A header that ends the connection: an event too long, with no answer,   *)
(* INIT_TYPE, or any other first byte.                                     *)
RejectHeader(d, c) ==
    /\ Ready(d, c)
    /\ conn[c].up # <<>>
    /\ LET h == Head(conn[c].up) IN
       \/ h[1] = "head" /\ h[2] \in HugeEvents /\ CloseServer(c, <<>>)
       \/ h[1] = "init" /\ CloseServer(c, <<4>>)
       \/ h[1] = "junk" /\ CloseServer(c, <<3>>)
    /\ UNCHANGED <<senderVars, faultVars, threadVars>>

(* read returned 0 or an error where a header was expected.                *)
HeaderFailed(d, c) ==
    /\ Ready(d, c)
    /\ conn[c].up = <<>>
    /\ conn[c].broken \/ conn[c].cli = "closed"
    /\ CloseServer(c, <<>>)
    /\ UNCHANGED <<senderVars, faultVars, threadVars>>

(* The body is complete: emmit_packed_event accepts the event or finds the *)
(* queue of the stage full, and its result is answered.  A write that      *)
(* fails ends the connection.                                              *)
Answer(c, code) ==
    \/ /\ CanReachClient(c)
       /\ conn' = [conn EXCEPT ![c].up = Tail(@), ![c].down = Append(@, code)]
    \/ ~CanReachClient(c) /\ conn' = [conn EXCEPT ![c].up = Tail(@)]
    \/ ~CanReachClient(c) /\ CloseServer(c, <<>>)

(* Mutant: the answer does not depend on what emmit_packed_event returned. *)
ReadBodyAlwaysYes(d) ==
    LET c == reading[d] IN
    /\ c # NULL
    /\ conn[c].up # <<>>
    /\ \/ accepted' = [accepted EXCEPT ![Head(conn[c].up)[2]] = @ + 1]
       \/ UNCHANGED accepted
    /\ Answer(c, 1)
    /\ reading' = [reading EXCEPT ![d] = NULL]
    /\ UNCHANGED <<senderVars, faultVars, registered>>

ReadBody(d) ==
    LET c == reading[d] IN
    /\ c # NULL
    /\ conn[c].up # <<>>
    /\ \/ /\ accepted' = [accepted EXCEPT ![Head(conn[c].up)[2]] = @ + 1]
          /\ Answer(c, 1)
       \/ Answer(c, 2) /\ UNCHANGED accepted
    /\ reading' = [reading EXCEPT ![d] = NULL]
    /\ UNCHANGED <<senderVars, faultVars, registered>>

(* The connection ends inside an event.                                    *)
BodyFailed(d) ==
    LET c == reading[d] IN
    /\ c # NULL
    /\ conn[c].up = <<>>
    /\ conn[c].broken \/ conn[c].cli = "closed"
    /\ CloseServer(c, <<>>)
    /\ reading' = [reading EXCEPT ![d] = NULL]
    /\ UNCHANGED <<senderVars, faultVars, registered, accepted>>

-----------------------------------------------------------------------------
(* The rest of the world.                                                  *)

(* Another program connects and does not send an event.  "init" is the     *)
(* type INIT_TYPE, which nothing in the repository sends; a graph that     *)
(* process.lua sends to a process that runs already begins with another    *)
(* byte and is "junk".                                                     *)
Stranger(d, c, kind) ==
    /\ faults < MaxFaults
    /\ d \in running /\ Fresh(c)
    /\ conn' = [conn EXCEPT ![c] = [Opened(d) EXCEPT !.up = << <<kind, NULL>> >>,
                                                     !.cli = "stranger"]]
    /\ faults' = faults + 1
    /\ UNCHANGED <<senderVars, threadVars, running>>

(* A connection breaks, and what was on its way may be lost.               *)
Break(c) ==
    /\ faults < MaxFaults
    /\ conn[c].to # NULL /\ ~conn[c].broken
    /\ \E m \in 0..Len(conn[c].up), n \in 0..Len(conn[c].down) :
         conn' = [conn EXCEPT ![c].broken = TRUE, ![c].up = SubSeq(@, 1, m),
                              ![c].down = SubSeq(@, 1, n)]
    /\ faults' = faults + 1
    /\ UNCHANGED <<senderVars, threadVars, running>>

Crash(d) ==
    /\ faults < MaxFaults
    /\ d \in running
    /\ running' = running \ {d}
    /\ conn' = [c \in Conns |->
                  IF conn[c].to = d
                  THEN [conn[c] EXCEPT !.srv = "closed", !.fd = 0, !.watched = FALSE,
                                         !.up = <<>>, !.broken = TRUE]
                  ELSE conn[c]]
    /\ registered' = [registered EXCEPT ![d] = {}]
    /\ reading' = [reading EXCEPT ![d] = NULL]
    /\ faults' = faults + 1
    /\ UNCHANGED <<senderVars, accepted>>

Restart(d) ==
    /\ d \notin running
    /\ running' = running \cup {d}
    /\ UNCHANGED <<senderVars, threadVars, faults, conn>>

SenderStep(s) ==
    \/ StoreCur(s) \/ PopSocket(s) \/ ConnectError(s)
    \/ \E c \in Conns : Connect(s, c) \/ ConnectRefused(s, c)
    \/ WriteHead(s) \/ WriteBody(s) \/ WriteError(s)
    \/ ReadAnswer(s) \/ ReadFailed(s)

ThreadStep(d, c) == Accept(d, c) \/ ReadHeader(d, c) \/ RejectHeader(d, c) \/ HeaderFailed(d, c)
BodyStep(d) == ReadBody(d) \/ BodyFailed(d)

Next ==
    \/ \E s \in Senders : SenderStep(s) \/ \E e \in Events : EmmitRemoteSync(s, e)
    \/ EventEnd
    \/ \E d \in Procs, c \in Conns : ThreadStep(d, c)
    \/ \E d \in Procs : BodyStep(d) \/ Crash(d) \/ Restart(d)
    \/ \E d \in Procs, c \in Conns : Stranger(d, c, "init") \/ Stranger(d, c, "junk")
    \/ \E c \in Conns : Break(c)

(* Workers are scheduled, and libevent serves every descriptor it watches; *)
(* nothing is owed by the network.                                         *)
Fairness ==
    /\ \A s \in Senders : WF_vars(SenderStep(s))
    /\ \A d \in Procs : WF_vars(BodyStep(d))
    /\ \A d \in Procs, c \in Conns : WF_vars(ThreadStep(d, c))

Spec == Init /\ [][Next]_vars /\ Fairness

-----------------------------------------------------------------------------
Chunks == {"head", "body", "init", "junk"} \X (Events \cup {NULL})

(* The values of the variables.  The round robin counter stays an index of *)
(* the cluster's processes.                                                *)
TypeOK ==
    /\ cur_process \in 0..(Len(Processes) - 1)
    /\ sockets \in [Procs -> Seq(Conns)]
    /\ pc \in [Senders -> {"idle", "store", "socket", "head", "body", "answer"}]
    /\ ev \in [Senders -> Events \cup {NULL}]
    /\ read \in [Senders -> 0..(Len(Processes) - 1)]
    /\ dst \in [Senders -> Procs \cup {NULL}]
    /\ sockfd \in [Senders -> Conns \cup {NULL}]
    /\ \A c \in Conns :
         /\ conn[c].to \in Procs \cup {NULL}
         /\ conn[c].cli \in {"open", "closed", "stranger"}
         /\ conn[c].srv \in {"queued", "open", "closed"}
         /\ conn[c].up \in Seq(Chunks) /\ conn[c].down \in Seq(1..4)
    /\ registered \in [Procs -> SUBSET Conns]
    /\ reading \in [Procs -> Conns \cup {NULL}]
    /\ running \subseteq Procs
    /\ faults \in 0..MaxFaults
    /\ sent \subseteq Events
    /\ accepted \in [Events -> Nat]

Pooled(c) == {d \in Procs : c \in Range(sockets[d])}
Holders(c) == {s \in Senders : sockfd[s] = c}

(* No socket is used by two senders, or by one while it is in the pool, a  *)
(* pool holds open sockets to its own destination only, and an open socket *)
(* is forgotten only with an event that was refused or whose destination   *)
(* could not be reached (event.c:503, 565), one socket with each.          *)
SocketHeldOnce ==
    /\ \A c \in Conns : Cardinality(Pooled(c)) + Cardinality(Holders(c)) <= 1
    /\ \A d \in Procs :
         /\ IsInjective(sockets[d])
         /\ \A c \in Range(sockets[d]) : conn[c].to = d /\ conn[c].cli = "open"
    /\ Cardinality({c \in Conns : conn[c].cli = "open" /\ Pooled(c) \cup Holders(c) = {}})
         <= Cardinality({e \in Events : told[e] \in {"refused", "unreachable"}})

(* A socket in the pool carries nothing, in neither direction, so that the *)
(* next event cannot be given the answer of another, nor be read as the    *)
(* rest of another.                                                        *)
PoolQuiet ==
    \A c \in Conns : Pooled(c) # {} => conn[c].up = <<>> /\ conn[c].down = <<>>

(* Sending an event keeps the promise of AtMostOnce, whatever breaks.      *)
Promise == INSTANCE AtMostOnce
ImplementsAtMostOnce == Promise!Init /\ [][Promise!Next]_Promise!vars

Deaf(c) == c # NULL /\ conn[c].srv = "open" /\ ~conn[c].watched

(* A call that sends an event ends, whatever breaks, unless the            *)
(* destination gave the connection a descriptor that it had closed before  *)
(* without telling libevent (event.c:651); then it waits for ever.         *)
SendEnds == \A s \in Senders : pc[s] # "idle" ~> (pc[s] = "idle" \/ Deaf(sockfd[s]))
=============================================================================
