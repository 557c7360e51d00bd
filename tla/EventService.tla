---------------------------- MODULE EventService ----------------------------
(***************************************************************************)
(* What a Leda process promises those who emit events.  An event is        *)
(* emitted to one stage and stays with it: it is given to an instance of   *)
(* that stage at once, waits in the stage's pending queue, or is refused   *)
(* while its emitter still waits for the answer.  Pending events leave in  *)
(* the order in which they came.  Only what an instance was given is ever  *)
(* done or failed, and then for good.                                      *)
(***************************************************************************)
EXTENDS Sequences

CONSTANTS Events, Stages

VARIABLES
    fate,      \* what became of each event
    offered,   \* the events each stage is being asked to take
    pending,   \* the events that wait for an instance, oldest first
    working    \* the events its instances were given

vars == <<fate, offered, pending, working>>

Init ==
    /\ fate = [e \in Events |-> "new"]
    /\ offered = [s \in Stages |-> {}]
    /\ pending = [s \in Stages |-> <<>>]
    /\ working = [s \in Stages |-> {}]

Emit(e, s) ==
    /\ fate[e] = "new"
    /\ fate' = [fate EXCEPT ![e] = "sent"]
    /\ offered' = [offered EXCEPT ![s] = @ \cup {e}]
    /\ UNCHANGED <<pending, working>>

(* The event is no longer on offer.                                        *)
Settled(e, s) ==
    /\ e \in offered[s]
    /\ offered' = [offered EXCEPT ![s] = @ \ {e}]

Deliver(e, s) ==
    /\ Settled(e, s)
    /\ working' = [working EXCEPT ![s] = @ \cup {e}]
    /\ UNCHANGED <<fate, pending>>

Postpone(e, s) ==
    /\ Settled(e, s)
    /\ pending' = [pending EXCEPT ![s] = Append(@, e)]
    /\ UNCHANGED <<fate, working>>

Refuse(e, s) ==
    /\ Settled(e, s)
    /\ fate' = [fate EXCEPT ![e] = "rejected"]
    /\ UNCHANGED <<pending, working>>

Take(s) ==
    /\ pending[s] # <<>>
    /\ working' = [working EXCEPT ![s] = @ \cup {Head(pending[s])}]
    /\ pending' = [pending EXCEPT ![s] = Tail(@)]
    /\ UNCHANGED <<fate, offered>>

(* An instance is finished with all it was given.                          *)
Finish(s, es, f) ==
    /\ es \subseteq working[s]
    /\ fate' = [e \in Events |-> IF e \in es THEN f ELSE fate[e]]
    /\ working' = [working EXCEPT ![s] = @ \ es]
    /\ UNCHANGED <<offered, pending>>

Next ==
    \E s \in Stages :
      \/ \E e \in Events : Emit(e, s) \/ Deliver(e, s) \/ Postpone(e, s) \/ Refuse(e, s)
      \/ Take(s)
      \/ \E es \in SUBSET working[s], f \in {"done", "failed"} : Finish(s, es, f)

Spec == Init /\ [][Next]_vars
=============================================================================
