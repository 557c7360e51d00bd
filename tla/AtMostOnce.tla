----------------------------- MODULE AtMostOnce ------------------------------
(***************************************************************************)
(* What sending an event to another process promises the sender: the event *)
(* is accepted at most once; "yes" is said of an event that was accepted,  *)
(* "refused" and "unreachable" of one that was not and will not be.  After *)
(* "error", and after the call that says nothing, it may or may not have   *)
(* been accepted, and may still be.                                        *)
(***************************************************************************)
EXTENDS Naturals

CONSTANT Events

VARIABLES
    sent,       \* the events a sender was given
    accepted,   \* how often each was accepted
    told        \* what the sender was told of each event

vars == <<sent, accepted, told>>

Answers == {"none", "yes", "refused", "unreachable", "error", "silent"}

Init == sent = {} /\ accepted = [e \in Events |-> 0] /\ told = [e \in Events |-> "none"]

Send(e) ==
    /\ e \notin sent
    /\ sent' = sent \cup {e}
    /\ UNCHANGED <<accepted, told>>

Accept(e) ==
    /\ e \in sent /\ accepted[e] = 0
    /\ told[e] \in {"none", "error", "silent"}
    /\ accepted' = [accepted EXCEPT ![e] = 1]
    /\ UNCHANGED <<sent, told>>

Tell(e, a) ==
    /\ e \in sent /\ told[e] = "none"
    /\ a = "yes" => accepted[e] = 1
    /\ a \in {"refused", "unreachable"} => accepted[e] = 0
    /\ told' = [told EXCEPT ![e] = a]
    /\ UNCHANGED <<sent, accepted>>

Next == \E e \in Events : Send(e) \/ Accept(e) \/ \E a \in Answers \ {"none"} : Tell(e, a)

Spec == Init /\ [][Next]_vars
=============================================================================
