--------------------------- MODULE MCLockedQueue ----------------------------
(* Model-checking instances of LockedQueue. *)
EXTENDS LockedQueue, TLC

CONSTANTS t1, t2, t3, e1, e2, e3

TwoThreads == {t1, t2}
ThreeThreads == {t1, t2, t3}
E12 == {e1, e2}
E123 == {e1, e2, e3}

AllOps == {"push", "try_push", "pop", "try_pop"}
TryOps == {"try_push", "try_pop"}
ReadyOps == {"try_push", "pop"}

MinusOne == -1
NoCapacities == {}
Raise == {2}
Roomy == {-1, 4}
=============================================================================
