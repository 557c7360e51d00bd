------------------------------ MODULE MCKernel ------------------------------
(* Model-checking instances of Kernel. *)
EXTENDS Kernel, TLC

CONSTANTS w1, w2, i1, i2, i3, i4, e1, e2, e3, e4, A, B

OneWorker == {w1}
TwoWorkers == {w1, w2}
SerialA == {A}
StagesA == {A}
StagesAB == {A, B}
Inst2 == {i1, i2}
Inst3 == {i1, i2, i3}
Inst4 == {i1, i2, i3, i4}
None == {}

MinusOne == -1
E1 == {e1}
E2 == {e2}
E3 == {e3}
E12 == {e1, e2}
E4 == {e4}
E34 == {e3, e4}
E123 == {e1, e2, e3}
E23 == {e2, e3}

NiceSleep == {"NICE", "SLEEP"}
CooperativeCalls == {"NICE", "SLEEP", "EMMIT_COHORT", "get_event"}
QuitCalls == {"NICE", "SLEEP", "quit"}
SenderCalls == {"SLEEP", "PCALL_ERROR"}
Caps0 == {0}
Caps1 == {1}
Caps2 == {2}
AllCalls == {"init_error", "EMMIT_COHORT", "NICE", "SLEEP", "WAIT_IO", "FILE_IO",
             "PCALL_ERROR", "DESTROY", "UNKNOWN", "quit", "wait_event", "get_event"}

SymInst3 == Permutations({i1, i2, i3})
SymInst4 == Permutations(Inst4)
SymBoth == Permutations({i1, i2, i3}) \cup Permutations({w1, w2})
=============================================================================
