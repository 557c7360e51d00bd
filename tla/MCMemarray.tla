------------------------------ MODULE MCMemarray -----------------------------
EXTENDS Memarray, TLC

MCItems == {<<0, 0>>, <<0, 1>>}

(* Arrays, buffers and Lua states are interchangeable.                     *)
Symmetry == Permutations(Arrays) \cup Permutations(Buffers) \cup Permutations(States)
=============================================================================
