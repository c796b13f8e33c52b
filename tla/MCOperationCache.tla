-------------------------- MODULE MCOperationCache --------------------------
(***************************************************************************)
(* A cache for one result, two reservations, two slots, a budget for one   *)
(* operation; names of operations and keys are interchangeable.            *)
(***************************************************************************)
EXTENDS OperationCache, TLC

CONSTANTS o1, o2, k1, k2, k3

\* Without is SelectSeq, seen over every short sequence.
ASSUME WithoutSelects ==
    \A len \in 0..4 : \A seq \in [1..len -> 1..3] : \A gone \in SUBSET (1..3) :
        Without(seq, gone) = SelectSeq(seq, LAMBDA e : e \notin gone)

Symmetry == Permutations(Op) \cup Permutations(Key)
=============================================================================
