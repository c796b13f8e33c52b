---------------------------- MODULE MCSpendLedger ----------------------------
EXTENDS SpendLedger, TLC

Symmetry == Permutations(Op)
=============================================================================
