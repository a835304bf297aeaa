---------------------------- MODULE MCPromotion ----------------------------
EXTENDS Promotion, TLC

Symmetry == Permutations(RowId) \cup Permutations(Proc)
=============================================================================
