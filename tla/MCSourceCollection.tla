------------------------- MODULE MCSourceCollection -------------------------
EXTENDS SourceCollection, TLC

ProcessSymmetry == Permutations(Schedulers)
=============================================================================
