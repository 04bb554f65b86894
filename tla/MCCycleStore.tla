---------------------------- MODULE MCCycleStore ----------------------------
EXTENDS CycleStore, TLC

WriterSymmetry == Permutations(Writers \ Creators)
=============================================================================
