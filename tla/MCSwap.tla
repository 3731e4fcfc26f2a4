------------------------------- MODULE MCSwap -------------------------------
EXTENDS Swap, TLC

Symmetry == Permutations(Threads) \cup Permutations(Frames)
              \cup Permutations(Slots)
=============================================================================
