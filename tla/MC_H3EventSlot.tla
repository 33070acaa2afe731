--------------------------- MODULE MC_H3EventSlot ---------------------------
(* Model-checking instance of H3EventSlot.  Threads and sessions are sets *)
(* of model values given in the .cfg files.                              *)
EXTENDS H3EventSlot, TLC

\* Threads and sessions are only compared for equality, so they are
\* interchangeable.
Symmetry == Permutations(Threads) \cup Permutations(Sessions)
=============================================================================
