----------------------------- MODULE MCPortions -----------------------------
(* The instance of Portions that the run portions checks.                  *)
EXTENDS Portions

\* A short final portion in the first table, and in the second enough
\* portions for a thread to claim two under one lock.
OneShortOneLong == <<{3}, {15}>>

\* The threads of the pool do the same.
ThreadSymmetry == Permutations(Threads)
=============================================================================
