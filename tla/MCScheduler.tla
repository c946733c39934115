----------------------------- MODULE MCScheduler -----------------------------
(* Small instances of Scheduler for TLC. *)
EXTENDS Scheduler, TLC

WorkerSymmetry == Permutations(Workers)

NoPairs   == {}
OneFour   == {<<1, 4>>}
OneThree  == {<<1, 3>>}
TwoThree  == {<<2, 3>>}
ThreeFour == {<<3, 4>>}
==============================================================================
