---------------------------- MODULE MCScheduler -----------------------------
(***************************************************************************)
(* Instances of Scheduler for TLC: every session makes every call.         *)
(***************************************************************************)
EXTENDS Scheduler, TLC

CONSTANTS j1, n1, n2, api, worker

AllCalls == [s \in Sessions |-> Kinds]

AllSymmetry == Permutations(Nodes) \cup Permutations(Sessions)
=============================================================================
