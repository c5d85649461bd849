-------------------------- MODULE MCActionExecution --------------------------
(***************************************************************************)
(* Small instances of ActionExecution.  One scenario is where everything   *)
(* that interacts meets; the second action is accepted once the first has  *)
(* settled, while workers of the first may still be running.               *)
(***************************************************************************)
EXTENDS ActionExecution, TLC

CONSTANTS a1, a2, s1, w1, w2

MCScenarioOf == [a \in Action |-> s1]
WorkerSymmetry == Permutations(Worker)
=============================================================================
