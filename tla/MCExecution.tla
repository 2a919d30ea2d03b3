---------------------------- MODULE MCExecution ----------------------------
(* A small instance of Execution: two jobs of one build, one of which is    *)
(* tried twice.                                                            *)
EXTENDS Execution, TLC

CONSTANTS j1, j2

MCExpectedHead == [j \in Jobs |-> 0]
MCMaxAttempts == j1 :> 2 @@ j2 :> 1
MCRetryClasses == j1 :> {"transient"} @@ j2 :> {}
Interchangeable == Permutations(AttemptIds) \cup Permutations(Sessions)
=============================================================================
