---------------------------- MODULE MCDispatcher ----------------------------
(* An instance of Dispatcher: two jobs, the first of which is tried twice.
   Either they run together, or the second reads the first, with a provider
   and another build in the way. *)
EXTENDS Dispatcher, TLC

CONSTANTS j1, j2

PairOrder == <<j1, j2>>
PairBudget == j1 :> 2 @@ j2 :> 1
PairStarts ==
    {[parents |-> j1 :> {} @@ j2 :> {}, foreign |-> FALSE, occupied |-> 0],
     [parents |-> j1 :> {} @@ j2 :> {j1}, foreign |-> TRUE, occupied |-> 2]}
=============================================================================
