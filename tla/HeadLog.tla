------------------------------ MODULE HeadLog ------------------------------
(***************************************************************************)
(* What publication promises to those who read a head: every target has a  *)
(* log of versions; a step appends one version to one log.  A version is   *)
(* new when it is published and belongs to one log; what may be appended   *)
(* again is an older version of the same log (cache reuse), never the one  *)
(* that is current already.  Nothing is removed, skipped or rewritten.     *)
(***************************************************************************)
EXTENDS Naturals, Sequences

CONSTANTS Targets, Versions

VARIABLE log

Entries(t) == {log[t][n] : n \in 1..Len(log[t])}

Init == log = [t \in Targets |-> <<>>]

Publish(t, v) ==
    /\ \A u \in Targets : v \notin Entries(u)
    /\ log' = [log EXCEPT ![t] = Append(@, v)]

Reuse(t, v) ==
    /\ v \in Entries(t) /\ v # log[t][Len(log[t])]
    /\ log' = [log EXCEPT ![t] = Append(@, v)]

Next == \E t \in Targets, v \in Versions : Publish(t, v) \/ Reuse(t, v)

Spec == Init /\ [][Next]_log
============================================================================
