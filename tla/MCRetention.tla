---------------------------- MODULE MCRetention ----------------------------
(* Instances of Retention. *)
EXTENDS Retention, TLC

Symmetric == Permutations(Digests) \cup Permutations(Versions)
============================================================================
