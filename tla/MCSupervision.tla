---------------------------- MODULE MCSupervision ----------------------------
(* An instance of Supervision: one attempt directory, a session that may crash
   at any step and one or two that follow. *)
EXTENDS Supervision

CONSTANT w1
=============================================================================
