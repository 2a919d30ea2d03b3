----------------------------- MODULE MCRegistry -----------------------------
(* Planning and the registry together, over the sites of MCPlanning. *)
EXTENDS Registry, MCPlanning
=============================================================================
