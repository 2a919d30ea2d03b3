--------------------------- MODULE MCPublication ---------------------------
(* Instances of Publication.  "Rival": a build of two jobs, the second reads
   the first's output, a build of one job and an import; three of the four
   write the same target.  "Chain": the build of two jobs alone, with retries
   and more owners. *)
EXTENDS Publication, TLC

CONSTANTS b1, b2, j1, j2, j3, t1, t2

RivalBuildOf == j1 :> b1 @@ j2 :> b1 @@ j3 :> b2
RivalTargetOf == j1 :> t1 @@ j2 :> t2 @@ j3 :> t1
RivalUpstream == j1 :> {} @@ j2 :> {j1} @@ j3 :> {}

============================================================================
