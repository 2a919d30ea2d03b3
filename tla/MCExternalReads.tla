--------------------------- MODULE MCExternalReads ---------------------------
(* Two builds: they read each other's workspace, or both one that nobody owns;
   or one reads a provider with a persistent coordinator. *)
EXTENDS ExternalReads, TLC

CONSTANTS w1, w2, w3
Reads(a, b) == (w1 :> a) @@ (w2 :> b) @@ (w3 :> w3)
Situations == {[reads |-> Reads(w2, w1), persistent |-> {}],
               [reads |-> Reads(w3, w3), persistent |-> {}],
               [reads |-> Reads(w2, w2), persistent |-> {w2}]}
=============================================================================
