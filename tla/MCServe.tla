------------------------------ MODULE MCServe ------------------------------
(* Three deliveries at a time: retries, rivals and other digests of a key. *)
EXTENDS Serve, TLC
CONSTANTS c1, c2, c3, k1, k2, k3
Cores == ("jobs" :> 2 @@ "cpu" :> 2)
Asks == [r \in {k1, k2, k3, c2, c3} |-> "jobs" :> 1 @@ "cpu" :> IF r \in {k1, k2, k3} THEN 2 ELSE 1]
Ask(kind, key, etag) == [kind |-> kind, key |-> key, etag |-> etag, via |-> "http"]
Cli(kind, key, etag) == [kind |-> kind, key |-> key, etag |-> etag, via |-> "cli"]
Three(x, y, z) == (c1 :> x @@ c2 :> y @@ c3 :> z)
Situations == {
    Three(Ask("mutate", k1, 0), Ask("mutate", k1, 0), Ask("mutate", k2, 0)),
    Three(Ask("mutate", k1, 0), Ask("mutate", k1, 1), Cli("submit", k2, 0)),
    Three(Ask("schedule", k1, 0), Ask("schedule", k1, 0), Cli("schedule", k2, 0)),
    Three(Ask("schedule", k1, 0), Ask("schedule", k1, 1), Cli("submit", k2, 0)),
    Three(Ask("cancel", k1, 0), Ask("cancel", k1, 0), Ask("cancel", k2, 1)),
    Three(Ask("schedule", k1, 0), Ask("cancel", k1, 0), Cli("schedule", k1, 0)),
    Three(Ask("query", k1, 0), Ask("stop", k1, 0), Ask("results", k1, 0)),
    Three(Ask("query", k1, 0), Ask("query", k2, 0), Ask("query", k3, 1)),
    Three(Ask("query", k1, 0), Ask("query", k1, 1), Ask("stop", k1, 0)),
    Three(Ask("query", k1, 2), Cli("submit", k2, 0), Cli("submit", k2, 0)),
    Three(Ask("query", k1, 1), Ask("stop", k1, 0), Cli("submit", k2, 0)) }
=============================================================================
