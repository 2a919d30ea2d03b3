---------------------------- MODULE MCScheduler ----------------------------
(* Instances of Scheduler: the situations of the runs. *)
EXTENDS Scheduler, TLC

Rules(overlap, maxPending, delay, window, misfire, maxCatchUp) ==
    [overlap |-> overlap, overlapping |-> FALSE, maxPending |-> maxPending, consecutive |-> 3,
     delay |-> delay, window |-> window, misfire |-> misfire, maxCatchUp |-> maxCatchUp]
On(kind, dataset, pin) == [on |-> kind, dataset |-> dataset, pin |-> pin]
OnSuccess(schedule) == [on |-> "schedule", schedule |-> schedule]
OnTime == [on |-> "clock"]
One(leaf) == <<{leaf}>>

\* first and second turn a into b, and b, or the success of first, into c and,
\* upstream of c, a again: a cycle that the authored targets do not show.
\* left and right build one dataset each when a changes, both when two leaves
\* agree on its version.  broken is asked for by hand.  The others wait for the
\* clock.
MCWatches == "onA" :> On("published", "a", TRUE) @@ "onB" :> On("head", "b", TRUE)
          @@ "anyA" :> On("head", "a", TRUE) @@ "onDone" :> OnSuccess(1)
          @@ "dawn" :> OnTime @@ "dusk" :> OnTime
MCTrigger == "first" :> One("onA") @@ "second" :> <<{"onDone"}, {"onB"}>>
          @@ "left" :> One("anyA") @@ "right" :> One("anyA")
          @@ "skipping" :> <<{"dawn"}, {"anyA"}>> @@ "latest" :> <<{"dawn", "dusk"}>>
          @@ "catching" :> One("dusk") @@ "both" :> <<{"onA", "anyA"}>>
          @@ "broken" :> <<>>
MCClocks == "first" :> <<>> @@ "both" :> <<>> @@ "broken" :> <<>> @@ "second" :> <<>> @@ "left" :> <<>> @@ "right" :> <<>>
         @@ "skipping" :> <<"dawn">> @@ "latest" :> <<"dawn", "dusk">> @@ "catching" :> <<"dusk">>
MCTargets == "first" :> {"b"} @@ "second" :> {"c"} @@ "left" :> {"x"} @@ "right" :> {"y"}
          @@ "skipping" :> {"x"} @@ "latest" :> {"x"} @@ "catching" :> {"x"} @@ "both" :> {"x"}
          @@ "broken" :> {"x"}
MCWrites == "second" :> {"a", "c"} @@ MCTargets
MCReads == "first" :> {"a"} @@ "second" :> {"b"} @@ "left" :> {"a"} @@ "right" :> {"a"}
        @@ "skipping" :> {"a"} @@ "latest" :> {"a"} @@ "catching" :> {"a"} @@ "both" :> {"a"} @@ "broken" :> {"a"}
MCPolicy == "first" :> Rules("queue", 2, 0, None, "skip", 1)
         @@ "second" :> Rules("skip", 2, 1, None, "skip", 1)
         @@ "left" :> Rules("coalesce_latest", 1, 0, None, "skip", 1)
         @@ "right" :> Rules("queue", 2, 0, None, "skip", 1)
         @@ "both" :> Rules("queue", 2, 0, None, "skip", 1)
         @@ "broken" :> Rules("queue", 2, 0, None, "skip", 1)
         @@ "skipping" :> Rules("skip", 1, 0, 1, "skip", 1)
         @@ "latest" :> Rules("queue", 1, 0, None, "coalesce_latest", 1)
         @@ "catching" :> Rules("queue", 1, 0, 3, "catch_up", 1)

MCCatalog ==
    [watches |-> MCWatches, trigger |-> MCTrigger, clocks |-> MCClocks, targets |-> MCTargets,
     writes |-> MCWrites, reads |-> MCReads, policy |-> MCPolicy, broken |-> {"broken"}]

\* Days of two minutes.  At dawn a minute comes twice; at dusk a local minute is
\* missing at the same instant, and later a day and a half repeats.
MCCrons ==
    "dawn" :> [minute |-> {0, 1}, both |-> FALSE,
               dom |-> [all |-> TRUE, set |-> 0..2], dow |-> [all |-> TRUE, set |-> 0..1],
               zone |-> 0 :> 0 @@ 1 :> 1 @@ 2 :> 2 @@ 3 :> 2 @@ 4 :> 3 @@ 5 :> 4 @@ 6 :> 5 @@ 7 :> 6]
 @@ "dusk" :> [minute |-> {0, 1}, both |-> TRUE,
               dom |-> [all |-> FALSE, set |-> {1}], dow |-> [all |-> FALSE, set |-> {0}],
               zone |-> 0 :> 0 @@ 1 :> 1 @@ 2 :> 3 @@ 3 :> 4 @@ 4 :> 5 @@ 5 :> 2 @@ 6 :> 3 @@ 7 :> 4]

Site(initially, others, verdicts, bounds) ==
    [initially |-> initially, definitions |-> {initially[i] : i \in DOMAIN initially},
     others |-> others, commands |-> {}, verdicts |-> verdicts, faults |-> {}, deaths |-> FALSE,
     time |-> bounds[1], outside |-> bounds[2], occurrences |-> bounds[3], epochs |-> 0]
PublishedA == {<<"a", "publication">>}

\* chain: crashes anywhere.  control: one schedule under every command.
\* shared: two schedules write x.  torn: leaves with different versions.  The
\* others: time passes, observed or not, and builds are only ever canceled.
MCSituation ==
    [chain |-> [Site(<<"first", "second">>,
                   PublishedA \cup {<<"a", "cache_reuse">>, <<"b", "publication">>},
                   {"SUCCEEDED"}, <<1, 1, 3>>) EXCEPT !.deaths = TRUE],
     control |-> [Site(<<"left">>, PublishedA, {"SUCCEEDED", "FAILED"}, <<0, 1, 2>>) EXCEPT
                   !.definitions = {"left", "right"}, !.epochs = 1, !.faults = {TRUE},
                   !.commands = {"pause", "resume", "replay", "delete", "save"}],
     latest |-> Site(<<"latest">>, {}, {"CANCELED"}, <<4, 0, 3>>),
     catching |-> Site(<<"catching">>, {}, {"CANCELED"}, <<5, 0, 3>>),
     shared |-> [Site(<<"both", "broken">>, {}, {"CANCELED", "FAILED"}, <<0, 0, 2>>) EXCEPT !.commands = {"run", "delete"}],
     torn |-> Site(<<"both">>, PublishedA \cup {<<"a", "cache_reuse">>}, {"SUCCEEDED"}, <<0, 2, 1>>),
     skipping |-> [Site(<<"skipping">>, {}, {"CANCELED"}, <<3, 0, 2>>) EXCEPT
                   !.commands = {"pause", "resume"}]]

\* starve: two schedules without anything in common.
StarveSituation ==
    [starve |-> [Site(<<"left", "right">>, {}, {"SUCCEEDED"}, <<0, 0, 3>>) EXCEPT
                   !.commands = {"run"}, !.deaths = TRUE]]
============================================================================
