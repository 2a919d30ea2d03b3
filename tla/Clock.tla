-------------------------------- MODULE Clock --------------------------------
(***************************************************************************)
(* Clock leaves of triggers: which instants a cron leaf intends            *)
(* (crates/tf-schedule/src/cron.rs), what one observation of the clock     *)
(* plans to do about them, and what becomes of the rows it writes          *)
(* (crates/tf-store/src/schedule_clock.rs).                                *)
(*                                                                         *)
(* The unit of time is the minute.  Of the five fields the minute of the   *)
(* day, the day of the month and the day of the week are kept, each as the *)
(* set of its numbers and whether it was written "*".  A zone is a         *)
(* function from instants to local minutes: a gap is a local minute        *)
(* without an instant, a fold one with two.                                *)
(***************************************************************************)
EXTENDS Integers, Sequences, FiniteSetsExt

CONSTANTS
    Horizon,                  \* the last instant the zones know
    DayLength, MonthLength, WeekLength,
    LongestPass,              \* the most one observation advances: a day
    TickLimit,                \* rows that may be pending
    Crons                     \* Crons[l]: [minute, dom, dow, zone, both] of a clock leaf

ASSUME ClockAssumption ==
    /\ Horizon \in Nat
    /\ {DayLength, MonthLength, WeekLength, LongestPass, TickLimit} \subseteq Nat \ {0}
    /\ \A l \in DOMAIN Crons :
        /\ Crons[l].zone \in [0..Horizon -> Int] /\ Crons[l].both \in BOOLEAN
        /\ Crons[l].minute \subseteq 0..(DayLength - 1)

(***************************************************************************)
(* Which instants are intended                                             *)
(***************************************************************************)
DateOf(cron, instant) == cron.zone[instant] \div DayLength

\* No jump of a zone puts the local date back by more than one day: what the walks
\* below, which visit one date more at each end, take for granted.
ASSUME ZoneAssumption ==
    \A l \in DOMAIN Crons : \A j \in 0..Horizon : \A i \in 0..j :
        DateOf(Crons[l], i) <= DateOf(Crons[l], j) + 1

\* Cron::date: two restricted day fields are alternatives.
OnDate(cron, date) ==
    LET dom == date % MonthLength \in cron.dom.set
        dow == date % WeekLength \in cron.dow.set
    IN  IF cron.dom.all \/ cron.dow.all THEN dom /\ dow ELSE dom \/ dow

\* from_local_datetime: none, one or two instants, and Cron::day's choice.
Resolved(cron, minute) ==
    LET at == {i \in 0..Horizon : cron.zone[i] = minute} IN
    IF cron.both \/ at = {} THEN at ELSE {Min(at)}
OfDay(cron, date) ==
    IF OnDate(cron, date)
      THEN UNION {Resolved(cron, date * DayLength + m) : m \in cron.minute} ELSE {}

\* prepare walks the local dates around the interval, a day more at each end.
Due(cron, from, through) ==
    UNION {OfDay(cron, d) : d \in (DateOf(cron, from) - 1)..(DateOf(cron, through) + 1)}

\* preview: dates are walked until count instants after the given one are
\* known and the date is past the last of them.
Preview(cron, after, count) ==
    LET until(last) == UNION {{i \in OfDay(cron, d) : i > after} : d \in (DateOf(cron, after) - 1)..last}
        first(set) == {i \in set : Cardinality({j \in set : j < i}) < count}
        done(last) == /\ Cardinality(until(last)) >= count
                      /\ last > DateOf(cron, Max(first(until(last))))
        dates == {d \in (DateOf(cron, after) - 1)..(DateOf(cron, Horizon) + 2) : done(d)}
    IN  IF dates = {} THEN {} ELSE first(until(Min(dates)))

(***************************************************************************)
(* One observation                                                         *)
(***************************************************************************)
\* Keys are <<instant, number of the leaf>>; there are at most Whole leaves, so a
\* cursor with that number has seen all of its instant.
Whole == 64
Before(t, u) == t[1] < u[1] \/ (t[1] = u[1] /\ t[2] < u[2])
Latest(keys) == CHOOSE t \in keys : \A u \in keys : u = t \/ Before(u, t)
Oldest(keys, n) == {t \in keys : Cardinality({u \in keys : Before(u, t)}) < n}
InPause(t, quiet) == \E p \in quiet : p[1] < t[1] /\ t[1] <= p[2]

\* prepare: the keys that become rows, those that are ignored or coalesced, and
\* the next cursor.  c = [cursor, paused, quiet, pending].
Prepared(leaves, c, misfire, maxCatchUp, now) ==
    LET through == Min({now, c.cursor[1] + LongestPass})
        due == {t \in UNION {Due(Crons[leaves[k]], c.cursor[1], through) \X {k} : k \in DOMAIN leaves} :
                    Before(c.cursor, t) /\ ~Before(<<through, Whole>>, t)}
        eligible == {t \in due : ~InPause(t, c.quiet)}
        plan(accounted, ticks, coalesced, cursor) ==
            [ticks |-> ticks, coalesced |-> coalesced, cursor |-> cursor,
             ignored |-> accounted \ (ticks \cup coalesced)]
        newest == {t \in eligible : \A u \in eligible : u[2] = t[2] => u[1] <= t[1]}
        limit == Min({maxCatchUp, TickLimit - c.pending})
        taken == Oldest(eligible, limit)
        stop == CHOOSE t \in eligible \ taken : \A u \in eligible \ taken : u = t \/ Before(t, u)
        accounted == {t \in due : Before(t, stop)}
    IN  IF now < c.cursor[1] THEN plan({}, {}, {}, c.cursor)
        ELSE IF c.paused THEN plan(due, {}, {}, <<through, Whole>>)
        ELSE IF misfire = "skip"
          THEN plan(due, {t \in eligible : t[1] > now - 1}, {}, <<through, Whole>>)
        ELSE IF misfire = "coalesce_latest"
          THEN plan(due, newest, eligible \ newest, <<through, Whole>>)
        ELSE IF eligible = taken THEN plan(due, taken, {}, <<through, Whole>>)
        ELSE plan(accounted, taken, {}, IF accounted = {} THEN c.cursor ELSE Latest(accounted))
=============================================================================
