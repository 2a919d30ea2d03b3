-------------------------- MODULE SchedulerProofs --------------------------
(* What the module Scheduler promises, for every catalogue of schedules, every
   situation and every bound. *)
EXTENDS Scheduler, FiniteSetTheorems, SequenceTheorems, TLAPS

-----------------------------------------------------------------------------
(* Numbers and lists. *)

LEMMA LeastNat ==
  ASSUME NEW T, T \subseteq Nat, T # {}
  PROVE  \E n \in T : \A m \in T : n <= m
<1> DEFINE R == OpToRel(<, Nat)
<1>1. IsWellFoundedOn(R, Nat)
  BY NatLessThanWellFounded
<1>2. \A p \in Nat, q \in Nat : <<p, q>> \in R <=> p < q
  BY DEF OpToRel
<1> HIDE DEF R
<1>3. PICK n \in T : \A m \in T : ~(<<m, n>> \in R)
  BY <1>1, WFMin
<1>4. ASSUME NEW m \in T PROVE n <= m
  <2>1. n \in Nat /\ m \in Nat
    OBVIOUS
  <2>2. ~(<<m, n>> \in R)
    BY <1>3
  <2>3. <<m, n>> \in R <=> m < n
    BY <1>2, <2>1
  <2> QED
    BY <2>1, <2>2, <2>3
<1> QED
  BY <1>4

\* Induction, for a set instead of a predicate.
LEMMA SetInduction ==
  ASSUME NEW S, 0 \in S, \A n \in Nat : n \in S => n + 1 \in S
  PROVE  Nat \subseteq S
<1> DEFINE T == {n \in Nat : n \notin S}
<1> SUFFICES ASSUME T # {} PROVE FALSE
  OBVIOUS
<1>1. PICK n \in T : \A m \in T : n <= m
  BY LeastNat
<1>2. n # 0 /\ n - 1 \in Nat /\ n - 1 \in S
  BY <1>1
<1> QED
  BY <1>1, <1>2

LEMMA MinOf ==
  ASSUME NEW T, T \subseteq Nat, T # {}
  PROVE  Min(T) \in T /\ \A m \in T : Min(T) <= m
<1>1. \E n \in T : \A m \in T : n <= m
  BY LeastNat
<1> QED
  BY <1>1 DEF Min

LEMMA MaxOf ==
  ASSUME NEW n \in Nat, NEW T, T \subseteq 0..n, T # {}
  PROVE  Max(T) \in T /\ \A m \in T : m <= Max(T)
<1> DEFINE U == {n - m : m \in T}
<1>1. U \subseteq Nat /\ U # {}
  OBVIOUS
<1>2. PICK u \in U : \A v \in U : u <= v
  BY <1>1, LeastNat
<1>3. PICK x \in T : u = n - x
  OBVIOUS
<1>4. \A m \in T : m <= x
  BY <1>2, <1>3
<1>5. \E y \in T : \A m \in T : y >= m
  BY <1>4
<1> QED
  BY <1>5 DEF Max

\* A table: rows numbered from one.
Listed(q) == Len(q) \in Nat /\ q = [i \in 1..Len(q) |-> q[i]]

LEMMA ListedBy ==
  ASSUME NEW n \in Nat, NEW q, q = [i \in 1..n |-> q[i]]
  PROVE  Listed(q) /\ Len(q) = n
<1> DEFINE S == {q[i] : i \in 1..n}
<1>1. q \in [1..n -> S]
  OBVIOUS
<1>2. q \in Seq(S)
  BY <1>1, SeqDef
<1>3. Len(q) = n
  BY <1>1, <1>2, LenProperties
<1> QED
  BY <1>3 DEF Listed

LEMMA ListedEmpty == Listed(<<>>) /\ Len(<<>>) = 0
<1>1. <<>> \in Seq({}) /\ Len(<<>>) = 0
  BY EmptySeq
<1>2. DOMAIN <<>> = 1..0 /\ <<>> \in [1..0 -> {}]
  BY <1>1, LenProperties
<1> QED
  BY <1>1, <1>2 DEF Listed

LEMMA ListedAppend ==
  ASSUME NEW q, Listed(q), NEW x
  PROVE  /\ Listed(Append(q, x)) /\ Len(Append(q, x)) = Len(q) + 1
         /\ Append(q, x)[Len(q) + 1] = x
         /\ \A i \in 1..Len(q) : Append(q, x)[i] = q[i]
<1> DEFINE S == {q[i] : i \in 1..Len(q)} \cup {x}
<1>1. q \in [1..Len(q) -> S] /\ Len(q) \in Nat
  BY DEF Listed
<1>2. q \in Seq(S)
  BY <1>1, SeqDef
<1> HIDE DEF S
<1>3. x \in S
  BY DEF S
<1>4. /\ Append(q, x) \in Seq(S) /\ Len(Append(q, x)) = Len(q) + 1
      /\ Append(q, x)[Len(q) + 1] = x
      /\ \A i \in 1..Len(q) : Append(q, x)[i] = q[i]
  BY <1>2, <1>3, AppendProperties
<1>5. Append(q, x) = [i \in 1..Len(Append(q, x)) |-> Append(q, x)[i]]
  BY <1>4, LenProperties
<1> QED
  BY <1>1, <1>4, <1>5 DEF Listed

LEMMA SeqListed ==
  ASSUME NEW S, NEW q \in Seq(S)
  PROVE  Listed(q) /\ \A i \in 1..Len(q) : q[i] \in S
BY LenProperties DEF Listed

-----------------------------------------------------------------------------
(* What holds of the tables, whatever the step. *)

Columns == {"schedule", "epoch", "manual", "fire", "evidence", "def", "build", "disposition"}
BuildColumns == {"occurrence", "state", "published", "finished"}
ScheduleColumns ==
  {"def", "paused", "review", "deleted", "epoch", "cursor", "since", "muted", "pausedAt", "quiet"}
ClockColumns == {"cursor", "ignored", "coalesced", "rows"}

\* A token that names an instant of the zones, or one of the first n events.
Stands(t, n) ==
  /\ t = <<t[1], t[2]>> /\ t[1] \in Leaves
  /\ IF OnClock(t) THEN t[2] \in 0..Horizon ELSE t[2] \in 1..n
AllStand(T, n) == \A t \in T : Stands(t, n)

Request(r, n) ==
  DOMAIN r = Columns /\ r.def \in Definitions /\ AllStand(r.evidence, n)

\* Rows name rows that are there.
History ==
  /\ site \in DOMAIN Situation /\ now \in Nat
  /\ Listed(events) /\ Listed(occurrences) /\ Listed(builds)
  /\ \A e \in 1..Len(events) : events[e].build \in 0..Len(builds) /\ events[e].at \in 0..now
  /\ \A o \in 1..Len(occurrences) :
        Request(occurrences[o], Len(events)) /\ occurrences[o].build \in 0..Len(builds)
  /\ \A b \in 1..Len(builds) :
        DOMAIN builds[b] = BuildColumns /\ builds[b].occurrence \in 1..Len(occurrences)

InPass ==
  /\ next \in Schedules /\ batch \subseteq 1..Len(occurrences)
  /\ phase \in {"accept", "refuse"} => current \in 1..Len(occurrences)

KeyStands(r, d) ==
  /\ DOMAIN r = {"key", "state"}
  /\ r.key = <<r.key[1], r.key[2]>> /\ r.key[1] \in 0..Horizon /\ r.key[2] \in DOMAIN Clocks[d]

\* What a schedule observes is there, too.
Watching(s) ==
  /\ DOMAIN schedules[s] = ScheduleColumns /\ schedules[s].def \in Definitions
  /\ schedules[s].cursor \in 0..Len(events)
  /\ DOMAIN clocks[s] = ClockColumns
  /\ \A r \in clocks[s].rows : KeyStands(r, schedules[s].def)
  /\ AllStand(tokens[s], Len(events))
  /\ Here.commands = {} => ~schedules[s].paused /\ schedules[s].muted = {}
Observers ==
  /\ schedules = [s \in Schedules |-> schedules[s]]
  /\ clocks = [s \in Schedules |-> clocks[s]]
  /\ tokens = [s \in Schedules |-> tokens[s]]
  /\ \A s \in Schedules : Watching(s)

-----------------------------------------------------------------------------
(* How the tables go on. *)

SameRequest(r, q) ==
  /\ r.schedule = q.schedule /\ r.epoch = q.epoch /\ r.manual = q.manual /\ r.def = q.def
  /\ r.evidence = q.evidence
Grown(q, r, n) ==
  /\ Listed(r) /\ Len(q) <= Len(r)
  /\ \A o \in 1..Len(q) : DOMAIN r[o] = Columns /\ SameRequest(r[o], q[o])
  /\ \A o \in (Len(q) + 1)..Len(r) : Request(r[o], n)
\* ... and no request has a build that it had not.
Unlinked(q, r) ==
  /\ \A o \in 1..Len(q) : r[o].build = q[o].build
  /\ \A o \in (Len(q) + 1)..Len(r) : r[o].build = 0

EventsOnward ==
  /\ Listed(events') /\ Len(events) <= Len(events')
  /\ \A e \in 1..Len(events) : events'[e] = events[e]
  /\ \A e \in (Len(events) + 1)..Len(events') :
        events'[e].build \in 0..Len(builds') /\ events'[e].at \in 0..now'
BuildsOnward ==
  /\ Listed(builds') /\ Len(builds) <= Len(builds')
  /\ \A b \in 1..Len(builds) :
        DOMAIN builds'[b] = BuildColumns /\ builds'[b].occurrence = builds[b].occurrence
  /\ \A b \in (Len(builds) + 1)..Len(builds') :
        DOMAIN builds'[b] = BuildColumns /\ builds'[b].occurrence \in 1..Len(occurrences)
Onward ==
  /\ site' = site /\ now' \in Nat /\ now <= now'
  /\ EventsOnward /\ BuildsOnward /\ Grown(occurrences, occurrences', Len(events'))
  /\ \A o \in 1..Len(occurrences') : occurrences'[o].build \in 0..Len(builds')

LEMMA HistoryKept ==
  ASSUME History, Onward
  PROVE  History'
<1>1. /\ site' \in DOMAIN Situation /\ now' \in Nat
      /\ Listed(events)' /\ Listed(occurrences)' /\ Listed(builds)'
  BY DEF History, Onward, EventsOnward, BuildsOnward, Grown, Listed
<1>2. \A e \in 1..Len(events') : events'[e].build \in 0..Len(builds') /\ events'[e].at \in 0..now'
  <2> TAKE e \in 1..Len(events')
  <2>1. CASE e \in 1..Len(events)
    <3>1. /\ events[e].build \in 0..Len(builds) /\ events[e].at \in 0..now /\ events'[e] = events[e]
          /\ now \in Nat /\ now' \in Nat /\ now <= now' /\ Len(builds) <= Len(builds')
          /\ Len(builds) \in Nat /\ Len(builds') \in Nat
      BY <2>1 DEF History, Onward, EventsOnward, BuildsOnward, Listed
    <3> QED
      BY <3>1
  <2>2. CASE e \in (Len(events) + 1)..Len(events')
    BY <2>2 DEF Onward, EventsOnward, BuildsOnward
  <2> QED
    BY <2>1, <2>2 DEF History, Onward, EventsOnward, BuildsOnward, Listed
<1>3. Len(events) \in Nat /\ Len(events') \in Nat /\ Len(events) <= Len(events')
  BY DEF History, Onward, EventsOnward, BuildsOnward, Listed
<1>4. ASSUME NEW o \in 1..Len(occurrences')
      PROVE  Request(occurrences'[o], Len(events'))
  <2>1. CASE o \in 1..Len(occurrences)
    <3>1. /\ DOMAIN occurrences'[o] = Columns /\ SameRequest(occurrences'[o], occurrences[o])
          /\ Request(occurrences[o], Len(events))
      BY <2>1 DEF History, Onward, EventsOnward, BuildsOnward, Grown
    <3> QED
      BY <3>1, <1>3 DEF Request, SameRequest, AllStand, Stands
  <2>2. CASE o \in (Len(occurrences) + 1)..Len(occurrences')
    BY <2>2 DEF Onward, EventsOnward, BuildsOnward, Grown
  <2> QED
    BY <2>1, <2>2 DEF History, Onward, EventsOnward, BuildsOnward, Grown, Listed
<1>5. ASSUME NEW b \in 1..Len(builds')
      PROVE  DOMAIN builds'[b] = BuildColumns /\ builds'[b].occurrence \in 1..Len(occurrences')
  <2>1. Len(occurrences) \in Nat /\ Len(occurrences') \in Nat /\ Len(occurrences) <= Len(occurrences')
    BY DEF History, Onward, EventsOnward, BuildsOnward, Grown, Listed
  <2>2. DOMAIN builds'[b] = BuildColumns /\ builds'[b].occurrence \in 1..Len(occurrences)
    <3>1. CASE b \in 1..Len(builds)
      BY <3>1 DEF History, Onward, EventsOnward, BuildsOnward
    <3>2. CASE b \in (Len(builds) + 1)..Len(builds')
      BY <3>2 DEF Onward, EventsOnward, BuildsOnward
    <3> QED
      BY <3>1, <3>2 DEF History, Onward, EventsOnward, BuildsOnward, Listed
  <2> QED
    BY <2>1, <2>2
<1>6. \A o \in 1..Len(occurrences') : occurrences'[o].build \in 0..Len(builds')
  BY DEF Onward, EventsOnward, BuildsOnward
<1>7. /\ \A o \in 1..Len(occurrences') : (Request(occurrences[o], Len(events)))'
      /\ \A b \in 1..Len(builds') :
           DOMAIN builds'[b] = BuildColumns /\ builds'[b].occurrence \in 1..Len(occurrences')
  BY <1>4, <1>5 DEF Request, AllStand, Stands, OnClock
<1> QED
  BY <1>1, <1>2, <1>6, <1>7 DEF History

-----------------------------------------------------------------------------
(* Causes.  The builds behind a request are named by its evidence, which no step
   changes; so a set of builds that is closed under causes stays closed. *)

CausesOf(b) == Causes(builds[b].occurrence)
Closed(A) == \A b \in A : CausesOf(b) \subseteq A
\* All builds behind o, at any distance, are of other schedules.
Separate(o) ==
  \E A \in SUBSET (1..Len(builds)) :
    /\ Causes(o) \subseteq A /\ Closed(A)
    /\ \A b \in A : ScheduleOf(b) # occurrences[o].schedule

LEMMA CausesThere ==
  ASSUME History, NEW o \in 1..Len(occurrences)
  PROVE  Causes(o) \subseteq 1..Len(builds)
<1> SUFFICES ASSUME NEW t \in occurrences[o].evidence, ~OnClock(t), events[t[2]].build # 0
             PROVE  events[t[2]].build \in 1..Len(builds)
  BY DEF Causes
<1>1. t[2] \in 1..Len(events)
  BY DEF History, Request, AllStand, Stands
<1> QED
  BY <1>1 DEF History, Listed

LEMMA CausesKept ==
  ASSUME History, Onward, NEW o \in 1..Len(occurrences)
  PROVE  Causes(o)' = Causes(o)
<1>1. occurrences'[o].evidence = occurrences[o].evidence
  BY DEF Onward, EventsOnward, BuildsOnward, Grown, SameRequest
<1>2. \A t \in occurrences[o].evidence : ~OnClock(t) => events'[t[2]] = events[t[2]]
  BY DEF History, Request, AllStand, Stands, Onward, EventsOnward, BuildsOnward
<1> QED
  BY <1>1, <1>2 DEF Causes, OnClock

LEMMA SeparateKept ==
  ASSUME History, Onward, NEW o \in 1..Len(occurrences), Separate(o)
  PROVE  Separate(o)'
<1>1. PICK A \in SUBSET (1..Len(builds)) :
        /\ Causes(o) \subseteq A /\ Closed(A)
        /\ \A b \in A : ScheduleOf(b) # occurrences[o].schedule
  BY DEF Separate
<1>2. A \in SUBSET (1..Len(builds'))
  BY DEF History, Onward, EventsOnward, BuildsOnward, Listed
<1>3. (Causes(o) \subseteq A)'
  BY <1>1, CausesKept
<1>4. ASSUME NEW b \in A
      PROVE  CausesOf(b)' \subseteq A /\ ScheduleOf(b)' # occurrences'[o].schedule
  <2>1. builds'[b].occurrence = builds[b].occurrence /\ builds[b].occurrence \in 1..Len(occurrences)
    BY DEF History, Onward, EventsOnward, BuildsOnward
  <2>2. Causes(builds[b].occurrence)' = Causes(builds[b].occurrence)
    <3> DEFINE p == builds[b].occurrence
    <3>1. p \in 1..Len(occurrences)
      BY <2>1
    <3>2. occurrences'[p].evidence = occurrences[p].evidence
      BY <3>1 DEF Onward, EventsOnward, BuildsOnward, Grown, SameRequest
    <3>3. \A t \in occurrences[p].evidence : ~OnClock(t) => events'[t[2]] = events[t[2]]
      BY <3>1 DEF History, Request, AllStand, Stands, Onward, EventsOnward, BuildsOnward
    <3> QED
      BY <2>1, <3>2, <3>3 DEF Causes, OnClock
  <2>3. CausesOf(b)' = CausesOf(b)
    BY <2>2 DEF CausesOf
  <2>4. ScheduleOf(b)' = ScheduleOf(b) /\ occurrences'[o].schedule = occurrences[o].schedule
    BY <2>1 DEF ScheduleOf, Onward, EventsOnward, BuildsOnward, Grown, SameRequest
  <2> QED
    BY <1>1, <2>3, <2>4 DEF Closed
<1>5. Closed(A)' /\ \A b \in A : ScheduleOf(b)' # occurrences'[o].schedule
  BY <1>4 DEF Closed
<1> QED
  BY <1>2, <1>3, <1>5 DEF Separate

\* The builds depth steps behind a request, as the recursion says.
Further(set) == UNION {CausesOf(b) : b \in set}

LEMMA BehindThere ==
  ASSUME NEW o, NEW bound \in Nat
  PROVE  Behind(o, bound) = [depth \in 0..bound |->
            IF depth = 0 THEN Causes(o) ELSE Further(Behind(o, bound)[depth - 1])]
<1> DEFINE Is(g, n) == g = [depth \in 0..n |-> IF depth = 0 THEN Causes(o) ELSE Further(g[depth - 1])]
           S == {n \in Nat : \E g : Is(g, n)}
<1>1. 0 \in S
  <2> DEFINE g == [depth \in 0..0 |-> Causes(o)]
  <2>1. Is(g, 0)
    OBVIOUS
  <2> QED
    BY <2>1
<1>2. ASSUME NEW n \in Nat, n \in S
      PROVE  n + 1 \in S
  <2>1. PICK g : Is(g, n)
    BY <1>2
  <2> DEFINE h == [depth \in 0..(n + 1) |-> IF depth = n + 1 THEN Further(g[n]) ELSE g[depth]]
  <2>2. \A depth \in 0..n : h[depth] = g[depth]
    OBVIOUS
  <2>3. \A depth \in 0..n : g[depth] = IF depth = 0 THEN Causes(o) ELSE Further(g[depth - 1])
    BY <2>1
  <2>4. \A depth \in 0..(n + 1) : h[depth] = IF depth = 0 THEN Causes(o) ELSE Further(h[depth - 1])
    <3> TAKE depth \in 0..(n + 1)
    <3>1. CASE depth = n + 1
      <4>1. depth # 0 /\ depth - 1 = n /\ n \in 0..n /\ h[depth] = Further(g[n])
        BY <3>1
      <4> QED
        BY <4>1, <2>2
    <3>2. CASE depth \in 0..n /\ depth # 0
      <4>1. depth - 1 \in 0..n /\ h[depth] = g[depth]
        BY <3>2
      <4> QED
        BY <3>2, <4>1, <2>2, <2>3
    <3>3. CASE depth = 0
      BY <3>3, <2>2, <2>3
    <3> QED
      BY <3>1, <3>2, <3>3
  <2>5. h = [depth \in 0..(n + 1) |-> h[depth]]
    OBVIOUS
  <2> HIDE DEF h
  <2>6. Is(h, n + 1)
    BY <2>4, <2>5
  <2> QED
    BY <2>6
<1>3. bound \in S
  <2> HIDE DEF S
  <2> QED
    BY <1>1, <1>2, SetInduction
<1>4. \E g : Is(g, bound)
  BY <1>3
<1>5. Behind(o, bound) = CHOOSE g : Is(g, bound)
  BY DEF Behind, Further, CausesOf
<1> HIDE DEF Is
<1>6. Is(Behind(o, bound), bound)
  BY <1>4, <1>5
<1> QED
  BY <1>6 DEF Is

\* A walk that comes to an end without its own schedule has seen all there is.
LEMMA NotRecurring ==
  ASSUME History, NEW o \in 1..Len(occurrences), ~Recurring(o)
  PROVE  Separate(o)
<1> DEFINE bound == Policy[occurrences[o].def].consecutive - 1
           behind == Behind(o, bound)
           A == UNION {behind[depth] : depth \in 0..bound}
<1>1. bound \in Nat
  <2>1. occurrences[o].def \in Definitions
    BY DEF History, Request
  <2>2. Policy[occurrences[o].def].consecutive \in Nat \ {0}
    BY <2>1, DefinitionAssumption
  <2> QED
    BY <2>2
<1>2. /\ behind[bound] = {}
      /\ \A depth \in 0..bound : \A b \in behind[depth] : ScheduleOf(b) # occurrences[o].schedule
  BY DEF Recurring
<1> HIDE DEF bound
<1>3. \A depth \in 0..bound :
        behind[depth] = IF depth = 0 THEN Causes(o) ELSE Further(behind[depth - 1])
  BY <1>1, BehindThere
<1> HIDE DEF behind
<1>4. Causes(o) \subseteq A
  BY <1>1, <1>3
<1>5. ASSUME NEW b \in A
      PROVE  CausesOf(b) \subseteq A
  <2>1. PICK depth \in 0..bound : b \in behind[depth]
    OBVIOUS
  <2>2. depth + 1 \in 0..bound /\ depth + 1 # 0 /\ (depth + 1) - 1 = depth
    BY <1>1, <1>2, <2>1
  <2>3. behind[depth + 1] = Further(behind[depth])
    BY <1>3, <2>2
  <2> QED
    BY <2>1, <2>2, <2>3 DEF Further
<1>6. \A depth \in 0..bound : behind[depth] \subseteq 1..Len(builds)
  <2> DEFINE S == {n \in Nat : n \in 0..bound => behind[n] \subseteq 1..Len(builds)}
  <2>1. 0 \in S
    BY <1>3, CausesThere
  <2>2. ASSUME NEW n \in Nat, n \in S PROVE n + 1 \in S
    <3> SUFFICES ASSUME n + 1 \in 0..bound PROVE behind[n + 1] \subseteq 1..Len(builds)
      OBVIOUS
    <3>1. n \in 0..bound /\ n + 1 # 0 /\ (n + 1) - 1 = n
      BY <1>1
    <3>2. behind[n + 1] = Further(behind[n]) /\ behind[n] \subseteq 1..Len(builds)
      BY <1>3, <2>2, <3>1
    <3>3. \A b \in behind[n] : CausesOf(b) \subseteq 1..Len(builds)
      BY <3>2, CausesThere DEF CausesOf, History
    <3> QED
      BY <3>2, <3>3 DEF Further
  <2> HIDE DEF S
  <2>3. Nat \subseteq S
    BY <2>1, <2>2, SetInduction
  <2> QED
    BY <1>1, <2>3 DEF S
<1>7. A \in SUBSET (1..Len(builds)) /\ \A b \in A : ScheduleOf(b) # occurrences[o].schedule
  BY <1>2, <1>6 DEF behind, bound
<1> QED
  BY <1>4, <1>5, <1>7 DEF Separate, Closed

\* And conversely: what is separate at every distance is so in the walk.
LEMMA SeparateBehind ==
  ASSUME History, NEW o \in 1..Len(occurrences), Separate(o), NEW bound \in Nat
  PROVE  \A depth \in DOMAIN Behind(o, bound) : \A b \in Behind(o, bound)[depth] :
            ScheduleOf(b) # occurrences[o].schedule
<1> DEFINE behind == Behind(o, bound)
<1>1. /\ behind = [depth \in 0..bound |->
            IF depth = 0 THEN Causes(o) ELSE Further(behind[depth - 1])]
  BY BehindThere
<1>2. PICK A \in SUBSET (1..Len(builds)) :
        /\ Causes(o) \subseteq A /\ Closed(A)
        /\ \A b \in A : ScheduleOf(b) # occurrences[o].schedule
  BY DEF Separate
<1> HIDE DEF behind
<1> DEFINE S == {n \in Nat : n \in 0..bound => behind[n] \subseteq A}
<1>3. 0 \in S
  BY <1>1, <1>2
<1>4. ASSUME NEW n \in Nat, n \in S PROVE n + 1 \in S
  <2> SUFFICES ASSUME n + 1 \in 0..bound PROVE behind[n + 1] \subseteq A
    OBVIOUS
  <2>1. n \in 0..bound /\ n + 1 # 0 /\ (n + 1) - 1 = n
    OBVIOUS
  <2>2. behind[n + 1] = Further(behind[n]) /\ behind[n] \subseteq A
    BY <1>1, <1>4, <2>1
  <2> QED
    BY <1>2, <2>2 DEF Further, Closed
<1> HIDE DEF S
<1>5. Nat \subseteq S
  BY <1>3, <1>4, SetInduction
<1>6. DOMAIN behind = 0..bound
  BY <1>1
<1>7. ASSUME NEW n \in 0..bound PROVE behind[n] \subseteq A
  <2>1. n \in S
    BY <1>5
  <2> QED
    BY <2>1 DEF S
<1> QED
  BY <1>2, <1>6, <1>7 DEF behind

-----------------------------------------------------------------------------
(* From tokens to requests. *)

LEMMA AtBounded ==
  ASSUME History, NEW t, Stands(t, Len(events))
  PROVE  At(t) \in 0..(now + Horizon)
<1>1. Horizon \in Nat /\ now \in Nat
  BY ClockAssumption DEF History
<1>2. CASE OnClock(t)
  <2>1. t[2] \in 0..Horizon
    BY <1>2 DEF Stands
  <2> QED
    BY <1>1, <1>2, <2>1 DEF At
<1>3. CASE ~OnClock(t)
  <2>1. t[2] \in 1..Len(events)
    BY <1>3 DEF Stands
  <2>2. events[t[2]].at \in 0..now
    BY <2>1 DEF History
  <2> QED
    BY <1>1, <1>3, <2>2 DEF At
<1> QED
  BY <1>2, <1>3

\* The evidence of a request is live, and the latest of each of its leaves.
LEMMA EvidenceLive ==
  ASSUME History, NEW row, row.def \in Definitions, NEW live, AllStand(live, Len(events))
  PROVE  /\ Evidence(row, live) \subseteq live
         /\ \A u \in Evidence(row, live), t \in live : t[1] = u[1] => t[2] <= u[2]
<1> DEFINE latest(l) == Max({t[2] : t \in {u \in live : u[1] = l}})
           ready == {i \in DOMAIN Trigger[row.def] :
                        \A l \in Trigger[row.def][i] : \E t \in live : t[1] = l}
           at(i) == Max({0} \cup {At(<<l, latest(l)>>) : l \in Trigger[row.def][i]})
           first == {i \in ready : \A j \in ready : at(i) <= at(j)}
<1>1. ASSUME NEW l, \E t \in live : t[1] = l
      PROVE  <<l, latest(l)>> \in live /\ \A t \in live : t[1] = l => t[2] <= latest(l)
  <2> DEFINE T == {t[2] : t \in {u \in live : u[1] = l}}
             n == Horizon + Len(events)
  <2>1. n \in Nat /\ Horizon \in Nat /\ Len(events) \in Nat
    BY ClockAssumption DEF History, Listed
  <2>2. T \subseteq 0..n /\ T # {}
    <3>1. \A t \in live : t[2] \in 0..Horizon \/ t[2] \in 1..Len(events)
      BY DEF AllStand, Stands
    <3> QED
      BY <1>1, <2>1, <3>1
  <2> HIDE DEF n
  <2>3. Max(T) \in T /\ \A m \in T : m <= Max(T)
    BY <2>1, <2>2, MaxOf
  <2>4. PICK t \in live : t[1] = l /\ t[2] = Max(T)
    BY <2>3
  <2>5. t = <<t[1], t[2]>>
    BY DEF AllStand, Stands
  <2>6. <<l, Max(T)>> \in live
    BY <2>4, <2>5
  <2> QED
    BY <2>3, <2>6
<1> HIDE DEF latest
<1>2. \A i \in ready : at(i) \in Nat
  <2> TAKE i \in ready
  <2> DEFINE value(l) == At(<<l, latest(l)>>)
             M == {value(l) : l \in Trigger[row.def][i]}
             T == {0} \cup M
             n == now + Horizon
  <2>1. n \in Nat
    BY ClockAssumption DEF History
  <2>2. \A l \in Trigger[row.def][i] : value(l) \in 0..n
    BY <1>1, AtBounded DEF AllStand
  <2> HIDE DEF n, value
  <2>3. M \subseteq 0..n
    BY <2>2
  <2> HIDE DEF M
  <2>4. T \subseteq 0..n /\ T # {}
    BY <2>1, <2>3
  <2>5. Max(T) \in T
    BY <2>1, <2>4, MaxOf
  <2> HIDE DEF T
  <2>6. T \subseteq Nat
    BY <2>1, <2>4
  <2>7. Max(T) \in Nat
    BY <2>5, <2>6
  <2> QED
    BY <2>7 DEF T, M, value
<1> HIDE DEF at
<1>3. ASSUME ready # {}
      PROVE  Min(first) \in ready
  <2>1. {at(i) : i \in ready} \subseteq Nat /\ {at(i) : i \in ready} # {}
    BY <1>2, <1>3
  <2>2. PICK x \in {at(i) : i \in ready} : \A y \in {at(i) : i \in ready} : x <= y
    BY <2>1, LeastNat
  <2>3. first # {}
    BY <2>2
  <2>4. Trigger[row.def] \in Seq(SUBSET Leaves)
    BY DefinitionAssumption
  <2>5. DOMAIN Trigger[row.def] \subseteq Nat
    <3>1. DOMAIN Trigger[row.def] = 1..Len(Trigger[row.def]) /\ Len(Trigger[row.def]) \in Nat
      BY <2>4, LenProperties
    <3> QED
      BY <3>1
  <2>6. first \subseteq Nat
    BY <2>5
  <2> HIDE DEF first
  <2>7. Min(first) \in first
    BY <2>3, <2>6, MinOf
  <2> QED
    BY <2>7 DEF first
<1>4. Evidence(row, live) =
        IF ready = {} THEN {} ELSE {<<l, latest(l)>> : l \in Trigger[row.def][Min(first)]}
  BY DEF Evidence, latest, at
<1> HIDE DEF first
<1>5. CASE ready = {}
  BY <1>4, <1>5
<1>6. CASE ready # {}
  <2>1. \A l \in Trigger[row.def][Min(first)] : \E t \in live : t[1] = l
    BY <1>3, <1>6
  <2>2. ASSUME NEW u \in Evidence(row, live)
        PROVE  u \in live /\ \A t \in live : t[1] = u[1] => t[2] <= u[2]
    <3>1. PICK l \in Trigger[row.def][Min(first)] : u = <<l, latest(l)>>
      BY <1>4, <1>6
    <3> QED
      BY <1>1, <2>1, <3>1
  <2> QED
    BY <2>2
<1> QED
  BY <1>5, <1>6

LEMMA GrownFurther ==
  ASSUME NEW n, NEW q, Listed(q), NEW r, NEW x, Grown(q, r, n), Grown(r, x, n),
         Unlinked(q, r), Unlinked(r, x)
  PROVE  Grown(q, x, n) /\ Unlinked(q, x)
<1>1. /\ Len(q) \in Nat /\ Len(r) \in Nat /\ Len(x) \in Nat /\ Listed(x)
      /\ Len(q) <= Len(r) /\ Len(r) <= Len(x)
  BY DEF Grown, Listed
<1>2. ASSUME NEW o \in 1..Len(q)
      PROVE  DOMAIN x[o] = Columns /\ SameRequest(x[o], q[o]) /\ x[o].build = q[o].build
  BY <1>1 DEF Grown, Unlinked, SameRequest
<1>3. ASSUME NEW o \in (Len(q) + 1)..Len(x)
      PROVE  Request(x[o], n) /\ x[o].build = 0
  <2>1. CASE o \in 1..Len(r)
    <3>1. o \in (Len(q) + 1)..Len(r)
      BY <1>1, <2>1
    <3>2. /\ Request(r[o], n) /\ r[o].build = 0 /\ x[o].build = r[o].build
          /\ DOMAIN x[o] = Columns /\ SameRequest(x[o], r[o])
      BY <2>1, <3>1 DEF Grown, Unlinked
    <3> QED
      BY <3>2 DEF Request, SameRequest
  <2>2. CASE o \in (Len(r) + 1)..Len(x)
    BY <2>2 DEF Grown, Unlinked
  <2> QED
    BY <1>1, <2>1, <2>2
<1> QED
  BY <1>1, <1>2, <1>3 DEF Grown, Unlinked

\* What Queue works on, and what it may do to it.
Work(w) ==
  /\ DOMAIN w = {"rows", "tokens", "ok"}
  /\ Listed(w.rows) /\ \A o \in 1..Len(w.rows) : DOMAIN w.rows[o] = Columns
  /\ AllStand(w.tokens, Len(events))
\* A new request is of the schedule and its epoch, and uses what was there.
Own(s, row, w, v) ==
  \A o \in (Len(w.rows) + 1)..Len(v.rows) :
    /\ v.rows[o].schedule = s /\ v.rows[o].epoch = row.epoch
    /\ v.rows[o].evidence \subseteq w.tokens
Worked(s, row, w, v) ==
  /\ Work(v) /\ v.tokens \subseteq w.tokens
  /\ Grown(w.rows, v.rows, Len(events)) /\ Unlinked(w.rows, v.rows) /\ Own(s, row, w, v)
\* A token that is gone was used by a request, or a later one of its leaf was.
Used(s, w, v) ==
  \A t \in w.tokens \ v.tokens : \E o \in 1..Len(v.rows) :
    /\ v.rows[o].schedule = s
    /\ \E u \in v.rows[o].evidence : u[1] = t[1] /\ t[2] <= u[2]

\* v is w with a request for some of the live tokens, of which it consumed those
\* of the same leaves.
Added(s, row, w, v, new) ==
  /\ Listed(v.rows) /\ Len(v.rows) = Len(w.rows) + 1 /\ v.rows[Len(w.rows) + 1] = new
  /\ \A o \in 1..Len(w.rows) :
       /\ DOMAIN v.rows[o] = Columns /\ SameRequest(v.rows[o], w.rows[o])
       /\ v.rows[o].build = w.rows[o].build
  /\ Request(new, Len(events)) /\ new.build = 0 /\ new.schedule = s /\ new.epoch = row.epoch
  /\ new.evidence \subseteq Live(row, w.tokens)
  /\ \A u \in new.evidence, t \in Live(row, w.tokens) : t[1] = u[1] => t[2] <= u[2]
  /\ v.tokens = Consumed(w.tokens, Live(row, w.tokens), new.evidence)

LEMMA QueueAdds ==
  ASSUME History, NEW s, NEW row, row.def \in Definitions, NEW w, Work(w)
  PROVE  LET v == Queue(s, row, w) IN
         /\ DOMAIN v = {"rows", "tokens", "ok"}
         /\ \/ v.rows = w.rows /\ v.tokens = w.tokens
            \/ \E new : Added(s, row, w, v, new)
<1> DEFINE v == Queue(s, row, w)
           live == Live(row, w.tokens)
           evidence == Evidence(row, live)
           verdict == Overlap(s, row.def, Fire(evidence), w.rows)
           replaced == [o \in DOMAIN w.rows |->
              IF o \in verdict.replaced THEN [w.rows[o] EXCEPT !.disposition = "COALESCED"]
              ELSE w.rows[o]]
           new == Occurrence(s, row, evidence, verdict.disposition)
<1> SUFFICES /\ DOMAIN v = {"rows", "tokens", "ok"}
             /\ \/ v.rows = w.rows /\ v.tokens = w.tokens
                \/ Added(s, row, w, v, new)
  OBVIOUS
<1>1. live \subseteq w.tokens /\ AllStand(live, Len(events))
  BY DEF Live, Work, AllStand
<1>2. /\ evidence \subseteq live
      /\ \A u \in evidence, t \in live : t[1] = u[1] => t[2] <= u[2]
  BY <1>1, EvidenceLive
<1>3. \/ v = w
      \/ v = [w EXCEPT !.ok = FALSE]
      \/ v = [w EXCEPT !.tokens = Consumed(w.tokens, live, evidence), !.rows = Append(replaced, new)]
  BY DEF Queue
<1> HIDE DEF v, evidence, verdict
<1>4. CASE v = w \/ v = [w EXCEPT !.ok = FALSE]
  BY <1>4 DEF Work
<1>5. CASE v = [w EXCEPT !.tokens = Consumed(w.tokens, live, evidence), !.rows = Append(replaced, new)]
  <2>1. /\ DOMAIN v = {"rows", "tokens", "ok"}
        /\ v.tokens = Consumed(w.tokens, live, evidence) /\ v.rows = Append(replaced, new)
    BY <1>5 DEF Work
  <2>2. /\ Listed(replaced) /\ Len(replaced) = Len(w.rows)
        /\ \A o \in 1..Len(w.rows) :
             /\ DOMAIN replaced[o] = Columns /\ SameRequest(replaced[o], w.rows[o])
             /\ replaced[o].build = w.rows[o].build
    <3>1. DOMAIN w.rows = 1..Len(w.rows) /\ Len(w.rows) \in Nat
      BY DEF Work, Listed
    <3>2. replaced = [o \in 1..Len(w.rows) |-> replaced[o]]
      BY <3>1
    <3>3. Listed(replaced) /\ Len(replaced) = Len(w.rows)
      <4> HIDE DEF replaced
      <4> QED
        BY <3>1, <3>2, ListedBy
    <3>4. \A o \in 1..Len(w.rows) : DOMAIN w.rows[o] = Columns
      BY DEF Work
    <3>5. ASSUME NEW o \in 1..Len(w.rows)
          PROVE  /\ DOMAIN replaced[o] = Columns /\ SameRequest(replaced[o], w.rows[o])
                 /\ replaced[o].build = w.rows[o].build
      <4>1. \/ replaced[o] = w.rows[o]
            \/ replaced[o] = [w.rows[o] EXCEPT !.disposition = "COALESCED"]
        BY <3>1
      <4> HIDE DEF replaced
      <4> QED
        BY <3>4, <4>1 DEF Columns, SameRequest
    <3> QED
      BY <3>3, <3>5
  <2> HIDE DEF replaced, live
  <2>3. /\ Request(new, Len(events)) /\ new.build = 0
        /\ new.schedule = s /\ new.epoch = row.epoch /\ new.evidence = evidence
    <3>1. /\ DOMAIN new = Columns /\ new.def = row.def /\ new.build = 0
          /\ new.schedule = s /\ new.epoch = row.epoch /\ new.evidence = evidence
      BY DEF Occurrence, Columns
    <3> HIDE DEF new
    <3> QED
      BY <1>1, <1>2, <3>1 DEF Request, AllStand
  <2> HIDE DEF new
  <2>4. /\ Listed(v.rows) /\ Len(v.rows) = Len(w.rows) + 1 /\ v.rows[Len(w.rows) + 1] = new
        /\ \A o \in 1..Len(w.rows) : v.rows[o] = replaced[o]
    BY <2>1, <2>2, ListedAppend
  <2> QED
    BY <1>2, <2>1, <2>2, <2>3, <2>4 DEF Added, live
<1> QED
  BY <1>3, <1>4, <1>5

LEMMA QueueStep ==
  ASSUME History, NEW s, NEW row, row.def \in Definitions, NEW w, Work(w)
  PROVE  Worked(s, row, w, Queue(s, row, w)) /\ Used(s, w, Queue(s, row, w))
<1>1. PICK v : v = Queue(s, row, w)
  OBVIOUS
<1>2. /\ DOMAIN v = {"rows", "tokens", "ok"}
      /\ \/ v.rows = w.rows /\ v.tokens = w.tokens
         \/ \E new : Added(s, row, w, v, new)
  BY <1>1, QueueAdds
<1>3. Len(w.rows) \in Nat
  BY DEF Work, Listed
<1>4. CASE v.rows = w.rows /\ v.tokens = w.tokens
  BY <1>1, <1>2, <1>3, <1>4 DEF Worked, Own, Used, Work, Grown, Unlinked, SameRequest, Listed
<1>5. ASSUME NEW new, Added(s, row, w, v, new)
      PROVE  Worked(s, row, w, v) /\ Used(s, w, v)
  <2>1. /\ Listed(v.rows) /\ Len(v.rows) = Len(w.rows) + 1 /\ v.rows[Len(w.rows) + 1] = new
        /\ \A o \in (Len(w.rows) + 1)..Len(v.rows) : o = Len(w.rows) + 1
        /\ Len(w.rows) + 1 \in 1..Len(v.rows)
    BY <1>3, <1>5 DEF Added
  <2>2. Grown(w.rows, v.rows, Len(events)) /\ Unlinked(w.rows, v.rows)
    BY <1>3, <1>5, <2>1 DEF Added, Grown, Unlinked
  <2>3. v.tokens \subseteq w.tokens
    BY <1>5 DEF Added, Consumed
  <2>4. \A o \in 1..Len(v.rows) : DOMAIN v.rows[o] = Columns
    BY <1>3, <1>5, <2>1 DEF Added, Request
  <2>5. Work(v)
    BY <1>2, <2>1, <2>3, <2>4 DEF Work, AllStand
  <2>6. ASSUME NEW t \in w.tokens \ v.tokens
        PROVE  \E u \in new.evidence : u[1] = t[1] /\ t[2] <= u[2]
    <3>1. PICK u \in new.evidence : t \in Live(row, w.tokens) /\ t[1] = u[1]
      BY <1>5 DEF Added, Consumed
    <3> QED
      BY <1>5, <3>1 DEF Added
  <2>7. Used(s, w, v)
    BY <1>5, <2>1, <2>6 DEF Added, Used
  <2>8. Own(s, row, w, v)
    BY <1>5, <2>1 DEF Added, Own, Live
  <2> QED
    BY <2>2, <2>3, <2>5, <2>7, <2>8 DEF Worked
<1> QED
  BY <1>1, <1>2, <1>4, <1>5

LEMMA QueuedWorks ==
  ASSUME History, NEW s, NEW row, row.def \in Definitions, NEW first, Work(first)
  PROVE  Worked(s, row, first, Queued(s, row, first))
<1> DEFINE bound == Here.occurrences
           Step(x) == IF x.ok THEN Queue(s, row, x) ELSE x
           Is(g, n) == g = [i \in 0..n |-> IF i = 0 THEN first ELSE Step(g[i - 1])]
<1>1. bound \in Nat
  BY SiteAssumption DEF History, Here, Situations
<1> HIDE DEF bound
<1>2. ASSUME NEW x, Worked(s, row, first, x)
      PROVE  Worked(s, row, first, Step(x))
  <2>1. CASE x.ok
    <3>0. PICK v : v = Queue(s, row, x)
      OBVIOUS
    <3>1. Worked(s, row, x, v)
      BY <1>2, <3>0, QueueStep DEF Worked
    <3>2. Grown(first.rows, v.rows, Len(events)) /\ Unlinked(first.rows, v.rows)
      BY <1>2, <3>1, GrownFurther DEF Worked, Work
    <3>3. ASSUME NEW o \in (Len(first.rows) + 1)..Len(v.rows)
          PROVE  /\ v.rows[o].schedule = s /\ v.rows[o].epoch = row.epoch
                 /\ v.rows[o].evidence \subseteq first.tokens
      <4>1. /\ Len(first.rows) \in Nat /\ Len(x.rows) \in Nat /\ Len(v.rows) \in Nat
            /\ x.tokens \subseteq first.tokens
        BY <1>2, <3>1 DEF Worked, Work, Listed
      <4>2. CASE o \in 1..Len(x.rows)
        <5>1. /\ o \in (Len(first.rows) + 1)..Len(x.rows)
              /\ SameRequest(v.rows[o], x.rows[o])
          BY <3>1, <4>1, <4>2 DEF Worked, Grown
        <5> QED
          BY <1>2, <5>1 DEF Worked, Own, SameRequest
      <4>3. CASE o \in (Len(x.rows) + 1)..Len(v.rows)
        BY <3>1, <4>1, <4>3 DEF Worked, Own
      <4> QED
        BY <4>1, <4>2, <4>3
    <3>4. Worked(s, row, first, v)
      BY <1>2, <3>1, <3>2, <3>3 DEF Worked, Own
    <3> QED
      BY <2>1, <3>0, <3>4
  <2>2. CASE ~x.ok
    BY <1>2, <2>2
  <2> QED
    BY <2>1, <2>2
<1>3. Worked(s, row, first, first)
  BY DEF Worked, Own, Work, Grown, Unlinked, SameRequest, Listed
<1> HIDE DEF Step
<1> DEFINE S == {n \in Nat : \E g : Is(g, n)}
<1>4. 0 \in S
  <2> DEFINE g == [i \in 0..0 |-> first]
  <2>1. Is(g, 0)
    OBVIOUS
  <2> QED
    BY <2>1
<1>5. ASSUME NEW n \in Nat, n \in S
      PROVE  n + 1 \in S
  <2>1. PICK g : Is(g, n)
    BY <1>5
  <2> DEFINE h == [i \in 0..(n + 1) |-> IF i = n + 1 THEN Step(g[n]) ELSE g[i]]
  <2>2. \A i \in 0..n : h[i] = g[i]
    OBVIOUS
  <2>3. \A i \in 0..n : g[i] = IF i = 0 THEN first ELSE Step(g[i - 1])
    BY <2>1
  <2>4. \A i \in 0..(n + 1) : h[i] = IF i = 0 THEN first ELSE Step(h[i - 1])
    <3> TAKE i \in 0..(n + 1)
    <3>1. CASE i = n + 1
      <4>1. i # 0 /\ i - 1 = n /\ n \in 0..n /\ h[i] = Step(g[n])
        BY <3>1
      <4> QED
        BY <4>1, <2>2
    <3>2. CASE i \in 0..n /\ i # 0
      <4>1. i - 1 \in 0..n /\ h[i] = g[i]
        BY <3>2
      <4> QED
        BY <3>2, <4>1, <2>2, <2>3
    <3>3. CASE i = 0
      BY <3>3, <2>2, <2>3
    <3> QED
      BY <3>1, <3>2, <3>3
  <2>5. h = [i \in 0..(n + 1) |-> h[i]]
    OBVIOUS
  <2> HIDE DEF h
  <2>6. Is(h, n + 1)
    BY <2>4, <2>5
  <2> QED
    BY <2>6
<1>6. \E g : Is(g, bound)
  <2> HIDE DEF S
  <2>1. bound \in S
    BY <1>1, <1>4, <1>5, SetInduction
  <2> QED
    BY <2>1 DEF S
<1> DEFINE w == CHOOSE g : Is(g, bound)
<1>7. Queued(s, row, first) = w[bound]
  BY DEF Queued, Step, bound
<1>8. Is(w, bound)
  <2> HIDE DEF Is
  <2> QED
    BY <1>6
<1> HIDE DEF w
<1>9. \A i \in 0..bound : w[i] = IF i = 0 THEN first ELSE Step(w[i - 1])
  BY <1>8
<1> DEFINE T == {n \in Nat : n \in 0..bound => Worked(s, row, first, w[n])}
<1>10. 0 \in T
  BY <1>1, <1>3, <1>9
<1>11. ASSUME NEW n \in Nat, n \in T
       PROVE  n + 1 \in T
  <2> SUFFICES ASSUME n + 1 \in 0..bound PROVE Worked(s, row, first, w[n + 1])
    OBVIOUS
  <2>1. n \in 0..bound /\ n + 1 # 0 /\ (n + 1) - 1 = n
    BY <1>1
  <2>2. w[n + 1] = Step(w[n]) /\ Worked(s, row, first, w[n])
    BY <1>9, <1>11, <2>1
  <2> QED
    BY <1>2, <2>2
<1>12. bound \in T
  <2> HIDE DEF T
  <2> QED
    BY <1>1, <1>10, <1>11, SetInduction
<1> QED
  BY <1>1, <1>7, <1>12

-----------------------------------------------------------------------------
(* The invariant. *)

Exclusive(b) ==
  builds[b].state \in ActiveState /\ ~Policy[occurrences[builds[b].occurrence].def].overlapping
Alone ==
  \A b, c \in 1..Len(builds) :
    Exclusive(b) /\ Exclusive(c) /\ ScheduleOf(b) = ScheduleOf(c) => b = c

\* From the walk of its preparation on, and for good once it has a build.
Apart ==
  /\ \A o \in 1..Len(occurrences) :
        Automatic(o) /\ occurrences[o].build # 0 => Separate(o)
  /\ phase = "accept" /\ Automatic(current) => Separate(current)

AnsweredBy(s, l, e) ==
  \/ <<l, e>> \in tokens[s]
  \/ \E o \in 1..Len(occurrences) :
        /\ occurrences[o].schedule = s
        /\ \E t \in occurrences[o].evidence : t[1] = l /\ e <= t[2]
AnsweredOf(s) ==
  \A l \in LeavesOf(schedules[s].def), e \in 1..schedules[s].cursor :
    Matched(l, e) /\ Policy[schedules[s].def].window = None => AnsweredBy(s, l, e)
Answered == Here.commands = {} => \A s \in Schedules : AnsweredOf(s)

IInv == History /\ InPass /\ Observers /\ Alone /\ Apart /\ Answered

\* What most steps leave alone: no build becomes active, no request gets a
\* build, and no other request comes to the point of being accepted.
Settling ==
  \A b \in 1..Len(builds') :
    /\ b \in 1..Len(builds)
    /\ builds'[b].state \in ActiveState => builds[b].state \in ActiveState
Stays ==
  /\ Unlinked(occurrences, occurrences')
  /\ phase' = "accept" => phase = "accept" /\ current' = current

LEMMA AloneKept ==
  ASSUME History, Onward, Settling, Alone
  PROVE  Alone'
<1>1. ASSUME NEW b \in 1..Len(builds'), Exclusive(b)'
      PROVE  b \in 1..Len(builds) /\ Exclusive(b)
  <2>1. b \in 1..Len(builds) /\ (builds'[b].state \in ActiveState => builds[b].state \in ActiveState)
    BY DEF Settling
  <2>2. builds'[b].occurrence = builds[b].occurrence /\ builds[b].occurrence \in 1..Len(occurrences)
    BY <2>1 DEF History, Onward, BuildsOnward
  <2>3. occurrences'[builds[b].occurrence].def = occurrences[builds[b].occurrence].def
    BY <2>2 DEF Onward, Grown, SameRequest
  <2> QED
    BY <1>1, <2>1, <2>2, <2>3 DEF Exclusive
<1>2. ASSUME NEW b \in 1..Len(builds)
      PROVE  ScheduleOf(b)' = ScheduleOf(b)
  <2>1. builds'[b].occurrence = builds[b].occurrence /\ builds[b].occurrence \in 1..Len(occurrences)
    BY DEF History, Onward, BuildsOnward
  <2> QED
    BY <2>1 DEF ScheduleOf, Onward, Grown, SameRequest
<1> SUFFICES ASSUME NEW b \in 1..Len(builds'), NEW c \in 1..Len(builds'),
                    Exclusive(b)', Exclusive(c)', ScheduleOf(b)' = ScheduleOf(c)'
             PROVE  b = c
  BY DEF Alone
<1>3. /\ b \in 1..Len(builds) /\ Exclusive(b) /\ ScheduleOf(b)' = ScheduleOf(b)
      /\ c \in 1..Len(builds) /\ Exclusive(c) /\ ScheduleOf(c)' = ScheduleOf(c)
  BY <1>1, <1>2
<1> QED
  BY <1>3 DEF Alone

LEMMA LinkedKept ==
  ASSUME History, Onward, Apart, Unlinked(occurrences, occurrences'),
         NEW o \in 1..Len(occurrences'), Automatic(o)', occurrences'[o].build # 0
  PROVE  Separate(o)'
<1>1. o \in 1..Len(occurrences) /\ occurrences[o].build # 0
  BY DEF History, Onward, Grown, Unlinked, Listed
<1>2. Automatic(o)
  BY <1>1 DEF Automatic, Onward, Grown, SameRequest
<1> QED
  BY <1>1, <1>2, SeparateKept DEF Apart

LEMMA ApartKept ==
  ASSUME History, InPass, Onward, Stays, Apart
  PROVE  Apart'
<1>1. \A o \in 1..Len(occurrences') :
        Automatic(o)' /\ occurrences'[o].build # 0 => Separate(o)'
  BY LinkedKept DEF Stays
<1>2. ASSUME phase' = "accept", Automatic(current)'
      PROVE  Separate(current)'
  <2>1. phase = "accept" /\ current' = current /\ current \in 1..Len(occurrences)
    BY <1>2 DEF Stays, InPass
  <2>2. Automatic(current)
    BY <1>2, <2>1 DEF Automatic, Onward, Grown, SameRequest
  <2>3. Separate(current)
    BY <2>1, <2>2 DEF Apart
  <2> DEFINE o == current
  <2>4. o \in 1..Len(occurrences) /\ Separate(o)
    BY <2>1, <2>3
  <2> QED
    BY <2>1, <2>4, SeparateKept, ZenonT(40) DEF Separate, Causes, Closed, CausesOf, ScheduleOf, OnClock
<1> QED
  BY <1>1, <1>2 DEF Apart

LEMMA WatchingKept ==
  ASSUME History, Onward, NEW s, Watching(s),
         schedules'[s] = schedules[s], clocks'[s] = clocks[s], tokens'[s] = tokens[s]
  PROVE  Watching(s)'
<1>1. Len(events) \in Nat /\ Len(events') \in Nat /\ Len(events) <= Len(events') /\ site' = site
  BY DEF History, Onward, EventsOnward, Listed
<1>2. AllStand(tokens[s], Len(events'))
  BY <1>1 DEF Watching, AllStand, Stands
<1> QED
  BY <1>1, <1>2 DEF Watching, AllStand, Stands, OnClock, KeyStands, Here

LEMMA AnsweredKept ==
  ASSUME History, Onward, NEW s, Watching(s), AnsweredOf(s),
         schedules'[s].def = schedules[s].def, schedules'[s].cursor = schedules[s].cursor,
         tokens[s] \subseteq tokens'[s]
  PROVE  AnsweredOf(s)'
<1> SUFFICES ASSUME NEW l \in LeavesOf(schedules'[s].def), NEW e \in 1..schedules'[s].cursor,
                    Matched(l, e)', Policy[schedules'[s].def].window = None
             PROVE  AnsweredBy(s, l, e)'
  BY DEF AnsweredOf, LeavesOf
<1>1. e \in 1..schedules[s].cursor /\ e \in 1..Len(events)
  BY DEF Watching, History, Listed
<1>2. Matched(l, e)
  BY <1>1 DEF Matched, Onward, EventsOnward
<1>3. AnsweredBy(s, l, e)
  BY <1>1, <1>2 DEF AnsweredOf
<1>4. CASE <<l, e>> \in tokens[s]
  BY <1>4 DEF AnsweredBy
<1>5. ASSUME NEW o \in 1..Len(occurrences), occurrences[o].schedule = s,
             \E t \in occurrences[o].evidence : t[1] = l /\ e <= t[2]
      PROVE  AnsweredBy(s, l, e)'
  <2>1. o \in 1..Len(occurrences') /\ SameRequest(occurrences'[o], occurrences[o])
    BY DEF History, Onward, Grown, Listed
  <2> QED
    BY <1>5, <2>1 DEF AnsweredBy, SameRequest
<1> QED
  BY <1>3, <1>4, <1>5 DEF AnsweredBy

\* Steps that change neither what is observed nor what was.
LEMMA ObserversKept ==
  ASSUME History, Onward, Observers, Answered, UNCHANGED <<schedules, clocks, tokens>>
  PROVE  Observers' /\ Answered'
<1>1. site' = site /\ Schedules' = Schedules /\ Here' = Here
  BY DEF Onward, Schedules, ScheduleCount, Here
<1>2. \A s \in Schedules : Watching(s)'
  BY WatchingKept DEF Observers
<1>3. Here.commands = {} => \A s \in Schedules : AnsweredOf(s)'
  BY AnsweredKept DEF Observers, Answered
<1>4. Observers'
  BY <1>1, <1>2 DEF Observers
<1>5. Answered'
  BY <1>1, <1>3 DEF Answered
<1> QED
  BY <1>4, <1>5

LEMMA MostSteps ==
  ASSUME IInv, Onward, Settling, Stays, InPass', UNCHANGED <<schedules, clocks, tokens>>
  PROVE  IInv'
BY HistoryKept, AloneKept, ApartKept, ObserversKept DEF IInv

-----------------------------------------------------------------------------
(* Steps, table by table. *)

LEMMA EventsSame ==
  ASSUME History, events' = events
  PROVE  EventsOnward
BY DEF History, EventsOnward, Listed

LEMMA EventRecorded ==
  ASSUME History, NEW x, events' = Append(events, x),
         x.build \in 0..Len(builds'), x.at \in 0..now'
  PROVE  EventsOnward
<1>1. Listed(events) /\ Len(events) \in Nat
  BY DEF History, Listed
<1>2. /\ Listed(events') /\ Len(events') = Len(events) + 1
      /\ events'[Len(events) + 1] = x
      /\ \A i \in 1..Len(events) : events'[i] = events[i]
  BY <1>1, ListedAppend
<1>3. \A e \in (Len(events) + 1)..Len(events') : e = Len(events) + 1
  BY <1>1, <1>2
<1> QED
  BY <1>1, <1>2, <1>3 DEF EventsOnward

LEMMA BuildsSame ==
  ASSUME History, builds' = builds
  PROVE  BuildsOnward /\ Settling
BY DEF History, BuildsOnward, Settling, Listed

LEMMA BuildUpdated ==
  ASSUME History, NEW b, NEW x, builds' = [builds EXCEPT ![b] = x],
         b \in 1..Len(builds) => DOMAIN x = BuildColumns /\ x.occurrence = builds[b].occurrence,
         x.state \in ActiveState => builds[b].state \in ActiveState
  PROVE  BuildsOnward /\ Settling /\ Len(builds') = Len(builds)
<1>1. Listed(builds) /\ Len(builds) \in Nat
  BY DEF History, Listed
<1>2. /\ Listed(builds') /\ Len(builds') = Len(builds)
      /\ \A i \in 1..Len(builds) : builds'[i] = IF i = b THEN x ELSE builds[i]
  <2> DEFINE r == [i \in 1..Len(builds) |-> IF i = b THEN x ELSE builds[i]]
  <2>1. builds' = r
    BY <1>1 DEF Listed
  <2>2. r = [i \in 1..Len(builds) |-> r[i]]
    OBVIOUS
  <2>3. Listed(r) /\ Len(r) = Len(builds)
    <3> HIDE DEF r
    <3> QED
      BY <1>1, <2>2, ListedBy
  <2> QED
    BY <2>1, <2>3
<1>3. BuildsOnward
  BY <1>1, <1>2 DEF History, BuildsOnward
<1>4. Settling
  BY <1>1, <1>2 DEF Settling
<1> QED
  BY <1>2, <1>3, <1>4

LEMMA RequestsSame ==
  ASSUME History, occurrences' = occurrences, NEW n
  PROVE  Grown(occurrences, occurrences', n) /\ Unlinked(occurrences, occurrences')
BY DEF History, Request, Grown, Unlinked, SameRequest, Listed

\* Only dispositions change.
LEMMA RequestsDisposed ==
  ASSUME History, NEW r, DOMAIN r = 1..Len(occurrences), r = [o \in DOMAIN r |-> r[o]],
         \A o \in 1..Len(occurrences) :
            \/ r[o] = occurrences[o]
            \/ \E d : r[o] = [occurrences[o] EXCEPT !.disposition = d],
         NEW n
  PROVE  Listed(r) /\ Len(r) = Len(occurrences)
         /\ Grown(occurrences, r, n) /\ Unlinked(occurrences, r)
         /\ \A o \in 1..Len(r) : DOMAIN r[o] = Columns
<1>1. Len(occurrences) \in Nat
  BY DEF History, Listed
<1>2. Listed(r) /\ Len(r) = Len(occurrences)
  BY <1>1, ListedBy
<1>3. ASSUME NEW o \in 1..Len(occurrences)
      PROVE  /\ DOMAIN r[o] = Columns /\ SameRequest(r[o], occurrences[o])
             /\ r[o].build = occurrences[o].build
  <2>1. DOMAIN occurrences[o] = Columns
    BY DEF History, Request
  <2> QED
    BY <2>1 DEF Columns, SameRequest
<1> QED
  BY <1>1, <1>2, <1>3 DEF Grown, Unlinked

LEMMA RequestDisposed ==
  ASSUME History, NEW o, NEW d, NEW n
  PROVE  LET r == [occurrences EXCEPT ![o].disposition = d]
         IN  Grown(occurrences, r, n) /\ Unlinked(occurrences, r)
<1> DEFINE r == [occurrences EXCEPT ![o].disposition = d]
<1>1. DOMAIN occurrences = 1..Len(occurrences)
  BY DEF History, Listed
<1>2. /\ DOMAIN r = 1..Len(occurrences) /\ r = [i \in DOMAIN r |-> r[i]]
      /\ \A i \in 1..Len(occurrences) :
            \/ r[i] = occurrences[i]
            \/ r[i] = [occurrences[i] EXCEPT !.disposition = d]
  BY <1>1
<1> HIDE DEF r
<1> QED
  BY <1>2, RequestsDisposed DEF r

LEMMA OnwardBy ==
  ASSUME History, site' = site, now' \in Nat, now <= now', EventsOnward, BuildsOnward,
         Grown(occurrences, occurrences', Len(events')), Unlinked(occurrences, occurrences')
  PROVE  Onward
<1>1. ASSUME NEW o \in 1..Len(occurrences')
      PROVE  occurrences'[o].build \in 0..Len(builds')
  <2>1. /\ Len(builds) \in Nat /\ Len(builds') \in Nat /\ Len(builds) <= Len(builds')
        /\ Len(occurrences) \in Nat /\ Len(occurrences') \in Nat
    BY DEF History, BuildsOnward, Grown, Listed
  <2>2. CASE o \in 1..Len(occurrences)
    <3>1. occurrences[o].build \in 0..Len(builds) /\ occurrences'[o].build = occurrences[o].build
      BY <2>2 DEF History, Unlinked
    <3> QED
      BY <2>1, <3>1
  <2>3. CASE o \in (Len(occurrences) + 1)..Len(occurrences')
    <3>1. occurrences'[o].build = 0
      BY <2>3 DEF Unlinked
    <3> QED
      BY <2>1, <3>1
  <2> QED
    BY <2>1, <2>2, <2>3
<1> QED
  BY <1>1 DEF Onward

LEMMA TablesSame ==
  ASSUME History, UNCHANGED <<site, events, occurrences, builds>>, now' \in Nat, now <= now'
  PROVE  Onward /\ Settling /\ Unlinked(occurrences, occurrences')
BY EventsSame, BuildsSame, RequestsSame, OnwardBy

-----------------------------------------------------------------------------
(* The steps that are not about the evidence of a schedule. *)

LEMMA FirstSchedule ==
  ASSUME site \in DOMAIN Situation
  PROVE  1 \in Schedules /\ ScheduleCount \in Nat
<1>1. Here.initially \in Seq(Here.definitions) /\ Here.initially # <<>>
  BY SiteAssumption DEF Here, Situations
<1>2. Len(Here.initially) \in Nat /\ Len(Here.initially) # 0
  BY <1>1, EmptySeq, LenProperties
<1> QED
  BY <1>2 DEF Schedules, ScheduleCount, Here

LEMMA OnwardPass ==
  ASSUME IInv, Onward
  PROVE  /\ Schedules' = Schedules /\ 1 \in Schedules' /\ next \in Schedules'
         /\ batch \subseteq 1..Len(occurrences')
         /\ \A o \in 1..Len(occurrences) : o \in 1..Len(occurrences')
<1>1. site' = site /\ site \in DOMAIN Situation
  BY DEF IInv, History, Onward
<1>2. Schedules' = Schedules /\ 1 \in Schedules
  BY <1>1, FirstSchedule DEF Schedules, ScheduleCount, Here
<1>3. \A o \in 1..Len(occurrences) : o \in 1..Len(occurrences')
  BY DEF IInv, History, Onward, Grown, Listed
<1> QED
  BY <1>2, <1>3 DEF IInv, InPass

\* The builds and the world do not touch the pass.
LEMMA WorldSteps ==
  ASSUME IInv, Onward, Settling, Unlinked(occurrences, occurrences'),
         UNCHANGED <<schedules, clocks, tokens, passVars>>
  PROVE  IInv'
<1>1. Stays
  BY DEF Stays, passVars
<1>2. InPass'
  BY OnwardPass DEF IInv, InPass, passVars
<1> QED
  BY <1>1, <1>2, MostSteps

LEMMA TickStep ==
  ASSUME IInv, Tick
  PROVE  IInv'
<1>1. now' \in Nat /\ now <= now'
  BY DEF Tick, IInv, History
<1>2. Onward /\ Settling /\ Unlinked(occurrences, occurrences')
  BY <1>1, TablesSame DEF Tick, IInv
<1> QED
  BY <1>2, WorldSteps DEF Tick

LEMMA OutsideStep ==
  ASSUME IInv, NEW x \in Datasets, NEW cause \in {"publication", "cache_reuse"}, Outside(x, cause)
  PROVE  IInv'
<1> DEFINE event == [dataset |-> x, cause |-> cause, build |-> 0, at |-> now]
<1>1. now' = now /\ site' = site /\ builds' = builds /\ events' = Append(events, event)
  BY DEF Outside, Published
<1>2. event.build \in 0..Len(builds') /\ event.at \in 0..now' /\ now' \in Nat /\ now <= now'
  BY <1>1 DEF IInv, History, Listed
<1> HIDE DEF event
<1>3. EventsOnward
  BY <1>1, <1>2, EventRecorded DEF IInv
<1>4. Onward /\ Settling /\ Unlinked(occurrences, occurrences')
  BY <1>1, <1>2, <1>3, BuildsSame, RequestsSame, OnwardBy DEF Outside, IInv
<1> QED
  BY <1>4, WorldSteps DEF Outside

\* One build changes, and does not become active.
LEMMA BuildStep ==
  ASSUME IInv, NEW b \in 1..Len(builds), NEW x, builds' = [builds EXCEPT ![b] = x],
         DOMAIN x = BuildColumns /\ x.occurrence = builds[b].occurrence,
         x.state \in ActiveState => builds[b].state \in ActiveState,
         \/ events' = events
         \/ \E d, cause : events' = Append(events, [dataset |-> d, cause |-> cause, build |-> b, at |-> now]),
         UNCHANGED <<site, now, clocks, schedules, tokens, occurrences, passVars>>
  PROVE  IInv'
<1>1. BuildsOnward /\ Settling /\ Len(builds') = Len(builds)
  BY BuildUpdated DEF IInv
<1>2. now' = now /\ site' = site /\ now' \in Nat /\ now <= now'
  BY DEF IInv, History
<1>3. EventsOnward
  <2>1. CASE events' = events
    BY <2>1, EventsSame DEF IInv
  <2>2. ASSUME NEW d, NEW cause,
               events' = Append(events, [dataset |-> d, cause |-> cause, build |-> b, at |-> now])
        PROVE  EventsOnward
    <3> DEFINE event == [dataset |-> d, cause |-> cause, build |-> b, at |-> now]
    <3>1. events' = Append(events, event) /\ event.build = b /\ event.at = now
      BY <2>2
    <3> HIDE DEF event
    <3>2. event.build \in 0..Len(builds') /\ event.at \in 0..now'
      BY <1>1, <1>2, <3>1
    <3> QED
      BY <3>1, <3>2, EventRecorded DEF IInv
  <2> QED
    BY <2>1, <2>2
<1>4. Onward /\ Unlinked(occurrences, occurrences')
  BY <1>1, <1>2, <1>3, RequestsSame, OnwardBy DEF IInv
<1> QED
  BY <1>1, <1>4, WorldSteps

LEMMA StartBuildStep ==
  ASSUME IInv, NEW b \in DOMAIN builds, StartBuild(b)
  PROVE  IInv'
<1> DEFINE x == [builds[b] EXCEPT !.state = "RUNNING"]
<1>1. b \in 1..Len(builds) /\ DOMAIN builds[b] = BuildColumns
  BY DEF IInv, History, Listed
<1>2. builds' = [builds EXCEPT ![b] = x] /\ builds[b].state \in ActiveState
  BY DEF StartBuild, ActiveState
<1>3. DOMAIN x = BuildColumns /\ x.occurrence = builds[b].occurrence
  BY <1>1 DEF BuildColumns
<1> HIDE DEF x
<1> QED
  BY <1>1, <1>2, <1>3, BuildStep DEF StartBuild

LEMMA PublishHeadStep ==
  ASSUME IInv, NEW b \in DOMAIN builds, NEW d \in Datasets,
         NEW cause \in {"publication", "cache_reuse"}, PublishHead(b, d, cause)
  PROVE  IInv'
<1> DEFINE x == [builds[b] EXCEPT !.published = builds[b].published \cup {d}]
<1>1. b \in 1..Len(builds) /\ DOMAIN builds[b] = BuildColumns
  BY DEF IInv, History, Listed
<1>2. builds' = [builds EXCEPT ![b] = x] /\ builds[b].state \in ActiveState
  BY DEF PublishHead, ActiveState
<1>3. DOMAIN x = BuildColumns /\ x.occurrence = builds[b].occurrence
  BY <1>1 DEF BuildColumns
<1>4. events' = Append(events, [dataset |-> d, cause |-> cause, build |-> b, at |-> now])
  BY DEF PublishHead, Published
<1> HIDE DEF x
<1> QED
  BY <1>1, <1>2, <1>3, <1>4, BuildStep DEF PublishHead

LEMMA FinishBuildStep ==
  ASSUME IInv, NEW b \in DOMAIN builds, NEW state, FinishBuild(b, state)
  PROVE  IInv'
<1> DEFINE y == [builds[b] EXCEPT !.state = state]
           x == [y EXCEPT !.finished = now]
<1>1. b \in 1..Len(builds) /\ DOMAIN builds[b] = BuildColumns
  BY DEF IInv, History, Listed
<1>2. builds' = [builds EXCEPT ![b] = x] /\ builds[b].state \in ActiveState
  BY <1>1 DEF FinishBuild, ActiveState
<1>3. DOMAIN x = BuildColumns /\ x.occurrence = builds[b].occurrence
  BY <1>1 DEF BuildColumns
<1> HIDE DEF x
<1> QED
  BY <1>1, <1>2, <1>3, BuildStep DEF FinishBuild

LEMMA RecoverStep ==
  ASSUME IInv, Recover
  PROVE  IInv'
<1>1. PICK verdict : builds' = Recovered(verdict)
  BY DEF Recover
<1>2. DOMAIN builds = 1..Len(builds) /\ Len(builds) \in Nat
  BY DEF IInv, History, Listed
<1>3. builds' = [b \in 1..Len(builds) |-> builds'[b]]
  BY <1>1, <1>2 DEF Recovered
<1>4. Listed(builds') /\ Len(builds') = Len(builds)
  BY <1>2, <1>3, ListedBy
<1>5. ASSUME NEW b \in 1..Len(builds)
      PROVE  /\ DOMAIN builds'[b] = BuildColumns /\ builds'[b].occurrence = builds[b].occurrence
             /\ builds'[b].state \in ActiveState => builds[b].state \in ActiveState
  <2>1. DOMAIN builds[b] = BuildColumns
    BY DEF IInv, History
  <2>2. \/ builds'[b] = builds[b]
        \/ builds[b].state = "RUNNING" /\ \E f, v :
             builds'[b] = [builds[b] EXCEPT !.finished = f, !.state = v]
    BY <1>1, <1>2 DEF Recovered
  <2> QED
    BY <2>1, <2>2 DEF BuildColumns, ActiveState
<1>6. BuildsOnward /\ Settling
  BY <1>2, <1>4, <1>5 DEF BuildsOnward, Settling
<1>7. Onward /\ Unlinked(occurrences, occurrences')
  BY <1>6, EventsSame, RequestsSame, OnwardBy DEF Recover, IInv, History
<1> QED
  BY <1>6, <1>7, WorldSteps DEF Recover

\* The bookkeeping of the pass.
LEMMA BookStep ==
  ASSUME IInv, UNCHANGED <<site, now, events, occurrences, builds, schedules, clocks, tokens>>,
         next' \in Schedules, batch' \subseteq 1..Len(occurrences),
         phase' \in {"accept", "refuse"} => current' \in 1..Len(occurrences),
         phase' = "accept" => phase = "accept" /\ current' = current
  PROVE  IInv'
<1>1. Onward /\ Settling /\ Unlinked(occurrences, occurrences')
  <2>1. now' \in Nat /\ now <= now'
    BY DEF IInv, History
  <2> QED
    BY <2>1, TablesSame DEF IInv
<1>2. Stays
  BY <1>1 DEF Stays
<1>3. InPass'
  BY <1>1, OnwardPass DEF InPass
<1> QED
  BY <1>1, <1>2, <1>3, MostSteps

LEMMA BookSteps ==
  ASSUME IInv,
         StartPass \/ Reconciled \/ Select \/ EndPass \/ AwaitWrites \/ Reject \/ Crash \/ Restart
  PROVE  IInv'
<1>1. 1 \in Schedules /\ next \in Schedules /\ batch \subseteq 1..Len(occurrences)
  BY FirstSchedule DEF IInv, History, InPass
<1>2. DOMAIN occurrences = 1..Len(occurrences)
  BY DEF IInv, History, Listed
<1>3. phase \in {"accept", "refuse"} => current \in 1..Len(occurrences)
  BY DEF IInv, InPass
<1>4. CASE StartPass
  BY <1>1, <1>4, BookStep DEF StartPass
<1>5. CASE Reconciled
  BY <1>1, <1>5, BookStep DEF Reconciled
<1>6. CASE Select
  BY <1>1, <1>2, <1>6, BookStep DEF Select
<1>7. CASE EndPass
  BY <1>1, <1>7, BookStep DEF EndPass
<1>8. CASE AwaitWrites
  BY <1>1, <1>8, BookStep DEF AwaitWrites, Back
<1>9. CASE Reject
  BY <1>1, <1>3, <1>9, BookStep DEF Reject
<1>10. CASE Crash
  BY <1>1, <1>10, BookStep DEF Crash
<1>11. CASE Restart
  BY <1>1, <1>11, BookStep DEF Restart
<1> QED
  BY <1>4, <1>5, <1>6, <1>7, <1>8, <1>9, <1>10, <1>11

\* Only what has no cause of its own schedule is brought to acceptance.
LEMMA PrepareStep ==
  ASSUME IInv, NEW o \in batch, Prepare(o)
  PROVE  IInv'
<1>1. o \in 1..Len(occurrences) /\ batch' \subseteq batch /\ current' = o
  BY DEF Prepare, IInv, InPass
<1>2. Onward /\ Settling /\ Unlinked(occurrences, occurrences')
  <2>1. now' \in Nat /\ now <= now'
    BY DEF Prepare, IInv, History
  <2> QED
    BY <2>1, TablesSame DEF Prepare, IInv
<1>3. InPass'
  BY <1>1, <1>2, OnwardPass DEF Prepare, IInv, InPass
<1>4. \A p \in 1..Len(occurrences') :
        Automatic(p)' /\ occurrences'[p].build # 0 => Separate(p)'
  BY <1>2, LinkedKept DEF IInv
<1>5. ASSUME phase' = "accept", Automatic(current)'
      PROVE  Separate(current)'
  <2>1. ~Unprepared(o)
    BY <1>5 DEF Prepare
  <2>2. Automatic(o)
    BY <1>1, <1>5 DEF Prepare, Automatic
  <2>3. ~Recurring(o)
    BY <2>1, <2>2 DEF Unprepared, DispatchRefused
  <2>4. Separate(o)
    BY <1>1, <2>3, NotRecurring DEF IInv
  <2>5. Separate(o)'
    BY <1>1, <1>2, <2>4, SeparateKept DEF IInv
  <2> QED
    BY <1>1, <2>5 DEF Separate, Causes, Closed, CausesOf, ScheduleOf, OnClock
<1>6. Apart'
  BY <1>4, <1>5 DEF Apart
<1> QED
  BY <1>2, <1>3, <1>6, HistoryKept, AloneKept, ObserversKept DEF IInv, Prepare

LEMMA ReconcileStep ==
  ASSUME IInv, NEW o \in DOMAIN occurrences, Reconcile(o)
  PROVE  IInv'
<1> DEFINE event == [dataset |-> None, schedule |-> occurrences[o].schedule,
                     occurrence |-> o, build |-> occurrences[o].build, at |-> now]
           state == builds[occurrences[o].build].state
           d == IF state = "INTERRUPTED" THEN "FAILED" ELSE state
<1>1. /\ now' = now /\ site' = site /\ builds' = builds
      /\ occurrences' = [occurrences EXCEPT ![o].disposition = d]
      /\ events' = events \/ events' = Append(events, event)
  BY DEF Reconcile
<1>2. o \in 1..Len(occurrences) /\ event.build = occurrences[o].build /\ event.at = now
  BY DEF IInv, History, Listed
<1> HIDE DEF event, d
<1>3. event.build \in 0..Len(builds') /\ event.at \in 0..now' /\ now' \in Nat /\ now <= now'
  BY <1>1, <1>2 DEF IInv, History
<1>4. EventsOnward
  BY <1>1, <1>3, EventsSame, EventRecorded DEF IInv
<1>5. Grown(occurrences, occurrences', Len(events')) /\ Unlinked(occurrences, occurrences')
  BY <1>1, RequestDisposed DEF IInv
<1>6. Onward /\ Settling
  BY <1>1, <1>3, <1>4, <1>5, BuildsSame, OnwardBy DEF IInv
<1> QED
  BY <1>5, <1>6, WorldSteps DEF Reconcile

LEMMA RefuseStep ==
  ASSUME IInv, Refuse
  PROVE  IInv'
<1>1. \/ occurrences' = occurrences
      \/ occurrences' = [occurrences EXCEPT ![current].disposition = "FAILED"]
  BY DEF Refuse
<1>2. Grown(occurrences, occurrences', Len(events')) /\ Unlinked(occurrences, occurrences')
  <2>1. CASE occurrences' = occurrences
    BY <2>1, RequestsSame DEF IInv
  <2>2. CASE occurrences' = [occurrences EXCEPT ![current].disposition = "FAILED"]
    BY <2>2, RequestDisposed DEF IInv
  <2> QED
    BY <1>1, <2>1, <2>2
<1>3. now' \in Nat /\ now <= now'
  BY DEF Refuse, IInv, History
<1>4. Onward /\ Settling
  BY <1>2, <1>3, EventsSame, BuildsSame, OnwardBy DEF Refuse, IInv
<1>5. phase' \notin {"accept", "refuse"} /\ next' = next /\ batch' = batch
  BY DEF Refuse, Back
<1>6. Stays
  BY <1>2, <1>5 DEF Stays
<1>7. InPass'
  BY <1>4, <1>5, OnwardPass DEF InPass
<1> QED
  BY <1>4, <1>6, <1>7, MostSteps DEF Refuse

\* The transaction that decides looks at the active builds once more.
LEMMA AcceptStep ==
  ASSUME IInv, Accept
  PROVE  IInv'
<1>0. PICK n : n = Len(builds) + 1
  OBVIOUS
<1> DEFINE o == current
           x == [occurrence |-> o, state |-> "QUEUED", published |-> {}, finished |-> 0]
           y == [occurrences[o] EXCEPT !.disposition = "RUNNING"]
           z == [y EXCEPT !.build = n]
<1>1. /\ o \in 1..Len(occurrences) /\ Guard(o)
      /\ builds' = Append(builds, x) /\ events' = events
      /\ now' = now /\ site' = site /\ phase' = "dispatch" /\ next' = next /\ batch' = batch
      /\ UNCHANGED <<schedules, clocks, tokens>>
  BY DEF Accept, Back, IInv, InPass
<1>2. occurrences' = [occurrences EXCEPT ![o] = z]
  <2>1. occurrences' = [occurrences EXCEPT ![o].disposition = "RUNNING", ![o].build = Len(builds) + 1]
    BY DEF Accept
  <2>2. DOMAIN occurrences = 1..Len(occurrences)
    BY DEF IInv, History, Listed
  <2> QED
    BY <1>0, <1>1, <2>1, <2>2
<1>3. /\ DOMAIN z = Columns /\ SameRequest(z, occurrences[o]) /\ z.build = n
  <2>1. DOMAIN occurrences[o] = Columns
    BY <1>1 DEF IInv, History, Request
  <2> QED
    BY <2>1 DEF Columns, SameRequest
<1>4. /\ x.occurrence = o /\ DOMAIN x = BuildColumns
  BY DEF BuildColumns
<1>5. /\ Listed(builds) /\ Len(builds) \in Nat /\ DOMAIN builds = 1..Len(builds)
      /\ Len(occurrences) \in Nat /\ DOMAIN occurrences = 1..Len(occurrences)
  BY DEF IInv, History, Listed
<1> HIDE DEF z, x
<1>6. /\ Listed(builds') /\ Len(builds') = n /\ builds'[n] = x
      /\ \A b \in 1..Len(builds) : builds'[b] = builds[b]
  BY <1>0, <1>1, <1>5, ListedAppend
<1>7. /\ Listed(occurrences') /\ Len(occurrences') = Len(occurrences)
      /\ occurrences'[o] = z
      /\ \A p \in 1..Len(occurrences) : p # o => occurrences'[p] = occurrences[p]
  <2> DEFINE r == [p \in 1..Len(occurrences) |-> IF p = o THEN z ELSE occurrences[p]]
  <2>1. occurrences' = r
    BY <1>2, <1>5
  <2>2. r = [p \in 1..Len(occurrences) |-> r[p]]
    OBVIOUS
  <2>3. Listed(r) /\ Len(r) = Len(occurrences)
    <3> HIDE DEF r
    <3> QED
      BY <1>5, <2>2, ListedBy
  <2> QED
    BY <1>1, <2>1, <2>3
<1>8. Grown(occurrences, occurrences', Len(events'))
  <2>1. \A p \in 1..Len(occurrences) : DOMAIN occurrences'[p] = Columns
                                       /\ SameRequest(occurrences'[p], occurrences[p])
    BY <1>3, <1>7 DEF IInv, History, Request, SameRequest
  <2> QED
    BY <1>5, <1>7, <2>1 DEF Grown
<1>9. BuildsOnward
  <2>1. \A b \in (Len(builds) + 1)..Len(builds') : b = n
    BY <1>0, <1>5, <1>6
  <2>2. \A b \in 1..Len(builds) : DOMAIN builds[b] = BuildColumns
    BY DEF IInv, History
  <2> QED
    BY <1>0, <1>1, <1>4, <1>5, <1>6, <2>1, <2>2 DEF BuildsOnward
<1>10. Onward
  <2>1. EventsOnward
    BY <1>1, EventsSame DEF IInv
  <2>2. \A p \in 1..Len(occurrences') : occurrences'[p].build \in 0..Len(builds')
    BY <1>0, <1>3, <1>5, <1>6, <1>7 DEF IInv, History
  <2>3. now' \in Nat /\ now <= now'
    BY <1>1 DEF IInv, History
  <2> QED
    BY <1>1, <1>8, <1>9, <2>1, <2>2, <2>3 DEF Onward
<1>11. InPass'
  BY <1>1, <1>10, OnwardPass DEF InPass
<1>12. /\ \A b \in 1..Len(builds) :
            ScheduleOf(b)' = ScheduleOf(b) /\ (Exclusive(b)' <=> Exclusive(b))
       /\ ScheduleOf(n)' = occurrences[o].schedule
       /\ Exclusive(n)' => ~Policy[occurrences[o].def].overlapping
  <2>1. \A p \in 1..Len(occurrences) : /\ occurrences'[p].def = occurrences[p].def
                                       /\ occurrences'[p].schedule = occurrences[p].schedule
    BY <1>8 DEF Grown, SameRequest
  <2>2. \A b \in 1..Len(builds) : builds[b].occurrence \in 1..Len(occurrences)
    BY DEF IInv, History
  <2>3. ASSUME NEW b \in 1..Len(builds)
        PROVE  ScheduleOf(b)' = ScheduleOf(b) /\ (Exclusive(b)' <=> Exclusive(b))
    <3>1. builds'[b] = builds[b] /\ builds[b].occurrence \in 1..Len(occurrences)
      BY <1>6, <2>2
    <3> QED
      BY <2>1, <3>1 DEF ScheduleOf, Exclusive
  <2>4. builds'[n].occurrence = o /\ o \in 1..Len(occurrences)
    BY <1>1, <1>4, <1>6
  <2> QED
    BY <2>1, <2>3, <2>4 DEF ScheduleOf, Exclusive
<1>13. Alone'
  <2>1. ASSUME NEW c \in 1..Len(builds), Exclusive(n)', ScheduleOf(c)' = ScheduleOf(n)'
        PROVE  ~Exclusive(c)'
    <3>1. ActiveOf(occurrences[o].schedule) = {}
      BY <1>1, <1>12, <2>1 DEF Guard, MayOverlap
    <3>2. ScheduleOf(c) = occurrences[o].schedule
      BY <1>12, <2>1
    <3>3. builds[c].state \notin ActiveState
      BY <1>5, <3>1, <3>2 DEF ActiveOf, ActiveBuilds, BuildsOf
    <3> QED
      BY <1>12, <3>3 DEF Exclusive
  <2>2. \A b \in 1..Len(builds') : b \in 1..Len(builds) \/ b = n
    BY <1>0, <1>5, <1>6
  <2> SUFFICES ASSUME NEW b \in 1..Len(builds'), NEW c \in 1..Len(builds'),
                      Exclusive(b)', Exclusive(c)', ScheduleOf(b)' = ScheduleOf(c)'
               PROVE  b = c
    BY DEF Alone
  <2>3. CASE b = n \/ c = n
    BY <2>1, <2>2, <2>3
  <2>4. CASE b \in 1..Len(builds) /\ c \in 1..Len(builds)
    BY <1>12, <2>4 DEF IInv, Alone
  <2> QED
    BY <2>2, <2>3, <2>4
<1>14. Apart'
  <2>1. ASSUME NEW p \in 1..Len(occurrences'), Automatic(p)', occurrences'[p].build # 0
        PROVE  Separate(p)'
    <3>1. p \in 1..Len(occurrences)
      BY <1>7
    <3>2. Automatic(p)
      BY <2>1, <3>1, <1>8 DEF Automatic, Grown, SameRequest
    <3>3. CASE p = o
      <4>1. phase = "accept"
        BY DEF Accept
      <4> QED
        BY <3>1, <3>2, <3>3, <4>1, <1>10, SeparateKept DEF IInv, Apart
    <3>4. CASE p # o
      BY <2>1, <3>1, <3>2, <3>4, <1>7, <1>10, SeparateKept DEF IInv, Apart
    <3> QED
      BY <3>3, <3>4
  <2> QED
    BY <1>1, <2>1 DEF Apart
<1> QED
  BY <1>1, <1>10, <1>11, <1>13, <1>14, HistoryKept, ObserversKept DEF IInv

-----------------------------------------------------------------------------
(* The steps that observe one schedule. *)

\* At most the entry of s changes.
Only(s, f, g) == g = [t \in Schedules |-> IF t = s THEN g[s] ELSE f[t]]

LEMMA OnlyOne ==
  ASSUME NEW s \in Schedules, NEW f, f = [t \in Schedules |-> f[t]], NEW x
  PROVE  /\ Only(s, f, [f EXCEPT ![s] = x]) /\ [f EXCEPT ![s] = x][s] = x
         /\ Only(s, f, f)
<1> DEFINE g == [f EXCEPT ![s] = x]
<1>1. g = [t \in Schedules |-> IF t = s THEN g[s] ELSE f[t]] /\ g[s] = x
  OBVIOUS
<1>2. f = [t \in Schedules |-> IF t = s THEN f[s] ELSE f[t]]
  OBVIOUS
<1> QED
  BY <1>1, <1>2 DEF Only

LEMMA ObserverStep ==
  ASSUME IInv, Onward, NEW s \in Schedules,
         Only(s, schedules, schedules'), Only(s, clocks, clocks'), Only(s, tokens, tokens'),
         Watching(s)', Here.commands = {} => AnsweredOf(s)'
  PROVE  Observers' /\ Answered'
<1>1. site' = site /\ Schedules' = Schedules /\ Here' = Here
  BY DEF Onward, Schedules, ScheduleCount, Here
<1>2. \A t \in Schedules : t # s =>
        schedules'[t] = schedules[t] /\ clocks'[t] = clocks[t] /\ tokens'[t] = tokens[t]
  BY DEF Only
<1>3. \A t \in Schedules : Watching(t)'
  BY <1>2, WatchingKept DEF IInv, Observers
<1>4. Here.commands = {} => \A t \in Schedules : AnsweredOf(t)'
  BY <1>2, AnsweredKept DEF IInv, Observers, Answered
<1>5. /\ schedules' = [t \in Schedules |-> schedules'[t]]
      /\ clocks' = [t \in Schedules |-> clocks'[t]]
      /\ tokens' = [t \in Schedules |-> tokens'[t]]
  BY DEF Only
<1>6. Observers'
  BY <1>1, <1>3, <1>5 DEF Observers
<1>7. Answered'
  BY <1>1, <1>4 DEF Answered
<1> QED
  BY <1>6, <1>7

LEMMA AdvancedTo ==
  ASSUME site \in DOMAIN Situation, NEW s \in Schedules, Advanced(s)
  PROVE  next' \in Schedules /\ phase' \in {"select", "scan"}
<1>1. 1 \in Schedules /\ ScheduleCount \in Nat
  BY FirstSchedule
<1> QED
  BY <1>1 DEF Advanced, Schedules

\* The tables of all schedules together stay; the step is about one of them.
LEMMA LookStep ==
  ASSUME IInv, UNCHANGED <<site, now, events, occurrences, builds, batch>>,
         NEW s \in Schedules,
         Only(s, schedules, schedules'), Only(s, clocks, clocks'), Only(s, tokens, tokens'),
         Watching(s)', Here.commands = {} => AnsweredOf(s)',
         next' \in Schedules, phase' \notin {"accept", "refuse"}
  PROVE  IInv'
<1>1. Onward /\ Settling /\ Unlinked(occurrences, occurrences')
  <2>1. now' \in Nat /\ now <= now'
    BY DEF IInv, History
  <2> QED
    BY <2>1, TablesSame DEF IInv
<1>2. Stays
  BY <1>1 DEF Stays
<1>3. InPass'
  BY <1>1, OnwardPass DEF InPass
<1>4. Observers' /\ Answered'
  BY <1>1, ObserverStep
<1> QED
  BY <1>1, <1>2, <1>3, <1>4, HistoryKept, AloneKept, ApartKept DEF IInv

LEMMA SkipStep ==
  ASSUME IInv, SkipSchedule
  PROVE  IInv'
<1>0. PICK s : s = next
  OBVIOUS
<1>1. s \in Schedules /\ site \in DOMAIN Situation
  BY <1>0 DEF IInv, InPass, History
<1> DEFINE row == [schedules[s] EXCEPT !.review = schedules[s].review \/ ~schedules[s].deleted]
<1>2. schedules' = [schedules EXCEPT ![s] = row]
  BY <1>0 DEF SkipSchedule
<1>3. Watching(s)
  BY <1>1 DEF IInv, Observers
<1>4. /\ DOMAIN row = ScheduleColumns /\ row.def = schedules[s].def
      /\ row.cursor = schedules[s].cursor /\ row.paused = schedules[s].paused
      /\ row.muted = schedules[s].muted
  BY <1>3 DEF Watching, ScheduleColumns
<1> HIDE DEF row
<1>5. Only(s, schedules, schedules') /\ schedules'[s] = row
  BY <1>1, <1>2, OnlyOne DEF IInv, Observers
<1>6. Only(s, clocks, clocks') /\ Only(s, tokens, tokens')
  BY <1>1, OnlyOne DEF IInv, Observers, SkipSchedule
<1>7. /\ site' = site /\ now' = now /\ events' = events /\ clocks' = clocks /\ tokens' = tokens
      /\ occurrences' = occurrences
  BY DEF SkipSchedule
<1>8. Watching(s)'
  BY <1>3, <1>4, <1>5, <1>7 DEF Watching, AllStand, Stands, OnClock, KeyStands, Here
<1>9. Here.commands = {} => AnsweredOf(s)'
  <2>1. Here.commands = {} => AnsweredOf(s)
    BY <1>1 DEF IInv, Answered
  <2> QED
    BY <2>1, <1>4, <1>5, <1>7 DEF AnsweredOf, AnsweredBy, LeavesOf, Matched
<1>10. next' \in Schedules /\ phase' \in {"select", "scan"}
  BY <1>0, <1>1, AdvancedTo DEF SkipSchedule
<1> QED
  BY <1>1, <1>5, <1>6, <1>8, <1>9, <1>10, LookStep DEF SkipSchedule

\* Every instant planned is one of the zones, for a clock leaf that is there.
LEMMA DueThere ==
  ASSUME NEW cron, NEW from, NEW through
  PROVE  Due(cron, from, through) \subseteq 0..Horizon
<1>1. ASSUME NEW minute
      PROVE  Resolved(cron, minute) \subseteq 0..Horizon
  <2> DEFINE at == {i \in 0..Horizon : cron.zone[i] = minute}
  <2>1. at \subseteq 0..Horizon /\ at \subseteq Nat
    BY ClockAssumption
  <2>2. Resolved(cron, minute) = IF cron.both \/ at = {} THEN at ELSE {Min(at)}
    BY DEF Resolved
  <2> HIDE DEF at
  <2>3. at # {} => Min(at) \in at
    BY <2>1, MinOf
  <2> QED
    BY <2>1, <2>2, <2>3
<1>2. ASSUME NEW date
      PROVE  OfDay(cron, date) \subseteq 0..Horizon
  BY <1>1 DEF OfDay
<1> QED
  BY <1>2 DEF Due

LEMMA PreparedThere ==
  ASSUME NEW leaves, NEW c, NEW misfire, NEW maxCatchUp, NEW at
  PROVE  Prepared(leaves, c, misfire, maxCatchUp, at).ticks \subseteq (0..Horizon) \X DOMAIN leaves
<1> DEFINE through == Min({at, c.cursor[1] + LongestPass})
           reach(k) == Due(Crons[leaves[k]], c.cursor[1], through)
           all == UNION {reach(k) \X {k} : k \in DOMAIN leaves}
           due == {t \in all : Before(c.cursor, t) /\ ~Before(<<through, Whole>>, t)}
           eligible == {t \in due : ~InPause(t, c.quiet)}
           limit == Min({maxCatchUp, TickLimit - c.pending})
           taken == Oldest(eligible, limit)
           newest == {t \in eligible : \A u \in eligible : u[2] = t[2] => u[1] <= t[1]}
           ticks == Prepared(leaves, c, misfire, maxCatchUp, at).ticks
<1>1. \A k \in DOMAIN leaves : reach(k) \subseteq 0..Horizon
  BY DueThere
<1> HIDE DEF reach
<1>2. all \subseteq (0..Horizon) \X DOMAIN leaves
  BY <1>1
<1>3. eligible \subseteq all
  BY SMTT(30)
<1>4. \/ ticks = {} \/ ticks = {t \in eligible : t[1] > at - 1} \/ ticks = newest \/ ticks = taken
  <2> HIDE DEF through, all, newest, limit
  <2> QED
    BY DEF Prepared, through, all, reach, newest, limit
<1>5. taken \subseteq eligible
  <2> HIDE DEF eligible, limit
  <2> QED
    BY DEF Oldest
<1> HIDE DEF eligible, taken
<1>6. ticks \subseteq eligible
  BY <1>4, <1>5
<1> QED
  BY <1>2, <1>3, <1>6

LEMMA ObserveClockStep ==
  ASSUME IInv, ObserveClock
  PROVE  IInv'
<1>0. PICK s : s = next
  OBVIOUS
<1>1. s \in Schedules /\ next' = next
  BY <1>0 DEF IInv, InPass, ObserveClock
<1>2. Watching(s)
  BY <1>1 DEF IInv, Observers
<1> DEFINE d == schedules[s].def
           row == schedules[s]
           policy == Policy[row.def]
           c == [cursor |-> clocks[s].cursor, paused |-> row.paused, quiet |-> row.quiet,
                 pending |-> Cardinality(Pendings(s))]
           ticks == Prepared(Clocks[row.def], c, policy.misfire, policy.maxCatchUp, now).ticks
           new == Observed(clocks[s], s)
<1>3. ticks \subseteq (0..Horizon) \X DOMAIN Clocks[d]
  BY PreparedThere
<1>4. /\ DOMAIN new = ClockColumns
      /\ new.rows = (clocks[s].rows \ Superseded(s, ticks))
                      \cup {[r EXCEPT !.state = "COALESCED"] : r \in Superseded(s, ticks)}
                      \cup {[key |-> t, state |-> "PENDING"] : t \in ticks}
  BY DEF Observed, ClockColumns
<1> HIDE DEF ticks
<1>5. \A r \in new.rows : KeyStands(r, d)
  <2>1. \A r \in clocks[s].rows : KeyStands(r, d)
    BY <1>2 DEF Watching
  <2>2. Superseded(s, ticks) \subseteq clocks[s].rows
    BY DEF Superseded, Pendings
  <2>3. ASSUME NEW r \in clocks[s].rows PROVE KeyStands([r EXCEPT !.state = "COALESCED"], d)
    BY <2>1 DEF KeyStands
  <2>4. ASSUME NEW t \in ticks PROVE KeyStands([key |-> t, state |-> "PENDING"], d)
    BY <1>3 DEF KeyStands
  <2> QED
    BY <1>4, <2>1, <2>2, <2>3, <2>4
<1>6. clocks' = [clocks EXCEPT ![s] = new]
  BY <1>0 DEF ObserveClock
<1> HIDE DEF new
<1>7. Only(s, clocks, clocks') /\ clocks'[s] = new
  BY <1>1, <1>6, OnlyOne DEF IInv, Observers
<1>8. Only(s, schedules, schedules') /\ Only(s, tokens, tokens')
  BY <1>1, OnlyOne DEF IInv, Observers, ObserveClock
<1>9. UNCHANGED <<site, now, events, schedules, tokens, occurrences, builds, batch>>
  BY DEF ObserveClock
<1>10. Watching(s)'
  BY <1>2, <1>4, <1>5, <1>7, <1>9 DEF Watching, AllStand, Stands, OnClock, KeyStands, Here
<1>11. Here.commands = {} => AnsweredOf(s)'
  <2>1. Here.commands = {} => AnsweredOf(s)
    BY <1>1 DEF IInv, Answered
  <2> QED
    BY <2>1, <1>9 DEF AnsweredOf, AnsweredBy, LeavesOf, Matched
<1>12. next' \in Schedules /\ phase' \notin {"accept", "refuse"}
  BY <1>1, <1>0 DEF ObserveClock
<1> QED
  BY <1>1, <1>7, <1>8, <1>9, <1>10, <1>11, <1>12, LookStep

\* Every event between the cursor and its new place that a leaf wants, and that
\* neither a pause nor its age keeps away, is a token now.
LEMMA ScanStands ==
  ASSUME History, NEW row, row.def \in Definitions, row.cursor \in 0..Len(events),
         NEW toks, AllStand(toks, Len(events))
  PROVE  AllStand(Scan(row, toks), Len(events))
<1> SUFFICES ASSUME NEW t \in LeavesOf(row.def) \X ((row.cursor + 1)..Len(events)),
                    Matched(t[1], t[2])
             PROVE  Stands(t, Len(events))
  BY DEF Scan, AllStand
<1>1. LeavesOf(row.def) \subseteq Leaves
  <2>1. Trigger[row.def] \in Seq(SUBSET Leaves)
    BY DefinitionAssumption
  <2>2. \A i \in DOMAIN Trigger[row.def] : Trigger[row.def][i] \subseteq Leaves
    BY <2>1, LenProperties
  <2> QED
    BY <2>2 DEF LeavesOf
<1>2. ~OnClock(t)
  BY DEF Matched, OnClock
<1>3. t[2] \in 1..Len(events) /\ t = <<t[1], t[2]>> /\ t[1] \in Leaves
  BY <1>1 DEF History, Listed
<1> QED
  BY <1>2, <1>3 DEF Stands

LEMMA ScanEventsStep ==
  ASSUME IInv, ScanEvents
  PROVE  IInv'
<1>0. PICK s : s = next
  OBVIOUS
<1>1. s \in Schedules /\ History
  BY <1>0 DEF IInv, InPass
<1>2. Watching(s)
  BY <1>1 DEF IInv, Observers
<1> DEFINE row == Scanned(schedules[s])
           toks == Scan(schedules[s], tokens[s])
<1>3. schedules' = [schedules EXCEPT ![s] = row] /\ tokens' = [tokens EXCEPT ![s] = toks]
  BY <1>0 DEF ScanEvents
<1>4. /\ DOMAIN row = ScheduleColumns /\ row.def = schedules[s].def
      /\ row.cursor = Len(events) /\ row.paused = schedules[s].paused
      /\ row.muted = schedules[s].muted
  BY <1>2 DEF Watching, ScheduleColumns, Scanned
<1>5. AllStand(toks, Len(events)) /\ tokens[s] \subseteq toks
  BY <1>1, <1>2, ScanStands DEF Watching, Scan
<1>6. ASSUME Here.commands = {}, NEW l \in LeavesOf(schedules[s].def),
             NEW e \in (schedules[s].cursor + 1)..Len(events), Matched(l, e),
             Policy[schedules[s].def].window = None
      PROVE  <<l, e>> \in toks
  <2>1. ~schedules[s].paused /\ schedules[s].muted = {}
    BY <1>2, <1>6 DEF Watching
  <2>2. ~Gone(<<l, e>>, schedules[s].def)
    BY <1>6 DEF Gone, Expired
  <2>3. <<l, e>> \in LeavesOf(schedules[s].def) \X ((schedules[s].cursor + 1)..Len(events))
    OBVIOUS
  <2> QED
    BY <1>6, <2>1, <2>2, <2>3 DEF Scan
<1> HIDE DEF row, toks
<1>7. Only(s, schedules, schedules') /\ schedules'[s] = row
  BY <1>1, <1>3, OnlyOne DEF IInv, Observers
<1>8. Only(s, tokens, tokens') /\ tokens'[s] = toks
  BY <1>1, <1>3, OnlyOne DEF IInv, Observers
<1>9. UNCHANGED <<site, now, events, clocks, occurrences, builds, batch, next>>
  BY DEF ScanEvents
<1>10. Only(s, clocks, clocks')
  BY <1>1, <1>9, OnlyOne DEF IInv, Observers
<1>11. Len(events) \in Nat /\ schedules[s].cursor \in 0..Len(events)
  BY <1>1, <1>2 DEF History, Listed, Watching
<1>12. Watching(s)'
  <2>1. row.cursor \in 0..Len(events)
    BY <1>4, <1>11
  <2> QED
    BY <1>2, <1>4, <1>5, <1>7, <1>8, <1>9, <2>1
    DEF Watching, AllStand, Stands, OnClock, KeyStands, Here
<1>13. ASSUME Here.commands = {}
       PROVE  AnsweredOf(s)'
  <2>1. AnsweredOf(s)
    BY <1>1, <1>13 DEF IInv, Answered
  <2> SUFFICES ASSUME NEW l \in LeavesOf(schedules[s].def), NEW e \in 1..Len(events),
                      Matched(l, e), Policy[schedules[s].def].window = None
               PROVE  <<l, e>> \in toks \/ AnsweredBy(s, l, e)
    BY <1>4, <1>5, <1>7, <1>8, <1>9 DEF AnsweredOf, AnsweredBy, LeavesOf, Matched
  <2>2. CASE e \in 1..schedules[s].cursor
    BY <2>1, <2>2 DEF AnsweredOf
  <2>3. CASE e \in (schedules[s].cursor + 1)..Len(events)
    BY <1>6, <1>13, <2>3
  <2> QED
    BY <1>11, <2>2, <2>3
<1>14. next' \in Schedules /\ phase' \notin {"accept", "refuse"}
  BY <1>0, <1>1, <1>9 DEF ScanEvents
<1> QED
  BY <1>1, <1>7, <1>8, <1>9, <1>10, <1>12, <1>13, <1>14, LookStep

LEMMA DeliverStep ==
  ASSUME IInv, Deliver
  PROVE  IInv'
<1>0. PICK s : s = next
  OBVIOUS
<1>1. s \in Schedules /\ History
  BY <1>0 DEF IInv, InPass
<1>2. Watching(s)
  BY <1>1 DEF IInv, Observers
<1> DEFINE d == schedules[s].def
           late == {r \in Pendings(s) : Gone(TokenOf(s, r.key), d)}
           oldest == {r \in Pendings(s) \ late :
                        \A q \in Pendings(s) \ late : q.key[2] = r.key[2] => r.key[1] <= q.key[1]}
           out == {r \in oldest : ~Waiting(s, r.key)}
           toks == tokens[s] \cup {TokenOf(s, r.key) : r \in out}
           rows == (clocks[s].rows \ (late \cup out))
                     \cup {[r EXCEPT !.state = "EXPIRED"] : r \in late}
                     \cup {[r EXCEPT !.state = "DELIVERED"] : r \in out}
           clock == [clocks[s] EXCEPT !.rows = rows]
<1>3. \/ clocks' = clocks /\ tokens' = tokens
      \/ clocks' = [clocks EXCEPT ![s] = clock] /\ tokens' = [tokens EXCEPT ![s] = toks]
  BY <1>0 DEF Deliver
<1>4. late \subseteq clocks[s].rows /\ out \subseteq clocks[s].rows
  BY DEF Pendings
<1> HIDE DEF late, out
<1>5. \A r \in clocks[s].rows : KeyStands(r, d)
  BY <1>2 DEF Watching
<1>6. \A r \in rows : KeyStands(r, d)
  <2>1. ASSUME NEW r \in clocks[s].rows, NEW x PROVE KeyStands([r EXCEPT !.state = x], d)
    BY <1>5 DEF KeyStands
  <2> QED
    BY <1>4, <1>5, <2>1
<1>7. AllStand(toks, Len(events)) /\ tokens[s] \subseteq toks
  <2>1. d \in Definitions
    BY <1>2 DEF Watching
  <2>2. Clocks[d] \in Seq({l \in DOMAIN Crons \cap Leaves : Watches[l].on = "clock"})
    BY <2>1, DefinitionAssumption
  <2>3. \A k \in DOMAIN Clocks[d] : Clocks[d][k] \in Leaves /\ Watches[Clocks[d][k]].on = "clock"
    BY <2>2, LenProperties
  <2>4. ASSUME NEW r \in out
        PROVE  Stands(TokenOf(s, r.key), Len(events))
    <3>1. r.key[1] \in 0..Horizon /\ r.key[2] \in DOMAIN Clocks[d]
      BY <1>4, <1>5 DEF KeyStands
    <3> DEFINE t == <<Clocks[d][r.key[2]], r.key[1]>>
    <3>2. t = <<t[1], t[2]>> /\ t[1] \in Leaves /\ OnClock(t) /\ t[2] \in 0..Horizon
      BY <2>3, <3>1 DEF OnClock
    <3>3. TokenOf(s, r.key) = t
      BY DEF TokenOf, LeafOf
    <3> HIDE DEF t
    <3> QED
      BY <3>2, <3>3 DEF Stands
  <2>5. AllStand(tokens[s], Len(events))
    BY <1>2 DEF Watching
  <2> QED
    BY <2>4, <2>5 DEF AllStand
<1>8. DOMAIN clock = ClockColumns /\ clock.rows = rows
  <2> HIDE DEF rows
  <2> QED
    BY <1>2 DEF Watching, ClockColumns
<1>9. DOMAIN clocks[s] = ClockColumns /\ AllStand(tokens[s], Len(events))
  BY <1>2 DEF Watching
<1> HIDE DEF rows, toks, clock
<1>10. /\ Only(s, clocks, clocks') /\ Only(s, tokens, tokens')
       /\ \/ clocks'[s] = clocks[s] /\ tokens'[s] = tokens[s]
          \/ clocks'[s] = clock /\ tokens'[s] = toks
  <2>1. CASE clocks' = clocks /\ tokens' = tokens
    BY <1>1, <2>1, OnlyOne DEF IInv, Observers
  <2>2. CASE clocks' = [clocks EXCEPT ![s] = clock] /\ tokens' = [tokens EXCEPT ![s] = toks]
    BY <1>1, <2>2, OnlyOne DEF IInv, Observers
  <2> QED
    BY <1>3, <2>1, <2>2
<1>11. UNCHANGED <<site, now, events, schedules, occurrences, builds, batch, next>>
  BY DEF Deliver
<1>12. Only(s, schedules, schedules')
  BY <1>1, <1>11, OnlyOne DEF IInv, Observers
<1>13. /\ DOMAIN clocks'[s] = ClockColumns /\ \A r \in clocks'[s].rows : KeyStands(r, d)
       /\ AllStand(tokens'[s], Len(events)) /\ tokens[s] \subseteq tokens'[s]
  BY <1>5, <1>6, <1>7, <1>8, <1>9, <1>10
<1>14. Watching(s)'
  BY <1>2, <1>11, <1>13 DEF Watching, AllStand, Stands, OnClock, KeyStands, Here
<1>15. ASSUME Here.commands = {}
       PROVE  AnsweredOf(s)'
  <2>1. AnsweredOf(s)
    BY <1>1, <1>15 DEF IInv, Answered
  <2> QED
    BY <2>1, <1>11, <1>13 DEF AnsweredOf, AnsweredBy, LeavesOf, Matched
<1>16. next' \in Schedules /\ phase' \notin {"accept", "refuse"}
  BY <1>0, <1>1, <1>11 DEF Deliver
<1> QED
  BY <1>1, <1>10, <1>11, <1>12, <1>14, <1>15, <1>16, LookStep

\* A token only goes with a request that used it, or a later one of its leaf.
LEMMA EvaluateStep ==
  ASSUME IInv, Evaluate
  PROVE  IInv'
<1>0. PICK s : s = next
  OBVIOUS
<1>1. s \in Schedules /\ History
  BY <1>0 DEF IInv, InPass
<1>2. Watching(s)
  BY <1>1 DEF IInv, Observers
<1> DEFINE w == [rows |-> occurrences, tokens |-> tokens[s], ok |-> TRUE]
           v == Queue(s, schedules[s], w)
<1>3. w.rows = occurrences /\ w.tokens = tokens[s] /\ DOMAIN w = {"rows", "tokens", "ok"}
  OBVIOUS
<1>4. occurrences' = v.rows /\ tokens' = [tokens EXCEPT ![s] = v.tokens]
  BY <1>0 DEF Evaluate
<1> HIDE DEF w
<1>5. Work(w)
  BY <1>1, <1>2, <1>3 DEF Work, Watching, History, Request
<1>6. Worked(s, schedules[s], w, v) /\ Used(s, w, v)
  BY <1>1, <1>2, <1>5, QueueStep DEF Watching
<1> HIDE DEF v
<1>7. UNCHANGED <<site, now, events, clocks, schedules, builds, batch>>
  BY DEF Evaluate
<1>8. Grown(occurrences, occurrences', Len(events')) /\ Unlinked(occurrences, occurrences')
  BY <1>3, <1>4, <1>6, <1>7 DEF Worked
<1>9. Onward /\ Settling
  <2>1. now' \in Nat /\ now <= now'
    BY <1>1, <1>7 DEF History
  <2> QED
    BY <1>1, <1>7, <1>8, <2>1, EventsSame, BuildsSame, OnwardBy
<1>10. Only(s, tokens, tokens') /\ tokens'[s] = v.tokens
  BY <1>1, <1>4, OnlyOne DEF IInv, Observers
<1>11. Only(s, schedules, schedules') /\ Only(s, clocks, clocks')
  BY <1>1, <1>7, OnlyOne DEF IInv, Observers
<1>12. AllStand(v.tokens, Len(events))
  BY <1>6 DEF Worked, Work
<1>13. Watching(s)'
  BY <1>2, <1>7, <1>10, <1>12 DEF Watching, AllStand, Stands, OnClock, KeyStands, Here
<1>14. ASSUME Here.commands = {}
       PROVE  AnsweredOf(s)'
  <2>1. AnsweredOf(s)
    BY <1>1, <1>14 DEF IInv, Answered
  <2> SUFFICES ASSUME NEW l, NEW e, AnsweredBy(s, l, e)
               PROVE  AnsweredBy(s, l, e)'
    BY <1>7, <2>1 DEF AnsweredOf, LeavesOf, Matched
  <2>2. CASE <<l, e>> \in v.tokens
    BY <1>10, <2>2 DEF AnsweredBy
  <2>3. CASE <<l, e>> \in tokens[s] \ v.tokens
    <3>1. PICK o \in 1..Len(v.rows) :
            /\ v.rows[o].schedule = s
            /\ \E u \in v.rows[o].evidence : u[1] = l /\ e <= u[2]
      BY <1>3, <1>6, <2>3 DEF Used
    <3> QED
      BY <1>4, <3>1 DEF AnsweredBy
  <2>4. ASSUME NEW o \in 1..Len(occurrences), occurrences[o].schedule = s,
               \E t \in occurrences[o].evidence : t[1] = l /\ e <= t[2]
        PROVE  AnsweredBy(s, l, e)'
    <3>1. o \in 1..Len(occurrences') /\ SameRequest(occurrences'[o], occurrences[o])
      BY <1>1, <1>8 DEF History, Grown, Listed
    <3> QED
      BY <2>4, <3>1 DEF AnsweredBy, SameRequest
  <2> QED
    BY <2>2, <2>3, <2>4 DEF AnsweredBy
<1>15. next' \in Schedules /\ phase' \in {"select", "scan", "failed"}
  <2>1. CASE Advanced(s)
    BY <1>1, <2>1, AdvancedTo DEF History
  <2>2. CASE phase' = "failed" /\ next' = 1
    BY <1>1, <2>2, FirstSchedule DEF History
  <2> QED
    BY <1>0, <2>1, <2>2 DEF Evaluate
<1>16. Stays
  BY <1>8, <1>15 DEF Stays
<1>17. InPass'
  BY <1>7, <1>9, <1>15, OnwardPass DEF InPass
<1>18. Observers' /\ Answered'
  BY <1>1, <1>9, <1>10, <1>11, <1>13, <1>14, ObserverStep
<1> QED
  BY <1>9, <1>16, <1>17, <1>18, HistoryKept, AloneKept, ApartKept DEF IInv

-----------------------------------------------------------------------------
(* Commands. *)

\* A command changes requests, one schedule and what it observes.
LEMMA CommandStep ==
  ASSUME IInv, Here.commands # {}, UNCHANGED <<site, now, events, builds, passVars>>,
         Grown(occurrences, occurrences', Len(events)), Unlinked(occurrences, occurrences'),
         NEW s \in Schedules,
         Only(s, schedules, schedules'), Only(s, clocks, clocks'), Only(s, tokens, tokens'),
         DOMAIN schedules'[s] = ScheduleColumns, schedules'[s].def \in Definitions,
         schedules'[s].cursor \in 0..Len(events),
         DOMAIN clocks'[s] = ClockColumns,
         \A r \in clocks'[s].rows : KeyStands(r, schedules'[s].def),
         AllStand(tokens'[s], Len(events))
  PROVE  IInv'
<1>1. Onward /\ Settling
  <2>1. now' \in Nat /\ now <= now' /\ site' = site /\ Len(events') = Len(events)
    BY DEF IInv, History
  <2> QED
    BY <2>1, EventsSame, BuildsSame, OnwardBy DEF IInv
<1>2. Stays
  BY DEF Stays, passVars
<1>3. InPass'
  BY <1>1, OnwardPass DEF IInv, InPass, passVars
<1>4. Watching(s)'
  BY DEF Watching, AllStand, Stands, OnClock, KeyStands, Here
<1>5. Observers' /\ Answered'
  BY <1>1, <1>4, ObserverStep
<1> QED
  BY <1>1, <1>2, <1>3, <1>5, HistoryKept, AloneKept, ApartKept DEF IInv

LEMMA DisposedGrown ==
  ASSUME History, NEW set, NEW d
  PROVE  /\ Grown(occurrences, Disposed(set, d), Len(events)) /\ Unlinked(occurrences, Disposed(set, d))
         /\ Len(Disposed(set, d)) = Len(occurrences)
<1> DEFINE r == Disposed(set, d)
<1>1. DOMAIN occurrences = 1..Len(occurrences)
  BY DEF History, Listed
<1>2. /\ DOMAIN r = 1..Len(occurrences) /\ r = [o \in DOMAIN r |-> r[o]]
      /\ \A o \in 1..Len(occurrences) :
            r[o] = occurrences[o] \/ r[o] = [occurrences[o] EXCEPT !.disposition = d]
  BY <1>1 DEF Disposed
<1> HIDE DEF r
<1>3. /\ Grown(occurrences, r, Len(events)) /\ Unlinked(occurrences, r)
      /\ Len(r) = Len(occurrences)
  BY <1>2, RequestsDisposed
<1> QED
  BY <1>3 DEF r

LEMMA ReleasedGrown ==
  ASSUME History, NEW s
  PROVE  /\ Listed(Released(s)) /\ \A o \in 1..Len(Released(s)) : DOMAIN Released(s)[o] = Columns
         /\ Grown(occurrences, Released(s), Len(events)) /\ Unlinked(occurrences, Released(s))
         /\ Len(Released(s)) = Len(occurrences)
<1> DEFINE r == Released(s)
           held == AutomaticIn(s, {"HELD"})
           row(o) == occurrences[o]
           earliest(o) == Min({row(o).fire} \cup {At(t) : t \in row(o).evidence})
           late == {o \in held : Expired(earliest(o), Policy[row(o).def].window)}
           rivals(o) == {p \in held \ late : Execution(row(p).def) = Execution(row(o).def)}
           newest(o) == \A p \in rivals(o) :
                           \/ row(p).fire < row(o).fire
                           \/ (row(p).fire = row(o).fire /\ p <= o)
           outcome(o) ==
             CASE o \in late -> "EXPIRED"
               [] o \notin late /\ Policy[row(o).def].overlap = "skip" -> "SKIPPED"
               [] o \notin late /\ Policy[row(o).def].overlap = "queue" -> "QUEUED"
               [] o \notin late /\ Policy[row(o).def].overlap = "coalesce_latest" ->
                     IF newest(o) THEN "QUEUED" ELSE "COALESCED"
<1>0. r = [o \in DOMAIN occurrences |->
             IF o \in held THEN [row(o) EXCEPT !.disposition = outcome(o)] ELSE row(o)]
  BY DEF Released
<1> HIDE DEF r, held, outcome
<1>1. DOMAIN occurrences = 1..Len(occurrences)
  BY DEF History, Listed
<1>2. /\ DOMAIN r = 1..Len(occurrences) /\ r = [o \in DOMAIN r |-> r[o]]
      /\ \A o \in 1..Len(occurrences) :
            \/ r[o] = occurrences[o]
            \/ \E d : r[o] = [occurrences[o] EXCEPT !.disposition = d]
  BY <1>0, <1>1
<1>3. /\ Listed(r) /\ \A o \in 1..Len(r) : DOMAIN r[o] = Columns
      /\ Grown(occurrences, r, Len(events)) /\ Unlinked(occurrences, r)
      /\ Len(r) = Len(occurrences)
  BY <1>2, RequestsDisposed
<1> QED
  BY <1>3 DEF r

\* The entry of a schedule in a table of all schedules.
LEMMA EntryOf ==
  ASSUME IInv, NEW s \in Schedules, NEW x
  PROVE  /\ schedules' = [schedules EXCEPT ![s] = x] =>
              Only(s, schedules, schedules') /\ schedules'[s] = x
         /\ clocks' = [clocks EXCEPT ![s] = x] => Only(s, clocks, clocks') /\ clocks'[s] = x
         /\ tokens' = [tokens EXCEPT ![s] = x] => Only(s, tokens, tokens') /\ tokens'[s] = x
         /\ schedules' = schedules => Only(s, schedules, schedules')
         /\ clocks' = clocks => Only(s, clocks, clocks')
         /\ tokens' = tokens => Only(s, tokens, tokens')
BY OnlyOne DEF IInv, Observers

LEMMA UnobservedClock ==
  ASSUME NEW d, NEW at
  PROVE  /\ DOMAIN Unobserved(at) = ClockColumns
         /\ \A r \in Unobserved(at).rows : KeyStands(r, d)
BY DEF Unobserved, ClockColumns

LEMMA PauseStep ==
  ASSUME IInv, NEW s \in Schedules, Pause(s)
  PROVE  IInv'
<1>1. Watching(s)
  BY DEF IInv, Observers
<1> DEFINE row == schedules'[s]
<1>2. /\ Only(s, schedules, schedules') /\ DOMAIN row = ScheduleColumns
      /\ row.def = schedules[s].def /\ row.cursor = schedules[s].cursor
  <2>1. schedules = [t \in Schedules |-> schedules[t]]
    BY DEF IInv, Observers
  <2>2. PICK since, at : schedules' = [schedules EXCEPT ![s] =
                           [schedules[s] EXCEPT !.paused = TRUE, !.since = since, !.pausedAt = at]]
    BY DEF Pause
  <2> DEFINE x == [schedules[s] EXCEPT !.paused = TRUE, !.since = since, !.pausedAt = at]
  <2>3. DOMAIN x = ScheduleColumns /\ x.def = schedules[s].def /\ x.cursor = schedules[s].cursor
    BY <1>1 DEF Watching, ScheduleColumns
  <2> HIDE DEF x
  <2>4. Only(s, schedules, schedules') /\ schedules'[s] = x
    BY <2>2, EntryOf DEF x
  <2> QED
    BY <2>3, <2>4
<1>3. Grown(occurrences, occurrences', Len(events)) /\ Unlinked(occurrences, occurrences')
  BY DisposedGrown DEF Pause, IInv
<1>4. /\ Here.commands # {} /\ UNCHANGED <<site, now, events, builds, passVars>>
      /\ clocks' = clocks /\ tokens' = tokens
  BY DEF Pause, Editable
<1>5. Only(s, clocks, clocks') /\ Only(s, tokens, tokens')
  BY <1>4, EntryOf
<1>6. /\ row.def \in Definitions /\ row.cursor \in 0..Len(events)
      /\ DOMAIN clocks'[s] = ClockColumns /\ \A r \in clocks'[s].rows : KeyStands(r, row.def)
      /\ AllStand(tokens'[s], Len(events))
  BY <1>1, <1>2, <1>4 DEF Watching
<1> QED
  BY <1>2, <1>3, <1>4, <1>5, <1>6, CommandStep

LEMMA ResumedRow ==
  ASSUME NEW row, DOMAIN row = ScheduleColumns
  PROVE  /\ DOMAIN Resumed(row) = ScheduleColumns
         /\ Resumed(row).def = row.def /\ Resumed(row).cursor = row.cursor
         /\ Resumed(row).epoch = row.epoch /\ Resumed(row).deleted = row.deleted
BY DEF Resumed, ScheduleColumns

LEMMA ResumeStep ==
  ASSUME IInv, NEW s \in Schedules, Resume(s)
  PROVE  IInv'
<1>1. Watching(s)
  BY DEF IInv, Observers
<1> DEFINE row == Resumed(schedules[s])
<1>2. DOMAIN row = ScheduleColumns /\ row.def = schedules[s].def /\ row.cursor = schedules[s].cursor
  BY <1>1, ResumedRow DEF Watching
<1>3. schedules' = [schedules EXCEPT ![s] = row]
  BY DEF Resume
<1> HIDE DEF row
<1>4. Only(s, schedules, schedules') /\ schedules'[s] = row
  BY <1>3, EntryOf
<1>5. Grown(occurrences, occurrences', Len(events)) /\ Unlinked(occurrences, occurrences')
  BY ReleasedGrown DEF Resume, IInv
<1>6. /\ Here.commands # {} /\ UNCHANGED <<site, now, events, builds, passVars>>
      /\ clocks' = clocks /\ tokens' = tokens
  BY DEF Resume, Editable
<1>7. Only(s, clocks, clocks') /\ Only(s, tokens, tokens')
  BY <1>6, EntryOf
<1>8. /\ row.def \in Definitions /\ row.cursor \in 0..Len(events)
      /\ DOMAIN clocks'[s] = ClockColumns /\ \A r \in clocks'[s].rows : KeyStands(r, row.def)
      /\ AllStand(tokens'[s], Len(events))
  BY <1>1, <1>2, <1>6 DEF Watching
<1> QED
  BY <1>2, <1>4, <1>5, <1>6, <1>7, <1>8, CommandStep

LEMMA RunStep ==
  ASSUME IInv, NEW s \in Schedules, Run(s)
  PROVE  IInv'
<1>1. Watching(s) /\ History
  BY DEF IInv, Observers
<1> DEFINE new == [schedule |-> s, epoch |-> schedules[s].epoch, manual |-> TRUE, fire |-> now,
                   evidence |-> {}, def |-> schedules[s].def, build |-> 0, disposition |-> "QUEUED"]
<1>2. occurrences' = Append(occurrences, new)
  BY DEF Run
<1>3. Request(new, Len(events)) /\ new.build = 0
  <2>1. DOMAIN new = Columns /\ new.def \in Definitions /\ new.evidence = {} /\ new.build = 0
    BY <1>1 DEF Watching, Columns
  <2> HIDE DEF new
  <2> QED
    BY <2>1 DEF Request, AllStand
<1> HIDE DEF new
<1>4. Grown(occurrences, occurrences', Len(events)) /\ Unlinked(occurrences, occurrences')
  <2>1. Listed(occurrences) /\ Len(occurrences) \in Nat
    BY <1>1 DEF History, Listed
  <2>2. /\ Listed(occurrences') /\ Len(occurrences') = Len(occurrences) + 1
        /\ occurrences'[Len(occurrences) + 1] = new
        /\ \A o \in 1..Len(occurrences) : occurrences'[o] = occurrences[o]
    BY <1>2, <2>1, ListedAppend
  <2>3. \A o \in 1..Len(occurrences) : DOMAIN occurrences[o] = Columns
    BY <1>1 DEF History, Request
  <2> QED
    BY <1>3, <2>1, <2>2, <2>3 DEF Grown, Unlinked, SameRequest
<1>5. /\ Here.commands # {} /\ UNCHANGED <<site, now, events, builds, passVars>>
      /\ schedules' = schedules /\ clocks' = clocks /\ tokens' = tokens
  BY DEF Run, Editable
<1>6. Only(s, schedules, schedules') /\ Only(s, clocks, clocks') /\ Only(s, tokens, tokens')
  BY <1>5, EntryOf
<1>7. /\ DOMAIN schedules'[s] = ScheduleColumns
      /\ schedules'[s].def \in Definitions /\ schedules'[s].cursor \in 0..Len(events)
      /\ DOMAIN clocks'[s] = ClockColumns
      /\ \A r \in clocks'[s].rows : KeyStands(r, schedules'[s].def)
      /\ AllStand(tokens'[s], Len(events))
  BY <1>1, <1>5 DEF Watching
<1> QED
  BY <1>4, <1>5, <1>6, <1>7, CommandStep

LEMMA DeleteStep ==
  ASSUME IInv, NEW s \in Schedules, Delete(s)
  PROVE  IInv'
<1>1. Watching(s)
  BY DEF IInv, Observers
<1> DEFINE row == [schedules[s] EXCEPT !.deleted = TRUE]
<1>2. schedules' = [schedules EXCEPT ![s] = row] /\ tokens' = [tokens EXCEPT ![s] = {}]
  BY DEF Delete
<1>3. DOMAIN row = ScheduleColumns /\ row.def = schedules[s].def /\ row.cursor = schedules[s].cursor
  BY <1>1 DEF Watching, ScheduleColumns
<1> HIDE DEF row
<1>4. Only(s, schedules, schedules') /\ schedules'[s] = row /\ Only(s, tokens, tokens') /\ tokens'[s] = {}
  BY <1>2, EntryOf
<1>5. Grown(occurrences, occurrences', Len(events)) /\ Unlinked(occurrences, occurrences')
  BY DisposedGrown DEF Delete, IInv
<1>6. /\ Here.commands # {} /\ UNCHANGED <<site, now, events, builds, passVars>> /\ clocks' = clocks
  BY DEF Delete, Editable
<1>7. Only(s, clocks, clocks')
  BY <1>6, EntryOf
<1>8. /\ row.def \in Definitions /\ row.cursor \in 0..Len(events)
      /\ DOMAIN clocks'[s] = ClockColumns /\ \A r \in clocks'[s].rows : KeyStands(r, row.def)
      /\ AllStand(tokens'[s], Len(events))
  BY <1>1, <1>3, <1>4, <1>6 DEF Watching, AllStand
<1> QED
  BY <1>3, <1>4, <1>5, <1>6, <1>7, <1>8, CommandStep

LEMMA SavedRow ==
  ASSUME NEW row, DOMAIN row = ScheduleColumns, NEW d
  PROVE  /\ DOMAIN Saved(row, d) = ScheduleColumns
         /\ Saved(row, d).def = d /\ Saved(row, d).cursor = Len(events)
         /\ Saved(row, d).epoch = row.epoch + 1
BY DEF Saved, ScheduleColumns

LEMMA SaveStep ==
  ASSUME IInv, NEW s \in Schedules, NEW d \in Here.definitions, Save(s, d)
  PROVE  IInv'
<1>1. Watching(s) /\ History
  BY DEF IInv, Observers
<1>2. d \in Definitions
  BY <1>1, SiteAssumption DEF History, Here, Situations
<1> DEFINE row == Saved(schedules[s], d)
           clock == Unobserved(now)
<1>3. /\ schedules' = [schedules EXCEPT ![s] = row] /\ clocks' = [clocks EXCEPT ![s] = clock]
      /\ tokens' = [tokens EXCEPT ![s] = {}]
  BY DEF Save
<1>4. DOMAIN row = ScheduleColumns /\ row.def = d /\ row.cursor = Len(events)
  BY <1>1, SavedRow DEF Watching
<1>5. DOMAIN clock = ClockColumns /\ \A r \in clock.rows : KeyStands(r, d)
  BY UnobservedClock
<1> HIDE DEF row, clock
<1>6. /\ Only(s, schedules, schedules') /\ schedules'[s] = row
      /\ Only(s, clocks, clocks') /\ clocks'[s] = clock
      /\ Only(s, tokens, tokens') /\ tokens'[s] = {}
  BY <1>3, EntryOf
<1>7. /\ Here.commands # {} /\ UNCHANGED <<site, now, events, builds, passVars>>
      /\ occurrences' = occurrences
  BY DEF Save, Editable
<1>8. Grown(occurrences, occurrences', Len(events)) /\ Unlinked(occurrences, occurrences')
  BY <1>1, <1>7, RequestsSame
<1>9. row.cursor \in 0..Len(events) /\ AllStand({}, Len(events))
  BY <1>1, <1>4 DEF History, Listed, AllStand
<1> QED
  BY <1>2, <1>4, <1>5, <1>6, <1>7, <1>8, <1>9, CommandStep

LEMMA ReplayStep ==
  ASSUME IInv, NEW s \in Schedules, Here.commands # {},
         NEW row, DOMAIN row = ScheduleColumns, row.def \in Definitions,
         NEW rows, Listed(rows), \A o \in 1..Len(rows) : DOMAIN rows[o] = Columns,
         Grown(occurrences, rows, Len(events)), Unlinked(occurrences, rows),
         NEW after \in 0..Len(events), Replay(s, row, rows, after)
  PROVE  IInv'
<1>1. History
  BY DEF IInv
<1> DEFINE fresh == [row EXCEPT !.epoch = row.epoch + 1, !.cursor = after, !.since = 0, !.muted = {},
                                !.pausedAt = 0, !.quiet = {}]
           scanned == Scanned(fresh)
           first == [rows |-> rows, tokens |-> Scan(fresh, {}), ok |-> TRUE]
           done == Queued(s, scanned, first)
           clock == Unobserved(now)
<1>2. /\ schedules' = [schedules EXCEPT ![s] = scanned]
      /\ clocks' = [clocks EXCEPT ![s] = clock]
      /\ tokens' = [tokens EXCEPT ![s] = done.tokens]
      /\ occurrences' = done.rows
      /\ UNCHANGED <<site, now, events, builds, passVars>>
  BY DEF Replay
<1>3. DOMAIN fresh = ScheduleColumns /\ fresh.def = row.def /\ fresh.cursor = after
  BY DEF ScheduleColumns
<1> HIDE DEF fresh
<1>4. DOMAIN scanned = ScheduleColumns /\ scanned.def = row.def /\ scanned.cursor = Len(events)
  BY <1>3 DEF Scanned, ScheduleColumns
<1>5. AllStand(Scan(fresh, {}), Len(events))
  <2>1. AllStand({}, Len(events))
    BY DEF AllStand
  <2> QED
    BY <1>1, <1>3, <2>1, ScanStands
<1>6. Work(first) /\ first.rows = rows
  BY <1>5 DEF Work
<1>7. DOMAIN clock = ClockColumns /\ \A r \in clock.rows : KeyStands(r, row.def)
  BY UnobservedClock
<1> HIDE DEF scanned, first, clock
<1>8. Worked(s, scanned, first, done)
  BY <1>1, <1>4, <1>6, QueuedWorks
<1> HIDE DEF done
<1>9. Grown(occurrences, occurrences', Len(events)) /\ Unlinked(occurrences, occurrences')
  <2>1. Grown(rows, done.rows, Len(events)) /\ Unlinked(rows, done.rows)
    BY <1>6, <1>8 DEF Worked
  <2>2. Listed(occurrences)
    BY <1>1 DEF History
  <2> QED
    BY <1>2, <2>1, <2>2, GrownFurther
<1>10. /\ Only(s, schedules, schedules') /\ schedules'[s] = scanned
       /\ Only(s, clocks, clocks') /\ clocks'[s] = clock
       /\ Only(s, tokens, tokens') /\ tokens'[s] = done.tokens
  BY <1>2, EntryOf
<1>11. AllStand(done.tokens, Len(events)) /\ scanned.cursor \in 0..Len(events)
  BY <1>1, <1>4, <1>8 DEF Worked, Work, History, Listed
<1> QED
  BY <1>2, <1>4, <1>7, <1>9, <1>10, <1>11, CommandStep

LEMMA ResumeReplayingStep ==
  ASSUME IInv, NEW s \in Schedules, NEW after \in 0..Len(events), ResumeReplaying(s, after)
  PROVE  IInv'
<1>1. Watching(s) /\ History
  BY DEF IInv, Observers
<1> DEFINE row == Resumed(schedules[s])
           rows == ReleasedIfPaused(s)
<1>2. DOMAIN row = ScheduleColumns /\ row.def \in Definitions
  BY <1>1, ResumedRow DEF Watching
<1>3. /\ Listed(rows) /\ \A o \in 1..Len(rows) : DOMAIN rows[o] = Columns
      /\ Grown(occurrences, rows, Len(events)) /\ Unlinked(occurrences, rows)
  <2>1. CASE schedules[s].paused
    <3>1. rows = Released(s)
      BY <2>1 DEF ReleasedIfPaused
    <3> QED
      BY <1>1, <3>1, ReleasedGrown
  <2>2. CASE ~schedules[s].paused
    <3>1. rows = occurrences
      BY <2>2 DEF ReleasedIfPaused
    <3> HIDE DEF rows
    <3> QED
      BY <1>1, <3>1 DEF History, Request, Grown, Unlinked, SameRequest, Listed
  <2> QED
    BY <2>1, <2>2
<1>4. Here.commands # {} /\ Replay(s, row, rows, after)
  BY DEF ResumeReplaying, Editable
<1> HIDE DEF row, rows
<1> QED
  BY <1>2, <1>3, <1>4, ReplayStep

LEMMA SaveReplayingStep ==
  ASSUME IInv, NEW s \in Schedules, NEW d \in Here.definitions,
         NEW after \in 0..Len(events), SaveReplaying(s, d, after)
  PROVE  IInv'
<1>1. Watching(s) /\ History
  BY DEF IInv, Observers
<1> DEFINE row == Saved(schedules[s], d)
<1>2. DOMAIN row = ScheduleColumns /\ row.def \in Definitions
  <2>1. d \in Definitions
    BY <1>1, SiteAssumption DEF History, Here, Situations
  <2> QED
    BY <1>1, <2>1, SavedRow DEF Watching
<1>3. /\ Listed(occurrences) /\ \A o \in 1..Len(occurrences) : DOMAIN occurrences[o] = Columns
      /\ Grown(occurrences, occurrences, Len(events)) /\ Unlinked(occurrences, occurrences)
  BY <1>1 DEF History, Request, Grown, Unlinked, SameRequest, Listed
<1>4. Here.commands # {} /\ Replay(s, row, occurrences, after)
  BY DEF SaveReplaying, Editable
<1> HIDE DEF row
<1> QED
  BY <1>2, <1>3, <1>4, ReplayStep

-----------------------------------------------------------------------------
(* Together. *)

LEMMA InitIInv == Init => IInv
<1> SUFFICES ASSUME Init PROVE IInv
  OBVIOUS
<1>1. /\ events = <<>> /\ occurrences = <<>> /\ builds = <<>> /\ now = 0
      /\ site \in DOMAIN Situation /\ next = 1 /\ batch = {} /\ phase = "idle"
  BY DEF Init
<1>2. Listed(<<>>) /\ Len(<<>>) = 0
  BY ListedEmpty
<1>3. History
  BY <1>1, <1>2 DEF History
<1>4. InPass
  BY <1>1, FirstSchedule DEF InPass
<1>5. Alone /\ Apart
  BY <1>1, <1>2 DEF Alone, Apart
<1>6. ASSUME NEW s \in Schedules
      PROVE  Watching(s) /\ AnsweredOf(s)
  <2>1. schedules[s] =
          [def |-> Here.initially[s], paused |-> FALSE, review |-> FALSE, deleted |-> FALSE,
           epoch |-> 0, cursor |-> 0, since |-> 0, muted |-> {}, pausedAt |-> 0, quiet |-> {}]
    BY DEF Init
  <2>2. Here.initially[s] \in Definitions
    <3>1. Here.initially \in Seq(Here.definitions) /\ Here.definitions \subseteq Definitions
      BY <1>1, SiteAssumption DEF Here, Situations
    <3>2. s \in 1..Len(Here.initially)
      BY DEF Schedules, ScheduleCount
    <3> QED
      BY <3>1, <3>2, LenProperties
  <2>3. /\ DOMAIN schedules[s] = ScheduleColumns /\ schedules[s].def \in Definitions
        /\ schedules[s].cursor = 0 /\ schedules[s].muted = {}
    BY <2>1, <2>2 DEF ScheduleColumns
  <2>4. ~schedules[s].paused
    BY <2>1
  <2>5. clocks[s] = Unobserved(0) /\ tokens[s] = {}
    BY DEF Init
  <2>6. DOMAIN clocks[s] = ClockColumns /\ \A r \in clocks[s].rows : KeyStands(r, schedules[s].def)
    BY <2>5, UnobservedClock
  <2>7. AllStand(tokens[s], Len(events))
    BY <2>5 DEF AllStand
  <2>8. schedules[s].cursor \in 0..Len(events)
    BY <1>1, <1>2, <2>3
  <2>9. Watching(s)
    BY <2>3, <2>4, <2>6, <2>7, <2>8 DEF Watching
  <2>10. AnsweredOf(s)
    BY <2>3 DEF AnsweredOf
  <2> QED
    BY <2>9, <2>10
<1>7. Observers /\ Answered
  <2>1. /\ schedules = [s \in Schedules |-> schedules[s]]
        /\ clocks = [s \in Schedules |-> clocks[s]]
        /\ tokens = [s \in Schedules |-> tokens[s]]
    BY DEF Init
  <2> QED
    BY <1>6, <2>1 DEF Observers, Answered
<1> QED
  BY <1>3, <1>4, <1>5, <1>7 DEF IInv

LEMMA NextIInv == IInv /\ [Next]_vars => IInv'
<1> SUFFICES ASSUME IInv, [Next]_vars PROVE IInv'
  OBVIOUS
<1>1. CASE World
  BY <1>1, TickStep, OutsideStep, PublishHeadStep, StartBuildStep, FinishBuildStep DEF World
<1>2. CASE Pass
  <2>1. CASE \E o \in DOMAIN occurrences : Reconcile(o)
    BY <2>1, ReconcileStep
  <2>2. CASE \E o \in batch : Prepare(o)
    BY <2>2, PrepareStep
  <2>3. CASE SkipSchedule
    BY <2>3, SkipStep
  <2>4. CASE ObserveClock
    BY <2>4, ObserveClockStep
  <2>5. CASE ScanEvents
    BY <2>5, ScanEventsStep
  <2>6. CASE Deliver
    BY <2>6, DeliverStep
  <2>7. CASE Evaluate
    BY <2>7, EvaluateStep
  <2>8. CASE Accept
    BY <2>8, AcceptStep
  <2>9. CASE Refuse
    BY <2>9, RefuseStep
  <2>10. CASE StartPass \/ Reconciled \/ Select \/ EndPass \/ AwaitWrites \/ Reject
    BY <2>10, BookSteps
  <2> QED
    BY <1>2, <2>1, <2>2, <2>3, <2>4, <2>5, <2>6, <2>7, <2>8, <2>9, <2>10 DEF Pass
<1>3. CASE Command
  BY <1>3, PauseStep, ResumeStep, RunStep, DeleteStep, SaveStep, ResumeReplayingStep, SaveReplayingStep
  DEF Command
<1>4. CASE Crash \/ Restart
  BY <1>4, BookSteps
<1>5. CASE Recover
  BY <1>5, RecoverStep
<1>6. CASE UNCHANGED vars
  <2>1. UNCHANGED <<site, now, events, occurrences, builds, schedules, clocks, tokens, passVars>>
    BY <1>6 DEF vars
  <2>2. next \in Schedules /\ batch \subseteq 1..Len(occurrences)
        /\ (phase \in {"accept", "refuse"} => current \in 1..Len(occurrences))
    BY DEF IInv, InPass
  <2> QED
    BY <2>1, <2>2, BookStep DEF passVars
<1> QED
  BY <1>1, <1>2, <1>3, <1>4, <1>5, <1>6 DEF Next

LEMMA Invariant == Spec => []IInv
<1>1. Init => IInv
  BY InitIInv
<1>2. IInv /\ [Next]_vars => IInv'
  BY NextIInv
<1> QED
  BY <1>1, <1>2, PTL DEF Spec

\* Of the active builds of a schedule at most one was accepted under a policy
\* that forbids overlapping, whatever it was saved as since (schedule_overlap.rs
\* and the guard that accept_draft repeats).
THEOREM OverlapForbidden == Spec => []NoOverlap
<1>1. ASSUME IInv PROVE NoOverlap
  <2> SUFFICES ASSUME NEW s \in Schedules
               PROVE  Cardinality({b \in ActiveOf(s) :
                        ~Policy[occurrences[builds[b].occurrence].def].overlapping}) <= 1
    BY DEF NoOverlap
  <2> DEFINE T == {b \in ActiveOf(s) : ~Policy[occurrences[builds[b].occurrence].def].overlapping}
  <2>1. \A b \in T : b \in 1..Len(builds) /\ Exclusive(b) /\ ScheduleOf(b) = s
    BY <1>1 DEF ActiveOf, ActiveBuilds, BuildsOf, Exclusive, IInv, History, Listed
  <2>2. \A b, c \in T : b = c
    BY <1>1, <2>1 DEF IInv, Alone
  <2> HIDE DEF T
  <2>3. CASE T = {}
    <3>1. Cardinality(T) = 0
      BY <2>3, FS_EmptySet
    <3> QED
      BY <3>1 DEF T
  <2>4. CASE T # {}
    <3>1. PICK b : T = {b}
      BY <2>2, <2>4
    <3>2. Cardinality(T) = 1
      BY <3>1, FS_Singleton
    <3> QED
      BY <3>2 DEF T
  <2> QED
    BY <2>3, <2>4
<1> QED
  BY <1>1, Invariant, PTL

\* No automatic build has its own schedule among its causes, at any distance
\* (check_schedule_dispatch_ancestry walks them before it prepares).
THEOREM NoScheduleCausesItself == Spec => []NoSelfAncestry
<1>1. ASSUME IInv PROVE NoSelfAncestry
  <2> SUFFICES ASSUME NEW o \in 1..Len(occurrences), Automatic(o), occurrences[o].build # 0
               PROVE  \A depth \in DOMAIN Behind(o, Len(builds)) :
                        \A b \in Behind(o, Len(builds))[depth] :
                            ScheduleOf(b) # occurrences[o].schedule
    BY <1>1 DEF NoSelfAncestry, IInv, History, Listed
  <2>1. History /\ Separate(o) /\ Len(builds) \in Nat
    BY <1>1 DEF IInv, Apart, History, Listed
  <2> QED
    BY <2>1, SeparateBehind
<1> QED
  BY <1>1, Invariant, PTL

\* Where no command is given and nothing expires, an event behind the cursor of
\* a schedule is a token still, or a request used it or a later one of its leaf
\* (scan_schedule_events, queue_schedule_occurrence).
THEOREM NoEventIsLost == Spec => []EventsAnswered
<1>1. ASSUME IInv PROVE EventsAnswered
  <2> SUFFICES ASSUME Here.commands = {}, NEW s \in Schedules,
                      NEW l \in LeavesOf(schedules[s].def), NEW e \in 1..schedules[s].cursor,
                      Matched(l, e), Policy[schedules[s].def].window = None
               PROVE  \/ <<l, e>> \in tokens[s]
                      \/ \E o \in DOMAIN occurrences :
                            /\ occurrences[o].schedule = s
                            /\ \E t \in occurrences[o].evidence : t[1] = l /\ t[2] >= e
    BY DEF EventsAnswered
  <2>1. AnsweredBy(s, l, e)
    BY <1>1 DEF IInv, Answered, AnsweredOf
  <2>2. CASE <<l, e>> \in tokens[s]
    BY <2>2
  <2>3. ASSUME NEW o \in 1..Len(occurrences), occurrences[o].schedule = s,
               NEW t \in occurrences[o].evidence, t[1] = l, e <= t[2]
        PROVE  /\ o \in DOMAIN occurrences /\ occurrences[o].schedule = s
               /\ \E u \in occurrences[o].evidence : u[1] = l /\ u[2] >= e
    <3>1. o \in DOMAIN occurrences
      BY <1>1 DEF IInv, History, Listed
    <3>2. t[2] \in Nat /\ e \in Nat
      <4>1. Stands(t, Len(events))
        BY <1>1 DEF IInv, History, Request, AllStand
      <4>2. \/ t[2] \in 0..Horizon
            \/ t[2] \in 1..Len(events)
        BY <4>1 DEF Stands
      <4>3. Len(events) \in Nat /\ Horizon \in Nat /\ schedules[s].cursor \in 0..Len(events)
        BY <1>1, ClockAssumption DEF IInv, History, Listed, Observers, Watching
      <4> QED
        BY <4>2, <4>3
    <3> QED
      BY <2>3, <3>1, <3>2
  <2> QED
    BY <2>1, <2>2, <2>3 DEF AnsweredBy
<1> QED
  BY <1>1, Invariant, PTL

-----------------------------------------------------------------------------
(* What an observation plans for a clock that catches up: ticks between the
   cursor and its next place. *)

Key(t) == t = <<t[1], t[2]>> /\ t[1] \in Nat /\ t[2] \in Nat

LEMMA BeforeOrders ==
  ASSUME NEW t, NEW u, NEW v, Key(t), Key(u), Key(v)
  PROVE  /\ Before(t, u) \/ Before(u, t) \/ t = u
         /\ Before(t, u) => ~Before(u, t)
         /\ ~Before(t, t)
         /\ Before(t, u) /\ Before(u, v) => Before(t, v)
         /\ Before(t, u) /\ ~Before(v, u) => Before(t, v)
         /\ ~Before(t, u) /\ ~Before(u, v) => ~Before(t, v)
BY DEF Key, Before

\* The oldest and the latest of some keys.
LEMMA FirstKey ==
  ASSUME NEW T, T # {}, \A t \in T : Key(t)
  PROVE  \E t \in T : \A u \in T : u = t \/ Before(t, u)
<1>1. {t[1] : t \in T} \subseteq Nat /\ {t[1] : t \in T} # {}
  BY DEF Key
<1>2. PICK a \in {t[1] : t \in T} : \A b \in {t[1] : t \in T} : a <= b
  BY <1>1, LeastNat
<1> DEFINE S == {t[2] : t \in {u \in T : u[1] = a}}
<1>3. S \subseteq Nat /\ S # {}
  BY <1>2 DEF Key
<1>4. PICK b \in S : \A c \in S : b <= c
  BY <1>3, LeastNat
<1>5. PICK t \in T : t[1] = a /\ t[2] = b
  BY <1>4
<1>6. ASSUME NEW u \in T, u # t
      PROVE  Before(t, u)
  <2>1. Key(t) /\ Key(u) /\ a <= u[1]
    BY <1>2
  <2>2. CASE u[1] = a
    <3>1. u[2] \in S
      BY <2>2
    <3>2. b <= u[2] /\ b # u[2]
      BY <1>4, <1>5, <1>6, <2>1, <2>2, <3>1 DEF Key
    <3> QED
      BY <1>5, <2>1, <2>2, <3>2 DEF Before, Key
  <2>3. CASE u[1] # a
    BY <1>5, <2>1, <2>3 DEF Before, Key
  <2> QED
    BY <2>2, <2>3
<1> QED
  BY <1>6

LEMMA LastKey ==
  ASSUME NEW m \in Nat, NEW n \in Nat, NEW T, T # {}, T \subseteq (0..m) \X (0..n)
  PROVE  Latest(T) \in T /\ \A u \in T : ~Before(Latest(T), u)
<1> DEFINE back(t) == <<m - t[1], n - t[2]>>
           U == {back(t) : t \in T}
<1>1. \A t \in T : /\ Key(t) /\ Key(back(t)) /\ m - t[1] \in Nat /\ n - t[2] \in Nat
                   /\ t[1] \in 0..m /\ t[2] \in 0..n
  BY DEF Key
<1>2. U # {} /\ \A t \in U : Key(t)
  BY <1>1
<1>3. PICK x \in U : \A y \in U : y = x \/ Before(x, y)
  BY <1>2, FirstKey
<1>4. PICK t \in T : x = back(t)
  OBVIOUS
<1>5. ASSUME NEW u \in T
      PROVE  u = t \/ Before(u, t)
  <2>1. back(u) = back(t) \/ Before(back(t), back(u))
    BY <1>3, <1>4
  <2>2. /\ t = <<t[1], t[2]>> /\ u = <<u[1], u[2]>>
        /\ t[1] \in 0..m /\ t[2] \in 0..n /\ u[1] \in 0..m /\ u[2] \in 0..n
    BY <1>1 DEF Key
  <2>3. CASE back(u) = back(t)
    <3>1. m - u[1] = m - t[1] /\ n - u[2] = n - t[2]
      BY <2>3
    <3> QED
      BY <2>2, <3>1
  <2>4. CASE Before(back(t), back(u))
    <3>1. m - t[1] < m - u[1] \/ (m - t[1] = m - u[1] /\ n - t[2] < n - u[2])
      BY <2>4 DEF Before
    <3> QED
      BY <2>2, <3>1 DEF Before
  <2> QED
    BY <2>1, <2>3, <2>4
<1>6. Latest(T) \in T /\ \A u \in T : u = Latest(T) \/ Before(u, Latest(T))
  BY <1>5 DEF Latest
<1> QED
  BY <1>1, <1>6, BeforeOrders

\* Of the keys that are not among the oldest n, none comes before one that is.
LEMMA OldestFirst ==
  ASSUME NEW keys, IsFiniteSet(keys), \A t \in keys : Key(t), NEW n \in Int,
         NEW t \in Oldest(keys, n), NEW u \in keys \ Oldest(keys, n)
  PROVE  Before(t, u)
<1> DEFINE older(x) == {y \in keys : Before(y, x)}
<1>1. t \in keys /\ Cardinality(older(t)) < n /\ ~(Cardinality(older(u)) < n)
  BY DEF Oldest
<1>2. SUFFICES ASSUME ~Before(t, u) PROVE FALSE
  OBVIOUS
<1>3. t # u
  OBVIOUS
<1>4. Key(t) /\ Key(u)
  BY <1>1
<1>5. Before(u, t)
  BY <1>2, <1>3, <1>4, BeforeOrders
<1>6. older(u) \subseteq older(t)
  BY <1>4, <1>5, BeforeOrders
<1>7. IsFiniteSet(older(t)) /\ IsFiniteSet(older(u))
  BY FS_Subset
<1>8. Cardinality(older(u)) <= Cardinality(older(t))
  BY <1>6, <1>7, FS_Subset
<1>9. Cardinality(older(u)) \in Nat /\ Cardinality(older(t)) \in Nat
  BY <1>7, FS_CardinalityType
<1> QED
  BY <1>1, <1>8, <1>9

LEMMA MinOfTwo ==
  ASSUME NEW a \in Int, NEW b \in Int
  PROVE  Min({a, b}) = IF a <= b THEN a ELSE b
<1> DEFINE m == IF a <= b THEN a ELSE b
<1>1. m \in {a, b} /\ \A y \in {a, b} : m <= y
  OBVIOUS
<1>2. \A x \in {a, b} : (\A y \in {a, b} : x <= y) => x = m
  OBVIOUS
<1> HIDE DEF m
<1> QED
  BY <1>1, <1>2 DEF Min, m

LEMMA PlannedAhead ==
  ASSUME NEW leaves, NEW m \in 0..Whole, DOMAIN leaves = 1..m,
         NEW c, Key(c.cursor), c.cursor[2] <= Whole, NEW most \in Nat, c.pending \in Nat, NEW at \in Nat
  PROVE  LET plan == Prepared(leaves, c, "catch_up", most, at) IN
         /\ Key(plan.cursor) /\ plan.cursor[2] <= Whole
         /\ ~Before(plan.cursor, c.cursor)
         /\ \A t \in plan.ticks : Before(c.cursor, t) /\ ~Before(plan.cursor, t)
<1> DEFINE through == Min({at, c.cursor[1] + LongestPass})
           reach(k) == Due(Crons[leaves[k]], c.cursor[1], through)
           all == UNION {reach(k) \X {k} : k \in DOMAIN leaves}
           due == {t \in all : Before(c.cursor, t) /\ ~Before(<<through, Whole>>, t)}
           eligible == {t \in due : ~InPause(t, c.quiet)}
           limit == Min({most, TickLimit - c.pending})
           taken == Oldest(eligible, limit)
           stop == CHOOSE t \in eligible \ taken : \A u \in eligible \ taken : u = t \/ Before(t, u)
           accounted == {t \in due : Before(t, stop)}
           plan == Prepared(leaves, c, "catch_up", most, at)
           Good(cursor, ticks) ==
             /\ Key(cursor) /\ cursor[2] <= Whole /\ ~Before(cursor, c.cursor)
             /\ \A t \in ticks : Before(c.cursor, t) /\ ~Before(cursor, t)
<1> SUFFICES Good(plan.cursor, plan.ticks)
  OBVIOUS
<1>1. \A k \in DOMAIN leaves : reach(k) \subseteq 0..Horizon
  BY DueThere
<1>2. \/ plan.cursor = c.cursor /\ plan.ticks = {}
      \/ /\ ~(at < c.cursor[1])
         /\ \/ plan.cursor = <<through, Whole>> /\ plan.ticks = {}
            \/ plan.cursor = <<through, Whole>> /\ plan.ticks = taken /\ eligible = taken
            \/ /\ eligible # taken /\ plan.ticks = taken
               /\ plan.cursor = IF accounted = {} THEN c.cursor ELSE Latest(accounted)
  <2> DEFINE R(seen, ticks, coalesced, cursor) ==
               [ticks |-> ticks, coalesced |-> coalesced, cursor |-> cursor,
                ignored |-> seen \ (ticks \cup coalesced)]
             newest == {t \in eligible : \A u \in eligible : u[2] = t[2] => u[1] <= t[1]}
             last == IF accounted = {} THEN c.cursor ELSE Latest(accounted)
             now1 == R(due, {t \in eligible : t[1] > at - 1}, {}, <<through, Whole>>)
             newest1 == R(due, newest, eligible \ newest, <<through, Whole>>)
  <2>0. plan = IF at < c.cursor[1] THEN R({}, {}, {}, c.cursor)
               ELSE IF c.paused THEN R(due, {}, {}, <<through, Whole>>)
               ELSE IF "catch_up" = "skip" THEN now1
               ELSE IF "catch_up" = "coalesce_latest" THEN newest1
               ELSE IF eligible = taken THEN R(due, taken, {}, <<through, Whole>>)
               ELSE R(accounted, taken, {}, last)
    BY DEF Prepared
  <2> HIDE DEF now1, newest1, newest
  <2>1. plan = IF at < c.cursor[1] THEN R({}, {}, {}, c.cursor)
               ELSE IF c.paused THEN R(due, {}, {}, <<through, Whole>>)
               ELSE IF eligible = taken THEN R(due, taken, {}, <<through, Whole>>)
               ELSE R(accounted, taken, {}, last)
    <3> HIDE DEF plan, through, due, eligible, taken, accounted, last, R
    <3> QED
      BY <2>0
  <2> HIDE DEF plan, through, due, eligible, taken, accounted, last
  <2>2. \A seen, ticks, coalesced, cursor : /\ R(seen, ticks, coalesced, cursor).ticks = ticks
                                            /\ R(seen, ticks, coalesced, cursor).cursor = cursor
    OBVIOUS
  <2> HIDE DEF R
  <2>3. \/ plan.cursor = c.cursor /\ plan.ticks = {}
        \/ /\ ~(at < c.cursor[1])
           /\ \/ plan.cursor = <<through, Whole>> /\ plan.ticks = {}
              \/ plan.cursor = <<through, Whole>> /\ plan.ticks = taken /\ eligible = taken
              \/ eligible # taken /\ plan.ticks = taken /\ plan.cursor = last
    BY <2>1, <2>2
  <2> QED
    BY <2>3 DEF last
<1> HIDE DEF reach, plan
<1>3. Horizon \in Nat /\ m \in Nat /\ Whole \in Nat /\ m <= Whole
  BY ClockAssumption DEF Whole
<1>4. all \subseteq (0..Horizon) \X (0..m)
  BY <1>1, <1>3
<1>5. IsFiniteSet(all) /\ \A t \in all : Key(t) /\ t[2] <= Whole
  <2>1. IsFiniteSet((0..Horizon) \X (0..m))
    <3>1. IsFiniteSet(0..Horizon) /\ IsFiniteSet(0..m)
      BY <1>3, FS_Interval
    <3> QED
      BY <3>1, FS_Product
  <2> QED
    BY <1>3, <1>4, <2>1, FS_Subset, SMTT(30) DEF Key
<1> HIDE DEF all
<1>6. eligible \subseteq due /\ due \subseteq all /\ taken \subseteq eligible
  BY DEF Oldest
<1>7. IsFiniteSet(eligible)
  BY <1>5, <1>6, FS_Subset
<1>8. limit \in Int
  <2>1. most \in Int /\ TickLimit - c.pending \in Int
    BY ClockAssumption
  <2> QED
    BY <2>1, MinOfTwo
<1>9. \A t \in due : Before(c.cursor, t) /\ ~Before(<<through, Whole>>, t)
  OBVIOUS
<1> HIDE DEF due, limit
<1>10. CASE plan.cursor = c.cursor /\ plan.ticks = {}
  BY <1>10, BeforeOrders
<1>11. ASSUME ~(at < c.cursor[1])
       PROVE  Key(<<through, Whole>>) /\ ~Before(<<through, Whole>>, c.cursor)
  <2>1. through \in Nat /\ c.cursor[1] <= through
    <3>1. c.cursor[1] \in Nat /\ c.cursor[1] + LongestPass \in Nat /\ c.cursor[1] <= c.cursor[1] + LongestPass
      BY ClockAssumption, SMTT(30) DEF Key
    <3> QED
      BY <1>11, <3>1, MinOfTwo
  <2> HIDE DEF through
  <2> QED
    BY <1>3, <2>1 DEF Key, Before
<1> HIDE DEF through
<1>12. ASSUME ~(at < c.cursor[1]), plan.cursor = <<through, Whole>>, plan.ticks \subseteq due
       PROVE  Good(plan.cursor, plan.ticks)
  BY <1>3, <1>9, <1>11, <1>12
<1>13. ASSUME eligible # taken, plan.ticks = taken,
              plan.cursor = IF accounted = {} THEN c.cursor ELSE Latest(accounted)
       PROVE  Good(plan.cursor, plan.ticks)
  <2>1. stop \in eligible \ taken
    <3>1. eligible \ taken # {} /\ \A t \in eligible \ taken : Key(t)
      BY <1>5, <1>6, <1>13
    <3> HIDE DEF taken, eligible
    <3>2. \E t \in eligible \ taken : \A u \in eligible \ taken : u = t \/ Before(t, u)
      BY <3>1, FirstKey
    <3> QED
      BY <3>2
  <2> HIDE DEF stop
  <2>2. \A t \in taken : Before(t, stop)
    <3>1. \A t \in eligible : Key(t)
      BY <1>5, <1>6
    <3> HIDE DEF eligible
    <3> QED
      BY <1>7, <1>8, <2>1, <3>1, OldestFirst
  <2>3. taken \subseteq accounted /\ accounted \subseteq due
    BY <1>6, <2>2
  <2>4. CASE accounted = {}
    BY <1>10, <1>13, <2>3, <2>4
  <2>5. CASE accounted # {}
    <3>1. accounted \subseteq (0..Horizon) \X (0..m)
      BY <1>4, <1>6, <2>3
    <3> HIDE DEF accounted
    <3>2. Latest(accounted) \in accounted /\ \A u \in accounted : ~Before(Latest(accounted), u)
      BY <1>3, <2>5, <3>1, LastKey
    <3>3. plan.cursor \in due /\ \A u \in accounted : ~Before(plan.cursor, u)
      BY <1>13, <2>3, <2>5, <3>2
    <3>4. Key(plan.cursor) /\ plan.cursor[2] <= Whole /\ Before(c.cursor, plan.cursor)
      BY <1>5, <1>6, <1>9, <3>3
    <3>5. ~Before(plan.cursor, c.cursor)
      BY <3>4, BeforeOrders
    <3>6. \A t \in plan.ticks : Before(c.cursor, t) /\ ~Before(plan.cursor, t)
      BY <1>6, <1>9, <1>13, <2>3, <3>3
    <3> QED
      BY <3>4, <3>5, <3>6
  <2> QED
    BY <2>4, <2>5
<1> QED
  BY <1>2, <1>6, <1>10, <1>12, <1>13

-----------------------------------------------------------------------------
(* Ticks of a clock that catches up, and the requests that used them. *)

CatchesUp(s) == Policy[schedules[s].def].misfire = "catch_up" /\ ~schedules[s].deleted
Users(s, t) ==
  {o \in 1..Len(occurrences) : /\ occurrences[o].schedule = s
                               /\ occurrences[o].epoch = schedules[s].epoch
                               /\ t \in occurrences[o].evidence}

\* No request is of an epoch that has not begun.
EpochsOf(s) ==
  /\ schedules[s].epoch \in Nat
  /\ \A o \in 1..Len(occurrences) :
        occurrences[o].schedule = s => occurrences[o].epoch \in 0..schedules[s].epoch
\* A tick has one row, which the cursor has passed.
Passed(s) ==
  /\ Key(clocks[s].cursor) /\ clocks[s].cursor[2] <= Whole
  /\ \A r \in clocks[s].rows : ~Before(clocks[s].cursor, r.key)
  /\ \A r, q \in clocks[s].rows : r.key = q.key => r = q
\* Before it is delivered no one knows it; then it waits, or one request used it.
Accounted(s) ==
  \A r \in clocks[s].rows :
    LET t == TokenOf(s, r.key) IN
    /\ r.state = "PENDING" => t \notin tokens[s] /\ Users(s, t) = {}
    /\ r.state = "DELIVERED" =>
         IF t \in tokens[s] THEN Users(s, t) = {} ELSE \E o : Users(s, t) = {o}
\* A token or a use of an instant comes from a row.
Traced(s) ==
  /\ \A t \in tokens[s] : OnClock(t) =>
       \E r \in clocks[s].rows : r.state = "DELIVERED" /\ t = TokenOf(s, r.key)
  /\ \A t : OnClock(t) /\ Users(s, t) # {} => \E r \in clocks[s].rows : t = TokenOf(s, r.key)
\* Of each leaf one instant waits that has not expired.
Single(s) ==
  \A t, u \in tokens[s] :
    /\ OnClock(t) /\ OnClock(u) /\ t[1] = u[1]
    /\ ~Gone(t, schedules[s].def) /\ ~Gone(u, schedules[s].def)
    => t = u

TicksOf(s) ==
  EpochsOf(s) /\ (CatchesUp(s) => Passed(s) /\ Accounted(s) /\ Traced(s) /\ Single(s))
Ticking == \A s \in Schedules : TicksOf(s)

LEMMA ClockLeaves ==
  ASSUME NEW d \in Definitions
  PROVE  /\ DOMAIN Clocks[d] = 1..Len(Clocks[d]) /\ Len(Clocks[d]) \in 0..Whole
         /\ \A k \in DOMAIN Clocks[d] : Clocks[d][k] \in Leaves /\ Watches[Clocks[d][k]].on = "clock"
         /\ \A i, j \in DOMAIN Clocks[d] : Clocks[d][i] = Clocks[d][j] => i = j
<1>1. /\ Clocks[d] \in Seq({l \in DOMAIN Crons \cap Leaves : Watches[l].on = "clock"})
      /\ Len(Clocks[d]) <= Whole
      /\ \A i, j \in DOMAIN Clocks[d] : Clocks[d][i] = Clocks[d][j] => i = j
  BY DefinitionAssumption
<1>2. DOMAIN Clocks[d] = 1..Len(Clocks[d]) /\ Len(Clocks[d]) \in Nat
  BY <1>1, LenProperties
<1>3. \A k \in DOMAIN Clocks[d] : Clocks[d][k] \in Leaves /\ Watches[Clocks[d][k]].on = "clock"
  BY <1>1, LenProperties
<1>4. Len(Clocks[d]) \in 0..Whole
  <2>1. Len(Clocks[d]) <= Whole
    BY <1>1
  <2>2. PICK m : m = Len(Clocks[d])
    OBVIOUS
  <2>3. m \in Nat /\ m <= Whole
    BY <1>2, <2>1, <2>2
  <2>4. m \in 0..Whole
    BY <2>3 DEF Whole
  <2> QED
    BY <2>2, <2>4
<1> QED
  BY <1>1, <1>2, <1>3, <1>4

LEMMA TokensApart ==
  ASSUME NEW s, schedules[s].def \in Definitions,
         NEW r, KeyStands(r, schedules[s].def), NEW q, KeyStands(q, schedules[s].def)
  PROVE  /\ OnClock(TokenOf(s, r.key)) /\ TokenOf(s, r.key)[1] = LeafOf(s, r.key)
         /\ TokenOf(s, r.key)[2] = r.key[1]
         /\ LeafOf(s, r.key) = LeafOf(s, q.key) => r.key[2] = q.key[2]
         /\ TokenOf(s, r.key) = TokenOf(s, q.key) => r.key = q.key
<1> DEFINE d == schedules[s].def
<1>1. r.key[2] \in DOMAIN Clocks[d] /\ q.key[2] \in DOMAIN Clocks[d]
      /\ r.key = <<r.key[1], r.key[2]>> /\ q.key = <<q.key[1], q.key[2]>>
  BY DEF KeyStands
<1>2. /\ TokenOf(s, r.key) = <<Clocks[d][r.key[2]], r.key[1]>>
      /\ TokenOf(s, q.key) = <<Clocks[d][q.key[2]], q.key[1]>>
      /\ LeafOf(s, r.key) = Clocks[d][r.key[2]] /\ LeafOf(s, q.key) = Clocks[d][q.key[2]]
  BY DEF TokenOf, LeafOf
<1>3. Watches[Clocks[d][r.key[2]]].on = "clock"
  BY <1>1, ClockLeaves
<1>4. Clocks[d][r.key[2]] = Clocks[d][q.key[2]] => r.key[2] = q.key[2]
  BY <1>1, ClockLeaves
<1> HIDE DEF d
<1> QED
  BY <1>1, <1>2, <1>3, <1>4 DEF OnClock

\* With one row for a tick there are finitely many.
LEMMA RowsFinite ==
  ASSUME NEW rows, NEW d \in Definitions, \A r \in rows : KeyStands(r, d),
         \A r, q \in rows : r.key = q.key => r = q
  PROVE  IsFiniteSet(rows)
<1> DEFINE keys == {r.key : r \in rows}
           f == [k \in keys |-> CHOOSE r \in rows : r.key = k]
<1>0. DOMAIN Clocks[d] = 1..Len(Clocks[d]) /\ Len(Clocks[d]) \in Int /\ Horizon \in Int
  BY ClockLeaves, ClockAssumption
<1>1. keys \subseteq (0..Horizon) \X (1..Len(Clocks[d]))
  <2>1. ASSUME NEW r \in rows
        PROVE  r.key \in (0..Horizon) \X (1..Len(Clocks[d]))
    <3>1. /\ r.key = <<r.key[1], r.key[2]>> /\ r.key[1] \in 0..Horizon
          /\ r.key[2] \in 1..Len(Clocks[d])
      BY <1>0 DEF KeyStands
    <3> QED
      BY <3>1
  <2> QED
    BY <2>1
<1>2. IsFiniteSet(keys)
  <2>1. IsFiniteSet(0..Horizon) /\ IsFiniteSet(1..Len(Clocks[d]))
    BY <1>0, FS_Interval
  <2>2. IsFiniteSet((0..Horizon) \X (1..Len(Clocks[d])))
    BY <2>1, FS_Product
  <2> QED
    BY <1>1, <2>2, FS_Subset
<1>3. \A r \in rows : r.key \in keys /\ f[r.key] = r
  OBVIOUS
<1>4. f \in [keys -> rows]
  OBVIOUS
<1> HIDE DEF f, keys
<1>5. f \in Surjection(keys, rows)
  BY <1>3, <1>4 DEF Surjection
<1> QED
  BY <1>2, <1>5, FS_Surjection

LEMMA GoneStays ==
  ASSUME NEW t, OnClock(t), t[2] \in Nat, NEW d \in Definitions, now \in Nat, now' \in Nat, now <= now',
         Gone(t, d)
  PROVE  Gone(t, d)'
<1>1. Policy[d].window \in Nat \cup {None}
  BY DefinitionAssumption
<1> QED
  BY <1>1 DEF Gone, Expired, At, OnClock

\* New requests of a schedule are of its epoch and do not use the clock.
NoTick(s) ==
  \A o \in (Len(occurrences) + 1)..Len(occurrences') : occurrences'[o].schedule = s =>
    /\ occurrences'[o].epoch = schedules'[s].epoch
    /\ \A t \in occurrences'[o].evidence : ~OnClock(t)

LEMMA UsersKept ==
  ASSUME NEW n, Listed(occurrences), Grown(occurrences, occurrences', n), NEW s, NoTick(s),
         schedules'[s].epoch = schedules[s].epoch, NEW t, OnClock(t)
  PROVE  Users(s, t)' = Users(s, t)
<1>1. /\ Len(occurrences) \in Nat /\ Len(occurrences') \in Nat /\ Len(occurrences) <= Len(occurrences')
      /\ \A o \in 1..Len(occurrences) : SameRequest(occurrences'[o], occurrences[o])
  BY DEF Listed, Grown
<1>2. ASSUME NEW o
      PROVE  o \in Users(s, t)' <=> o \in Users(s, t)
  <2>1. CASE o \in 1..Len(occurrences)
    <3>1. o \in 1..Len(occurrences')
      BY <1>1, <2>1
    <3> QED
      BY <1>1, <2>1, <3>1 DEF Users, SameRequest
  <2>2. CASE o \in (Len(occurrences) + 1)..Len(occurrences')
    <3>1. occurrences'[o].schedule # s \/ t \notin occurrences'[o].evidence
      BY <2>2 DEF NoTick
    <3>2. o \notin 1..Len(occurrences)
      BY <1>1, <2>2
    <3> QED
      BY <3>1, <3>2 DEF Users
  <2>3. CASE o \notin 1..Len(occurrences')
    <3>1. o \notin 1..Len(occurrences)
      BY <1>1, <2>3
    <3> QED
      BY <2>3, <3>1 DEF Users
  <2> QED
    BY <1>1, <2>1, <2>2, <2>3
<1> QED
  BY <1>2

LEMMA EpochsKept ==
  ASSUME NEW n, Listed(occurrences), Grown(occurrences, occurrences', n), NEW s, NoTick(s),
         EpochsOf(s), schedules'[s].epoch \in Nat, schedules[s].epoch <= schedules'[s].epoch
  PROVE  EpochsOf(s)'
<1>1. /\ Len(occurrences) \in Nat /\ Len(occurrences') \in Nat /\ Len(occurrences) <= Len(occurrences')
      /\ \A o \in 1..Len(occurrences) : SameRequest(occurrences'[o], occurrences[o])
  BY DEF Listed, Grown
<1>2. ASSUME NEW o \in 1..Len(occurrences'), occurrences'[o].schedule = s
      PROVE  occurrences'[o].epoch \in 0..schedules'[s].epoch
  <2>1. CASE o \in 1..Len(occurrences)
    <3>1. occurrences[o].epoch \in 0..schedules[s].epoch /\ occurrences'[o].epoch = occurrences[o].epoch
      BY <1>1, <1>2, <2>1 DEF EpochsOf, SameRequest
    <3> QED
      BY <3>1 DEF EpochsOf
  <2>2. CASE o \in (Len(occurrences) + 1)..Len(occurrences')
    BY <1>2, <2>2 DEF NoTick
  <2> QED
    BY <1>1, <2>1, <2>2
<1> QED
  BY <1>2 DEF EpochsOf

\* The step leaves the ticks of s alone.
Undisturbed(s) ==
  /\ NoTick(s) /\ clocks'[s] = clocks[s]
  /\ schedules'[s].def = schedules[s].def /\ schedules'[s].epoch = schedules[s].epoch
  /\ schedules[s].deleted => schedules'[s].deleted
  /\ \A t : OnClock(t) => (t \in tokens'[s] <=> t \in tokens[s])

LEMMA TicksKept ==
  ASSUME IInv, NEW s \in Schedules, TicksOf(s), Undisturbed(s), now' \in Nat, now <= now',
         NEW n, Grown(occurrences, occurrences', n)
  PROVE  TicksOf(s)'
<1> DEFINE d == schedules[s].def
<1>1. /\ d \in Definitions /\ now \in Nat /\ Listed(occurrences)
      /\ \A r \in clocks[s].rows : KeyStands(r, d)
      /\ AllStand(tokens[s], Len(events))
  BY DEF IInv, History, Observers, Watching
<1>2. EpochsOf(s)'
  <2>1. schedules'[s].epoch \in Nat /\ schedules[s].epoch <= schedules'[s].epoch
    BY DEF TicksOf, EpochsOf, Undisturbed
  <2> QED
    BY <1>1, <2>1, EpochsKept DEF TicksOf, Undisturbed
<1> SUFFICES ASSUME CatchesUp(s)'
             PROVE  Passed(s)' /\ Accounted(s)' /\ Traced(s)' /\ Single(s)'
  BY <1>2 DEF TicksOf
<1>3. Passed(s) /\ Accounted(s) /\ Traced(s) /\ Single(s)
  BY DEF TicksOf, CatchesUp, Undisturbed
<1>4. \A t : OnClock(t) => Users(s, t)' = Users(s, t) /\ (t \in tokens'[s] <=> t \in tokens[s])
  BY <1>1, UsersKept DEF Undisturbed
<1>5. \A r \in clocks[s].rows : OnClock(TokenOf(s, r.key)) /\ TokenOf(s, r.key)' = TokenOf(s, r.key)
  BY <1>1, TokensApart DEF TokenOf, LeafOf, Undisturbed
<1>6. clocks'[s] = clocks[s] /\ schedules'[s].def = d
  BY DEF Undisturbed
<1>7. Passed(s)'
  BY <1>3, <1>6 DEF Passed, Key, Before
<1>8. Accounted(s)'
  <2> SUFFICES ASSUME NEW r \in clocks[s].rows
               PROVE  LET t == TokenOf(s, r.key) IN
                      /\ r.state = "PENDING" => t \notin tokens'[s] /\ Users(s, t)' = {}
                      /\ r.state = "DELIVERED" =>
                           IF t \in tokens'[s] THEN Users(s, t)' = {} ELSE \E o : Users(s, t)' = {o}
    BY <1>5, <1>6 DEF Accounted
  <2> QED
    BY <1>3, <1>4, <1>5 DEF Accounted
<1>9. Traced(s)'
  BY <1>3, <1>4, <1>5, <1>6 DEF Traced, OnClock
<1>10. Single(s)'
  <2> SUFFICES ASSUME NEW t \in tokens'[s], NEW u \in tokens'[s], OnClock(t), OnClock(u), t[1] = u[1],
                      ~Gone(t, schedules[s].def)', ~Gone(u, schedules[s].def)'
               PROVE  t = u
    BY DEF Single, OnClock
  <2>1. t \in tokens[s] /\ u \in tokens[s]
    BY <1>4
  <2>2. t[2] \in Nat /\ u[2] \in Nat
    BY <1>1, <2>1, ClockAssumption DEF AllStand, Stands
  <2>3. ~Gone(t, d) /\ ~Gone(u, d)
    <3>1. PICK x : x = d
      OBVIOUS
    <3>2. ~Gone(t, x)' /\ ~Gone(u, x)'
      BY <1>6, <3>1 DEF Gone
    <3>3. ~Gone(t, x) /\ ~Gone(u, x)
      BY <1>1, <2>2, <3>1, <3>2, GoneStays
    <3> QED
      BY <3>1, <3>3
  <2> QED
    BY <1>3, <2>1, <2>3 DEF Single
<1> QED
  BY <1>7, <1>8, <1>9, <1>10

\* Without a new request.
LEMMA TicksStill ==
  ASSUME IInv, NEW s \in Schedules, TicksOf(s), UNCHANGED <<now, occurrences>>, clocks'[s] = clocks[s],
         schedules'[s].def = schedules[s].def, schedules'[s].epoch = schedules[s].epoch,
         schedules[s].deleted => schedules'[s].deleted,
         \A t : OnClock(t) => (t \in tokens'[s] <=> t \in tokens[s])
  PROVE  TicksOf(s)'
<1>1. Grown(occurrences, occurrences', 0) /\ now \in Nat
  BY RequestsSame DEF IInv, History
<1>2. NoTick(s)
  BY DEF NoTick, IInv, History, Listed
<1> QED
  BY <1>1, <1>2, TicksKept DEF Undisturbed

\* An epoch begins with nothing observed.
LEMMA TicksFresh ==
  ASSUME IInv, NEW s \in Schedules, EpochsOf(s), NEW n, Grown(occurrences, occurrences', n), NoTick(s),
         schedules'[s].epoch \in Nat, schedules[s].epoch < schedules'[s].epoch,
         clocks'[s] = Unobserved(now),
         \A t \in tokens'[s] : ~OnClock(t)
  PROVE  TicksOf(s)'
<1>1. now \in Nat /\ Listed(occurrences)
  BY DEF IInv, History
<1>2. EpochsOf(s)'
  <2>1. schedules'[s].epoch \in Nat /\ schedules[s].epoch <= schedules'[s].epoch
    BY DEF EpochsOf
  <2> QED
    BY <1>1, <2>1, EpochsKept
<1>3. clocks'[s].cursor = <<now, Whole>> /\ clocks'[s].rows = {}
  BY DEF Unobserved
<1>4. Passed(s)'
  <2>1. Key(<<now, Whole>>) /\ <<now, Whole>>[2] <= Whole
    BY <1>1 DEF Key, Whole
  <2> QED
    BY <1>3, <2>1 DEF Passed, Key
<1>5. Accounted(s)'
  BY <1>3 DEF Accounted
<1>6. ASSUME NEW t, OnClock(t)
      PROVE  Users(s, t)' = {}
  <2> SUFFICES ASSUME NEW o \in Users(s, t)' PROVE FALSE
    OBVIOUS
  <2>1. /\ o \in 1..Len(occurrences') /\ occurrences'[o].schedule = s
        /\ occurrences'[o].epoch = schedules'[s].epoch /\ t \in occurrences'[o].evidence
    BY DEF Users
  <2>2. /\ Len(occurrences) \in Nat /\ Len(occurrences') \in Nat
        /\ \A p \in 1..Len(occurrences) : SameRequest(occurrences'[p], occurrences[p])
    BY <1>1 DEF Listed, Grown
  <2>3. CASE o \in 1..Len(occurrences)
    <3>1. occurrences[o].schedule = s /\ occurrences[o].epoch = schedules'[s].epoch
      BY <2>1, <2>2, <2>3 DEF SameRequest
    <3>2. occurrences[o].epoch \in 0..schedules[s].epoch
      BY <2>3, <3>1 DEF EpochsOf
    <3> QED
      BY <3>1, <3>2 DEF EpochsOf
  <2>4. CASE o \in (Len(occurrences) + 1)..Len(occurrences')
    BY <1>6, <2>1, <2>4 DEF NoTick
  <2> QED
    BY <2>1, <2>2, <2>3, <2>4
<1>7. Traced(s)' /\ Single(s)'
  BY <1>6 DEF Traced, Single, OnClock
<1> QED
  BY <1>2, <1>4, <1>5, <1>7 DEF TicksOf

LEMMA KeyThere ==
  ASSUME NEW d \in Definitions, NEW r, KeyStands(r, d)
  PROVE  Key(r.key)
<1>1. r.key = <<r.key[1], r.key[2]>> /\ r.key[1] \in 0..Horizon /\ r.key[2] \in DOMAIN Clocks[d]
  BY DEF KeyStands
<1>2. r.key[2] \in Nat
  BY <1>1, ClockLeaves
<1> QED
  BY <1>1, <1>2, ClockAssumption DEF Key

LEMMA TicksObserved ==
  ASSUME IInv, IInv', ObserveClock, NEW s \in Schedules, s = next, TicksOf(s)
  PROVE  TicksOf(s)'
<1>1. /\ UNCHANGED <<site, now, events, schedules, tokens, occurrences>>
      /\ clocks' = [clocks EXCEPT ![s] = Observed(clocks[s], s)]
  BY DEF ObserveClock
<1> DEFINE d == schedules[s].def
<1>2. /\ d \in Definitions /\ now \in Nat
      /\ \A r \in clocks[s].rows : KeyStands(r, d)
      /\ \A r \in clocks'[s].rows : KeyStands(r, d)
  <2>1. Schedules' = Schedules
    BY <1>1 DEF Schedules, ScheduleCount, Here
  <2> QED
    BY <1>1, <2>1 DEF IInv, History, Observers, Watching, KeyStands
<1>3. clocks'[s] = Observed(clocks[s], s)
  BY <1>1 DEF IInv, Observers
<1>4. EpochsOf(s)'
  BY <1>1 DEF TicksOf, EpochsOf
<1> SUFFICES ASSUME CatchesUp(s)'
             PROVE  Passed(s)' /\ Accounted(s)' /\ Traced(s)' /\ Single(s)'
  BY <1>4 DEF TicksOf
<1>5. CatchesUp(s) /\ Passed(s) /\ Accounted(s) /\ Traced(s) /\ Single(s)
  BY <1>1, SMTT(30) DEF TicksOf, CatchesUp
<1> DEFINE most == Policy[d].maxCatchUp
           c == [cursor |-> clocks[s].cursor, paused |-> schedules[s].paused,
                 quiet |-> schedules[s].quiet, pending |-> Cardinality(Pendings(s))]
           plan == Prepared(Clocks[d], c, "catch_up", most, now)
<1>6. /\ clocks'[s].cursor = plan.cursor
      /\ clocks'[s].rows = clocks[s].rows \cup {[key |-> t, state |-> "PENDING"] : t \in plan.ticks}
  <2>1. Policy[d].misfire = "catch_up"
    BY <1>5 DEF CatchesUp
  <2>2. \A ticks : Superseded(s, ticks) = {}
    BY <2>1 DEF Superseded
  <2>3. PICK p : p = plan
    OBVIOUS
  <2>4. Observed(clocks[s], s) =
          [cursor |-> p.cursor, ignored |-> clocks[s].ignored \cup p.ignored,
           coalesced |-> clocks[s].coalesced \cup p.coalesced,
           rows |-> (clocks[s].rows \ Superseded(s, p.ticks))
                    \cup {[r EXCEPT !.state = "COALESCED"] : r \in Superseded(s, p.ticks)}
                    \cup {[key |-> t, state |-> "PENDING"] : t \in p.ticks}]
    BY <2>1, <2>3 DEF Observed
  <2> HIDE DEF plan
  <2>5. /\ clocks'[s].cursor = p.cursor
        /\ clocks'[s].rows = (clocks[s].rows \ Superseded(s, p.ticks))
                    \cup {[r EXCEPT !.state = "COALESCED"] : r \in Superseded(s, p.ticks)}
                    \cup {[key |-> t, state |-> "PENDING"] : t \in p.ticks}
    BY <1>3, <2>4
  <2>6. {[r EXCEPT !.state = "COALESCED"] : r \in Superseded(s, p.ticks)} = {}
    BY <2>2
  <2>7. /\ clocks'[s].cursor = p.cursor
        /\ clocks'[s].rows = clocks[s].rows \cup {[key |-> t, state |-> "PENDING"] : t \in p.ticks}
    BY <2>2, <2>5, <2>6
  <2> QED
    BY <2>3, <2>7
<1>7. /\ Key(plan.cursor) /\ plan.cursor[2] <= Whole
      /\ ~Before(plan.cursor, clocks[s].cursor)
      /\ \A t \in plan.ticks : Before(clocks[s].cursor, t) /\ ~Before(plan.cursor, t)
  <2>1. /\ DOMAIN Clocks[d] = 1..Len(Clocks[d]) /\ Len(Clocks[d]) \in 0..Whole
    BY <1>2, ClockLeaves
  <2>2. most \in Nat
    BY <1>2, DefinitionAssumption
  <2>3. Cardinality(Pendings(s)) \in Nat
    <3>1. IsFiniteSet(clocks[s].rows)
      BY <1>2, <1>5, RowsFinite DEF Passed
    <3>2. Pendings(s) \subseteq clocks[s].rows
      BY DEF Pendings
    <3> QED
      BY <3>1, <3>2, FS_Subset, FS_CardinalityType
  <2>4. /\ c.cursor = clocks[s].cursor /\ c.pending = Cardinality(Pendings(s))
        /\ Key(clocks[s].cursor) /\ clocks[s].cursor[2] <= Whole
    BY <1>5 DEF Passed
  <2> HIDE DEF c, most
  <2> QED
    BY <1>2, <2>1, <2>2, <2>3, <2>4, PlannedAhead, SMTT(30)
<1> HIDE DEF plan
<1>8. PICK ticks, cursor : ticks = plan.ticks /\ cursor = plan.cursor
  OBVIOUS
<1> DEFINE fresh(t) == [key |-> t, state |-> "PENDING"]
<1>9. /\ clocks'[s].cursor = cursor
      /\ \A r : r \in clocks'[s].rows <=> r \in clocks[s].rows \/ \E t \in ticks : r = fresh(t)
      /\ Key(cursor) /\ cursor[2] <= Whole /\ ~Before(cursor, clocks[s].cursor)
      /\ \A t \in ticks : Before(clocks[s].cursor, t) /\ ~Before(cursor, t)
  BY <1>6, <1>7, <1>8
<1>10. \A t : fresh(t).key = t /\ fresh(t).state = "PENDING"
  OBVIOUS
<1> HIDE DEF fresh
<1>11. \A r \in clocks'[s].rows : Key(r.key)
  BY <1>2, KeyThere
<1>12. Passed(s)'
  <2>1. ASSUME NEW r \in clocks'[s].rows PROVE ~Before(cursor, r.key)
    <3>1. CASE r \in clocks[s].rows
      <4>1. Key(r.key) /\ Key(cursor) /\ Key(clocks[s].cursor) /\ ~Before(clocks[s].cursor, r.key)
        BY <1>5, <1>9, <1>11, <3>1 DEF Passed
      <4> QED
        BY <1>9, <4>1, BeforeOrders
    <3>2. CASE \E t \in ticks : r = fresh(t)
      BY <1>9, <1>10, <3>2
    <3> QED
      BY <1>9, <3>1, <3>2
  <2>2. ASSUME NEW r \in clocks'[s].rows, NEW q \in clocks'[s].rows, r.key = q.key
        PROVE  r = q
    <3>1. CASE r \in clocks[s].rows /\ q \in clocks[s].rows
      BY <1>5, <2>2, <3>1 DEF Passed
    <3>2. CASE r \notin clocks[s].rows /\ q \notin clocks[s].rows
      BY <1>9, <1>10, <2>2, <3>2
    <3>3. CASE ~(r \in clocks[s].rows <=> q \in clocks[s].rows)
      BY <1>5, <1>9, <1>10, <2>2, <3>3 DEF Passed
    <3> QED
      BY <3>1, <3>2, <3>3
  <2> QED
    BY <1>9, <2>1, <2>2 DEF Passed, Key, Before
<1>13. /\ \A t : Users(s, t)' = Users(s, t)
       /\ \A k : TokenOf(s, k)' = TokenOf(s, k)
       /\ tokens'[s] = tokens[s]
  BY <1>1 DEF Users, TokenOf, LeafOf
<1>14. Accounted(s)'
  <2> SUFFICES ASSUME NEW r \in clocks'[s].rows
               PROVE  LET t == TokenOf(s, r.key) IN
                      /\ r.state = "PENDING" => t \notin tokens[s] /\ Users(s, t) = {}
                      /\ r.state = "DELIVERED" =>
                           IF t \in tokens[s] THEN Users(s, t) = {} ELSE \E o : Users(s, t) = {o}
    BY <1>13, ZenonT(40) DEF Accounted
  <2>1. CASE r \in clocks[s].rows
    BY <1>5, <2>1 DEF Accounted
  <2>2. CASE r \notin clocks[s].rows
    <3>1. PICK t \in ticks : r = fresh(t)
      BY <1>9, <2>2
    <3>2. \A q \in clocks[s].rows : q.key # t
      BY <1>5, <1>9 DEF Passed
    <3>3. \A q \in clocks[s].rows : TokenOf(s, q.key) # TokenOf(s, r.key)
      BY <1>2, <1>10, <3>1, <3>2, TokensApart
    <3>4. OnClock(TokenOf(s, r.key))
      BY <1>2, TokensApart
    <3>5. TokenOf(s, r.key) \notin tokens[s] /\ Users(s, TokenOf(s, r.key)) = {}
      BY <1>5, <3>3, <3>4 DEF Traced
    <3> QED
      BY <1>10, <3>1, <3>5
  <2> QED
    BY <2>1, <2>2
<1>15. Traced(s)'
  BY <1>5, <1>9, <1>13 DEF Traced, OnClock
<1>16. Single(s)'
  BY <1>1, <1>5 DEF Single, OnClock, Gone, Expired, At
<1> QED
  BY <1>12, <1>14, <1>15, <1>16

LEMMA TicksDelivered ==
  ASSUME IInv, IInv', Deliver, NEW s \in Schedules, s = next, TicksOf(s)
  PROVE  TicksOf(s)'
<1> DEFINE d == schedules[s].def
           late == {r \in Pendings(s) : Gone(TokenOf(s, r.key), d)}
           oldest == {r \in Pendings(s) \ late :
                        \A q \in Pendings(s) \ late : q.key[2] = r.key[2] => r.key[1] <= q.key[1]}
           out == {r \in oldest : ~Waiting(s, r.key)}
           expired(r) == [r EXCEPT !.state = "EXPIRED"]
           delivered(r) == [r EXCEPT !.state = "DELIVERED"]
           rows == (clocks[s].rows \ (late \cup out))
                     \cup {expired(r) : r \in late} \cup {delivered(r) : r \in out}
           clock == [clocks[s] EXCEPT !.rows = rows]
<1>1. UNCHANGED <<site, now, events, schedules, occurrences>>
  BY DEF Deliver
<1>2. /\ d \in Definitions /\ DOMAIN clocks[s] = ClockColumns
      /\ \A r \in clocks[s].rows : KeyStands(r, d)
      /\ \A r \in clocks'[s].rows : KeyStands(r, d)
      /\ clocks = [t \in Schedules |-> clocks[t]] /\ tokens = [t \in Schedules |-> tokens[t]]
  <2>1. Schedules' = Schedules
    BY <1>1 DEF Schedules, ScheduleCount, Here
  <2> QED
    BY <1>1, <2>1 DEF IInv, Observers, Watching, KeyStands
<1>3. EpochsOf(s)'
  BY <1>1 DEF TicksOf, EpochsOf
<1> SUFFICES ASSUME CatchesUp(s)'
             PROVE  Passed(s)' /\ Accounted(s)' /\ Traced(s)' /\ Single(s)'
  BY <1>3 DEF TicksOf
<1>4. CatchesUp(s) /\ Passed(s) /\ Accounted(s) /\ Traced(s) /\ Single(s)
  BY <1>1 DEF TicksOf, CatchesUp
<1>5. CASE clocks' = clocks /\ tokens' = tokens
  <2>1. TicksOf(s)'
    BY <1>1, <1>5, TicksStill
  <2> QED
    BY <2>1 DEF TicksOf
<1>6. CASE /\ tokens' = [tokens EXCEPT ![s] = tokens[s] \cup {TokenOf(s, r.key) : r \in out}]
           /\ clocks' = [clocks EXCEPT ![s] = clock]
  <2>1. /\ tokens'[s] = tokens[s] \cup {TokenOf(s, r.key) : r \in out}
        /\ clocks'[s].rows = rows /\ clocks'[s].cursor = clocks[s].cursor
    <3>1. clock.rows = rows /\ clock.cursor = clocks[s].cursor
      <4> HIDE DEF rows
      <4> QED
        BY <1>2 DEF ClockColumns
    <3> HIDE DEF rows, clock
    <3> QED
      BY <1>2, <1>6, <3>1
  <2>2. /\ late \subseteq clocks[s].rows /\ out \subseteq clocks[s].rows
        /\ \A r \in late : r.state = "PENDING"
        /\ \A r \in out : r.state = "PENDING" /\ r \notin late /\ ~Waiting(s, r.key)
                           /\ ~Gone(TokenOf(s, r.key), d)
        /\ \A r, q \in out : q.key[2] = r.key[2] => r.key[1] <= q.key[1]
    BY DEF Pendings
  <2> HIDE DEF late, out
  <2>3. \A r \in clocks[s].rows : /\ expired(r).key = r.key /\ expired(r).state = "EXPIRED"
                                  /\ delivered(r).key = r.key /\ delivered(r).state = "DELIVERED"
    BY <1>2 DEF KeyStands
  <2> HIDE DEF expired, delivered
  \* Every row comes from one of before.
  <2>4. ASSUME NEW r \in clocks'[s].rows
        PROVE  \E q \in clocks[s].rows :
                 /\ r.key = q.key
                 /\ \/ r = q /\ q \notin late /\ q \notin out
                    \/ q \in late /\ r = expired(q)
                    \/ q \in out /\ r = delivered(q)
    BY <2>1, <2>2, <2>3
  <2>5. ASSUME NEW q \in clocks[s].rows
        PROVE  \E r \in clocks'[s].rows :
                 r.key = q.key /\ (q.state = "DELIVERED" \/ q \in out => r.state = "DELIVERED")
    <3>1. CASE q \in late
      BY <2>1, <2>2, <2>3, <3>1
    <3>2. CASE q \in out
      BY <2>1, <2>2, <2>3, <3>2
    <3>3. CASE q \notin late /\ q \notin out
      BY <2>1, <3>3
    <3> QED
      BY <3>1, <3>2, <3>3
  <2> HIDE DEF rows
  <2>6. Passed(s)'
    <3>1. \A r \in clocks'[s].rows : ~Before(clocks[s].cursor, r.key)
      BY <1>4, <2>4 DEF Passed
    <3>2. ASSUME NEW r \in clocks'[s].rows, NEW q \in clocks'[s].rows, r.key = q.key
          PROVE  r = q
      <4>1. PICK x \in clocks[s].rows :
                 /\ r.key = x.key
                 /\ \/ r = x /\ x \notin late /\ x \notin out
                    \/ x \in late /\ r = expired(x)
                    \/ x \in out /\ r = delivered(x)
        BY <2>4
      <4>2. PICK y \in clocks[s].rows :
                 /\ q.key = y.key
                 /\ \/ q = y /\ y \notin late /\ y \notin out
                    \/ y \in late /\ q = expired(y)
                    \/ y \in out /\ q = delivered(y)
        BY <2>4
      <4>3. x = y
        BY <1>4, <3>2, <4>1, <4>2 DEF Passed
      <4> QED
        BY <2>2, <4>1, <4>2, <4>3
    <3> QED
      BY <1>4, <2>1, <3>1, <3>2 DEF Passed, Key, Before
  <2>7. /\ \A t : Users(s, t)' = Users(s, t)
        /\ \A k : TokenOf(s, k)' = TokenOf(s, k)
    BY <1>1 DEF Users, TokenOf, LeafOf
  <2>8. \A r, q \in clocks[s].rows :
          /\ OnClock(TokenOf(s, r.key)) /\ TokenOf(s, r.key)[1] = LeafOf(s, r.key)
          /\ LeafOf(s, r.key) = LeafOf(s, q.key) => r.key[2] = q.key[2]
          /\ TokenOf(s, r.key) = TokenOf(s, q.key) => r = q
    BY <1>2, <1>4, TokensApart DEF Passed
  <2>9. Accounted(s)'
    <3> SUFFICES ASSUME NEW r \in clocks'[s].rows
                 PROVE  LET t == TokenOf(s, r.key) IN
                        /\ r.state = "PENDING" => t \notin tokens'[s] /\ Users(s, t) = {}
                        /\ r.state = "DELIVERED" =>
                             IF t \in tokens'[s] THEN Users(s, t) = {} ELSE \E o : Users(s, t) = {o}
      BY <2>7, ZenonT(40) DEF Accounted
    <3>1. PICK q \in clocks[s].rows :
                 /\ r.key = q.key
                 /\ \/ r = q /\ q \notin late /\ q \notin out
                    \/ q \in late /\ r = expired(q)
                    \/ q \in out /\ r = delivered(q)
      BY <2>4
    <3>2. CASE r = q /\ q \notin late /\ q \notin out
      <4>1. TokenOf(s, r.key) \in tokens'[s] <=> TokenOf(s, r.key) \in tokens[s]
        BY <2>1, <2>2, <2>8, <3>2
      <4> QED
        BY <1>4, <3>2, <4>1 DEF Accounted
    <3>3. CASE q \in late /\ r = expired(q)
      BY <2>3, <3>3
    <3>4. CASE q \in out /\ r = delivered(q)
      <4>1. TokenOf(s, r.key) \in tokens'[s] /\ r.state = "DELIVERED"
        BY <2>1, <2>3, <3>1, <3>4
      <4>2. Users(s, TokenOf(s, r.key)) = {}
        BY <1>4, <2>2, <3>1, <3>4 DEF Accounted
      <4> QED
        BY <4>1, <4>2
    <3> QED
      BY <3>1, <3>2, <3>3, <3>4
  <2>10. Traced(s)'
    <3>1. ASSUME NEW t \in tokens'[s], OnClock(t)
          PROVE  \E r \in clocks'[s].rows : r.state = "DELIVERED" /\ t = TokenOf(s, r.key)
      <4>1. \E q \in clocks[s].rows : (q.state = "DELIVERED" \/ q \in out) /\ t = TokenOf(s, q.key)
        BY <1>4, <2>1, <2>2, <3>1 DEF Traced
      <4> QED
        BY <2>5, <4>1
    <3>2. ASSUME NEW t, OnClock(t), Users(s, t) # {}
          PROVE  \E r \in clocks'[s].rows : t = TokenOf(s, r.key)
      <4>1. \E q \in clocks[s].rows : t = TokenOf(s, q.key)
        BY <1>4, <3>2 DEF Traced
      <4> QED
        BY <2>5, <4>1
    <3> QED
      BY <2>7, <3>1, <3>2 DEF Traced, OnClock
  <2>11. Single(s)'
    <3> SUFFICES ASSUME NEW t \in tokens'[s], NEW u \in tokens'[s], OnClock(t), OnClock(u), t[1] = u[1],
                        ~Gone(t, d), ~Gone(u, d)
                 PROVE  t = u
      BY <1>1 DEF Single, OnClock, Gone, Expired, At
    <3>1. CASE t \in tokens[s] /\ u \in tokens[s]
      BY <1>4, <3>1 DEF Single
    \* A leaf with a token that waits gets no other.
    <3>2. ASSUME NEW r \in out, NEW v \in tokens[s], ~Gone(v, d), v[1] = TokenOf(s, r.key)[1]
          PROVE  FALSE
      <4>1. v \in Live(schedules[s], tokens[s]) /\ v[1] = LeafOf(s, r.key)
        BY <2>2, <2>8, <3>2 DEF Live
      <4>2. Waiting(s, r.key)
        BY <1>4, <4>1 DEF Waiting, CatchesUp
      <4> QED
        BY <2>2, <4>2
    <3>3. ASSUME NEW r \in out, NEW q \in out, TokenOf(s, r.key)[1] = TokenOf(s, q.key)[1]
          PROVE  r = q
      <4>1. r.key[2] = q.key[2]
        BY <2>2, <2>8, <3>3
      <4>2. r.key[1] <= q.key[1] /\ q.key[1] <= r.key[1]
        BY <2>2, <4>1
      <4>3. Key(r.key) /\ Key(q.key)
        BY <1>2, <2>2, KeyThere
      <4>4. r.key = q.key
        BY <4>1, <4>2, <4>3 DEF Key
      <4> QED
        BY <1>4, <2>2, <4>4 DEF Passed
    <3> QED
      BY <2>1, <3>1, <3>2, <3>3
  <2> QED
    BY <2>6, <2>9, <2>10, <2>11
<1> QED
  BY <1>5, <1>6 DEF Deliver

LEMMA TicksEvaluated ==
  ASSUME IInv, Evaluate, NEW s \in Schedules, s = next, Ticking
  PROVE  \A t \in Schedules : TicksOf(t)'
<1> DEFINE w == [rows |-> occurrences, tokens |-> tokens[s], ok |-> TRUE]
           v == Queue(s, schedules[s], w)
<1>1. w.rows = occurrences /\ w.tokens = tokens[s] /\ DOMAIN w = {"rows", "tokens", "ok"}
  OBVIOUS
<1>2. occurrences' = v.rows /\ tokens' = [tokens EXCEPT ![s] = v.tokens]
      /\ UNCHANGED <<site, now, clocks, schedules>>
  BY DEF Evaluate
<1> HIDE DEF w
<1>3. /\ History /\ schedules[s].def \in Definitions /\ now \in Nat
      /\ \A r \in clocks[s].rows : KeyStands(r, schedules[s].def)
      /\ tokens = [t \in Schedules |-> tokens[t]]
      /\ Listed(occurrences) /\ Len(occurrences) \in Nat
      /\ \A o \in 1..Len(occurrences) : DOMAIN occurrences[o] = Columns
      /\ AllStand(tokens[s], Len(events))
  BY DEF IInv, History, Observers, Watching, Request, Listed
<1>4. Work(w)
  BY <1>1, <1>3 DEF Work
<1>5. \/ v.rows = w.rows /\ v.tokens = w.tokens
      \/ \E new : Added(s, schedules[s], w, v, new)
  BY <1>3, <1>4, QueueAdds
<1> HIDE DEF v
<1>6. CASE v.rows = w.rows /\ v.tokens = w.tokens
  <2>1. UNCHANGED <<occurrences, tokens>>
    BY <1>1, <1>2, <1>3, <1>6
  <2> QED
    BY <1>2, <2>1, TicksStill DEF Ticking
<1>7. ASSUME NEW new, Added(s, schedules[s], w, v, new)
      PROVE  \A t \in Schedules : TicksOf(t)'
  <2> DEFINE n == Len(occurrences) + 1
             E == new.evidence
  <2>1. /\ Listed(occurrences') /\ Len(occurrences') = n /\ occurrences'[n] = new
        /\ \A o \in 1..Len(occurrences) :
             DOMAIN occurrences'[o] = Columns /\ SameRequest(occurrences'[o], occurrences[o])
        /\ Request(new, Len(events)) /\ new.schedule = s /\ new.epoch = schedules[s].epoch
        /\ \A o \in n..Len(occurrences') : o = n
    BY <1>1, <1>2, <1>3, <1>7 DEF Added
  <2>2. Grown(occurrences, occurrences', Len(events))
    BY <1>3, <2>1 DEF Grown
  <2>3. ASSUME NEW t \in Schedules, t # s
        PROVE  TicksOf(t)'
    <3>1. NoTick(t)
      BY <2>1, <2>3 DEF NoTick
    <3>2. tokens'[t] = tokens[t] /\ clocks'[t] = clocks[t] /\ schedules'[t] = schedules[t]
      BY <1>2, <1>3, <2>3
    <3>3. Undisturbed(t)
      BY <3>1, <3>2 DEF Undisturbed
    <3> QED
      BY <1>2, <1>3, <2>2, <3>3, TicksKept DEF Ticking
  <2>4. /\ E \subseteq tokens[s] /\ \A u \in E : ~Gone(u, schedules[s].def)
        /\ \A t : t \in tokens'[s] <=>
                    /\ t \in tokens[s]
                    /\ ~(~Gone(t, schedules[s].def) /\ \E u \in E : t[1] = u[1])
    <3>1. tokens'[s] = v.tokens
      BY <1>2, <1>3
    <3>2. /\ E \subseteq Live(schedules[s], tokens[s])
          /\ v.tokens = Consumed(tokens[s], Live(schedules[s], tokens[s]), E)
      BY <1>1, <1>7 DEF Added
    <3> HIDE DEF E
    <3> QED
      BY <3>1, <3>2 DEF Live, Consumed
  <2> HIDE DEF E
  <2>5. \A t : Users(s, t)' = Users(s, t) \cup (IF t \in E THEN {n} ELSE {})
    <3> SUFFICES ASSUME NEW t, NEW o
                 PROVE  o \in Users(s, t)' <=> o \in Users(s, t) \/ (o = n /\ t \in E)
      OBVIOUS
    <3>1. CASE o \in 1..Len(occurrences)
      <4>1. o \in 1..Len(occurrences') /\ o # n /\ SameRequest(occurrences'[o], occurrences[o])
        BY <1>3, <2>1, <3>1
      <4> QED
        BY <1>2, <3>1, <4>1 DEF Users, SameRequest
    <3>2. CASE o = n
      BY <1>2, <1>3, <2>1, <3>2 DEF Users, E
    <3>3. CASE o \notin 1..Len(occurrences) /\ o # n
      <4>1. o \notin 1..Len(occurrences')
        BY <1>3, <2>1, <3>3
      <4> QED
        BY <3>3, <4>1 DEF Users
    <3> QED
      BY <3>1, <3>2, <3>3
  <2>6. EpochsOf(s)'
    <3>1. EpochsOf(s)
      BY DEF Ticking, TicksOf
    <3>2. ASSUME NEW o \in 1..Len(occurrences'), occurrences'[o].schedule = s
          PROVE  occurrences'[o].epoch \in 0..schedules[s].epoch
      <4>1. CASE o \in 1..Len(occurrences)
        BY <2>1, <3>1, <3>2, <4>1 DEF EpochsOf, SameRequest
      <4>2. CASE o = n
        BY <2>1, <3>1, <4>2 DEF EpochsOf
      <4> QED
        BY <1>3, <2>1, <4>1, <4>2
    <3> QED
      BY <1>2, <3>1, <3>2 DEF EpochsOf
  <2>7. ASSUME CatchesUp(s)'
        PROVE  Passed(s)' /\ Accounted(s)' /\ Traced(s)' /\ Single(s)'
    <3>1. Passed(s) /\ Accounted(s) /\ Traced(s) /\ Single(s)
      BY <1>2, <2>7 DEF Ticking, TicksOf, CatchesUp
    \* Of a clock leaf only the token that is used is consumed.
    <3>2. \A t : OnClock(t) => (t \in tokens'[s] <=> t \in tokens[s] /\ t \notin E)
      <4> SUFFICES ASSUME NEW t \in tokens[s], OnClock(t)
                   PROVE  (~Gone(t, schedules[s].def) /\ \E u \in E : t[1] = u[1]) <=> t \in E
        BY <2>4
      <4>1. ASSUME ~Gone(t, schedules[s].def), NEW u \in E, t[1] = u[1]
            PROVE  t \in E
        <5>1. u \in tokens[s] /\ OnClock(u) /\ ~Gone(u, schedules[s].def)
          BY <2>4, <4>1 DEF OnClock
        <5> QED
          BY <3>1, <4>1, <5>1 DEF Single
      <4> QED
        BY <2>4, <4>1
    <3>3. \A r \in clocks[s].rows : OnClock(TokenOf(s, r.key)) /\ TokenOf(s, r.key)' = TokenOf(s, r.key)
      BY <1>2, <1>3, TokensApart DEF TokenOf, LeafOf
    <3>4. Passed(s)'
      BY <1>2, <3>1 DEF Passed, Key, Before
    <3>5. Accounted(s)'
      <4> SUFFICES ASSUME NEW r \in clocks[s].rows, NEW t, t = TokenOf(s, r.key)
                   PROVE  /\ r.state = "PENDING" => t \notin tokens'[s] /\ Users(s, t)' = {}
                          /\ r.state = "DELIVERED" =>
                               IF t \in tokens'[s] THEN Users(s, t)' = {} ELSE \E o : Users(s, t)' = {o}
        BY <1>2, <3>3 DEF Accounted
      <4>1. OnClock(t) /\ (t \in E => t \in tokens[s])
        BY <2>4, <3>3
      <4>2. /\ r.state = "PENDING" => t \notin tokens[s] /\ Users(s, t) = {}
            /\ r.state = "DELIVERED" =>
                 IF t \in tokens[s] THEN Users(s, t) = {} ELSE \E o : Users(s, t) = {o}
        BY <3>1 DEF Accounted
      <4>3. CASE t \in E
        <5>1. t \in tokens[s] /\ t \notin tokens'[s]
          BY <3>2, <4>1, <4>3
        <5>2. Users(s, t) = {} => Users(s, t)' = {n}
          BY <2>5, <4>3
        <5> QED
          BY <4>2, <5>1, <5>2
      <4>4. CASE t \notin E
        BY <2>5, <3>2, <4>1, <4>2, <4>4
      <4> QED
        BY <4>3, <4>4
    <3>6. Traced(s)'
      <4>1. ASSUME NEW t \in tokens'[s], OnClock(t)
            PROVE  \E r \in clocks[s].rows : r.state = "DELIVERED" /\ t = TokenOf(s, r.key)
        BY <2>4, <3>1, <4>1 DEF Traced
      <4>2. ASSUME NEW t, OnClock(t), Users(s, t)' # {}
            PROVE  \E r \in clocks[s].rows : t = TokenOf(s, r.key)
        <5>1. Users(s, t) # {} \/ t \in tokens[s]
          BY <2>4, <2>5, <4>2
        <5> QED
          BY <3>1, <4>2, <5>1 DEF Traced
      <4> QED
        BY <1>2, <3>3, <4>1, <4>2 DEF Traced, OnClock
    <3>7. Single(s)'
      BY <1>2, <2>4, <3>1 DEF Single, OnClock, Gone, Expired, At
    <3> QED
      BY <3>4, <3>5, <3>6, <3>7
  <2>8. TicksOf(s)'
    BY <2>6, <2>7 DEF TicksOf
  <2> QED
    BY <2>3, <2>8
<1> QED
  BY <1>5, <1>6, <1>7

-----------------------------------------------------------------------------
(* The other steps. *)

\* Of the tables only requests, and no new one.
LEMMA TicksAlike ==
  ASSUME IInv, Ticking, site' = site, now' \in Nat, now <= now', UNCHANGED <<schedules, clocks, tokens>>,
         NEW n, Grown(occurrences, occurrences', n), Len(occurrences') = Len(occurrences)
  PROVE  Ticking'
<1>1. Schedules' = Schedules
  BY DEF Schedules, ScheduleCount, Here
<1>2. ASSUME NEW s \in Schedules
      PROVE  TicksOf(s)'
  <2>1. Undisturbed(s)
    BY DEF Undisturbed, NoTick, IInv, History, Listed
  <2> QED
    BY <2>1, TicksKept DEF Ticking
<1> QED
  BY <1>1, <1>2 DEF Ticking

\* One schedule, and what it observes.
LEMMA TicksOfOne ==
  ASSUME IInv, Ticking, UNCHANGED <<site, now>>, NEW s \in Schedules,
         Only(s, schedules, schedules'), Only(s, clocks, clocks'), Only(s, tokens, tokens'),
         NEW n, Grown(occurrences, occurrences', n),
         \A o \in (Len(occurrences) + 1)..Len(occurrences') : occurrences'[o].schedule = s,
         TicksOf(s)'
  PROVE  Ticking'
<1>1. Schedules' = Schedules
  BY DEF Schedules, ScheduleCount, Here
<1>2. ASSUME NEW t \in Schedules, t # s
      PROVE  TicksOf(t)'
  <2>1. schedules'[t] = schedules[t] /\ clocks'[t] = clocks[t] /\ tokens'[t] = tokens[t]
    BY <1>2 DEF Only
  <2>2. Undisturbed(t)
    BY <1>2, <2>1 DEF Undisturbed, NoTick
  <2>3. now' \in Nat /\ now <= now'
    BY DEF IInv, History
  <2> QED
    BY <2>2, <2>3, TicksKept DEF Ticking
<1> QED
  BY <1>1, <1>2 DEF Ticking

LEMMA TicksInWorld ==
  ASSUME IInv, Ticking,
         \/ World \/ Crash \/ Recover \/ Restart \/ UNCHANGED vars
         \/ StartPass \/ Reconciled \/ Select \/ EndPass \/ AwaitWrites \/ Reject
         \/ \E o \in batch : Prepare(o)
  PROVE  Ticking'
<1>1. UNCHANGED <<site, schedules, clocks, tokens, occurrences>> /\ (now' = now \/ now' = now + 1)
  BY DEF World, Tick, Outside, PublishHead, StartBuild, FinishBuild, Crash, Recover, Restart, vars,
         StartPass, Reconciled, Select, EndPass, AwaitWrites, Reject, Prepare
<1>2. now' \in Nat /\ now <= now' /\ Grown(occurrences, occurrences', 0)
  BY <1>1, RequestsSame DEF IInv, History
<1> QED
  BY <1>1, <1>2, TicksAlike, SMTT(30)

LEMMA TicksOfDispatch ==
  ASSUME IInv, Ticking, (\E o \in DOMAIN occurrences : Reconcile(o)) \/ Accept \/ Refuse
  PROVE  Ticking'
<1>1. UNCHANGED <<site, now, schedules, clocks, tokens>> /\ now \in Nat
  BY DEF Reconcile, Accept, Refuse, IInv, History
<1>2. /\ DOMAIN occurrences = 1..Len(occurrences) /\ Len(occurrences) \in Nat /\ Listed(occurrences)
      /\ \A o \in 1..Len(occurrences) : DOMAIN occurrences[o] = Columns
  BY DEF IInv, History, Request, Listed
<1>3. \/ occurrences' = occurrences
      \/ \E o, d : occurrences' = [occurrences EXCEPT ![o].disposition = d]
      \/ \E o, d, b : occurrences' = [occurrences EXCEPT ![o].disposition = d, ![o].build = b]
  BY DEF Reconcile, Accept, Refuse
<1>4. ASSUME NEW o, NEW d, NEW b,
             \/ occurrences' = [occurrences EXCEPT ![o].disposition = d]
             \/ occurrences' = [occurrences EXCEPT ![o].disposition = d, ![o].build = b]
      PROVE  /\ occurrences' = [p \in 1..Len(occurrences) |-> occurrences'[p]]
             /\ \A p \in 1..Len(occurrences) :
                  DOMAIN occurrences'[p] = Columns /\ SameRequest(occurrences'[p], occurrences[p])
  <2>1. occurrences' = [p \in 1..Len(occurrences) |-> occurrences'[p]]
    BY <1>2, <1>4
  <2>2. ASSUME NEW p \in 1..Len(occurrences)
        PROVE  DOMAIN occurrences'[p] = Columns /\ SameRequest(occurrences'[p], occurrences[p])
    <3>1. \/ occurrences'[p] = occurrences[p]
          \/ occurrences'[p] = [occurrences[p] EXCEPT !.disposition = d]
          \/ occurrences'[p] = [[occurrences[p] EXCEPT !.disposition = d] EXCEPT !.build = b]
      BY <1>2, <1>4
    <3> QED
      BY <1>2, <3>1 DEF Columns, SameRequest
  <2> QED
    BY <2>1, <2>2
<1>5. Grown(occurrences, occurrences', 0) /\ Len(occurrences') = Len(occurrences)
  <2>1. CASE occurrences' = occurrences
    BY <2>1, RequestsSame DEF IInv
  <2>2. CASE occurrences' # occurrences
    <3>1. /\ occurrences' = [p \in 1..Len(occurrences) |-> occurrences'[p]]
          /\ \A p \in 1..Len(occurrences) :
               DOMAIN occurrences'[p] = Columns /\ SameRequest(occurrences'[p], occurrences[p])
      BY <1>3, <1>4, <2>2
    <3>2. Listed(occurrences') /\ Len(occurrences') = Len(occurrences)
      BY <1>2, <3>1, ListedBy
    <3> QED
      BY <1>2, <3>1, <3>2 DEF Grown
  <2> QED
    BY <2>1, <2>2
<1> QED
  BY <1>1, <1>5, TicksAlike

\* The step of one schedule leaves its ticks alone, too.
LEMMA TicksBeside ==
  ASSUME IInv, Ticking, UNCHANGED <<site, now>>, NEW s \in Schedules,
         Only(s, schedules, schedules'), Only(s, clocks, clocks'), Only(s, tokens, tokens'),
         NEW n, Grown(occurrences, occurrences', n), Len(occurrences') = Len(occurrences),
         clocks'[s] = clocks[s],
         schedules'[s].def = schedules[s].def, schedules'[s].epoch = schedules[s].epoch,
         schedules[s].deleted => schedules'[s].deleted,
         \A t : OnClock(t) => (t \in tokens'[s] <=> t \in tokens[s])
  PROVE  Ticking'
<1>1. \A o \in (Len(occurrences) + 1)..Len(occurrences') : FALSE
  BY DEF IInv, History, Listed
<1>2. Undisturbed(s)
  BY <1>1 DEF Undisturbed, NoTick
<1>3. now' \in Nat /\ now <= now'
  BY DEF IInv, History
<1>4. TicksOf(s)'
  BY <1>2, <1>3, TicksKept DEF Ticking
<1> QED
  BY <1>1, <1>4, TicksOfOne

LEMMA TicksOfPass ==
  ASSUME IInv, IInv', Ticking, SkipSchedule \/ ObserveClock \/ ScanEvents \/ Deliver
  PROVE  Ticking'
<1>1. PICK s : s = next
  OBVIOUS
<1>2. /\ s \in Schedules /\ DOMAIN schedules[s] = ScheduleColumns
      /\ UNCHANGED <<site, now, occurrences>>
  BY <1>1 DEF IInv, InPass, Observers, Watching, SkipSchedule, ObserveClock, ScanEvents, Deliver
<1>3. Grown(occurrences, occurrences', 0) /\ \A o \in (Len(occurrences) + 1)..Len(occurrences') : FALSE
  BY <1>2, RequestsSame DEF IInv, History, Listed
<1>4. CASE SkipSchedule
  <2> DEFINE row == [schedules[s] EXCEPT !.review = schedules[s].review \/ ~schedules[s].deleted]
  <2>1. schedules' = [schedules EXCEPT ![s] = row] /\ UNCHANGED <<clocks, tokens>>
    BY <1>1, <1>4 DEF SkipSchedule
  <2>2. row.def = schedules[s].def /\ row.epoch = schedules[s].epoch /\ row.deleted = schedules[s].deleted
    BY <1>2 DEF ScheduleColumns
  <2> HIDE DEF row
  <2>3. /\ Only(s, schedules, schedules') /\ schedules'[s] = row
        /\ Only(s, clocks, clocks') /\ Only(s, tokens, tokens')
    BY <1>2, <2>1, EntryOf
  <2> QED
    BY <1>2, <1>3, <2>1, <2>2, <2>3, TicksBeside
<1>5. CASE ScanEvents
  <2> DEFINE row == Scanned(schedules[s])
             toks == Scan(schedules[s], tokens[s])
  <2>1. /\ schedules' = [schedules EXCEPT ![s] = row] /\ tokens' = [tokens EXCEPT ![s] = toks]
        /\ clocks' = clocks
    BY <1>1, <1>5 DEF ScanEvents
  <2>2. row.def = schedules[s].def /\ row.epoch = schedules[s].epoch /\ row.deleted = schedules[s].deleted
    BY <1>2 DEF Scanned, ScheduleColumns
  <2>3. \A t : OnClock(t) => (t \in toks <=> t \in tokens[s])
    BY DEF Scan, Matched, OnClock
  <2> HIDE DEF row, toks
  <2>4. /\ Only(s, schedules, schedules') /\ schedules'[s] = row
        /\ Only(s, clocks, clocks') /\ Only(s, tokens, tokens') /\ tokens'[s] = toks
    BY <1>2, <2>1, EntryOf
  <2> QED
    BY <1>2, <1>3, <2>1, <2>2, <2>3, <2>4, TicksBeside
<1>6. CASE ObserveClock
  <2>1. clocks' = [clocks EXCEPT ![s] = Observed(clocks[s], s)] /\ UNCHANGED <<schedules, tokens>>
    BY <1>1, <1>6 DEF ObserveClock
  <2>2. Only(s, schedules, schedules') /\ Only(s, clocks, clocks') /\ Only(s, tokens, tokens')
    BY <1>2, <2>1, EntryOf
  <2>3. TicksOf(s)'
    BY <1>1, <1>2, <1>6, TicksObserved DEF Ticking
  <2> QED
    BY <1>2, <1>3, <2>2, <2>3, TicksOfOne
<1>7. CASE Deliver
  <2>1. /\ \E x : clocks' = [clocks EXCEPT ![s] = x] \/ clocks' = clocks
        /\ \E x : tokens' = [tokens EXCEPT ![s] = x] \/ tokens' = tokens
        /\ schedules' = schedules
    BY <1>1, <1>7 DEF Deliver
  <2>2. Only(s, schedules, schedules') /\ Only(s, clocks, clocks') /\ Only(s, tokens, tokens')
    BY <1>2, <2>1, EntryOf
  <2>3. TicksOf(s)'
    BY <1>1, <1>2, <1>7, TicksDelivered DEF Ticking
  <2> QED
    BY <1>2, <1>3, <2>2, <2>3, TicksOfOne
<1> QED
  BY <1>4, <1>5, <1>6, <1>7

LEMMA TicksOfCommands ==
  ASSUME IInv, Ticking, NEW s \in Schedules, Pause(s) \/ Resume(s) \/ Run(s) \/ Delete(s)
  PROVE  Ticking'
<1>1. /\ DOMAIN schedules[s] = ScheduleColumns /\ History
      /\ UNCHANGED <<site, now, clocks>> /\ Only(s, clocks, clocks')
  BY EntryOf DEF IInv, Observers, Watching, Pause, Resume, Run, Delete
<1>2. CASE Pause(s)
  <2>1. PICK since, at : schedules' = [schedules EXCEPT ![s] =
                           [schedules[s] EXCEPT !.paused = TRUE, !.since = since, !.pausedAt = at]]
    <3>1. schedules = [t \in Schedules |-> schedules[t]]
      BY DEF IInv, Observers
    <3> QED
      BY <1>2, <3>1 DEF Pause
  <2> DEFINE row == [schedules[s] EXCEPT !.paused = TRUE, !.since = since, !.pausedAt = at]
  <2>2. row.def = schedules[s].def /\ row.epoch = schedules[s].epoch /\ row.deleted = schedules[s].deleted
    BY <1>1 DEF ScheduleColumns
  <2> HIDE DEF row
  <2>3. Only(s, schedules, schedules') /\ schedules'[s] = row
    BY <2>1, EntryOf DEF row
  <2>4. Grown(occurrences, occurrences', Len(events)) /\ Len(occurrences') = Len(occurrences)
    BY <1>1, <1>2, DisposedGrown DEF Pause
  <2>5. tokens' = tokens /\ Only(s, tokens, tokens')
    BY <1>2, EntryOf DEF Pause
  <2> QED
    BY <1>1, <2>2, <2>3, <2>4, <2>5, TicksBeside
<1>3. CASE Resume(s)
  <2> DEFINE row == Resumed(schedules[s])
  <2>1. schedules' = [schedules EXCEPT ![s] = row] /\ tokens' = tokens
    BY <1>3 DEF Resume
  <2>2. row.def = schedules[s].def /\ row.epoch = schedules[s].epoch /\ row.deleted = schedules[s].deleted
    BY <1>1, ResumedRow
  <2> HIDE DEF row
  <2>3. Only(s, schedules, schedules') /\ schedules'[s] = row /\ Only(s, tokens, tokens')
    BY <2>1, EntryOf
  <2>4. Grown(occurrences, occurrences', Len(events)) /\ Len(occurrences') = Len(occurrences)
    BY <1>1, <1>3, ReleasedGrown DEF Resume
  <2> QED
    BY <1>1, <2>1, <2>2, <2>3, <2>4, TicksBeside
<1>4. CASE Run(s)
  <2> DEFINE new == [schedule |-> s, epoch |-> schedules[s].epoch, manual |-> TRUE, fire |-> now,
                     evidence |-> {}, def |-> schedules[s].def, build |-> 0, disposition |-> "QUEUED"]
  <2>1. occurrences' = Append(occurrences, new) /\ UNCHANGED <<schedules, tokens>>
    BY <1>4 DEF Run
  <2>2. /\ DOMAIN new = Columns /\ new.schedule = s /\ new.epoch = schedules[s].epoch
        /\ new.evidence = {} /\ new.def \in Definitions
    BY DEF Columns, IInv, Observers, Watching
  <2> HIDE DEF new
  <2>3. /\ Listed(occurrences) /\ Len(occurrences) \in Nat
        /\ \A o \in 1..Len(occurrences) : DOMAIN occurrences[o] = Columns
    BY <1>1 DEF History, Request, Listed
  <2>4. /\ Listed(occurrences') /\ Len(occurrences') = Len(occurrences) + 1
        /\ occurrences'[Len(occurrences) + 1] = new
        /\ \A o \in 1..Len(occurrences) : occurrences'[o] = occurrences[o]
        /\ \A o \in (Len(occurrences) + 1)..Len(occurrences') : o = Len(occurrences) + 1
    BY <2>1, <2>3, ListedAppend
  <2>5. Request(new, Len(events))
    BY <2>2 DEF Request, AllStand
  <2>6. Grown(occurrences, occurrences', Len(events))
    BY <2>3, <2>4, <2>5 DEF Grown, SameRequest
  <2>7. Undisturbed(s) /\ \A o \in (Len(occurrences) + 1)..Len(occurrences') : occurrences'[o].schedule = s
    BY <1>1, <2>1, <2>2, <2>4 DEF Undisturbed, NoTick
  <2>8. Only(s, schedules, schedules') /\ Only(s, tokens, tokens') /\ now' \in Nat /\ now <= now'
    <3>1. now' \in Nat /\ now <= now'
      BY <1>1 DEF History
    <3> QED
      BY <2>1, <3>1, EntryOf
  <2>9. TicksOf(s)'
    BY <2>6, <2>7, <2>8, TicksKept DEF Ticking
  <2> QED
    BY <1>1, <2>6, <2>7, <2>8, <2>9, TicksOfOne
<1>5. CASE Delete(s)
  <2> DEFINE row == [schedules[s] EXCEPT !.deleted = TRUE]
  <2>1. schedules' = [schedules EXCEPT ![s] = row] /\ tokens' = [tokens EXCEPT ![s] = {}]
    BY <1>5 DEF Delete
  <2>2. row.epoch = schedules[s].epoch /\ row.deleted
    BY <1>1 DEF ScheduleColumns
  <2> HIDE DEF row
  <2>3. Only(s, schedules, schedules') /\ schedules'[s] = row /\ Only(s, tokens, tokens')
    BY <2>1, EntryOf
  <2>4. Grown(occurrences, occurrences', Len(events)) /\ Len(occurrences') = Len(occurrences)
    BY <1>1, <1>5, DisposedGrown DEF Delete
  <2>5. /\ Listed(occurrences)
        /\ \A o \in (Len(occurrences) + 1)..Len(occurrences') : FALSE
    BY <1>1, <2>4 DEF History, Listed
  <2>6. EpochsOf(s)'
    <3>1. EpochsOf(s)
      BY DEF Ticking, TicksOf
    <3>2. schedules'[s].epoch \in Nat /\ schedules[s].epoch <= schedules'[s].epoch
      BY <2>2, <2>3, <3>1 DEF EpochsOf
    <3>3. NoTick(s)
      BY <2>5 DEF NoTick
    <3> QED
      BY <2>4, <2>5, <3>1, <3>2, <3>3, EpochsKept
  <2>7. TicksOf(s)'
    BY <2>2, <2>3, <2>6 DEF TicksOf, CatchesUp
  <2> QED
    BY <1>1, <2>3, <2>4, <2>5, <2>7, TicksOfOne
<1> QED
  BY <1>2, <1>3, <1>4, <1>5

LEMMA TicksSaved ==
  ASSUME IInv, Ticking, NEW s \in Schedules, NEW d, Save(s, d)
  PROVE  Ticking'
<1> DEFINE row == Saved(schedules[s], d)
           clock == Unobserved(now)
<1>1. /\ schedules' = [schedules EXCEPT ![s] = row] /\ clocks' = [clocks EXCEPT ![s] = clock]
      /\ tokens' = [tokens EXCEPT ![s] = {}] /\ UNCHANGED <<site, now, occurrences>>
  BY DEF Save
<1>2. row.epoch = schedules[s].epoch + 1 /\ EpochsOf(s)
  BY SavedRow DEF IInv, Observers, Watching, Ticking, TicksOf
<1> HIDE DEF row
<1>3. /\ Only(s, schedules, schedules') /\ schedules'[s] = row
      /\ Only(s, clocks, clocks') /\ clocks'[s] = Unobserved(now)
      /\ Only(s, tokens, tokens') /\ tokens'[s] = {}
  BY <1>1, EntryOf
<1>4. Grown(occurrences, occurrences', 0) /\ \A o \in (Len(occurrences) + 1)..Len(occurrences') : FALSE
  BY <1>1, RequestsSame DEF IInv, History, Listed
<1>5. NoTick(s) /\ schedules'[s].epoch \in Nat /\ schedules[s].epoch < schedules'[s].epoch
  BY <1>2, <1>3, <1>4 DEF NoTick, EpochsOf
<1>6. TicksOf(s)'
  BY <1>2, <1>3, <1>4, <1>5, TicksFresh
<1> QED
  BY <1>1, <1>3, <1>4, <1>6, TicksOfOne

LEMMA TicksReplayed ==
  ASSUME IInv, Ticking, NEW s \in Schedules,
         NEW row, DOMAIN row = ScheduleColumns, row.def \in Definitions,
         row.epoch \in Nat, schedules[s].epoch <= row.epoch,
         NEW rows, Listed(rows), \A o \in 1..Len(rows) : DOMAIN rows[o] = Columns,
         Grown(occurrences, rows, Len(events)), Unlinked(occurrences, rows),
         Len(rows) = Len(occurrences),
         NEW after \in 0..Len(events), Replay(s, row, rows, after)
  PROVE  Ticking'
<1>1. History /\ EpochsOf(s) /\ Listed(occurrences)
  BY DEF IInv, History, Ticking, TicksOf
<1> DEFINE fresh == [row EXCEPT !.epoch = row.epoch + 1, !.cursor = after, !.since = 0, !.muted = {},
                                !.pausedAt = 0, !.quiet = {}]
           scanned == Scanned(fresh)
           first == [rows |-> rows, tokens |-> Scan(fresh, {}), ok |-> TRUE]
           done == Queued(s, scanned, first)
           clock == Unobserved(now)
<1>2. /\ schedules' = [schedules EXCEPT ![s] = scanned]
      /\ clocks' = [clocks EXCEPT ![s] = clock]
      /\ tokens' = [tokens EXCEPT ![s] = done.tokens]
      /\ occurrences' = done.rows
      /\ UNCHANGED <<site, now, events, builds, passVars>>
  BY DEF Replay
<1>3. DOMAIN fresh = ScheduleColumns /\ fresh.def = row.def /\ fresh.cursor = after
      /\ fresh.epoch = row.epoch + 1
  BY DEF ScheduleColumns
<1> HIDE DEF fresh
<1>4. scanned.def = row.def /\ scanned.epoch = row.epoch + 1
  BY <1>3 DEF Scanned, ScheduleColumns
<1>5. AllStand(Scan(fresh, {}), Len(events)) /\ \A t \in Scan(fresh, {}) : ~OnClock(t)
  <2>1. AllStand({}, Len(events))
    BY DEF AllStand
  <2>2. \A t \in Scan(fresh, {}) : ~OnClock(t)
    BY DEF Scan, Matched, OnClock
  <2> QED
    BY <1>1, <1>3, <2>1, <2>2, ScanStands
<1>6. Work(first) /\ first.rows = rows /\ \A t \in first.tokens : ~OnClock(t)
  BY <1>5 DEF Work
<1> HIDE DEF scanned, first
<1>7. Worked(s, scanned, first, done)
  BY <1>1, <1>4, <1>6, QueuedWorks
<1> HIDE DEF done
<1>8. Grown(occurrences, occurrences', Len(events))
  <2>1. Grown(rows, done.rows, Len(events)) /\ Unlinked(rows, done.rows)
    BY <1>6, <1>7 DEF Worked
  <2> QED
    BY <1>1, <1>2, <2>1, GrownFurther
<1>9. /\ Only(s, schedules, schedules') /\ schedules'[s] = scanned
      /\ Only(s, clocks, clocks') /\ clocks'[s] = Unobserved(now)
      /\ Only(s, tokens, tokens') /\ tokens'[s] = done.tokens
  BY <1>2, EntryOf
<1>10. \A o \in (Len(occurrences) + 1)..Len(occurrences') :
         /\ occurrences'[o].schedule = s /\ occurrences'[o].epoch = scanned.epoch
         /\ \A t \in occurrences'[o].evidence : ~OnClock(t)
  BY <1>2, <1>6, <1>7 DEF Worked, Own
<1>11. /\ NoTick(s) /\ schedules'[s].epoch \in Nat /\ schedules[s].epoch < schedules'[s].epoch
       /\ \A t \in tokens'[s] : ~OnClock(t)
  BY <1>1, <1>4, <1>6, <1>7, <1>9, <1>10, SMTT(30) DEF NoTick, EpochsOf, Worked
<1>12. TicksOf(s)'
  BY <1>1, <1>8, <1>9, <1>11, TicksFresh
<1> QED
  BY <1>2, <1>8, <1>9, <1>10, <1>12, TicksOfOne

LEMMA TicksOfReplays ==
  ASSUME IInv, Ticking, NEW s \in Schedules, NEW after \in 0..Len(events),
         ResumeReplaying(s, after) \/ \E d \in Here.definitions : SaveReplaying(s, d, after)
  PROVE  Ticking'
<1>1. /\ History /\ EpochsOf(s) /\ DOMAIN schedules[s] = ScheduleColumns
      /\ schedules[s].def \in Definitions
  BY DEF IInv, Observers, Watching, Ticking, TicksOf
<1>2. /\ Listed(occurrences) /\ \A o \in 1..Len(occurrences) : DOMAIN occurrences[o] = Columns
      /\ Grown(occurrences, occurrences, Len(events)) /\ Unlinked(occurrences, occurrences)
  BY <1>1 DEF History, Request, Grown, Unlinked, SameRequest, Listed
<1>3. CASE ResumeReplaying(s, after)
  <2> DEFINE row == Resumed(schedules[s])
             rows == ReleasedIfPaused(s)
  <2>1. /\ DOMAIN row = ScheduleColumns /\ row.def \in Definitions /\ row.epoch = schedules[s].epoch
    BY <1>1, ResumedRow
  <2>2. /\ Listed(rows) /\ \A o \in 1..Len(rows) : DOMAIN rows[o] = Columns
        /\ Grown(occurrences, rows, Len(events)) /\ Unlinked(occurrences, rows)
        /\ Len(rows) = Len(occurrences)
    <3>1. rows = Released(s) \/ rows = occurrences
      BY DEF ReleasedIfPaused
    <3> HIDE DEF rows
    <3> QED
      BY <1>1, <1>2, <3>1, ReleasedGrown
  <2>3. Replay(s, row, rows, after)
    BY <1>3 DEF ResumeReplaying
  <2> HIDE DEF row, rows
  <2>4. row.epoch \in Nat /\ schedules[s].epoch <= row.epoch
    BY <1>1, <2>1 DEF EpochsOf
  <2> QED
    BY <2>1, <2>2, <2>3, <2>4, TicksReplayed
<1>4. ASSUME NEW d \in Here.definitions, SaveReplaying(s, d, after)
      PROVE  Ticking'
  <2> DEFINE row == Saved(schedules[s], d)
  <2>1. d \in Definitions
    BY <1>1, SiteAssumption DEF History, Here, Situations
  <2>2. DOMAIN row = ScheduleColumns /\ row.def \in Definitions /\ row.epoch = schedules[s].epoch + 1
    BY <1>1, <2>1, SavedRow
  <2>3. Replay(s, row, occurrences, after)
    BY <1>4 DEF SaveReplaying
  <2> HIDE DEF row
  <2>4. row.epoch \in Nat /\ schedules[s].epoch <= row.epoch
    BY <1>1, <2>2 DEF EpochsOf
  <2> QED
    BY <1>2, <2>2, <2>3, <2>4, TicksReplayed
<1> QED
  BY <1>3, <1>4

LEMMA NextTicking == IInv /\ IInv' /\ Ticking /\ [Next]_vars => Ticking'
<1> SUFFICES ASSUME IInv, IInv', Ticking, [Next]_vars PROVE Ticking'
  OBVIOUS
<1>1. CASE World \/ Crash \/ Recover \/ Restart \/ UNCHANGED vars
  BY <1>1, TicksInWorld
<1>2. CASE Pass
  <2>1. CASE \/ StartPass \/ Reconciled \/ Select \/ EndPass \/ AwaitWrites \/ Reject
             \/ \E o \in batch : Prepare(o)
    BY <2>1, TicksInWorld
  <2>2. CASE (\E o \in DOMAIN occurrences : Reconcile(o)) \/ Accept \/ Refuse
    BY <2>2, TicksOfDispatch
  <2>3. CASE SkipSchedule \/ ObserveClock \/ ScanEvents \/ Deliver
    BY <2>3, TicksOfPass
  <2>4. CASE Evaluate
    <3>1. PICK s : s = next
      OBVIOUS
    <3>2. s \in Schedules /\ Schedules' = Schedules
      BY <2>4, <3>1 DEF IInv, InPass, Evaluate, Schedules, ScheduleCount, Here
    <3>3. \A t \in Schedules : TicksOf(t)'
      BY <2>4, <3>1, <3>2, TicksEvaluated
    <3> QED
      BY <3>2, <3>3 DEF Ticking
  <2> QED
    BY <1>2, <2>1, <2>2, <2>3, <2>4 DEF Pass
<1>3. CASE Command
  BY <1>3, TicksOfCommands, TicksSaved, TicksOfReplays DEF Command
<1> QED
  BY <1>1, <1>2, <1>3 DEF Next

LEMMA InitTicking == Init => Ticking
<1> SUFFICES ASSUME Init, NEW s \in Schedules PROVE TicksOf(s)
  BY DEF Ticking
<1>1. /\ Len(occurrences) = 0 /\ tokens[s] = {} /\ clocks[s] = Unobserved(0)
  BY ListedEmpty DEF Init
<1>2. schedules[s].epoch = 0
  BY DEF Init
<1>3. EpochsOf(s)
  BY <1>1, <1>2 DEF EpochsOf
<1>4. clocks[s].rows = {} /\ clocks[s].cursor = <<0, Whole>>
  BY <1>1 DEF Unobserved
<1>5. Passed(s)
  <2>1. Key(<<0, Whole>>) /\ <<0, Whole>>[2] <= Whole
    BY DEF Key, Whole
  <2> QED
    BY <1>4, <2>1 DEF Passed
<1>6. \A t : Users(s, t) = {}
  BY <1>1 DEF Users
<1>7. Accounted(s) /\ Traced(s) /\ Single(s)
  BY <1>1, <1>4, <1>6 DEF Accounted, Traced, Single
<1> QED
  BY <1>3, <1>5, <1>7 DEF TicksOf

\* Catching up, a delivered tick waits or was used by a request of its own:
\* none is swallowed by a later one, and none used twice
\* (deliver_schedule_ticks, queue_schedule_occurrence).
THEOREM TicksStayApart == Spec => []TicksIndependent
<1>1. Init => IInv /\ Ticking
  BY InitIInv, InitTicking
<1>2. IInv /\ Ticking /\ [Next]_vars => (IInv /\ Ticking)'
  BY NextIInv, NextTicking
<1>3. ASSUME IInv, Ticking PROVE TicksIndependent
  <2> SUFFICES ASSUME NEW s \in Schedules, CatchesUp(s),
                      NEW r \in clocks[s].rows, r.state = "DELIVERED"
               PROVE  Cardinality({o \in DOMAIN occurrences :
                          /\ occurrences[o].schedule = s
                          /\ occurrences[o].epoch = schedules[s].epoch
                          /\ TokenOf(s, r.key) \in occurrences[o].evidence})
                        = (IF TokenOf(s, r.key) \in tokens[s] THEN 0 ELSE 1)
    BY DEF TicksIndependent, CatchesUp
  <2> DEFINE t == TokenOf(s, r.key)
  <2>1. DOMAIN occurrences = 1..Len(occurrences)
    BY <1>3 DEF IInv, History, Listed
  <2>2. IF t \in tokens[s] THEN Users(s, t) = {} ELSE \E o : Users(s, t) = {o}
    BY <1>3 DEF Ticking, TicksOf, Accounted
  <2>3. Cardinality(Users(s, t)) = (IF t \in tokens[s] THEN 0 ELSE 1)
    <3>1. CASE t \in tokens[s]
      BY <2>2, <3>1, FS_EmptySet
    <3>2. CASE t \notin tokens[s]
      <4>1. PICK o : Users(s, t) = {o}
        BY <2>2, <3>2
      <4> QED
        BY <3>2, <4>1, FS_Singleton
    <3> QED
      BY <3>1, <3>2
  <2> QED
    BY <2>1, <2>3 DEF Users
<1> QED
  BY <1>1, <1>2, <1>3, PTL DEF Spec

-----------------------------------------------------------------------------
(* The clock by its definition.  A date of the walk holds the intended instants
   of that date and no other, so that the walk around an interval finds every
   instant intended in it, and the preview the next ones. *)

LEMMA MinuteSplit ==
  ASSUME NEW z \in Int, NEW d \in Int, NEW m \in 0..(DayLength - 1)
  PROVE  z = d * DayLength + m <=> z \div DayLength = d /\ z % DayLength = m
<1> DEFINE q == z \div DayLength
           r == z % DayLength
<1>1. DayLength \in Nat /\ DayLength > 0
  BY ClockAssumption
<1>2. PICK n \in Int : n = DayLength /\ n > 0
  BY <1>1
<1>3. q \in Int /\ r \in 0..(n - 1) /\ z = n * q + r
  BY <1>2
<1>4. ASSUME z = d * n + m
      PROVE  q = d /\ r = m
  <2> HIDE DEF q, r
  <2>1. n * (q - d) = m - r
    BY <1>2, <1>3, <1>4
  <2>2. PICK k \in Int : k = q - d
    BY <1>3
  <2>3. -n < m - r /\ m - r < n /\ m - r \in Int
    BY <1>2, <1>3
  <2>4. n * k = m - r
    BY <2>1, <2>2
  <2>5. ~(k >= 1)
    <3> SUFFICES ASSUME k >= 1 PROVE FALSE
      OBVIOUS
    <3>1. n * k >= n
      BY <1>2, <2>2
    <3> QED
      BY <2>3, <2>4, <3>1, <1>2
  <2>6. ~(k <= -1)
    <3> SUFFICES ASSUME k <= -1 PROVE FALSE
      OBVIOUS
    <3>1. n * k <= -n
      BY <1>2, <2>2
    <3> QED
      BY <2>3, <2>4, <3>1, <1>2
  <2>7. k = 0
    BY <2>2, <2>5, <2>6
  <2> QED
    BY <1>3, <2>2, <2>4, <2>7, <1>2
<1>5. ASSUME q = d, r = m
      PROVE  z = d * n + m
  BY <1>2, <1>3, <1>5
<1> QED
  BY <1>2, <1>4, <1>5

LEMMA ResolvedTo ==
  ASSUME NEW l \in DOMAIN Crons, NEW minute, NEW i
  PROVE  LET cron == Crons[l] IN
         i \in Resolved(cron, minute) <=>
           /\ i \in 0..Horizon /\ cron.zone[i] = minute
           /\ cron.both \/ \A j \in 0..(i - 1) : cron.zone[j] # cron.zone[i]
<1> DEFINE cron == Crons[l]
           at == {x \in 0..Horizon : cron.zone[x] = minute}
<1>1. PICK zone, both : zone = cron.zone /\ both = cron.both
  OBVIOUS
<1>2. Horizon \in Nat /\ at \subseteq Nat /\ at = {x \in 0..Horizon : zone[x] = minute}
  BY <1>1, ClockAssumption
<1>3. Resolved(cron, minute) = IF both \/ at = {} THEN at ELSE {Min(at)}
  BY <1>1 DEF Resolved
<1>4. at # {} => Min(at) \in at /\ \A m \in at : Min(at) <= m
  BY <1>2, MinOf
<1> SUFFICES i \in Resolved(cron, minute) <=>
               /\ i \in 0..Horizon /\ zone[i] = minute
               /\ both \/ \A j \in 0..(i - 1) : zone[j] # zone[i]
  BY <1>1
<1> HIDE DEF cron, at
<1>5. CASE both \/ at = {}
  BY <1>2, <1>3, <1>5
<1>6. CASE ~both /\ at # {}
  <2>1. ASSUME NEW j \in 0..(i - 1), i \in at, zone[j] = zone[i]
        PROVE  j \in at /\ j < i
    BY <1>2, <2>1
  <2>3. PICK x \in at : x = Min(at) /\ \A m \in at : x <= m
    BY <1>4, <1>6
  <2>4. ASSUME i = x
        PROVE  \A j \in 0..(i - 1) : zone[j] # zone[i]
    <3> SUFFICES ASSUME NEW j \in 0..(i - 1), zone[j] = zone[i] PROVE FALSE
      OBVIOUS
    <3>1. j \in at /\ j < i
      BY <2>1, <2>3, <2>4
    <3> QED
      BY <1>2, <2>3, <2>4, <3>1
  <2>5. ASSUME i \in at, i # x
        PROVE  \E j \in 0..(i - 1) : zone[j] = zone[i]
    <3>1. x \in Nat /\ i \in Nat /\ x < i
      BY <1>2, <2>3, <2>5
    <3>2. x \in 0..(i - 1) /\ zone[x] = zone[i]
      BY <1>2, <2>3, <2>5, <3>1
    <3> QED
      BY <3>2
  <2>6. i \in Resolved(cron, minute) <=> i = x
    BY <1>3, <1>6, <2>3
  <2> QED
    BY <1>2, <1>6, <2>3, <2>4, <2>5, <2>6
<1> QED
  BY <1>5, <1>6

\* A day of the walk holds the intended instants of that date, and no other.
LEMMA DayIntended ==
  ASSUME NEW l \in DOMAIN Crons, NEW d \in Int, NEW i
  PROVE  i \in OfDay(Crons[l], d) <=> i \in Intended[l] /\ DateOf(Crons[l], i) = d
<1> DEFINE cron == Crons[l]
           First(j) == cron.both \/ \A x \in 0..(j - 1) : cron.zone[x] # cron.zone[j]
<1>1. i \in Intended[l] <=> /\ i \in 0..Horizon /\ cron.zone[i] % DayLength \in cron.minute
                            /\ OnDate(cron, DateOf(cron, i)) /\ First(i)
  BY DEF Intended
<1>2. i \in OfDay(cron, d) <=> OnDate(cron, d) /\ \E m \in cron.minute : i \in Resolved(cron, d * DayLength + m)
  BY DEF OfDay
<1>3. \A m : i \in Resolved(cron, d * DayLength + m) <=>
               i \in 0..Horizon /\ cron.zone[i] = d * DayLength + m /\ First(i)
  BY ResolvedTo
<1>4. /\ cron.minute \subseteq 0..(DayLength - 1)
      /\ i \in 0..Horizon => cron.zone[i] \in Int
  BY ClockAssumption
<1> HIDE DEF First
<1>5. DateOf(cron, i) = cron.zone[i] \div DayLength
  BY DEF DateOf
<1> HIDE DEF cron
<1>6. ASSUME i \in 0..Horizon, NEW m \in cron.minute
      PROVE  cron.zone[i] = d * DayLength + m <=> DateOf(cron, i) = d /\ cron.zone[i] % DayLength = m
  BY <1>4, <1>5, <1>6, MinuteSplit
<1>7. i \in OfDay(cron, d) <=>
        OnDate(cron, d) /\ i \in 0..Horizon /\ First(i) /\ DateOf(cron, i) = d
          /\ cron.zone[i] % DayLength \in cron.minute
  <2>1. i \in OfDay(cron, d) <=>
          OnDate(cron, d) /\ \E m \in cron.minute :
            i \in 0..Horizon /\ First(i) /\ DateOf(cron, i) = d /\ cron.zone[i] % DayLength = m
    BY <1>2, <1>3, <1>6
  <2> QED
    BY <2>1
<1> QED
  BY <1>1, <1>7 DEF cron

\* No date is left out of the walk around an interval.
LEMMA DueIntended ==
  ASSUME NEW l \in DOMAIN Crons, NEW from \in 0..Horizon, NEW through \in from..Horizon
  PROVE  /\ Due(Crons[l], from, through) \subseteq Intended[l]
         /\ \A i \in Intended[l] : from <= i /\ i <= through => i \in Due(Crons[l], from, through)
<1> DEFINE date(i) == DateOf(Crons[l], i)
           Day(d) == OfDay(Crons[l], d)
<1>1. Horizon \in Nat /\ \A i \in 0..Horizon : date(i) \in Int
  <2>1. \A i \in 0..Horizon : Crons[l].zone[i] \in Int
    BY ClockAssumption
  <2> QED
    BY <2>1, ClockAssumption DEF DateOf
<1>2. date(from) \in Int /\ date(through) \in Int /\ through \in 0..Horizon
  BY <1>1
<1>3. Due(Crons[l], from, through) = UNION {Day(d) : d \in (date(from) - 1)..(date(through) + 1)}
  BY DEF Due
<1>4. ASSUME NEW d \in Int, NEW i
      PROVE  i \in Day(d) <=> i \in Intended[l] /\ date(i) = d
  BY DayIntended
<1>5. ASSUME NEW i \in Intended[l], from <= i, i <= through
      PROVE  i \in 0..Horizon /\ date(from) - 1 <= date(i) /\ date(i) <= date(through) + 1
  <2>1. i \in 0..Horizon
    BY DEF Intended
  <2>2. \A j \in 0..Horizon : \A k \in 0..j : date(k) <= date(j) + 1
    BY ZoneAssumption
  <2> HIDE DEF date
  <2>3. from \in 0..i /\ i \in 0..through
    BY <1>1, <1>5, <2>1
  <2>4. date(from) <= date(i) + 1 /\ date(i) <= date(through) + 1
    BY <1>2, <2>1, <2>2, <2>3
  <2> QED
    BY <1>1, <1>2, <2>1, <2>4
<1> HIDE DEF date, Day
<1>6. Due(Crons[l], from, through) \subseteq Intended[l]
  BY <1>2, <1>3, <1>4
<1>7. ASSUME NEW i \in Intended[l], from <= i, i <= through
      PROVE  i \in Due(Crons[l], from, through)
  <2>1. date(i) \in (date(from) - 1)..(date(through) + 1) /\ date(i) \in Int
    BY <1>1, <1>2, <1>5, <1>7
  <2> QED
    BY <1>3, <1>4, <2>1
<1> QED
  BY <1>6, <1>7

FirstTwo(S) == {i \in S : Cardinality({j \in S : j < i}) < 2}

LEMMA TwoFirst ==
  ASSUME NEW n \in Nat, NEW S, S \subseteq 0..n, NEW a \in S, NEW b \in S, a < b,
         \A i \in S : i = a \/ i = b \/ b < i
  PROVE  FirstTwo(S) = {a, b}
<1> DEFINE below(i) == {j \in S : j < i}
<1>1. a \in Nat /\ b \in Nat /\ \A i \in S : i \in Nat
  OBVIOUS
<1>2. below(a) = {} /\ below(b) = {a}
  <2>1. \A j \in S : ~(j < a) /\ (j < b <=> j = a)
    BY <1>1
  <2> QED
    BY <2>1
<1>3. Cardinality(below(a)) = 0 /\ Cardinality(below(b)) = 1
  BY <1>2, FS_EmptySet, FS_Singleton
<1>4. ASSUME NEW i \in S, i # a, i # b
      PROVE  ~(Cardinality(below(i)) < 2)
  <2>1. {a, b} \subseteq below(i)
    BY <1>1, <1>4
  <2>2. IsFiniteSet(below(i))
    <3>1. IsFiniteSet(0..n)
      BY FS_Interval
    <3>2. below(i) \subseteq 0..n
      OBVIOUS
    <3> QED
      BY <3>1, <3>2, FS_Subset
  <2>3. Cardinality({a, b}) <= Cardinality(below(i))
    BY <2>1, <2>2, FS_Subset
  <2>4. Cardinality({a, b}) = 2
    <3>1. /\ IsFiniteSet({a}) /\ Cardinality({a}) = 1 /\ b \notin {a}
      <4>1. b # a
        BY <1>1
      <4> QED
        BY <4>1, FS_Singleton
    <3>2. Cardinality({a} \cup {b}) = 2
      BY <3>1, FS_AddElement
    <3>3. {a} \cup {b} = {a, b}
      OBVIOUS
    <3> QED
      BY <3>2, <3>3
  <2>5. Cardinality(below(i)) \in Nat
    BY <2>2, FS_CardinalityType
  <2> QED
    BY <2>3, <2>4, <2>5
<1>5. FirstTwo(S) = {i \in S : Cardinality(below(i)) < 2}
  BY DEF FirstTwo
<1> HIDE DEF below
<1>6. \A i \in S : Cardinality(below(i)) < 2 <=> i \in {a, b}
  BY <1>3, <1>4
<1> QED
  BY <1>5, <1>6

LEMMA TwoThere ==
  ASSUME NEW n \in Nat, NEW S, S \subseteq 0..n, Cardinality(S) >= 2
  PROVE  \E a, b \in S : a < b /\ \A i \in S : i = a \/ i = b \/ b < i
<1>1. IsFiniteSet(S) /\ S \subseteq Nat
  <2>1. IsFiniteSet(0..n) /\ 0..n \subseteq Nat
    BY FS_Interval
  <2>2. IsFiniteSet(S)
    BY <2>1, FS_Subset
  <2> QED
    BY <2>1, <2>2
<1>2. S # {}
  BY FS_EmptySet
<1>3. PICK a \in S : \A i \in S : a <= i
  BY <1>1, <1>2, LeastNat
<1>4. S \ {a} # {}
  <2> SUFFICES ASSUME S = {a} PROVE FALSE
    BY <1>3
  <2>1. Cardinality({a}) = 1
    BY FS_Singleton
  <2> QED
    BY <2>1
<1>5. PICK b \in S \ {a} : \A i \in S \ {a} : b <= i
  <2>1. S \ {a} \subseteq Nat
    BY <1>1
  <2> QED
    BY <1>4, <2>1, LeastNat
<1>6. a < b /\ \A i \in S : i = a \/ i = b \/ b < i
  BY <1>1, <1>3, <1>5
<1> QED
  BY <1>5, <1>6

LEMMA LastOfTwo ==
  ASSUME NEW a \in Nat, NEW b \in Nat, a < b
  PROVE  Max({a, b}) = b
<1>1. b \in {a, b} /\ \A y \in {a, b} : b >= y
  OBVIOUS
<1>2. \A x \in {a, b} : (\A y \in {a, b} : x >= y) => x = b
  OBVIOUS
<1> QED
  BY <1>1, <1>2 DEF Max

LEMMA MinOfInterval ==
  ASSUME NEW low \in Int, NEW T, T # {}, \A x \in T : x \in Int /\ low <= x
  PROVE  Min(T) \in T
<1> DEFINE U == {x - low : x \in T}
<1>1. U \subseteq Nat /\ U # {}
  OBVIOUS
<1>2. PICK u \in U : \A v \in U : u <= v
  BY <1>1, LeastNat
<1>3. PICK x \in T : u = x - low
  BY <1>2
<1>4. ASSUME NEW y \in T PROVE x <= y
  <2>1. y - low \in U
    OBVIOUS
  <2>2. x - low <= y - low
    BY <1>2, <1>3, <2>1
  <2> QED
    BY <2>2
<1>5. \E z \in T : \A y \in T : z <= y
  BY <1>3, <1>4
<1> QED
  BY <1>5 DEF Min

\* What the walk of the preview finds first is what comes first: no date that it
\* has not seen can hold an earlier instant.
LEMMA PreviewIntended ==
  ASSUME NEW l \in DOMAIN Crons, NEW at \in 0..Horizon,
         Cardinality({i \in Intended[l] : i > at}) >= 2
  PROVE  Preview(Crons[l], at, 2) = FirstTwo({i \in Intended[l] : i > at})
<1> DEFINE cron == Crons[l]
           date(i) == DateOf(cron, i)
           A == {i \in Intended[l] : i > at}
           until(last) == UNION {{i \in OfDay(cron, d) : i > at} : d \in (date(at) - 1)..last}
           done(last) == Cardinality(until(last)) >= 2 /\ last > date(Max(FirstTwo(until(last))))
           dates == {d \in (date(at) - 1)..(date(Horizon) + 2) : done(d)}
<1>1. Preview(cron, at, 2) = IF dates = {} THEN {} ELSE FirstTwo(until(Min(dates)))
  BY DEF Preview, FirstTwo
<1>2. Horizon \in Nat /\ A \subseteq 0..Horizon /\ \A i \in 0..Horizon : date(i) \in Int
  <2>1. \A i \in 0..Horizon : cron.zone[i] \in Int
    BY ClockAssumption
  <2> QED
    BY <2>1, ClockAssumption DEF DateOf, Intended
<1>3. \A j \in 0..Horizon : \A i \in 0..j : date(i) <= date(j) + 1
  BY ZoneAssumption
<1>4. ASSUME NEW i \in A
      PROVE  date(i) \in Int /\ date(at) - 1 <= date(i) /\ date(i) <= date(Horizon) + 1
  <2> HIDE DEF date
  <2>1. i \in 0..Horizon /\ at \in 0..i /\ Horizon \in 0..Horizon
    BY <1>2
  <2> QED
    BY <1>2, <1>3, <2>1
<1>5. ASSUME NEW last \in Int
      PROVE  until(last) = {i \in A : date(i) <= last}
  <2>1. \A d \in Int : \A i : i \in OfDay(cron, d) <=> i \in Intended[l] /\ date(i) = d
    BY DayIntended
  <2>2. date(at) \in Int
    BY <1>2
  <2> HIDE DEF date
  <2>3. \A i : i \in until(last) <=> i \in A /\ date(i) <= last
    BY <1>4, <2>1, <2>2
  <2> QED
    BY <2>3
<1> HIDE DEF until
<1>6. PICK x, y \in A : x < y /\ \A i \in A : i = x \/ i = y \/ y < i
  BY <1>2, TwoThere
<1>7. date(Horizon) + 2 \in dates
  <2> DEFINE end == date(Horizon) + 2
  <2>1. end \in Int /\ date(at) - 1 <= end
    <3>1. date(Horizon) \in Int /\ date(x) \in Int /\ date(at) \in Int
      BY <1>2
    <3>2. date(at) - 1 <= date(x) /\ date(x) <= date(Horizon) + 1
      BY <1>4, <1>6
    <3> HIDE DEF date
    <3> QED
      BY <3>1, <3>2
  <2>2. until(end) = A
    <3>1. \A i \in A : date(i) <= end
      <4>1. date(Horizon) \in Int
        BY <1>2
      <4> HIDE DEF date
      <4> QED
        BY <1>4, <4>1
    <3> QED
      BY <1>5, <2>1, <3>1
  <2>3. FirstTwo(A) = {x, y} /\ Max({x, y}) = y
    <3>1. x \in Nat /\ y \in Nat
      BY <1>2, <1>6
    <3> HIDE DEF A
    <3> QED
      BY <1>2, <1>6, <3>1, TwoFirst, LastOfTwo
  <2>4. end > date(y)
    <3>1. date(Horizon) \in Int /\ date(y) \in Int /\ date(y) <= date(Horizon) + 1
      BY <1>2, <1>4, <1>6
    <3> HIDE DEF date
    <3> QED
      BY <3>1
  <2>5. done(end)
    BY <2>2, <2>3, <2>4
  <2>6. end \in (date(at) - 1)..(date(Horizon) + 2)
    <3>1. date(Horizon) \in Int /\ date(at) \in Int
      BY <1>2
    <3> HIDE DEF date
    <3> QED
      BY <2>1, <3>1
  <2> HIDE DEF done, date
  <2> QED
    BY <2>5, <2>6
<1>8. PICK last \in Int : last = Min(dates) /\ done(last)
  <2>1. date(at) - 1 \in Int /\ \A d \in dates : d \in Int /\ date(at) - 1 <= d
    <3>1. date(at) \in Int /\ date(Horizon) \in Int
      BY <1>2
    <3> HIDE DEF date, done
    <3> QED
      BY <3>1
  <2> HIDE DEF done, date
  <2>2. dates # {} /\ \A d \in dates : done(d)
    BY <1>7
  <2> HIDE DEF dates
  <2>3. Min(dates) \in dates
    BY <2>1, <2>2, MinOfInterval
  <2> QED
    BY <2>1, <2>2, <2>3
<1> DEFINE U == until(last)
<1>9. U = {i \in A : date(i) <= last} /\ Cardinality(U) >= 2 /\ last > date(Max(FirstTwo(U)))
  BY <1>5, <1>8
<1>10. U \subseteq A /\ U \subseteq 0..Horizon /\ Horizon \in Nat /\ Cardinality(U) >= 2
  BY <1>2, <1>9
<1> HIDE DEF U, dates, done
<1>11. PICK a, b \in U : a < b /\ \A i \in U : i = a \/ i = b \/ b < i
  BY <1>10, TwoThere
<1>12. FirstTwo(U) = {a, b} /\ Max({a, b}) = b
  <2>1. a \in Nat /\ b \in Nat
    BY <1>10, <1>11
  <2> QED
    BY <1>2, <1>10, <1>11, <2>1, TwoFirst, LastOfTwo
<1>13. ASSUME NEW i \in A
       PROVE  i = a \/ i = b \/ b < i
  <2>1. CASE i \in U
    BY <1>11, <2>1
  <2>2. CASE i \notin U
    <3>1. /\ date(i) \in Int /\ date(b) \in Int /\ i \in 0..Horizon /\ b \in 0..Horizon
          /\ last > date(b)
      BY <1>2, <1>9, <1>10, <1>11, <1>12
    <3>2. ~(date(i) <= last)
      BY <1>9, <2>2
    <3> HIDE DEF date
    <3>3. i \notin 0..b
      BY <1>3, <1>8, <3>1, <3>2
    <3> QED
      BY <3>1, <3>3
  <2> QED
    BY <2>1, <2>2
<1>14. FirstTwo(A) = {a, b}
  <2>1. a \in A /\ b \in A
    BY <1>10, <1>11
  <2> HIDE DEF A
  <2> QED
    BY <1>2, <1>11, <1>13, <2>1, TwoFirst
<1>15. dates # {}
  BY <1>7
<1> QED
  BY <1>1, <1>8, <1>12, <1>14, <1>15 DEF U

-----------------------------------------------------------------------------
(* What an observation counts. *)

\* What an observation counts: every intended tick up to the next cursor, once.
Counts(plan, leaves, from) ==
  /\ plan.ticks \cup plan.ignored \cup plan.coalesced = IntendedWithin(leaves, from, plan.cursor)
  /\ plan.ticks \cap plan.ignored = {} /\ plan.ticks \cap plan.coalesced = {}
  /\ plan.ignored \cap plan.coalesced = {}

LEMMA IntendedKeys ==
  ASSUME NEW leaves, NEW m \in 0..Whole, DOMAIN leaves = 1..m,
         \A k \in DOMAIN leaves : leaves[k] \in DOMAIN Crons, NEW from, NEW to
  PROVE  /\ IntendedWithin(leaves, from, to) \subseteq (0..Horizon) \X (1..m)
         /\ IsFiniteSet(IntendedWithin(leaves, from, to))
         /\ \A t \in IntendedWithin(leaves, from, to) : Key(t) /\ t[2] <= Whole
<1> DEFINE T == IntendedWithin(leaves, from, to)
<1>1. Horizon \in Nat /\ m \in Nat /\ m <= Whole /\ Whole \in Nat
  BY ClockAssumption DEF Whole
<1>2. \A l \in DOMAIN Crons : Intended[l] \subseteq 0..Horizon
  BY DEF Intended
<1>3. T \subseteq (0..Horizon) \X (1..m)
  BY <1>2 DEF IntendedWithin
<1> HIDE DEF T
<1>4. IsFiniteSet((0..Horizon) \X (1..m))
  <2>1. IsFiniteSet(0..Horizon) /\ IsFiniteSet(1..m)
    BY <1>1, FS_Interval
  <2> QED
    BY <2>1, FS_Product
<1>5. IsFiniteSet(T)
  BY <1>3, <1>4, FS_Subset
<1>6. \A t \in T : Key(t) /\ t[2] <= Whole
  BY <1>1, <1>3 DEF Key
<1> QED
  BY <1>3, <1>5, <1>6 DEF T

DueAfter(leaves, from, through) ==
  {t \in UNION {Due(Crons[leaves[k]], from[1], through) \X {k} : k \in DOMAIN leaves} :
     Before(from, t) /\ ~Before(<<through, Whole>>, t)}

LEMMA DueWithin ==
  ASSUME NEW leaves, NEW m \in 0..Whole, DOMAIN leaves = 1..m,
         \A k \in DOMAIN leaves : leaves[k] \in DOMAIN Crons,
         NEW from, Key(from), NEW through \in from[1]..Horizon
  PROVE  DueAfter(leaves, from, through) = IntendedWithin(leaves, from, <<through, Whole>>)
<1> DEFINE reach(k) == Due(Crons[leaves[k]], from[1], through)
           due == {t \in UNION {reach(k) \X {k} : k \in DOMAIN leaves} :
                     Before(from, t) /\ ~Before(<<through, Whole>>, t)}
<1>1. Horizon \in Nat /\ m \in Nat /\ m <= Whole /\ Whole \in Nat /\ from[1] \in 0..Horizon
  <2>1. PICK low : low = from[1]
    OBVIOUS
  <2>2. low \in Nat /\ through \in low..Horizon
    BY <2>1 DEF Key
  <2>3. Horizon \in Nat /\ m \in Nat /\ m <= Whole /\ Whole \in Nat
    BY ClockAssumption DEF Whole
  <2> QED
    BY <2>1, <2>2, <2>3
<1>2. ASSUME NEW k \in 1..m
      PROVE  /\ reach(k) \subseteq Intended[leaves[k]]
             /\ \A i \in Intended[leaves[k]] : from[1] <= i /\ i <= through => i \in reach(k)
             /\ Intended[leaves[k]] \subseteq 0..Horizon
  <2>1. leaves[k] \in DOMAIN Crons
    OBVIOUS
  <2> HIDE DEF reach
  <2>2. Intended[leaves[k]] \subseteq 0..Horizon
    BY <2>1 DEF Intended
  <2> QED
    BY <1>1, <2>1, <2>2, DueIntended DEF reach
<1> HIDE DEF reach
<1>3. ASSUME NEW k \in 1..m, NEW i \in Intended[leaves[k]],
             Before(from, <<i, k>>), ~Before(<<through, Whole>>, <<i, k>>)
      PROVE  i \in reach(k)
  <2>1. i \in 0..Horizon
    BY <1>2
  <2>2. from[1] <= i /\ i <= through
    BY <1>1, <1>3, <2>1 DEF Before
  <2> QED
    BY <1>2, <2>2
<1>4. ASSUME NEW t
      PROVE  t \in due <=> t \in IntendedWithin(leaves, from, <<through, Whole>>)
  <2>1. t \in due <=> /\ \E k \in 1..m : \E i \in reach(k) : t = <<i, k>>
                      /\ Before(from, t) /\ ~Before(<<through, Whole>>, t)
    OBVIOUS
  <2>2. t \in IntendedWithin(leaves, from, <<through, Whole>>) <=>
          /\ \E k \in 1..m : \E i \in Intended[leaves[k]] : t = <<i, k>>
          /\ Before(from, t) /\ ~Before(<<through, Whole>>, t)
    BY DEF IntendedWithin
  <2> QED
    BY <1>2, <1>3, <2>1, <2>2
<1>5. due = IntendedWithin(leaves, from, <<through, Whole>>)
  BY <1>4
<1> QED
  BY <1>5 DEF reach, DueAfter

\* The plan of an observation, in the words of the lemmas below.
Ending(c, at) == <<Min({at, c.cursor[1] + LongestPass}), Whole>>
Walked(leaves, c, at) ==
  {t \in UNION {Due(Crons[leaves[k]], c.cursor[1], Ending(c, at)[1]) \X {k} : k \in DOMAIN leaves} :
     Before(c.cursor, t) /\ ~Before(Ending(c, at), t)}
Awake(due, c) == {t \in due : ~InPause(t, c.quiet)}
Taken(awake, c, most) == Oldest(awake, Min({most, TickLimit - c.pending}))
FirstOf(rest) == CHOOSE t \in rest : \A u \in rest : u = t \/ Before(t, u)
Earlier(due, key) == {t \in due : Before(t, key)}
Splits(plan, seen, ticks, coalesced) ==
  plan.ticks = ticks /\ plan.coalesced = coalesced /\ plan.ignored = seen \ (ticks \cup coalesced)
Stopped(plan, c, due, awake, taken) ==
  LET seen == Earlier(due, FirstOf(awake \ taken)) IN
  /\ plan.cursor = IF seen = {} THEN c.cursor ELSE Latest(seen)
  /\ Splits(plan, seen, taken, {})
Shaped(plan, c, misfire, due, awake, taken, end) ==
  \/ c.paused /\ plan.cursor = end /\ Splits(plan, due, {}, {})
  \/ misfire = "skip" /\ plan.cursor = end /\ \E late \in SUBSET awake : Splits(plan, due, late, {})
  \/ plan.cursor = end /\ \E newest \in SUBSET awake : Splits(plan, due, newest, awake \ newest)
  \/ plan.cursor = end /\ Splits(plan, due, awake, {})
  \/ misfire \notin {"skip", "coalesce_latest"} /\ awake # taken /\ Stopped(plan, c, due, awake, taken)

LEMMA PlanShapes ==
  ASSUME NEW leaves, NEW c, NEW misfire, NEW most, NEW at, ~(at < c.cursor[1]),
         NEW due, due = Walked(leaves, c, at), NEW awake, awake = Awake(due, c)
  PROVE  Shaped(Prepared(leaves, c, misfire, most, at), c, misfire, due, awake,
                Taken(awake, c, most), Ending(c, at))
<1> DEFINE end == Ending(c, at)
           newest == {t \in awake : \A u \in awake : u[2] = t[2] => u[1] <= t[1]}
           late == {t \in awake : t[1] > at - 1}
           taken == Taken(awake, c, most)
           accounted == Earlier(due, FirstOf(awake \ taken))
           last == IF accounted = {} THEN c.cursor ELSE Latest(accounted)
           plan == Prepared(leaves, c, misfire, most, at)
           R(seen, ticks, coalesced, cursor) ==
             [ticks |-> ticks, coalesced |-> coalesced, cursor |-> cursor,
              ignored |-> seen \ (ticks \cup coalesced)]
<1>0. end = <<end[1], Whole>> /\ end[1] = Min({at, c.cursor[1] + LongestPass})
  BY DEF Ending
<1>1. plan = IF at < c.cursor[1] THEN R({}, {}, {}, c.cursor)
             ELSE IF c.paused THEN R(due, {}, {}, end)
             ELSE IF misfire = "skip" THEN R(due, late, {}, end)
             ELSE IF misfire = "coalesce_latest" THEN R(due, newest, awake \ newest, end)
             ELSE IF awake = taken THEN R(due, taken, {}, end)
             ELSE R(accounted, taken, {}, last)
  BY DEF Prepared, Ending, Walked, Awake, Taken, FirstOf, Earlier
<1>2. newest \in SUBSET awake /\ late \in SUBSET awake
  OBVIOUS
<1>3. \A seen, ticks, coalesced, cursor :
        LET p == R(seen, ticks, coalesced, cursor) IN
        p.cursor = cursor /\ Splits(p, seen, ticks, coalesced)
  BY DEF Splits
<1> DEFINE Shape == Shaped(plan, c, misfire, due, awake, taken, end)
<1> HIDE DEF R, plan, end, newest, late, taken, accounted, last
<1>4. CASE c.paused
  <2>1. plan = R(due, {}, {}, end)
    BY <1>1, <1>4
  <2> QED
    BY <1>3, <1>4, <2>1 DEF Shaped, plan, end, taken
<1>5. CASE ~c.paused /\ misfire = "skip"
  <2>1. plan = R(due, late, {}, end)
    BY <1>1, <1>5
  <2>2. plan.cursor = end /\ Splits(plan, due, late, {})
    BY <1>3, <2>1
  <2>3. \E x \in SUBSET awake : Splits(plan, due, x, {})
    BY <1>2, <2>2
  <2>4. Shape
    BY <1>5, <2>2, <2>3 DEF Shaped
  <2> QED
    BY <2>4 DEF plan, end, taken
<1>6. CASE ~c.paused /\ misfire = "coalesce_latest"
  <2>1. plan = R(due, newest, awake \ newest, end)
    BY <1>1, <1>6
  <2>2. plan.cursor = end /\ Splits(plan, due, newest, awake \ newest)
    BY <1>3, <2>1
  <2>3. \E x \in SUBSET awake : Splits(plan, due, x, awake \ x)
    BY <1>2, <2>2
  <2>4. Shape
    BY <2>2, <2>3 DEF Shaped
  <2> QED
    BY <2>4 DEF plan, end, taken
<1>7. CASE ~c.paused /\ misfire \notin {"skip", "coalesce_latest"} /\ awake = taken
  <2>1. plan = R(due, awake, {}, end)
    BY <1>1, <1>7
  <2>2. Shape
    BY <1>3, <2>1 DEF Shaped
  <2> QED
    BY <2>2 DEF plan, end, taken
<1>8. CASE ~c.paused /\ misfire \notin {"skip", "coalesce_latest"} /\ awake # taken
  <2>1. plan = R(accounted, taken, {}, last)
    BY <1>1, <1>8
  <2>2. plan.cursor = last /\ Splits(plan, accounted, taken, {})
    BY <1>3, <2>1
  <2>3. Stopped(plan, c, due, awake, taken)
    BY <2>2 DEF Stopped, last, accounted
  <2>4. Shape
    BY <1>8, <2>3 DEF Shaped
  <2> QED
    BY <2>4 DEF plan, end, taken
<1> QED
  BY <1>4, <1>5, <1>6, <1>7, <1>8

LEMMA NothingPaused ==
  ASSUME NEW c, NEW due, NEW t \in due, t \notin Awake(due, c)
  PROVE  c.quiet # {}
BY DEF Awake, InPause

LEMMA PlannedCounts ==
  ASSUME NEW leaves, NEW m \in 0..Whole, DOMAIN leaves = 1..m,
         \A k \in DOMAIN leaves : leaves[k] \in DOMAIN Crons,
         NEW c, Key(c.cursor), c.cursor[2] <= Whole, c.pending \in Nat,
         NEW most \in Nat, NEW misfire, NEW at \in c.cursor[1]..Horizon
  PROVE  LET plan == Prepared(leaves, c, misfire, most, at) IN
         /\ Key(plan.cursor) /\ plan.cursor[2] <= Whole /\ plan.cursor[1] <= at
         /\ ~Before(plan.cursor, c.cursor)
         /\ Counts(plan, leaves, c.cursor)
         /\ plan.ignored # {} => misfire = "skip" \/ c.paused \/ c.quiet # {}
<1>1. PICK plan : plan = Prepared(leaves, c, misfire, most, at)
  OBVIOUS
<1>2. PICK from : from = c.cursor
  OBVIOUS
<1> DEFINE Good(cursor) ==
             Key(cursor) /\ cursor[2] <= Whole /\ cursor[1] <= at /\ ~Before(cursor, from)
           Caused == plan.ignored # {} => misfire = "skip" \/ c.paused \/ c.quiet # {}
<1> SUFFICES Good(plan.cursor) /\ Counts(plan, leaves, from) /\ Caused
  BY <1>1, <1>2
<1>3. Key(from) /\ from[2] <= Whole /\ from[1] \in Nat /\ at \in from[1]..Horizon
  BY <1>2 DEF Key
<1>4. Horizon \in Nat /\ LongestPass \in Nat /\ Whole \in Nat /\ at \in Nat /\ from[1] <= at /\ at <= Horizon
  <2>1. PICK low \in Nat : low = from[1]
    BY <1>3
  <2>2. at \in low..Horizon
    BY <1>3, <2>1
  <2> QED
    BY <2>1, <2>2, ClockAssumption DEF Whole
<1>5. PICK end, through : /\ end = Ending(c, at) /\ end = <<through, Whole>>
                          /\ through \in from[1]..Horizon /\ through <= at /\ from[1] <= through
                          /\ through \in Nat
  <2>1. PICK low \in Nat : low = from[1]
    BY <1>3
  <2>2. low + LongestPass \in Int /\ at \in Int /\ low <= low + LongestPass
    BY <1>4
  <2>3. Min({at, low + LongestPass}) = IF at <= low + LongestPass THEN at ELSE low + LongestPass
    BY <2>2, MinOfTwo
  <2>4. PICK through : through = Min({at, low + LongestPass})
    OBVIOUS
  <2>5. through \in low..Horizon /\ through <= at /\ low <= through /\ through \in Nat
    BY <1>4, <2>1, <2>2, <2>3, <2>4
  <2>6. Ending(c, at) = <<through, Whole>>
    BY <1>2, <2>1, <2>4 DEF Ending
  <2> QED
    BY <2>1, <2>5, <2>6
<1>6. PICK due : due = Walked(leaves, c, at)
  OBVIOUS
<1>7. due = IntendedWithin(leaves, from, end)
  <2>1. Ending(c, at)[1] = through /\ Ending(c, at) = <<through, Whole>>
    BY <1>5
  <2>2. due = DueAfter(leaves, from, through)
    BY <1>2, <1>6, <2>1 DEF Walked, DueAfter
  <2>3. Key(from) /\ through \in from[1]..Horizon
    BY <1>3, <1>5
  <2>4. due = IntendedWithin(leaves, from, <<through, Whole>>)
    BY <2>2, <2>3, DueWithin
  <2> QED
    BY <1>5, <2>4
<1>8. /\ due \subseteq (0..Horizon) \X (1..m) /\ IsFiniteSet(due)
      /\ \A t \in due : Key(t) /\ t[2] <= Whole /\ Before(from, t) /\ ~Before(end, t)
  <2>1. /\ due \subseteq (0..Horizon) \X (1..m) /\ IsFiniteSet(due)
        /\ \A t \in due : Key(t) /\ t[2] <= Whole
    BY <1>7, IntendedKeys
  <2>2. \A t \in due : Before(from, t) /\ ~Before(end, t)
    BY <1>7 DEF IntendedWithin
  <2> QED
    BY <2>1, <2>2
<1>9. Good(end)
  BY <1>3, <1>4, <1>5 DEF Key, Before
<1>10. PICK awake : awake = Awake(due, c)
  OBVIOUS
<1>11. PICK taken : taken = Taken(awake, c, most)
  OBVIOUS
<1>12. awake \subseteq due /\ taken \subseteq awake /\ IsFiniteSet(awake)
  <2>1. awake \subseteq due /\ taken \subseteq awake
    BY <1>10, <1>11 DEF Awake, Taken, Oldest
  <2> QED
    BY <1>8, <2>1, FS_Subset
<1>13. \A t \in due \ awake : c.quiet # {}
  BY <1>10, NothingPaused
<1>14. Shaped(plan, c, misfire, due, awake, taken, end)
  <2>1. ~(at < c.cursor[1])
    BY <1>2, <1>3, <1>4
  <2> QED
    BY <1>1, <1>5, <1>6, <1>10, <1>11, <2>1, PlanShapes
\* Where the observation goes on to its end, everything due is counted.
<1>15. ASSUME NEW ticks, NEW coalesced, ticks \cap coalesced = {}, ticks \cup coalesced \subseteq due,
              plan.cursor = end, Splits(plan, due, ticks, coalesced)
       PROVE  Good(plan.cursor) /\ Counts(plan, leaves, from)
  BY <1>7, <1>9, <1>15 DEF Counts, Splits
<1>16. CASE c.paused /\ plan.cursor = end /\ Splits(plan, due, {}, {})
  BY <1>15, <1>16
<1>17. CASE misfire = "skip" /\ plan.cursor = end /\ \E late \in SUBSET awake : Splits(plan, due, late, {})
  BY <1>12, <1>15, <1>17
<1>18. CASE plan.cursor = end /\ \E newest \in SUBSET awake : Splits(plan, due, newest, awake \ newest)
  <2>1. PICK newest \in SUBSET awake : Splits(plan, due, newest, awake \ newest)
    BY <1>18
  <2>2. newest \cap (awake \ newest) = {} /\ newest \cup (awake \ newest) = awake
    OBVIOUS
  <2>3. Good(plan.cursor) /\ Counts(plan, leaves, from)
    BY <1>12, <1>15, <1>18, <2>1, <2>2
  <2>4. plan.ignored = due \ awake
    BY <2>1, <2>2 DEF Splits
  <2> QED
    BY <1>13, <2>3, <2>4
<1>19. CASE plan.cursor = end /\ Splits(plan, due, awake, {})
  <2>1. Good(plan.cursor) /\ Counts(plan, leaves, from)
    BY <1>12, <1>15, <1>19
  <2>2. plan.ignored = due \ awake
    BY <1>19 DEF Splits
  <2> QED
    BY <1>13, <2>1, <2>2
<1>20. CASE awake # taken /\ Stopped(plan, c, due, awake, taken)
  <2>1. PICK stop : stop = FirstOf(awake \ taken)
    OBVIOUS
  <2>2. PICK seen : seen = Earlier(due, stop)
    OBVIOUS
  <2>3. /\ plan.cursor = IF seen = {} THEN from ELSE Latest(seen)
        /\ Splits(plan, seen, taken, {})
    BY <1>2, <1>20, <2>1, <2>2 DEF Stopped
  <2>4. stop \in awake \ taken /\ \A u \in awake \ taken : u = stop \/ Before(stop, u)
    <3>1. awake \ taken # {} /\ \A t \in awake \ taken : Key(t)
      BY <1>8, <1>12, <1>20
    <3>2. \E t \in awake \ taken : \A u \in awake \ taken : u = t \/ Before(t, u)
      BY <3>1, FirstKey
    <3> QED
      BY <2>1, <3>2 DEF FirstOf
  <2>5. \A t \in taken : Before(t, stop)
    <3>1. Min({most, TickLimit - c.pending}) \in Int
      <4>1. most \in Int /\ TickLimit - c.pending \in Int
        BY ClockAssumption
      <4> QED
        BY <4>1, MinOfTwo
    <3>2. PICK n \in Int : n = Min({most, TickLimit - c.pending})
      BY <3>1
    <3>3. taken = Oldest(awake, n)
      BY <1>11, <3>2 DEF Taken
    <3>4. \A t \in awake : Key(t)
      BY <1>8, <1>12
    <3> QED
      BY <1>12, <2>4, <3>3, <3>4, OldestFirst
  <2>6. taken \subseteq seen /\ seen \subseteq due /\ \A t \in seen : Before(t, stop)
    BY <1>12, <2>2, <2>5 DEF Earlier
  <2>7. ASSUME NEW t \in seen \ taken
        PROVE  c.quiet # {}
    <3>1. t \notin awake
      <4> SUFFICES ASSUME t \in awake PROVE FALSE
        OBVIOUS
      <4>1. Before(t, stop) /\ (t = stop \/ Before(stop, t)) /\ Key(t) /\ Key(stop)
        BY <1>8, <1>12, <2>4, <2>6
      <4> QED
        BY <4>1, BeforeOrders
    <3> QED
      BY <1>13, <2>6, <3>1
  <2>8. Caused
    <3>1. plan.ignored = seen \ taken
      BY <2>3 DEF Splits
    <3> QED
      BY <2>7, <3>1
  <2>9. Good(plan.cursor) /\ seen = IntendedWithin(leaves, from, plan.cursor)
    <3>1. CASE seen = {}
      <4>1. plan.cursor = from
        BY <2>3, <3>1
      <4>2. IntendedWithin(leaves, from, from) = {}
        BY DEF IntendedWithin
      <4>3. Good(from)
        BY <1>3, <1>4, BeforeOrders
      <4> QED
        BY <3>1, <4>1, <4>2, <4>3
    <3>2. CASE seen # {}
      <4>1. plan.cursor = Latest(seen)
        BY <2>3, <3>2
      <4>2. m \in Nat /\ seen \subseteq (0..Horizon) \X (0..m)
        BY <1>8, <2>6
      <4>3. plan.cursor \in seen /\ \A u \in seen : ~Before(plan.cursor, u)
        BY <1>4, <3>2, <4>1, <4>2, LastKey
      <4>4. /\ plan.cursor \in due /\ Key(plan.cursor) /\ plan.cursor[2] <= Whole
            /\ Before(from, plan.cursor) /\ ~Before(end, plan.cursor) /\ Before(plan.cursor, stop)
        BY <1>8, <2>6, <4>3
      <4>5. Good(plan.cursor)
        <5>1. ~Before(plan.cursor, from)
          BY <1>3, <4>4, BeforeOrders
        <5>2. plan.cursor[1] <= at
          BY <1>4, <1>5, <4>4 DEF Before, Key
        <5> QED
          BY <4>4, <5>1, <5>2
      <4>6. Key(end) /\ Key(stop)
        BY <1>8, <1>9, <1>12, <2>4
      <4>7. ASSUME NEW t \in IntendedWithin(leaves, from, plan.cursor)
            PROVE  t \in seen
        <5>1. Key(t) /\ Before(from, t) /\ ~Before(plan.cursor, t)
          BY IntendedKeys DEF IntendedWithin
        <5>2. ~Before(end, t)
          BY <4>4, <4>6, <5>1, BeforeOrders
        <5>3. Before(t, stop)
          <6>1. t = plan.cursor \/ Before(t, plan.cursor)
            BY <4>4, <5>1, BeforeOrders
          <6> QED
            BY <4>4, <4>6, <5>1, <6>1, BeforeOrders
        <5>4. t \in due
          BY <1>7, <5>1, <5>2 DEF IntendedWithin
        <5> QED
          BY <2>2, <5>3, <5>4 DEF Earlier
      <4>8. ASSUME NEW t \in seen
            PROVE  t \in IntendedWithin(leaves, from, plan.cursor)
        BY <1>7, <2>6, <4>3 DEF IntendedWithin
      <4> QED
        BY <4>5, <4>7, <4>8
    <3> QED
      BY <3>1, <3>2
  <2>10. Counts(plan, leaves, from)
    BY <2>3, <2>6, <2>9 DEF Counts, Splits
  <2> QED
    BY <2>8, <2>9, <2>10
<1> QED
  BY <1>14, <1>16, <1>17, <1>18, <1>19, <1>20 DEF Shaped

-----------------------------------------------------------------------------
(* The count of an epoch: each step keeps it or goes on with it. *)

KeysOf(rows) == {r.key : r \in rows}
OneRow(rows) == \A r, q \in rows : r.key = q.key => r = q
Tally(c, leaves, from) ==
  /\ KeysOf(c.rows) \cup c.ignored \cup c.coalesced = IntendedWithin(leaves, from, c.cursor)
  /\ KeysOf(c.rows) \cap c.ignored = {} /\ KeysOf(c.rows) \cap c.coalesced = {}
  /\ c.ignored \cap c.coalesced = {}
  /\ OneRow(c.rows)
\* The count of an epoch goes from its beginning to the cursor.
CountOf(s) ==
  /\ schedules[s].epoch \in Nat
  /\ Key(clocks[s].cursor) /\ clocks[s].cursor[2] <= Whole /\ clocks[s].cursor[1] <= now
  /\ \E from : /\ Key(from) /\ ~Before(clocks[s].cursor, from)
               /\ schedules[s].epoch = 0 => from = <<0, Whole>>
               /\ Tally(clocks[s], Clocks[schedules[s].def], from)
  /\ IgnoredForCause(s)
Counting == now <= Horizon /\ \A s \in Schedules : CountOf(s)

\* Rows that only change their state.
LEMMA Rewritten ==
  ASSUME NEW rows, OneRow(rows), NEW g, \A q \in rows : g[q].key = q.key
  PROVE  KeysOf({g[q] : q \in rows}) = KeysOf(rows) /\ OneRow({g[q] : q \in rows})
<1> DEFINE new == {g[q] : q \in rows}
<1>1. KeysOf(new) = KeysOf(rows)
  BY DEF KeysOf
<1>2. ASSUME NEW r \in new, NEW p \in new, r.key = p.key
      PROVE  r = p
  <2>1. PICK q \in rows : r = g[q]
    OBVIOUS
  <2>2. PICK o \in rows : p = g[o]
    OBVIOUS
  <2>3. q.key = o.key
    BY <1>2, <2>1, <2>2
  <2>4. q = o
    BY <2>3 DEF OneRow
  <2> QED
    BY <2>1, <2>2, <2>4
<1> QED
  BY <1>1, <1>2 DEF OneRow

LEMMA WithinJoins ==
  ASSUME NEW leaves, NEW m \in 0..Whole, DOMAIN leaves = 1..m,
         \A k \in DOMAIN leaves : leaves[k] \in DOMAIN Crons,
         NEW a, NEW b, NEW c, Key(a), Key(b), Key(c), ~Before(b, a), ~Before(c, b)
  PROVE  /\ IntendedWithin(leaves, a, b) \cup IntendedWithin(leaves, b, c) = IntendedWithin(leaves, a, c)
         /\ IntendedWithin(leaves, a, b) \cap IntendedWithin(leaves, b, c) = {}
<1> DEFINE T == UNION {Intended[leaves[k]] \X {k} : k \in DOMAIN leaves}
<1>1. \A x, y, t : t \in IntendedWithin(leaves, x, y) <=> t \in T /\ Before(x, t) /\ ~Before(y, t)
  BY DEF IntendedWithin
<1> HIDE DEF T
<1>2. \A x, y, t : t \in IntendedWithin(leaves, x, y) => Key(t)
  BY IntendedKeys
<1>3. ASSUME NEW t \in IntendedWithin(leaves, a, b)
      PROVE  t \in IntendedWithin(leaves, a, c) /\ t \notin IntendedWithin(leaves, b, c)
  <2>1. Key(t) /\ t \in T /\ Before(a, t) /\ ~Before(b, t)
    BY <1>1, <1>2
  <2>2. ~Before(c, t)
    BY <2>1, BeforeOrders
  <2> QED
    BY <1>1, <2>1, <2>2
<1>4. ASSUME NEW t \in IntendedWithin(leaves, b, c)
      PROVE  t \in IntendedWithin(leaves, a, c)
  <2>1. Key(t) /\ t \in T /\ Before(b, t) /\ ~Before(c, t)
    BY <1>1, <1>2
  <2>2. Before(a, t)
    <3>1. a = b \/ Before(a, b)
      BY BeforeOrders
    <3> QED
      BY <2>1, <3>1, BeforeOrders
  <2> QED
    BY <1>1, <2>1, <2>2
<1>5. ASSUME NEW t \in IntendedWithin(leaves, a, c)
      PROVE  t \in IntendedWithin(leaves, a, b) \/ t \in IntendedWithin(leaves, b, c)
  BY <1>1, <1>5
<1> QED
  BY <1>3, <1>4, <1>5

\* The count of a clock after an observation.
LEMMA TallyGrows ==
  ASSUME NEW leaves, NEW m \in 0..Whole, DOMAIN leaves = 1..m,
         \A k \in DOMAIN leaves : leaves[k] \in DOMAIN Crons,
         NEW c, NEW from, Key(from), Key(c.cursor), ~Before(c.cursor, from), Tally(c, leaves, from),
         NEW plan, Key(plan.cursor), ~Before(plan.cursor, c.cursor), Counts(plan, leaves, c.cursor),
         NEW old, KeysOf(old) = KeysOf(c.rows), OneRow(old),
         NEW new, new.cursor = plan.cursor, new.ignored = c.ignored \cup plan.ignored,
         new.coalesced = c.coalesced \cup plan.coalesced,
         new.rows = old \cup {[key |-> t, state |-> "PENDING"] : t \in plan.ticks}
  PROVE  ~Before(new.cursor, from) /\ Tally(new, leaves, from)
<1> DEFINE fresh(t) == [key |-> t, state |-> "PENDING"]
           before == IntendedWithin(leaves, from, c.cursor)
           after == IntendedWithin(leaves, c.cursor, plan.cursor)
           keys == KeysOf(c.rows)
<1>1. \A t : fresh(t).key = t
  OBVIOUS
<1>2. before \cup after = IntendedWithin(leaves, from, plan.cursor) /\ before \cap after = {}
  BY WithinJoins
<1>3. /\ keys \cup c.ignored \cup c.coalesced = before
      /\ keys \cap c.ignored = {} /\ keys \cap c.coalesced = {} /\ c.ignored \cap c.coalesced = {}
  BY DEF Tally
<1>4. /\ plan.ticks \cup plan.ignored \cup plan.coalesced = after
      /\ plan.ticks \cap plan.ignored = {} /\ plan.ticks \cap plan.coalesced = {}
      /\ plan.ignored \cap plan.coalesced = {}
  BY DEF Counts
<1> HIDE DEF fresh, before, after, keys
<1>5. \A r : r \in new.rows <=> r \in old \/ \E t \in plan.ticks : r = fresh(t)
  BY DEF fresh
<1>6. KeysOf(new.rows) = keys \cup plan.ticks
  <2>1. \A k : k \in KeysOf(new.rows) <=> k \in KeysOf(old) \/ k \in plan.ticks
    BY <1>1, <1>5 DEF KeysOf
  <2> QED
    BY <2>1 DEF keys
<1>7. OneRow(new.rows)
  <2> SUFFICES ASSUME NEW r \in new.rows, NEW q \in new.rows, r.key = q.key
               PROVE  r = q
    BY DEF OneRow
  <2>1. \A x \in old : x.key \in keys
    BY DEF keys, KeysOf
  <2>2. \A x \in old, t \in plan.ticks : x.key # t
    BY <1>2, <1>3, <1>4, <2>1
  <2>3. CASE r \in old /\ q \in old
    BY <2>3 DEF OneRow
  <2>4. CASE r \notin old \/ q \notin old
    BY <1>1, <1>5, <2>2, <2>4
  <2> QED
    BY <2>3, <2>4
<1>8. KeysOf(new.rows) \cup new.ignored \cup new.coalesced = IntendedWithin(leaves, from, new.cursor)
  BY <1>2, <1>3, <1>4, <1>6
<1>9. /\ KeysOf(new.rows) \cap new.ignored = {} /\ KeysOf(new.rows) \cap new.coalesced = {}
      /\ new.ignored \cap new.coalesced = {}
  <2>1. before \cap after = {} /\ keys \subseteq before /\ c.ignored \subseteq before
        /\ c.coalesced \subseteq before /\ plan.ticks \subseteq after /\ plan.ignored \subseteq after
        /\ plan.coalesced \subseteq after
    BY <1>2, <1>3, <1>4
  <2> QED
    BY <1>3, <1>4, <1>6, <2>1
<1>10. ~Before(new.cursor, from)
  BY BeforeOrders
<1> QED
  BY <1>7, <1>8, <1>9, <1>10 DEF Tally

LEMMA ClockLeavesThere ==
  ASSUME NEW d \in Definitions
  PROVE  /\ Len(Clocks[d]) \in 0..Whole /\ DOMAIN Clocks[d] = 1..Len(Clocks[d])
         /\ \A k \in DOMAIN Clocks[d] : Clocks[d][k] \in DOMAIN Crons
<1>1. Clocks[d] \in Seq({l \in DOMAIN Crons \cap Leaves : Watches[l].on = "clock"})
  BY DefinitionAssumption
<1>2. \A k \in DOMAIN Clocks[d] : Clocks[d][k] \in {l \in DOMAIN Crons \cap Leaves : Watches[l].on = "clock"}
  BY <1>1, LenProperties
<1> QED
  BY <1>2, ClockLeaves

LEMMA CountKept ==
  ASSUME NEW s, CountOf(s), clocks'[s] = clocks[s],
         schedules'[s].def = schedules[s].def, schedules'[s].epoch = schedules[s].epoch,
         now \in Nat, now' \in Nat, now <= now',
         schedules[s].paused \/ schedules[s].quiet # {} => schedules'[s].paused \/ schedules'[s].quiet # {}
  PROVE  CountOf(s)'
<1> DEFINE d == schedules[s].def
<1>1. PICK clock : clock = clocks[s] /\ clock = clocks'[s]
  OBVIOUS
<1>2. /\ schedules'[s].epoch \in Nat /\ Key(clock.cursor) /\ clock.cursor[2] <= Whole
      /\ clock.cursor[1] <= now'
  <2>1. Key(clock.cursor) /\ clock.cursor[1] <= now /\ clock.cursor[2] <= Whole
    BY <1>1 DEF CountOf
  <2>2. clock.cursor[1] \in Nat
    BY <2>1 DEF Key
  <2> QED
    BY <2>1, <2>2 DEF CountOf
<1>3. PICK from : /\ Key(from) /\ ~Before(clock.cursor, from)
                  /\ schedules[s].epoch = 0 => from = <<0, Whole>>
                  /\ Tally(clock, Clocks[d], from)
  BY <1>1 DEF CountOf
<1>4. schedules'[s].epoch = 0 => from = <<0, Whole>>
  BY <1>3
<1>5. IgnoredForCause(s)'
  <2>1. IgnoredForCause(s)
    BY DEF CountOf
  <2> QED
    BY <2>1 DEF IgnoredForCause
<1>6. /\ Key(clocks'[s].cursor) /\ clocks'[s].cursor[2] <= Whole /\ clocks'[s].cursor[1] <= now'
      /\ ~Before(clocks'[s].cursor, from) /\ Tally(clocks'[s], Clocks[schedules'[s].def], from)
  BY <1>1, <1>2, <1>3
<1> QED
  BY <1>2, <1>3, <1>4, <1>5, <1>6 DEF CountOf, Key, Before, Tally, KeysOf, OneRow, IntendedWithin

LEMMA CountFresh ==
  ASSUME NEW s, now \in Nat, now' = now, clocks'[s] = Unobserved(now),
         schedules'[s].epoch \in Nat, schedules'[s].epoch # 0
  PROVE  CountOf(s)'
<1>1. PICK from : from = <<now, Whole>>
  OBVIOUS
<1>2. Key(from) /\ from[2] <= Whole /\ from[1] <= now /\ ~Before(from, from)
  BY <1>1 DEF Key, Whole, Before
<1>3. /\ clocks'[s].cursor = from /\ clocks'[s].ignored = {} /\ clocks'[s].coalesced = {}
      /\ clocks'[s].rows = {}
  BY <1>1 DEF Unobserved
<1>4. PICK leaves : leaves = Clocks[schedules'[s].def]
  OBVIOUS
<1>5. Tally(clocks'[s], leaves, from)
  <2>1. IntendedWithin(leaves, from, from) = {}
    BY DEF IntendedWithin
  <2> QED
    BY <1>3, <2>1 DEF Tally, KeysOf, OneRow
<1>6. IgnoredForCause(s)'
  BY <1>3 DEF IgnoredForCause
<1> QED
  BY <1>2, <1>3, <1>4, <1>5, <1>6 DEF CountOf, Key, Before, Tally, KeysOf, OneRow, IntendedWithin

\* Every schedule but one.
LEMMA CountOfOne ==
  ASSUME IInv, Counting, UNCHANGED <<site, now>>, NEW s \in Schedules,
         Only(s, schedules, schedules'), Only(s, clocks, clocks'), CountOf(s)'
  PROVE  Counting'
<1>1. Schedules' = Schedules /\ now' = now /\ now \in Nat
  BY DEF Schedules, ScheduleCount, Here, IInv, History
<1>2. ASSUME NEW t \in Schedules, t # s
      PROVE  CountOf(t)'
  <2>1. schedules'[t] = schedules[t] /\ clocks'[t] = clocks[t]
    BY <1>2 DEF Only
  <2> QED
    BY <1>1, <2>1, CountKept DEF Counting
<1> QED
  BY <1>1, <1>2 DEF Counting

\* ... when it keeps its clock, too.
LEMMA CountBeside ==
  ASSUME IInv, Counting, UNCHANGED <<site, now, clocks>>, NEW s \in Schedules,
         Only(s, schedules, schedules'),
         schedules'[s].def = schedules[s].def, schedules'[s].epoch = schedules[s].epoch,
         schedules[s].paused \/ schedules[s].quiet # {} => schedules'[s].paused \/ schedules'[s].quiet # {}
  PROVE  Counting'
<1>1. now' = now /\ now \in Nat /\ Only(s, clocks, clocks') /\ clocks'[s] = clocks[s]
  BY EntryOf DEF IInv, History
<1>2. CountOf(s)'
  BY <1>1, CountKept DEF Counting
<1> QED
  BY <1>1, <1>2, CountOfOne

LEMMA CountAlike ==
  ASSUME IInv, Counting, UNCHANGED <<site, schedules, clocks>>,
         now' \in Nat, now <= now', now' <= Horizon
  PROVE  Counting'
<1>1. Schedules' = Schedules /\ now \in Nat
  BY DEF Schedules, ScheduleCount, Here, IInv, History
<1>2. ASSUME NEW s \in Schedules
      PROVE  CountOf(s)'
  BY <1>1, CountKept DEF Counting
<1> QED
  BY <1>1, <1>2 DEF Counting

LEMMA CountObserved ==
  ASSUME IInv, Counting, ObserveClock
  PROVE  Counting'
<1>1. PICK s : s = next
  OBVIOUS
<1>2. /\ s \in Schedules /\ UNCHANGED <<site, now, schedules>>
      /\ clocks' = [clocks EXCEPT ![s] = Observed(clocks[s], s)]
      /\ now \in Nat /\ now <= Horizon /\ Horizon \in Nat
  BY <1>1, ClockAssumption DEF IInv, InPass, History, ObserveClock, Counting
<1>3. Only(s, schedules, schedules') /\ Only(s, clocks, clocks') /\ clocks'[s] = Observed(clocks[s], s)
  BY <1>2, EntryOf
<1>4. CountOf(s) /\ Watching(s)
  BY <1>2 DEF Counting, IInv, Observers
<1>5. PICK d, leaves, row : d = schedules[s].def /\ leaves = Clocks[d] /\ row = schedules[s]
  OBVIOUS
<1>6. /\ d \in Definitions /\ Len(leaves) \in 0..Whole /\ DOMAIN leaves = 1..Len(leaves)
      /\ \A k \in DOMAIN leaves : leaves[k] \in DOMAIN Crons
      /\ \A r \in clocks[s].rows : KeyStands(r, d)
  BY <1>4, <1>5, ClockLeavesThere DEF Watching
<1>7. PICK m \in 0..Whole : m = Len(leaves)
  BY <1>6
<1>8. PICK from : /\ Key(from) /\ ~Before(clocks[s].cursor, from)
                  /\ schedules[s].epoch = 0 => from = <<0, Whole>>
                  /\ Tally(clocks[s], leaves, from)
  BY <1>4, <1>5 DEF CountOf
<1>9. Key(clocks[s].cursor) /\ clocks[s].cursor[2] <= Whole /\ clocks[s].cursor[1] <= now
  BY <1>4 DEF CountOf
<1>10. PICK c : c = [cursor |-> clocks[s].cursor, paused |-> row.paused, quiet |-> row.quiet,
                     pending |-> Cardinality(Pendings(s))]
  OBVIOUS
<1>11. /\ c.cursor = clocks[s].cursor /\ c.paused = row.paused /\ c.quiet = row.quiet
       /\ c.pending = Cardinality(Pendings(s))
  BY <1>10
<1>12. c.pending \in Nat
  <2>1. IsFiniteSet(clocks[s].rows)
    BY <1>6, <1>8, RowsFinite DEF Tally, OneRow
  <2>2. Pendings(s) \subseteq clocks[s].rows
    BY DEF Pendings
  <2> QED
    BY <1>11, <2>1, <2>2, FS_Subset, FS_CardinalityType
<1>13. PICK most, misfire : most = Policy[d].maxCatchUp /\ misfire = Policy[d].misfire
  OBVIOUS
<1>14. most \in Nat
  BY <1>6, <1>13, DefinitionAssumption
<1>15. PICK plan : plan = Prepared(leaves, c, misfire, most, now)
  OBVIOUS
<1>16. /\ Key(plan.cursor) /\ plan.cursor[2] <= Whole /\ plan.cursor[1] <= now
       /\ ~Before(plan.cursor, clocks[s].cursor)
       /\ Counts(plan, leaves, clocks[s].cursor)
       /\ plan.ignored # {} => misfire = "skip" \/ row.paused \/ row.quiet # {}
  <2>1. now \in c.cursor[1]..Horizon
    <3>1. PICK low : low = c.cursor[1]
      OBVIOUS
    <3>2. low \in Nat /\ low <= now
      BY <1>9, <1>11, <3>1 DEF Key
    <3> QED
      BY <1>2, <3>1, <3>2
  <2> QED
    BY <1>6, <1>7, <1>9, <1>11, <1>12, <1>14, <1>15, <2>1, PlannedCounts
<1>17. PICK gone : gone = Superseded(s, plan.ticks)
  OBVIOUS
<1>18. PICK new : new = clocks'[s]
  OBVIOUS
<1> DEFINE over(r) == [r EXCEPT !.state = "COALESCED"]
           old == (clocks[s].rows \ gone) \cup {over(r) : r \in gone}
<1> DEFINE observed == [cursor |-> plan.cursor,
                        ignored |-> clocks[s].ignored \cup plan.ignored,
                        coalesced |-> clocks[s].coalesced \cup plan.coalesced,
                        rows |-> old \cup {[key |-> t, state |-> "PENDING"] : t \in plan.ticks}]
<1>19. /\ new.cursor = plan.cursor /\ new.ignored = clocks[s].ignored \cup plan.ignored
       /\ new.coalesced = clocks[s].coalesced \cup plan.coalesced
       /\ new.rows = old \cup {[key |-> t, state |-> "PENDING"] : t \in plan.ticks}
  <2>1. plan = Prepared(Clocks[schedules[s].def],
                 [cursor |-> clocks[s].cursor, paused |-> schedules[s].paused,
                  quiet |-> schedules[s].quiet, pending |-> Cardinality(Pendings(s))],
                 Policy[schedules[s].def].misfire, Policy[schedules[s].def].maxCatchUp, now)
    BY <1>5, <1>10, <1>13, <1>15
  <2>2. Observed(clocks[s], s) = observed
    BY <1>17, <2>1 DEF Observed
  <2>3. new = observed
    BY <1>3, <1>18, <2>2
  <2> HIDE DEF old
  <2> QED
    BY <2>3
<1>20. KeysOf(old) = KeysOf(clocks[s].rows) /\ OneRow(old)
  <2>1. gone \subseteq clocks[s].rows
    BY <1>17 DEF Superseded, Pendings
  <2>2. \A r \in clocks[s].rows : over(r).key = r.key
    BY <1>6 DEF KeyStands
  <2> DEFINE g == [r \in clocks[s].rows |-> IF r \in gone THEN over(r) ELSE r]
  <2> HIDE DEF over
  <2>3. old = {g[r] : r \in clocks[s].rows}
    BY <2>1
  <2>4. \A r \in clocks[s].rows : g[r].key = r.key
    BY <2>2
  <2> HIDE DEF g, old
  <2> QED
    BY <1>8, <2>3, <2>4, Rewritten DEF Tally
<1> HIDE DEF old
<1>21. ~Before(new.cursor, from) /\ Tally(new, leaves, from)
  BY <1>6, <1>7, <1>8, <1>9, <1>11, <1>16, <1>19, <1>20, TallyGrows
<1>22. IgnoredForCause(s)'
  <2>1. clocks[s].ignored # {} => misfire = "skip" \/ row.paused \/ row.quiet # {}
    BY <1>4, <1>5, <1>13 DEF CountOf, IgnoredForCause
  <2>2. new.ignored # {} => misfire = "skip" \/ row.paused \/ row.quiet # {}
    BY <1>16, <1>19, <2>1
  <2>3. schedules'[s] = row /\ Policy[schedules'[s].def].misfire = misfire
    BY <1>2, <1>5, <1>13
  <2> QED
    BY <1>18, <2>2, <2>3 DEF IgnoredForCause
<1>23. CountOf(s)'
  <2>1. /\ Key(clocks'[s].cursor) /\ clocks'[s].cursor[2] <= Whole /\ clocks'[s].cursor[1] <= now
        /\ ~Before(clocks'[s].cursor, from) /\ Tally(clocks'[s], leaves, from)
    BY <1>16, <1>18, <1>19, <1>21
  <2>2. /\ schedules'[s].epoch = schedules[s].epoch /\ Clocks[schedules'[s].def] = leaves
        /\ schedules[s].epoch \in Nat /\ now' = now
    BY <1>2, <1>4, <1>5 DEF CountOf
  <2> QED
    BY <1>8, <1>22, <2>1, <2>2 DEF CountOf, Key, Before, Tally, KeysOf, OneRow, IntendedWithin
<1> QED
  BY <1>2, <1>3, <1>23, CountOfOne

\* Rows that only change their state leave the count as it was.
LEMMA CountRewritten ==
  ASSUME IInv, Counting, UNCHANGED <<site, now, schedules>>, NEW s \in Schedules, NEW rows,
         KeysOf(rows) = KeysOf(clocks[s].rows), OneRow(rows),
         clocks' = [clocks EXCEPT ![s] = [clocks[s] EXCEPT !.rows = rows]]
  PROVE  Counting'
<1> DEFINE x == [clocks[s] EXCEPT !.rows = rows]
<1>1. DOMAIN clocks[s] = ClockColumns
  BY DEF IInv, Observers, Watching
<1>2. /\ x.cursor = clocks[s].cursor /\ x.ignored = clocks[s].ignored
      /\ x.coalesced = clocks[s].coalesced /\ x.rows = rows
  BY <1>1 DEF ClockColumns
<1> HIDE DEF x
<1>3. clocks' = [clocks EXCEPT ![s] = x]
  BY DEF x
<1>4. Only(s, schedules, schedules') /\ Only(s, clocks, clocks') /\ clocks'[s] = x
  BY <1>3, EntryOf
<1>5. CountOf(s)
  BY DEF Counting
<1>6. CountOf(s)'
  <2>1. PICK from : /\ Key(from) /\ ~Before(clocks[s].cursor, from)
                    /\ schedules[s].epoch = 0 => from = <<0, Whole>>
                    /\ Tally(clocks[s], Clocks[schedules[s].def], from)
    BY <1>5 DEF CountOf
  <2>2. Tally(x, Clocks[schedules[s].def], from)
    BY <1>2, <2>1 DEF Tally
  <2>3. Key(x.cursor) /\ x.cursor[2] <= Whole /\ x.cursor[1] <= now /\ schedules[s].epoch \in Nat
        /\ ~Before(x.cursor, from)
    BY <1>2, <1>5, <2>1 DEF CountOf
  <2>4. IgnoredForCause(s)'
    <3>1. IgnoredForCause(s) /\ schedules' = schedules
      BY <1>5 DEF CountOf
    <3> QED
      BY <1>2, <1>4, <3>1 DEF IgnoredForCause
  <2>5. /\ Key(clocks'[s].cursor) /\ clocks'[s].cursor[2] <= Whole /\ clocks'[s].cursor[1] <= now
        /\ ~Before(clocks'[s].cursor, from)
        /\ Tally(clocks'[s], Clocks[schedules[s].def], from)
    BY <1>4, <2>2, <2>3
  <2>6. /\ schedules'[s].epoch = schedules[s].epoch /\ schedules'[s].def = schedules[s].def
        /\ now' = now /\ schedules[s].epoch \in Nat
    BY <1>5 DEF CountOf
  <2> QED
    BY <2>1, <2>4, <2>5, <2>6 DEF CountOf, Key, Before, Tally, KeysOf, OneRow, IntendedWithin
<1> QED
  BY <1>4, <1>6, CountOfOne

LEMMA CountDelivered ==
  ASSUME IInv, Counting, Deliver
  PROVE  Counting'
<1>1. PICK s : s = next
  OBVIOUS
<1>2. s \in Schedules /\ UNCHANGED <<site, now, schedules>>
  BY <1>1 DEF IInv, InPass, Deliver
<1>3. CASE clocks' = clocks
  <2>1. now \in Nat /\ now <= Horizon
    BY DEF IInv, History, Counting
  <2> QED
    BY <1>2, <1>3, <2>1, CountAlike
<1> DEFINE late == {r \in Pendings(s) : Gone(TokenOf(s, r.key), schedules[s].def)}
           oldest == {r \in Pendings(s) \ late :
                        \A q \in Pendings(s) \ late : q.key[2] = r.key[2] => r.key[1] <= q.key[1]}
           out == {r \in oldest : ~Waiting(s, r.key)}
           expired(r) == [r EXCEPT !.state = "EXPIRED"]
           delivered(r) == [r EXCEPT !.state = "DELIVERED"]
           rows == (clocks[s].rows \ (late \cup out))
                     \cup {expired(r) : r \in late} \cup {delivered(r) : r \in out}
           g == [r \in clocks[s].rows |->
                   IF r \in late THEN expired(r) ELSE IF r \in out THEN delivered(r) ELSE r]
<1>4. CASE clocks' = [clocks EXCEPT ![s] = [clocks[s] EXCEPT !.rows = rows]]
  <2>1. late \subseteq clocks[s].rows /\ out \subseteq clocks[s].rows /\ late \cap out = {}
    BY DEF Pendings
  <2>2. \A r \in clocks[s].rows : expired(r).key = r.key /\ delivered(r).key = r.key
    BY <1>2 DEF IInv, Observers, Watching, KeyStands
  <2> HIDE DEF late, out, expired, delivered
  <2>3. rows = {g[r] : r \in clocks[s].rows}
    BY <2>1
  <2>4. \A r \in clocks[s].rows : g[r].key = r.key
    BY <2>2
  <2> HIDE DEF g
  <2>5. OneRow(clocks[s].rows)
    BY <1>2 DEF Counting, CountOf, Tally
  <2> HIDE DEF rows
  <2>6. KeysOf(rows) = KeysOf(clocks[s].rows) /\ OneRow(rows)
    BY <2>3, <2>4, <2>5, Rewritten
  <2> QED
    BY <1>2, <1>4, <2>6, CountRewritten
<1>5. clocks = [t \in Schedules |-> clocks[t]]
  BY DEF IInv, Observers
<1>6. \/ clocks' = clocks
      \/ clocks' = [clocks EXCEPT ![s] = [clocks[s] EXCEPT !.rows = rows]]
  BY <1>1, <1>5 DEF Deliver
<1> QED
  BY <1>3, <1>4, <1>6

LEMMA CountElsewhere ==
  ASSUME IInv, Counting,
         \/ World \/ Crash \/ Recover \/ Restart \/ UNCHANGED vars
         \/ StartPass \/ Reconciled \/ Evaluate \/ Select \/ EndPass \/ AwaitWrites \/ Reject
         \/ Accept \/ Refuse \/ (\E o \in batch : Prepare(o))
         \/ (\E o \in DOMAIN occurrences : Reconcile(o)) \/ \E s \in Schedules : Run(s)
  PROVE  Counting'
<1>1. /\ UNCHANGED <<site, schedules, clocks>>
      /\ now' = now \/ (now < Here.time /\ now' = now + 1)
  BY DEF World, Tick, Outside, PublishHead, StartBuild, FinishBuild, Crash, Recover, Restart, vars,
         StartPass, Reconciled, Evaluate, Select, EndPass, AwaitWrites, Reject, Prepare, Accept,
         Refuse, Reconcile, Run
<1>2. now \in Nat /\ now <= Horizon /\ Here.time \in Nat /\ Here.time <= Horizon
  <2>1. now \in Nat /\ site \in DOMAIN Situation
    BY DEF IInv, History
  <2> QED
    BY <2>1, SiteAssumption DEF Here, Situations, Counting
<1>3. now' \in Nat /\ now <= now' /\ now' <= Horizon
  BY <1>1, <1>2, ClockAssumption
<1> QED
  BY <1>1, <1>3, CountAlike

LEMMA CountRows ==
  ASSUME IInv, Counting,
         SkipSchedule \/ ScanEvents \/ \E s \in Schedules : Pause(s) \/ Resume(s) \/ Delete(s)
  PROVE  Counting'
<1>1. UNCHANGED <<site, now, clocks>>
  BY DEF SkipSchedule, ScanEvents, Pause, Resume, Delete
<1>2. \A s \in Schedules : DOMAIN schedules[s] = ScheduleColumns
  BY DEF IInv, Observers, Watching
<1>3. ASSUME NEW s \in Schedules, NEW row, schedules' = [schedules EXCEPT ![s] = row],
             row.def = schedules[s].def, row.epoch = schedules[s].epoch,
             schedules[s].paused \/ schedules[s].quiet # {} => row.paused \/ row.quiet # {}
      PROVE  Counting'
  <2>1. Only(s, schedules, schedules') /\ schedules'[s] = row
    BY <1>3, EntryOf
  <2> QED
    BY <1>1, <1>3, <2>1, CountBeside
<1>4. PICK t : t = next
  OBVIOUS
<1>5. CASE SkipSchedule
  <2> DEFINE row == [schedules[t] EXCEPT !.review = schedules[t].review \/ ~schedules[t].deleted]
  <2>1. schedules' = [schedules EXCEPT ![t] = row] /\ t \in Schedules
    BY <1>4, <1>5 DEF SkipSchedule, IInv, InPass
  <2>2. /\ row.def = schedules[t].def /\ row.epoch = schedules[t].epoch
        /\ row.paused = schedules[t].paused /\ row.quiet = schedules[t].quiet
    BY <1>2, <2>1 DEF ScheduleColumns
  <2> HIDE DEF row
  <2> QED
    BY <1>3, <2>1, <2>2
<1>6. CASE ScanEvents
  <2> DEFINE row == Scanned(schedules[t])
  <2>1. schedules' = [schedules EXCEPT ![t] = row] /\ t \in Schedules
    BY <1>4, <1>6 DEF ScanEvents, IInv, InPass
  <2>2. /\ row.def = schedules[t].def /\ row.epoch = schedules[t].epoch
        /\ row.paused = schedules[t].paused /\ row.quiet = schedules[t].quiet
    BY <1>2, <2>1 DEF Scanned, ScheduleColumns
  <2> HIDE DEF row
  <2> QED
    BY <1>3, <2>1, <2>2
<1>7. ASSUME NEW s \in Schedules, Pause(s)
      PROVE  Counting'
  <2>1. PICK since, at : schedules' = [schedules EXCEPT ![s] =
                           [schedules[s] EXCEPT !.paused = TRUE, !.since = since, !.pausedAt = at]]
    <3>1. schedules = [u \in Schedules |-> schedules[u]]
      BY DEF IInv, Observers
    <3> QED
      BY <1>7, <3>1 DEF Pause
  <2> DEFINE row == [schedules[s] EXCEPT !.paused = TRUE, !.since = since, !.pausedAt = at]
  <2>2. row.def = schedules[s].def /\ row.epoch = schedules[s].epoch /\ row.paused
    BY <1>2 DEF ScheduleColumns
  <2> HIDE DEF row
  <2>3. schedules' = [schedules EXCEPT ![s] = row]
    BY <2>1 DEF row
  <2> QED
    BY <1>3, <2>2, <2>3
\* The interval of the pause stays, even an empty one.
<1>8. ASSUME NEW s \in Schedules, Resume(s)
      PROVE  Counting'
  <2> DEFINE row == Resumed(schedules[s])
  <2>1. schedules' = [schedules EXCEPT ![s] = row] /\ schedules[s].paused
    BY <1>8 DEF Resume
  <2>2. row.def = schedules[s].def /\ row.epoch = schedules[s].epoch
    BY <1>2, ResumedRow
  <2>3. row.quiet # {}
    <3>1. row.quiet = schedules[s].quiet \cup {<<schedules[s].pausedAt, now>>}
      BY <1>2, <2>1 DEF Resumed, ScheduleColumns
    <3> QED
      BY <3>1
  <2> HIDE DEF row
  <2> QED
    BY <1>3, <2>1, <2>2, <2>3
<1>9. ASSUME NEW s \in Schedules, Delete(s)
      PROVE  Counting'
  <2> DEFINE row == [schedules[s] EXCEPT !.deleted = TRUE]
  <2>1. schedules' = [schedules EXCEPT ![s] = row]
    BY <1>9 DEF Delete
  <2>2. /\ row.def = schedules[s].def /\ row.epoch = schedules[s].epoch
        /\ row.paused = schedules[s].paused /\ row.quiet = schedules[s].quiet
    BY <1>2 DEF ScheduleColumns
  <2> HIDE DEF row
  <2> QED
    BY <1>3, <2>1, <2>2
<1> QED
  BY <1>5, <1>6, <1>7, <1>8, <1>9

\* A new epoch begins with an empty count, at the instant of its command.
LEMMA CountBegins ==
  ASSUME IInv, Counting, NEW s \in Schedules, NEW row, row.epoch \in Nat, row.epoch # 0,
         schedules' = [schedules EXCEPT ![s] = row],
         clocks' = [clocks EXCEPT ![s] = Unobserved(now)], UNCHANGED <<site, now>>
  PROVE  Counting'
<1> DEFINE clock == Unobserved(now)
<1>1. clocks' = [clocks EXCEPT ![s] = clock]
  OBVIOUS
<1> HIDE DEF clock
<1>2. /\ Only(s, schedules, schedules') /\ schedules'[s] = row
      /\ Only(s, clocks, clocks') /\ clocks'[s] = clock
  BY <1>1, EntryOf
<1>3. CountOf(s)'
  <2>1. now \in Nat /\ clocks'[s] = Unobserved(now)
    BY <1>2 DEF IInv, History, clock
  <2> QED
    BY <1>2, <2>1, CountFresh
<1> QED
  BY <1>2, <1>3, CountOfOne

LEMMA CountReplayed ==
  ASSUME IInv, Counting, NEW s \in Schedules, NEW row, DOMAIN row = ScheduleColumns,
         row.epoch \in Nat, NEW rows, NEW after, Replay(s, row, rows, after)
  PROVE  Counting'
<1> DEFINE fresh == [row EXCEPT !.epoch = row.epoch + 1, !.cursor = after, !.since = 0, !.muted = {},
                                !.pausedAt = 0, !.quiet = {}]
           scanned == Scanned(fresh)
<1>1. /\ schedules' = [schedules EXCEPT ![s] = scanned]
      /\ clocks' = [clocks EXCEPT ![s] = Unobserved(now)] /\ UNCHANGED <<site, now>>
  BY DEF Replay
<1>2. DOMAIN fresh = ScheduleColumns /\ fresh.epoch = row.epoch + 1
  BY DEF ScheduleColumns
<1> HIDE DEF fresh
<1>3. scanned.epoch = row.epoch + 1
  BY <1>2 DEF Scanned, ScheduleColumns
<1>4. scanned.epoch \in Nat /\ scanned.epoch # 0
  BY <1>3
<1> HIDE DEF scanned
<1> QED
  BY <1>1, <1>4, CountBegins

LEMMA CountEpochs ==
  ASSUME IInv, Counting, NEW s \in Schedules,
         \/ \E d \in Here.definitions : Save(s, d)
         \/ \E after \in 0..Len(events) :
              ResumeReplaying(s, after) \/ \E d \in Here.definitions : SaveReplaying(s, d, after)
  PROVE  Counting'
<1>1. DOMAIN schedules[s] = ScheduleColumns /\ schedules[s].epoch \in Nat
  BY DEF IInv, Observers, Watching, Counting, CountOf
<1>2. ASSUME NEW d, Save(s, d)
      PROVE  Counting'
  <2> DEFINE row == Saved(schedules[s], d)
  <2>1. /\ schedules' = [schedules EXCEPT ![s] = row]
        /\ clocks' = [clocks EXCEPT ![s] = Unobserved(now)] /\ UNCHANGED <<site, now>>
    BY <1>2 DEF Save
  <2>2. row.epoch = schedules[s].epoch + 1
    BY <1>1, SavedRow
  <2> HIDE DEF row
  <2>3. row.epoch \in Nat /\ row.epoch # 0
    BY <1>1, <2>2
  <2> QED
    BY <2>1, <2>3, CountBegins
<1>3. ASSUME NEW after, ResumeReplaying(s, after)
      PROVE  Counting'
  <2> DEFINE row == Resumed(schedules[s])
  <2>1. DOMAIN row = ScheduleColumns /\ row.epoch \in Nat
    BY <1>1, ResumedRow
  <2>2. PICK rows : Replay(s, row, rows, after)
    BY <1>3 DEF ResumeReplaying
  <2> HIDE DEF row
  <2> QED
    BY <2>1, <2>2, CountReplayed
<1>4. ASSUME NEW after, NEW d, SaveReplaying(s, d, after)
      PROVE  Counting'
  <2> DEFINE row == Saved(schedules[s], d)
  <2>1. DOMAIN row = ScheduleColumns /\ row.epoch = schedules[s].epoch + 1
    BY <1>1, SavedRow
  <2>2. row.epoch \in Nat
    BY <1>1, <2>1
  <2>3. PICK rows : Replay(s, row, rows, after)
    BY <1>4 DEF SaveReplaying
  <2> HIDE DEF row
  <2> QED
    BY <2>1, <2>2, <2>3, CountReplayed
<1> QED
  BY <1>2, <1>3, <1>4

LEMMA NextCounting == IInv /\ Counting /\ [Next]_vars => Counting'
<1> SUFFICES ASSUME IInv, Counting, [Next]_vars PROVE Counting'
  OBVIOUS
<1>1. CASE World \/ Crash \/ Recover \/ Restart \/ UNCHANGED vars
  BY <1>1, CountElsewhere
<1>2. CASE Pass
  <2>1. CASE \/ StartPass \/ Reconciled \/ Evaluate \/ Select \/ EndPass \/ AwaitWrites \/ Reject
             \/ Accept \/ Refuse \/ (\E o \in batch : Prepare(o))
             \/ (\E o \in DOMAIN occurrences : Reconcile(o))
    BY <2>1, CountElsewhere
  <2>2. CASE SkipSchedule \/ ScanEvents
    BY <2>2, CountRows
  <2> QED
    BY <1>2, <2>1, <2>2, CountObserved, CountDelivered DEF Pass
<1>3. CASE Command
  <2>1. PICK s \in Schedules :
          \/ Pause(s) \/ Resume(s) \/ Run(s) \/ Delete(s)
          \/ \E d \in Here.definitions : Save(s, d)
          \/ \E after \in 0..Len(events) :
              ResumeReplaying(s, after) \/ \E d \in Here.definitions : SaveReplaying(s, d, after)
    BY <1>3 DEF Command
  <2>2. CASE Run(s)
    BY <2>2, CountElsewhere
  <2>3. CASE Pause(s) \/ Resume(s) \/ Delete(s)
    BY <2>3, CountRows
  <2> QED
    BY <2>1, <2>2, <2>3, CountEpochs
<1> QED
  BY <1>1, <1>2, <1>3 DEF Next

LEMMA InitCounting == Init => Counting
<1> SUFFICES ASSUME Init, NEW s \in Schedules PROVE CountOf(s)
  <2>1. Init => now <= Horizon
    BY ClockAssumption DEF Init
  <2> QED
    BY <2>1 DEF Counting
<1>1. PICK from : from = <<0, Whole>>
  OBVIOUS
<1>2. PICK clock : clock = clocks[s] /\ clock = Unobserved(0)
  BY DEF Init
<1>3. clock.cursor = from /\ clock.ignored = {} /\ clock.coalesced = {} /\ clock.rows = {}
  BY <1>1, <1>2 DEF Unobserved
<1>4. Key(from) /\ from[2] <= Whole /\ from[1] <= now /\ ~Before(from, from) /\ schedules[s].epoch \in Nat
  BY <1>1 DEF Key, Whole, Before, Init
<1>5. Tally(clock, Clocks[schedules[s].def], from)
  <2>1. IntendedWithin(Clocks[schedules[s].def], from, from) = {}
    BY DEF IntendedWithin
  <2> QED
    BY <1>3, <2>1 DEF Tally, KeysOf, OneRow
<1>6. IgnoredForCause(s)
  BY <1>2, <1>3 DEF IgnoredForCause
<1> QED
  BY <1>1, <1>2, <1>3, <1>4, <1>5, <1>6 DEF CountOf

LEMMA ApartAdds ==
  ASSUME NEW S, IsFiniteSet(S), NEW T, IsFiniteSet(T), S \cap T = {}
  PROVE  Cardinality(S \cup T) = Cardinality(S) + Cardinality(T)
<1>1. PICK n : n = Cardinality(S \cap T)
  OBVIOUS
<1>2. n = 0
  BY <1>1, FS_EmptySet
<1>3. Cardinality(S \cup T) = Cardinality(S) + Cardinality(T) - n
  BY <1>1, FS_Union
<1>4. PICK a \in Nat, b \in Nat : a = Cardinality(S) /\ b = Cardinality(T)
  BY FS_CardinalityType
<1> QED
  BY <1>2, <1>3, <1>4

\* As many rows as keys, and nothing counted twice.
LEMMA TallyAdds ==
  ASSUME NEW d \in Definitions, NEW c, \A r \in c.rows : KeyStands(r, d),
         NEW from, Tally(c, Clocks[d], from)
  PROVE  Cardinality(KeysOf(c.rows) \cup c.ignored \cup c.coalesced)
           = Cardinality(c.rows) + Cardinality(c.ignored) + Cardinality(c.coalesced)
<1> DEFINE keys == KeysOf(c.rows)
           key == [r \in c.rows |-> r.key]
<1>1. /\ keys \cup c.ignored \cup c.coalesced = IntendedWithin(Clocks[d], from, c.cursor)
      /\ keys \cap c.ignored = {} /\ keys \cap c.coalesced = {} /\ c.ignored \cap c.coalesced = {}
      /\ OneRow(c.rows)
  BY DEF Tally
<1>2. IsFiniteSet(keys \cup c.ignored \cup c.coalesced)
  <2>1. PICK m \in 0..Whole : m = Len(Clocks[d])
    BY ClockLeavesThere
  <2>2. DOMAIN Clocks[d] = 1..m /\ \A k \in DOMAIN Clocks[d] : Clocks[d][k] \in DOMAIN Crons
    BY <2>1, ClockLeavesThere
  <2>3. IsFiniteSet(IntendedWithin(Clocks[d], from, c.cursor))
    BY <2>2, IntendedKeys
  <2> QED
    BY <1>1, <2>3
<1>3. \A r \in c.rows : key[r] = r.key /\ r.key \in keys
  BY DEF KeysOf
<1>4. \A k \in keys : \E r \in c.rows : key[r] = k
  BY DEF KeysOf
<1>5. key \in [c.rows -> keys]
  BY <1>3
<1> HIDE DEF key, keys
<1>6. IsFiniteSet(keys) /\ IsFiniteSet(c.ignored) /\ IsFiniteSet(c.coalesced)
  BY <1>2, FS_Subset
<1>7. Cardinality(c.rows) = Cardinality(keys)
  <2>1. key \in Injection(c.rows, keys)
    BY <1>1, <1>3, <1>5 DEF OneRow, Injection, IsInjective
  <2>2. key \in Surjection(c.rows, keys)
    BY <1>4, <1>5 DEF Surjection
  <2> QED
    BY <1>6, <2>1, <2>2, FS_Injection
<1>8. Cardinality(keys \cup c.ignored) = Cardinality(keys) + Cardinality(c.ignored)
  BY <1>1, <1>6, ApartAdds
<1>9. Cardinality((keys \cup c.ignored) \cup c.coalesced)
        = Cardinality(keys \cup c.ignored) + Cardinality(c.coalesced)
  <2>1. IsFiniteSet(keys \cup c.ignored) /\ (keys \cup c.ignored) \cap c.coalesced = {}
    BY <1>1, <1>6, FS_Union
  <2> QED
    BY <1>6, <2>1, ApartAdds
<1> QED
  BY <1>7, <1>8, <1>9 DEF keys

\* Whatever the coordinator missed and however the local clock jumped: exactly
\* the intended instants up to the cursor are accounted for, each once, as a
\* row, ignored or coalesced; nothing is ignored without a pause or the policy
\* skip; and what the editor previews is what will come (prepare,
\* accept_schedule_clock, preview).
THEOREM TicksAreIntended == Spec => []TicksIntended
<1>1. Init => IInv /\ Counting
  BY InitIInv, InitCounting
<1>2. IInv /\ Counting /\ [Next]_vars => (IInv /\ Counting)'
  BY NextIInv, NextCounting
<1>3. ASSUME IInv, Counting PROVE TicksIntended
  <2> SUFFICES ASSUME NEW s \in Schedules
               PROVE  CountedOnce(s) /\ IgnoredForCause(s) /\ PreviewedRight(s)
    BY DEF TicksIntended
  <2>1. CountOf(s) /\ Watching(s) /\ now \in Nat /\ now <= Horizon
    BY <1>3 DEF Counting, IInv, Observers, History
  <2>2. PICK d, c : d = schedules[s].def /\ c = clocks[s]
    OBVIOUS
  <2>3. d \in Definitions /\ \A r \in c.rows : KeyStands(r, d)
    BY <2>1, <2>2 DEF Watching
  <2>4. CountedOnce(s)
    <3> SUFFICES ASSUME schedules[s].epoch = 0
                 PROVE  /\ KeysOf(c.rows) \cup c.ignored \cup c.coalesced
                             = IntendedWithin(Clocks[d], <<0, Whole>>, c.cursor)
                        /\ Cardinality(KeysOf(c.rows) \cup c.ignored \cup c.coalesced)
                             = Cardinality(c.rows) + Cardinality(c.ignored) + Cardinality(c.coalesced)
      BY <2>2 DEF CountedOnce, KeysOf
    <3>1. PICK from : from = <<0, Whole>> /\ Tally(c, Clocks[d], from)
      BY <2>1, <2>2 DEF CountOf
    <3>2. KeysOf(c.rows) \cup c.ignored \cup c.coalesced = IntendedWithin(Clocks[d], from, c.cursor)
      BY <3>1 DEF Tally
    <3>3. Cardinality(KeysOf(c.rows) \cup c.ignored \cup c.coalesced)
            = Cardinality(c.rows) + Cardinality(c.ignored) + Cardinality(c.coalesced)
      BY <2>3, <3>1, TallyAdds
    <3> QED
      BY <3>1, <3>2, <3>3
  <2>5. IgnoredForCause(s)
    BY <2>1 DEF CountOf
  <2>6. PreviewedRight(s)
    <3> SUFFICES ASSUME NEW k \in DOMAIN Clocks[d],
                        Cardinality({i \in Intended[Clocks[d][k]] : i > now}) >= 2
                 PROVE  Preview(Crons[Clocks[d][k]], now, 2)
                          = FirstTwo({i \in Intended[Clocks[d][k]] : i > now})
      BY <2>2 DEF PreviewedRight, FirstTwo
    <3>1. now \in 0..Horizon /\ Clocks[d][k] \in DOMAIN Crons
      BY <2>1, <2>3, ClockLeavesThere, ClockAssumption
    <3> QED
      BY <3>1, PreviewIntended
  <2> QED
    BY <2>4, <2>5, <2>6
<1> QED
  BY <1>1, <1>2, <1>3, PTL DEF Spec

=============================================================================
