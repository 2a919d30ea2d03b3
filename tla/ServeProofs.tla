----------------------------- MODULE ServeProofs -----------------------------
(* What the modules Admission and Serve promise: first the pool by itself, for
   every set of callers, demands, capacities and bound of its queue; then the
   server, for every set of calls, keys and workloads, every limit and every
   number of lives. *)
EXTENDS Serve, SequenceTheorems, FiniteSetTheorems, TLAPS

----------------------------------------------------------------------------
(* The queue. *)

\* Removing the waiter at i shifts its followers by one.
LEMMA WithoutShifts ==
    ASSUME NEW S, NEW q \in Seq(S), NEW i \in 1..Len(q)
    PROVE  /\ Without(q, i) \in Seq(S) /\ Len(Without(q, i)) = Len(q) - 1
           /\ \A n \in 1..Len(q) - 1 :
                Without(q, i)[n] = IF n < i THEN q[n] ELSE q[n + 1]
<1> DEFINE a == SubSeq(q, 1, i - 1)
<1> DEFINE b == SubSeq(q, i + 1, Len(q))
<1>1. Len(q) \in Nat
  BY LenProperties
<1>2. a \in Seq(S) /\ Len(a) = i - 1 /\ \A n \in 1..i - 1 : a[n] = q[n]
  <2>1. CASE i = 1
    BY <2>1, <1>1, SubSeqEmpty, EmptySeq
  <2>2. CASE i # 1
    BY <2>2, <1>1, SubSeqProperties
  <2> QED BY <2>1, <2>2
<1>3. b \in Seq(S) /\ Len(b) = Len(q) - i /\ \A n \in 1..Len(q) - i : b[n] = q[n + i]
  <2>1. CASE i = Len(q)
    BY <2>1, <1>1, SubSeqEmpty, EmptySeq
  <2>2. CASE i # Len(q)
    BY <2>2, <1>1, SubSeqProperties
  <2> QED BY <2>1, <2>2
<1> HIDE DEF a, b
<1>4. Without(q, i) = a \o b
  BY DEF Without, RemoveAt, a, b
<1>5. Without(q, i) \in Seq(S) /\ Len(Without(q, i)) = Len(a) + Len(b)
      /\ \A n \in 1..Len(a) + Len(b) :
            Without(q, i)[n] = IF n <= Len(a) THEN a[n] ELSE b[n - Len(a)]
  <2>1. a \in Seq(S) /\ b \in Seq(S)
    BY <1>2, <1>3
  <2> QED BY <1>4, <2>1, ConcatProperties
<1>6. Len(a) + Len(b) = Len(q) - 1
  BY <1>1, <1>2, <1>3
<1>7. ASSUME NEW n \in 1..Len(q) - 1
      PROVE  Without(q, i)[n] = IF n < i THEN q[n] ELSE q[n + 1]
  <2>1. CASE n < i
    BY <1>1, <1>2, <1>5, <1>6, <2>1
  <2>2. CASE n >= i
    <3>1. Without(q, i)[n] = b[n - (i - 1)]
      BY <1>1, <1>2, <1>5, <1>6, <2>2
    <3>2. n - (i - 1) \in 1..Len(q) - i /\ n - (i - 1) + i = n + 1
      BY <1>1, <2>2
    <3>3. b[n - (i - 1)] = q[n + 1]
      BY <1>3, <3>2
    <3> QED BY <2>2, <3>1, <3>3
  <2> QED BY <1>1, <2>1, <2>2
<1> QED BY <1>5, <1>6, <1>7

\* The wakers copied out of a queue belong to callers that are in it.
LEMMA WakeTyped ==
    ASSUME NEW q \in Seq(Requests), NEW w
    PROVE  Wake(q, w) \subseteq Requests
BY ElementOfSeq DEF Wake

----------------------------------------------------------------------------
(* Types. *)

LEMMA TypeBegins == Init => TypeOK
BY EmptySeq DEF Init, TypeOK, Queued

LEMMA TypeStep == ASSUME TypeOK, Next PROVE TypeOK'
<1>1. PICK r \in Requests : \/ Request(r) \/ Poll(r) \/ DropRequest(r) \/ Notify(r)
                            \/ Checkout(r) \/ Checkin(r) \/ Drop(r)
  BY DEF Next
<1>2. CASE Request(r)
  <2>1. queue' \in Seq(Requests) /\ Len(queue') = Len(queue) + 1
        /\ queue'[Len(queue) + 1] = r /\ \A i \in 1..Len(queue) : queue'[i] = queue[i]
    BY <1>2, AppendProperties DEF Request, TypeOK
  <2>2. Queued' = Queued \cup {r}
    <3>1. Len(queue) \in Nat
      BY LenProperties DEF TypeOK
    <3>2. 1..Len(queue') = 1..Len(queue) \cup {Len(queue) + 1}
      BY <2>1, <3>1
    <3> QED BY <2>1, <3>2 DEF Queued
  <2>3. r \notin Queued
    BY <1>2 DEF Request, TypeOK
  <2>4. \A i, j \in 1..Len(queue') : queue'[i] = queue'[j] => i = j
    <3>1. Len(queue) \in Nat /\ \A i, j \in 1..Len(queue) : queue[i] = queue[j] => i = j
      BY LenProperties DEF TypeOK
    <3>2. \A i \in 1..Len(queue) : queue'[i] # queue'[Len(queue) + 1]
      BY <2>1, <2>3 DEF Queued
    <3>3. \A i \in 1..Len(queue') : i \in 1..Len(queue) \/ i = Len(queue) + 1
      BY <2>1, <3>1
    <3> QED BY <2>1, <3>1, <3>2, <3>3
  <2> QED BY <1>2, <2>1, <2>2, <2>4 DEF Request, TypeOK
<1>3. CASE PollReady(r)
  <2>1. queue # <<>> /\ queue[1] = r
    BY <1>3, EmptySeq, LenProperties DEF PollReady, Fits, Queued, TypeOK
  <2>2. queue' \in Seq(Requests) /\ Len(queue') = Len(queue) - 1
        /\ \A i \in 1..Len(queue) - 1 : queue'[i] = queue[i + 1]
    BY <1>3, <2>1, HeadTailProperties DEF PollReady, TypeOK
  <2>3. Len(queue) \in Nat \ {0}
    BY <2>1, EmptySeq, LenProperties DEF TypeOK
  <2>4. Queued' = Queued \ {r}
    <3>1. ASSUME NEW n \in 1..Len(queue') PROVE queue'[n] \in Queued \ {r}
      <4>1. n + 1 \in 1..Len(queue) /\ n + 1 # 1 /\ 1 \in 1..Len(queue)
        BY <2>2, <2>3
      <4>2. queue'[n] = queue[n + 1]
        BY <2>2
      <4> QED BY <2>1, <4>1, <4>2 DEF Queued, TypeOK
    <3>2. ASSUME NEW n \in 1..Len(queue), queue[n] # r PROVE queue[n] \in Queued'
      <4>1. n - 1 \in 1..Len(queue') /\ n - 1 + 1 = n
        BY <2>1, <2>2, <2>3, <3>2
      <4>2. queue'[n - 1] = queue[n]
        BY <2>2, <4>1
      <4> QED BY <4>1, <4>2 DEF Queued
    <3> QED BY <3>1, <3>2 DEF Queued
  <2>5. \A i, j \in 1..Len(queue') : queue'[i] = queue'[j] => i = j
    <3>1. \A i, j \in 1..Len(queue) : queue[i] = queue[j] => i = j
      BY DEF TypeOK
    <3>2. \A i \in 1..Len(queue') : i + 1 \in 1..Len(queue) /\ queue'[i] = queue[i + 1]
      BY <2>2, <2>3
    <3>3. ASSUME NEW i \in 1..Len(queue'), NEW j \in 1..Len(queue'), queue'[i] = queue'[j]
          PROVE  i = j
      <4>1. i + 1 = j + 1
        BY <3>1, <3>2, <3>3
      <4> QED BY <4>1
    <3> QED BY <3>3
  <2>6. ringing' \subseteq Requests
    BY <1>3, <2>2, WakeTyped DEF PollReady, TypeOK
  <2>7. usage' \in [Resources -> Int]
    <3>1. \A k \in Resources : usage[k] + Demand[r][k] \in Int
      BY CapacityAssumption DEF TypeOK
    <3> QED BY <1>3, <3>1 DEF PollReady
  <2> QED BY <1>3, <2>2, <2>4, <2>5, <2>6, <2>7 DEF PollReady, TypeOK, Handles
<1>4. CASE PollPending(r)
  <2>1. Queued' = Queued
    BY <1>4 DEF PollPending, Queued
  <2>2. waker' \in [Requests -> BOOLEAN]
    BY <1>4 DEF PollPending, TypeOK, Stores
  <2>3. /\ task' \in [Requests -> {"idle", "ready", "parked", "gone"}]
        /\ \A q \in Requests : task'[q] # "idle" <=> task[q] # "idle"
    BY <1>4 DEF PollPending, TypeOK
  <2> QED BY <1>4, <2>1, <2>2, <2>3 DEF PollPending, TypeOK
<1>5. CASE DropRequest(r)
  <2>1. PICK i \in 1..Len(queue) : queue[i] = r /\ queue' = Without(queue, i)
    BY <1>5 DEF DropRequest
  <2>2. queue' \in Seq(Requests) /\ Len(queue') = Len(queue) - 1
        /\ \A n \in 1..Len(queue) - 1 :
              queue'[n] = IF n < i THEN queue[n] ELSE queue[n + 1]
    BY <2>1, WithoutShifts DEF TypeOK
  <2>3. Len(queue) \in Nat /\ \A m, n \in 1..Len(queue) : queue[m] = queue[n] => m = n
    BY LenProperties DEF TypeOK
  <2>4. Queued' = Queued \ {r}
    <3>1. ASSUME NEW n \in 1..Len(queue'), queue'[n] = r PROVE FALSE
      <4>1. CASE n < i
        BY <2>1, <2>2, <2>3, <3>1, <4>1
      <4>2. CASE n >= i
        <5>1. n \in 1..Len(queue) - 1 /\ n + 1 \in 1..Len(queue) /\ n + 1 # i
          BY <2>2, <2>3, <4>2
        <5> QED BY <2>1, <2>2, <2>3, <3>1, <4>2, <5>1
      <4> QED BY <2>2, <2>3, <4>1, <4>2
    <3>2. ASSUME NEW n \in 1..Len(queue), queue[n] # r PROVE queue[n] \in Queued'
      <4>1. CASE n < i
        BY <4>1, <2>2, <2>3 DEF Queued
      <4>2. CASE n > i
        <5>1. n - 1 \in 1..Len(queue') /\ n - 1 + 1 = n /\ ~(n - 1 < i)
          BY <4>2, <2>2, <2>3
        <5>2. queue'[n - 1] = queue[n]
          BY <2>2, <5>1
        <5> QED BY <5>1, <5>2 DEF Queued
      <4> QED BY <2>1, <2>3, <3>2, <4>1, <4>2
    <3>3. ASSUME NEW n \in 1..Len(queue') PROVE queue'[n] \in Queued
      <4>1. n \in 1..Len(queue) /\ n + 1 \in 1..Len(queue)
        BY <2>2, <2>3
      <4> QED BY <2>2, <4>1 DEF Queued
    <3> QED BY <3>1, <3>2, <3>3 DEF Queued
  <2>5. \A m, n \in 1..Len(queue') : queue'[m] = queue'[n] => m = n
    <3> DEFINE at(n) == IF n < i THEN n ELSE n + 1
    <3>1. ASSUME NEW n \in 1..Len(queue') PROVE at(n) \in 1..Len(queue) /\ queue'[n] = queue[at(n)]
      <4>1. n \in 1..Len(queue) - 1 /\ n \in Nat /\ Len(queue) \in Nat
        BY <2>2, <2>3
      <4>2. queue'[n] = IF n < i THEN queue[n] ELSE queue[n + 1]
        BY <2>2, <4>1
      <4>3. n \in 1..Len(queue) /\ n + 1 \in 1..Len(queue)
        BY <4>1
      <4> QED BY <4>2, <4>3
    <3>2. ASSUME NEW m \in 1..Len(queue'), NEW n \in 1..Len(queue'), at(m) = at(n) PROVE m = n
      <4>1. m \in Int /\ n \in Int /\ i \in Int
        OBVIOUS
      <4> QED BY <3>2, <4>1
    <3> HIDE DEF at
    <3> QED BY <2>3, <3>1, <3>2
  <2>6. ringing' \subseteq Requests
    BY <1>5, <2>2, WakeTyped DEF DropRequest, TypeOK
  <2>7. /\ task' \in [Requests -> {"idle", "ready", "parked", "gone"}]
        /\ \A q \in Requests : task'[q] # "idle" <=> q \in Queued'
    <3>1. task' = [task EXCEPT ![r] = "idle"]
      BY <1>5 DEF DropRequest
    <3> QED BY <2>4, <3>1 DEF TypeOK
  <2>8. \A q \in Queued' : handles'[q] = {}
    BY <1>5, <2>4 DEF DropRequest, TypeOK
  <2> QED BY <1>5, <2>2, <2>5, <2>6, <2>7, <2>8 DEF DropRequest, TypeOK
<1>6. CASE Notify(r)
  <2>1. Queued' = Queued
    BY <1>6 DEF Notify, Queued
  <2>2. /\ task' \in [Requests -> {"idle", "ready", "parked", "gone"}]
        /\ \A q \in Requests : task'[q] # "idle" <=> task[q] # "idle"
    BY <1>6 DEF Notify, TypeOK
  <2>3. ringing' \subseteq Requests
    BY <1>6 DEF Notify, TypeOK
  <2> QED BY <1>6, <2>1, <2>2, <2>3 DEF Notify, TypeOK
<1>7. CASE Checkout(r)
  <2>1. Queued' = Queued /\ r \notin Queued
    BY <1>7 DEF Checkout, TypeOK, Queued, queueVars
  <2>2. handles' = [handles EXCEPT ![r] = handles[r] \cup {"permit"}]
    BY <1>7 DEF Checkout
  <2>3. /\ handles' \in [Requests -> SUBSET Handles]
        /\ \A q \in Requests : q # r => handles'[q] = handles[q]
    BY <2>2 DEF TypeOK, Handles
  <2>4. UNCHANGED <<usage, queueVars>>
    BY <1>7 DEF Checkout
  <2> QED BY <2>1, <2>3, <2>4, SMTT(30) DEF TypeOK, Queued, queueVars
<1>8. CASE Checkin(r)
  <2>1. Queued' = Queued /\ r \notin Queued
    BY <1>8 DEF Checkin, TypeOK, Queued, queueVars
  <2>2. handles' = [handles EXCEPT ![r] = (handles[r] \ {"permit"}) \cup {"leaving"}]
    BY <1>8 DEF Checkin
  <2>3. /\ handles' \in [Requests -> SUBSET Handles]
        /\ \A q \in Requests : q # r => handles'[q] = handles[q]
    BY <2>2 DEF TypeOK, Handles
  <2> QED BY <1>8, <2>1, <2>3 DEF Checkin, TypeOK, Queued, queueVars
<1>9. CASE Drop(r)
  <2>1. PICK h \in Handles : Unhandle(r, h)
    BY <1>9 DEF Drop
  <2>2. usage' \in [Resources -> Int] /\ ringing' \subseteq Requests
    <3>1. CASE Final(r, h)
      <4>1. Wake(queue, waker) \subseteq Requests
        BY WakeTyped DEF TypeOK
      <4>2. usage' = [k \in Resources |-> usage[k] - Demand[r][k]]
            /\ ringing' = ringing \cup Wake(queue, waker)
        BY <2>1, <3>1 DEF Unhandle
      <4>3. \A k \in Resources : usage[k] - Demand[r][k] \in Int
        BY CapacityAssumption DEF TypeOK
      <4> QED BY <4>1, <4>2, <4>3 DEF TypeOK
    <3>2. CASE ~Final(r, h)
      BY <2>1, <3>2 DEF Unhandle, TypeOK
    <3> QED BY <3>1, <3>2
  <2> QED BY <2>1, <2>2 DEF Unhandle, TypeOK, Queued, Handles
<1> QED BY <1>1, <1>2, <1>3, <1>4, <1>5, <1>6, <1>7, <1>8, <1>9 DEF Poll

LEMMA TypeStays == TypeOK /\ UNCHANGED vars => TypeOK'
BY DEF TypeOK, vars, queueVars, Queued

\* The type invariant holds in every state of every instance.
THEOREM TypeCorrect == Spec => []TypeOK
BY TypeBegins, TypeStep, TypeStays, PTL DEF Spec

----------------------------------------------------------------------------
(* Wakeups. *)

\* A parked task has left its waker with its waiter: what a thread needs that
\* changes the head of the queue or the usage.
ParkedStored == \A r \in Requests : task[r] = "parked" => waker[r]

WInv == ParkedStored /\ NoLostWakeup

LEMMA HeadWoken ==
    ASSUME NEW q \in Seq(Requests), q # <<>>, NEW w, w[q[1]]
    PROVE  q[1] \in Wake(q, w)
<1>1. 1 \in 1..Len(q)
  BY EmptySeq, LenProperties
<1> QED BY <1>1 DEF Wake

\* The head of the queue, when it is parked, is woken by a step that hands out
\* every waker of the queue it leaves.
LEMMA AllWoken ==
    ASSUME TypeOK', ParkedStored', Wake(queue', waker') \subseteq ringing'
    PROVE  NoLostWakeup'
<1> SUFFICES ASSUME queue' # <<>>, task'[queue'[1]] = "parked"
             PROVE  queue'[1] \in ringing'
  BY DEF NoLostWakeup
<1>1. queue' \in Seq(Requests)
  BY DEF TypeOK
<1>2. queue'[1] \in Requests
  <2>1. 1 \in 1..Len(queue')
    BY <1>1, EmptySeq, LenProperties
  <2> QED BY <1>1, <2>1, ElementOfSeq
<1>3. waker'[queue'[1]]
  BY <1>2 DEF ParkedStored
<1> QED BY <1>1, <1>3, HeadWoken

LEMMA WakeBegins == Init => WInv
BY DEF Init, WInv, ParkedStored, NoLostWakeup

LEMMA WakeStep == ASSUME TypeOK, TypeOK', WInv, Next PROVE WInv'
<1>1. PICK r \in Requests : \/ Request(r) \/ Poll(r) \/ DropRequest(r) \/ Notify(r)
                            \/ Checkout(r) \/ Checkin(r) \/ Drop(r)
  BY DEF Next
<1>2. CASE Request(r)
  <2>1. ParkedStored'
    BY <1>2 DEF Request, WInv, ParkedStored, TypeOK
  <2>2. CASE queue = <<>>
    <3>1. queue'[1] = r
      BY <1>2, <2>2, AppendProperties, EmptySeq DEF Request
    <3>2. task'[r] = "ready"
      BY <1>2 DEF Request, TypeOK
    <3> QED BY <2>1, <3>1, <3>2 DEF WInv, NoLostWakeup
  <2>3. CASE queue # <<>>
    <3>1. 1 \in 1..Len(queue) /\ queue'[1] = queue[1]
      BY <1>2, <2>3, AppendProperties, EmptySeq, LenProperties DEF Request, TypeOK
    <3>2. queue[1] # r
      BY <1>2, <3>1 DEF Request, TypeOK, Queued
    <3>3. task'[queue'[1]] = task[queue[1]] /\ (Fits(queue[1])' <=> Fits(queue[1]))
      BY <1>2, <3>1, <3>2 DEF Request, TypeOK, Fits
    <3> QED BY <1>2, <2>1, <2>3, <3>1, <3>3 DEF Request, WInv, NoLostWakeup
  <2> QED BY <2>2, <2>3
<1>3. CASE PollReady(r)
  <2>1. ParkedStored'
    BY <1>3 DEF PollReady, WInv, ParkedStored, TypeOK
  <2>2. Wake(queue', waker') \subseteq ringing'
    BY <1>3 DEF PollReady
  <2> QED BY <2>1, <2>2, AllWoken DEF WInv
<1>4. CASE PollPending(r)
  <2>1. ParkedStored'
    <3>1. waker' = [waker EXCEPT ![r] = Stores(r)]
          /\ task' = [task EXCEPT ![r] = IF r \in Async THEN "parked" ELSE "gone"]
      BY <1>4 DEF PollPending
    <3>2. ASSUME task'[r] = "parked" PROVE waker'[r]
      <4>1. r \in Async
        BY <3>1, <3>2 DEF TypeOK
      <4>2. waker'[r] = Stores(r)
        BY <3>1 DEF TypeOK
      <4> QED BY <4>1, <4>2, Zenon DEF Stores
    <3>3. ASSUME NEW s \in Requests, s # r, task'[s] = "parked" PROVE waker'[s]
      <4>1. task'[s] = task[s] /\ waker'[s] = waker[s]
        BY <3>1, <3>3 DEF TypeOK
      <4> QED BY <3>3, <4>1 DEF WInv, ParkedStored
    <3> QED BY <3>2, <3>3 DEF ParkedStored
  <2>2. NoLostWakeup'
    <3> SUFFICES ASSUME queue' # <<>>, task'[queue'[1]] = "parked", Fits(queue[1])'
                 PROVE  queue'[1] \in ringing'
      BY DEF NoLostWakeup
    <3>1. queue' = queue /\ ringing' = ringing /\ Fits(queue[1])
      BY <1>4 DEF PollPending, Fits
    <3>2. queue[1] # r
      BY <1>4, <3>1 DEF PollPending
    <3>3. task'[queue[1]] = task[queue[1]]
      BY <1>4, <3>2 DEF PollPending, TypeOK
    <3> QED BY <3>1, <3>3 DEF WInv, NoLostWakeup
  <2> QED BY <2>1, <2>2 DEF WInv
<1>5. CASE DropRequest(r)
  <2>1. ParkedStored'
    BY <1>5 DEF DropRequest, WInv, ParkedStored, TypeOK
  <2>2. Wake(queue', waker') \subseteq ringing'
    BY <1>5 DEF DropRequest
  <2> QED BY <2>1, <2>2, AllWoken DEF WInv
<1>6. CASE Notify(r)
  BY <1>6 DEF Notify, WInv, ParkedStored, NoLostWakeup, TypeOK, Fits
<1>7. CASE Checkout(r)
  BY <1>7 DEF Checkout, queueVars, WInv, ParkedStored, NoLostWakeup, Fits
<1>8. CASE Checkin(r)
  BY <1>8 DEF Checkin, queueVars, WInv, ParkedStored, NoLostWakeup, Fits
<1>9. CASE Drop(r)
  <2>1. PICK h \in Handles : Unhandle(r, h)
    BY <1>9 DEF Drop
  <2>2. ParkedStored'
    BY <2>1 DEF Unhandle, WInv, ParkedStored
  <2>3. CASE Final(r, h)
    <3>1. Wake(queue', waker') \subseteq ringing'
      BY <2>1, <2>3 DEF Unhandle
    <3> QED BY <2>2, <3>1, AllWoken DEF WInv
  <2>4. CASE ~Final(r, h)
    BY <2>1, <2>2, <2>4 DEF Unhandle, WInv, NoLostWakeup, Fits
  <2> QED BY <2>3, <2>4
<1> QED BY <1>1, <1>2, <1>3, <1>4, <1>5, <1>6, <1>7, <1>8, <1>9 DEF Poll

LEMMA WakeStays == WInv /\ UNCHANGED vars => WInv'
BY DEF WInv, ParkedStored, NoLostWakeup, Fits, vars, queueVars

\* No wakeup is lost, for any callers, demands and capacity: the oldest
\* request never sleeps beside capacity that fits it without a waker on its
\* way (Request::poll, Request::drop, Lease::drop).
THEOREM WakeupsKept == Spec => []NoLostWakeup
<1>1. WInv => NoLostWakeup
  BY DEF WInv
<1> QED BY <1>1, WakeBegins, WakeStep, WakeStays, TypeCorrect, PTL DEF Spec

----------------------------------------------------------------------------
(* What a set of callers asks for.  MapThenSumSet is a recursive function    *)
(* over the parts of the set: that there is one, and only one, is proved by  *)
(* induction on the set.                                                     *)

Total(k, S) == MapThenSumSet(LAMBDA r : Demand[r][k], S)

\* f adds up the demands of every part of S.
Sums(f, k, S) ==
    /\ f \in [SUBSET S -> Int] /\ f[{}] = 0
    /\ \A s \in SUBSET S : \A x \in s : f[s] = Demand[x][k] + f[s \ {x}]
\* f is what the fold computes: it takes the element that CHOOSE gives.
Folds(f, k, S) ==
    f = [s \in SUBSET S |->
           IF s = {} THEN 0 ELSE LET x == CHOOSE y \in s : TRUE IN Demand[x][k] + f[s \ {x}]]

LEMMA DemandTyped ==
    ASSUME NEW k \in Resources, NEW r \in Requests
    PROVE  Demand[r][k] \in Nat /\ Capacity[k] \in Nat
BY CapacityAssumption

\* Among the parts of a finite set a family has a smallest one.
LEMMA LeastSubset ==
    ASSUME NEW S, IsFiniteSet(S), NEW F, F \subseteq SUBSET S, F # {}
    PROVE  \E T \in F : \A U \in F : U \subseteq T => U = T
<1> DEFINE R == StrictSubsetOrdering(S)
<1>1. IsWellFoundedOn(R, FiniteSubsetsOf(S)) /\ FiniteSubsetsOf(S) = SUBSET S
  BY FS_StrictSubsetOrderingWellFounded, FS_FiniteSubsetsOfFinite
<1>2. \A U, T \in SUBSET S : U \subseteq T /\ U # T => <<U, T>> \in R
  BY DEF StrictSubsetOrdering
<1> HIDE DEF R
<1>3. PICK T \in F : \A U \in F : ~(<<U, T>> \in R)
  BY <1>1, WFMin
<1> QED BY <1>2, <1>3

LEMMA SumGrows ==
    ASSUME NEW k \in Resources, NEW S \in SUBSET Requests, NEW x \in Requests \ S,
           NEW f, Sums(f, k, S)
    PROVE  \E g : Sums(g, k, S \cup {x})
<1> DEFINE T == S \cup {x}
           g == [s \in SUBSET T |-> IF x \in s THEN Demand[x][k] + f[s \ {x}] ELSE f[s]]
<1>1. g \in [SUBSET T -> Int] /\ g[{}] = 0
  BY DemandTyped DEF Sums
<1>2. ASSUME NEW s \in SUBSET T, NEW y \in s
      PROVE  g[s] = Demand[y][k] + g[s \ {y}]
  <2>1. CASE x \notin s
    BY <2>1 DEF Sums
  <2>2. CASE y = x
    BY <2>2 DEF Sums
  <2>3. CASE x \in s /\ y # x
    <3> DEFINE s1 == s \ {x}
               s2 == s1 \ {y}
    <3>1. s1 \in SUBSET S /\ y \in s1 /\ s2 \in SUBSET S
      BY <2>3
    <3>2. f[s1] = Demand[y][k] + f[s2] /\ f[s2] \in Int
      BY <3>1 DEF Sums
    <3>3. (s \ {y}) \ {x} = s2 /\ x \in s \ {y} /\ s \ {y} \in SUBSET T
      BY <2>3
    <3>4. g[s] = Demand[x][k] + f[s1] /\ g[s \ {y}] = Demand[x][k] + f[s2]
      BY <2>3, <3>3
    <3>5. Demand[x][k] \in Int /\ Demand[y][k] \in Int
      BY <3>1, DemandTyped
    <3> HIDE DEF g, s1, s2
    <3> QED BY <3>2, <3>4, <3>5
  <2> QED BY <2>1, <2>2, <2>3
<1> HIDE DEF g
<1>3. Sums(g, k, T)
  BY <1>1, <1>2 DEF Sums
<1> QED BY <1>3

LEMMA SumExists ==
    ASSUME NEW k \in Resources, NEW S \in SUBSET Requests, IsFiniteSet(S)
    PROVE  \E f : Sums(f, k, S)
<1> DEFINE F == {T \in SUBSET S : ~\E f : Sums(f, k, T)}
<1> SUFFICES ASSUME F # {} PROVE FALSE
  OBVIOUS
<1>1. PICK T \in F : \A U \in F : U \subseteq T => U = T
  <2>1. F \subseteq SUBSET S
    OBVIOUS
  <2> HIDE DEF F
  <2> QED BY <2>1, LeastSubset
<1>2. CASE T = {}
  <2>1. Sums([s \in SUBSET {} |-> 0], k, {})
    BY DEF Sums
  <2> QED BY <1>1, <1>2, <2>1
<1>3. CASE T # {}
  <2>1. PICK x \in T : TRUE
    BY <1>3
  <2>2. T \ {x} \in SUBSET S /\ T \ {x} # T
    BY <2>1
  <2>3. PICK f : Sums(f, k, T \ {x})
    BY <1>1, <2>2
  <2>4. \E g : Sums(g, k, (T \ {x}) \cup {x})
    BY <2>1, <2>3, SumGrows
  <2>5. (T \ {x}) \cup {x} = T
    BY <2>1
  <2> QED BY <1>1, <2>4, <2>5
<1> QED BY <1>2, <1>3

\* The sums are what the fold computes, whatever else may satisfy its equation.
LEMMA TotalIsSum ==
    ASSUME NEW k \in Resources, NEW S \in SUBSET Requests, IsFiniteSet(S),
           NEW f, Sums(f, k, S)
    PROVE  Total(k, S) = f[S]
<1> DEFINE first(s) == CHOOSE y \in s : TRUE
<1>1. Folds(f, k, S)
  <2>1. ASSUME NEW s \in SUBSET S, s # {}
        PROVE  f[s] = Demand[first(s)][k] + f[s \ {first(s)}]
    BY <2>1 DEF Sums
  <2>2. f = [s \in SUBSET S |->
               IF s = {} THEN 0 ELSE Demand[first(s)][k] + f[s \ {first(s)}]]
    BY <2>1 DEF Sums
  <2> QED BY <2>2, Zenon DEF Folds
<1>2. PICK g : Folds(g, k, S) /\ Total(k, S) = g[S]
  <2>1. Total(k, S) = (CHOOSE g : Folds(g, k, S))[S]
    BY Zenon DEF Total, MapThenSumSet, MapThenFoldSet, Folds
  <2> QED BY <1>1, <2>1, Zenon
<1>3. \A s \in SUBSET S :
        g[s] = IF s = {} THEN 0 ELSE Demand[first(s)][k] + g[s \ {first(s)}]
  BY <1>2, Zenon DEF Folds
<1> DEFINE F == {s \in SUBSET S : g[s] # f[s]}
<1>4. F = {}
  <2> SUFFICES ASSUME F # {} PROVE FALSE
    OBVIOUS
  <2>1. PICK T \in F : \A U \in F : U \subseteq T => U = T
    <3>1. F \subseteq SUBSET S
      OBVIOUS
    <3> HIDE DEF F
    <3> QED BY <3>1, LeastSubset
  <2>2. T # {}
    BY <1>3, <2>1 DEF Sums
  <2>3. first(T) \in T
    BY <2>2
  <2> DEFINE U == T \ {first(T)}
  <2>4. U \in SUBSET S /\ U \subseteq T /\ U # T
    BY <2>3
  <2>5. g[U] = f[U]
    BY <2>1, <2>4
  <2>6. f[T] = Demand[first(T)][k] + f[U]
    BY <2>3 DEF Sums
  <2>7. g[T] = Demand[first(T)][k] + g[U]
    BY <1>3, <2>2
  <2> QED BY <2>1, <2>5, <2>6, <2>7
<1> QED BY <1>2, <1>4

\* A caller more, a caller less.
LEMMA TotalAdds ==
    ASSUME NEW k \in Resources, NEW S \in SUBSET Requests, IsFiniteSet(S),
           NEW x \in Requests \ S
    PROVE  /\ Total(k, S) \in Int
           /\ Total(k, S \cup {x}) = Total(k, S) + Demand[x][k]
<1> DEFINE T == S \cup {x}
<1>1. T \in SUBSET Requests /\ IsFiniteSet(T) /\ T \ {x} = S /\ SUBSET S \subseteq SUBSET T
  BY FS_AddElement
<1>2. PICK f : Sums(f, k, T)
  BY <1>1, SumExists
<1> DEFINE g == [s \in SUBSET S |-> f[s]]
<1>3. Sums(g, k, S)
  <2>1. g \in [SUBSET S -> Int] /\ g[{}] = 0
    BY <1>1, <1>2 DEF Sums
  <2>2. ASSUME NEW s \in SUBSET S, NEW y \in s PROVE g[s] = Demand[y][k] + g[s \ {y}]
    BY <1>1, <1>2 DEF Sums
  <2> HIDE DEF g
  <2> QED BY <2>1, <2>2 DEF Sums
<1>4. Total(k, S) = f[S]
  BY <1>3, TotalIsSum
<1>5. Total(k, T) = f[T]
  BY <1>1, <1>2, TotalIsSum
<1>6. f[T] = Demand[x][k] + f[S] /\ f[S] \in Int
  BY <1>1, <1>2 DEF Sums
<1> QED BY <1>4, <1>5, <1>6, DemandTyped

LEMMA TotalOfNobody == ASSUME NEW k \in Resources PROVE Total(k, {}) = 0
<1>1. PICK f : Sums(f, k, {})
  BY SumExists, FS_EmptySet
<1>2. Total(k, {}) = f[{}]
  BY <1>1, TotalIsSum, FS_EmptySet
<1> QED BY <1>1, <1>2 DEF Sums

\* Only finitely many leases are alive at a time, since each step takes one.
UInv ==
    /\ IsFiniteSet(Alive)
    /\ \A k \in Resources : usage[k] = Total(k, Alive) /\ usage[k] <= Capacity[k]

\* The leases that are alive are those of before, with one more or one less.
LEMMA UsageStep == ASSUME TypeOK, UInv, Next PROVE UInv'
<1>1. PICK r \in Requests : \/ Request(r) \/ Poll(r) \/ DropRequest(r) \/ Notify(r)
                            \/ Checkout(r) \/ Checkin(r) \/ Drop(r)
  BY DEF Next
<1>2. Alive \in SUBSET Requests /\ IsFiniteSet(Alive)
  BY DEF UInv, Alive
<1>3. \A k \in Resources : usage[k] = Total(k, Alive) /\ usage[k] <= Capacity[k]
  BY DEF UInv
<1>4. ASSUME IsFiniteSet(Alive'),
             \A k \in Resources : usage'[k] = Total(k, Alive') /\ usage'[k] <= Capacity[k]
      PROVE  UInv'
  BY <1>4 DEF UInv
<1>5. ASSUME Alive' = Alive, usage' = usage PROVE UInv'
  BY <1>2, <1>3, <1>4, <1>5
<1>6. CASE PollReady(r)
  <2>1. r \in Requests \ Alive /\ Alive' = Alive \cup {r}
    <3>1. handles[r] = {} /\ handles' = [handles EXCEPT ![r] = {"reservation"}]
      BY <1>6 DEF PollReady, TypeOK
    <3> QED BY <3>1 DEF Alive, TypeOK
  <2>2. IsFiniteSet(Alive')
    BY <1>2, <2>1, FS_AddElement
  <2>3. ASSUME NEW k \in Resources
        PROVE  usage'[k] = Total(k, Alive') /\ usage'[k] <= Capacity[k]
    <3>1. Total(k, Alive') = Total(k, Alive) + Demand[r][k]
      BY <1>2, <2>1, TotalAdds
    <3>2. usage'[k] = usage[k] + Demand[r][k] /\ Demand[r][k] <= Capacity[k] - usage[k]
      BY <1>6 DEF PollReady, Fits
    <3>3. usage[k] \in Int
      BY DEF TypeOK
    <3> QED BY <1>3, <3>1, <3>2, <3>3, DemandTyped
  <2> QED BY <1>4, <2>2, <2>3
<1>7. CASE Drop(r)
  <2>1. PICK h \in Handles : Unhandle(r, h)
    BY <1>7 DEF Drop
  <2>2. handles' = [handles EXCEPT ![r] = handles[r] \ {h}] /\ h \in handles[r]
    BY <2>1 DEF Unhandle
  <2>3. CASE Final(r, h)
    <3>1. Alive' = Alive \ {r} /\ r \in Alive
      BY <2>2, <2>3 DEF Final, Alive, TypeOK
    <3>2. IsFiniteSet(Alive') /\ Alive' \in SUBSET Requests /\ r \in Requests \ Alive'
          /\ Alive = Alive' \cup {r}
      BY <1>2, <3>1, FS_RemoveElement
    <3>3. ASSUME NEW k \in Resources
          PROVE  usage'[k] = Total(k, Alive') /\ usage'[k] <= Capacity[k]
      <4>1. Total(k, Alive) = Total(k, Alive') + Demand[r][k] /\ Total(k, Alive') \in Int
        BY <3>2, TotalAdds
      <4>2. usage' = [i \in Resources |-> usage[i] - Demand[r][i]]
        BY <2>1, <2>3 DEF Unhandle
      <4>3. usage'[k] = usage[k] - Demand[r][k]
        BY <4>2
      <4> QED BY <1>3, <4>1, <4>3, DemandTyped
    <3> QED BY <1>4, <3>2, <3>3
  <2>4. CASE ~Final(r, h)
    <3>1. usage' = usage
      BY <2>1, <2>4 DEF Unhandle
    <3>2. Alive' = Alive
      BY <2>2, <2>4 DEF Final, Alive, TypeOK
    <3> QED BY <1>5, <3>1, <3>2
  <2> QED BY <2>3, <2>4
<1>8. CASE Checkout(r)
  BY <1>5, <1>8 DEF Checkout, Alive, TypeOK
<1>9. CASE Checkin(r)
  BY <1>5, <1>9 DEF Checkin, Alive, TypeOK
<1>10. CASE Request(r) \/ PollPending(r) \/ DropRequest(r) \/ Notify(r)
  BY <1>5, <1>10 DEF Request, PollPending, DropRequest, Notify, Alive
<1> QED BY <1>1, <1>6, <1>7, <1>8, <1>9, <1>10 DEF Poll

LEMMA UsageBegins == Init => UInv
<1>1. ASSUME Init PROVE UInv
  <2>1. Alive = {}
    BY <1>1 DEF Init, Alive
  <2>2. \A k \in Resources : usage[k] = 0
    BY <1>1 DEF Init
  <2>3. \A k \in Resources : 0 <= Capacity[k]
    BY CapacityAssumption
  <2> QED BY <2>1, <2>2, <2>3, TotalOfNobody, FS_EmptySet DEF UInv
<1> QED BY <1>1

LEMMA UsageStays == UInv /\ UNCHANGED vars => UInv'
BY DEF UInv, Alive, vars

LEMMA UsageMeans == UInv => UsageExact
BY Zenon DEF UInv, UsageExact, Total

\* Capacity is never oversold and never lost, for any callers, demands and
\* capacity: usage is what the leases that something still holds have asked
\* for (Request::poll, Lease::drop, WorkerPermit).
THEOREM CapacityKept == Spec => []UsageExact
BY UsageBegins, UsageStep, UsageStays, UsageMeans, TypeCorrect, PTL DEF Spec

-----------------------------------------------------------------------------
(* The shape of the state.  Nothing is said of the values of an answer. *)

Steps == {"check", "work", "answer", "save"}
Takes(h) == h = Nobody \/ (h = <<h[1], h[2], h[3]>> /\ h[1] \in Calls /\ h[2] \in Steps)
\* A mailbox with room for one.
Holds(box) == box = <<>> \/ (box = <<box[1]>> /\ box[1] \in Calls)

CallShape ==
    /\ calls = [c \in Calls |-> calls[c]]
    /\ \A c \in Calls : calls[c] = [request |-> calls[c].request, via |-> calls[c].via,
                                    stage |-> calls[c].stage, answer |-> calls[c].answer]
    /\ \A c \in Calls : Asked(c).key \in Keys
HandShape ==
    /\ Takes(aide) /\ (Takes(hand) \/ hand = PassInHand)
    /\ Holds(mailbox) /\ Holds(line)
    /\ cancels \in Seq(Calls)
KeyShape == receipts = [k \in Keys |-> receipts[k]] /\ effects \in [Keys -> 0..1]
Full(j) == /\ j = [state |-> j.state, digest |-> j.digest, cancel |-> j.cancel,
                   finished |-> j.finished, page |-> j.page]
           /\ j.cancel \in BOOLEAN /\ j.page \in BOOLEAN
JobShape ==
    /\ jobs = [k \in Keys |-> jobs[k]] /\ pc = [k \in Keys |-> pc[k]]
    /\ \A k \in Keys : jobs[k] = NoJob \/ Full(jobs[k])

-----------------------------------------------------------------------------
(* Receipts: what they say of the work, of who is at it and of the answers. *)

Written == \A k \in Keys : LET r == receipts[k] IN
    \/ r = <<>> /\ effects[k] = 0
    \/ r = <<r[1]>>
    \/ r = <<r[1], r[2]>> /\ effects[k] = 1
AtWork(h) == h # Nobody /\ h[2] \in {"work", "answer"}
KeyOf(h) == Asked(h[1]).key
Engaged(h) == AtWork(h) =>
    /\ receipts[KeyOf(h)] = <<Asked(h[1])>>
    /\ effects[KeyOf(h)] = IF h[2] = "work" THEN 0 ELSE 1
Apart == AtWork(hand) /\ AtWork(aide) => KeyOf(hand) # KeyOf(aide)
KeyInv == CallShape /\ HandShape /\ KeyShape /\ Written /\ Engaged(hand) /\ Engaged(aide) /\ Apart /\ AnswersTrue

-----------------------------------------------------------------------------
(* The flag: who it stands for, in a life that no early request got into. *)

Ahead == hand # Nobody /\ turn # "cancel"
Quiet == /\ \A c \in Calls : Stage(c) \notin {"new", "holding"}
         /\ mailbox = <<>> /\ line = <<>> /\ hand = Nobody
Single ==
    /\ \A c, d \in Calls : Stage(c) = "holding" /\ Stage(d) = "holding" => c = d
    /\ \A c \in Calls : Stage(c) = "holding" => mailbox = <<>> /\ line = <<>> /\ ~Ahead
    /\ mailbox # <<>> => line = <<>> /\ ~Ahead
    /\ line # <<>> => ~Ahead
FlagInv ==
    /\ busy \in BOOLEAN /\ early \in BOOLEAN
    /\ \A i \in 1..Len(cancels) : Asked(cancels[i]).kind = "cancel"
    /\ turn = "cancel" /\ hand # Nobody => Takes(hand) /\ Asked(hand[1]).kind = "cancel"
    /\ process = "down" => Quiet /\ ~busy /\ ~early
    /\ process = "starting" /\ ~early => Quiet /\ ~busy
    /\ process = "preparing" /\ ~early => Quiet /\ busy
    /\ process = "serving" /\ ~early => Single
    /\ FlagTrue

-----------------------------------------------------------------------------
(* Query jobs: a thread that runs has a job, a cancellation that was taken stays. *)

Threaded == \A k \in Keys : pc[k] \notin {"idle", "ended"} => Known(k)
Kept == process # "stopping" => \A k \in Keys :
    Finished(k) /\ Told(k) => jobs[k].state # "SUCCEEDED" /\ ~jobs[k].page
JobInv == JobShape /\ Threaded /\ Kept

-----------------------------------------------------------------------------
(* What a step does to the calls. *)

\* The table in which only the stage and the answer of c have changed.
Set(c, s, a) == [d \in Calls |-> [request |-> calls[d].request, via |-> calls[d].via,
                                  stage |-> IF d = c THEN s ELSE calls[d].stage,
                                  answer |-> IF d = c THEN a ELSE calls[d].answer]]

LEMMA AnsweredSets ==
  ASSUME CallShape, NEW c \in Calls, NEW a
  PROVE  Answered(c, a) = Set(c, "answered", a)
<1> DEFINE x == [calls[c] EXCEPT !.stage = "answered"]
           y == [x EXCEPT !.answer = a]
<1>1. Answered(c, a) = [calls EXCEPT ![c] = y]
  BY DEF CallShape, Answered
<1>2. x = [request |-> calls[c].request, via |-> calls[c].via, stage |-> "answered", answer |-> calls[c].answer]
  BY DEF CallShape
<1> HIDE DEF x
<1>3. y = [request |-> calls[c].request, via |-> calls[c].via, stage |-> "answered", answer |-> a]
  BY <1>2
<1> HIDE DEF y
<1>4. [calls EXCEPT ![c] = y] = [d \in Calls |-> IF d = c THEN y ELSE calls[d]]
  BY DEF CallShape
<1>5. ASSUME NEW d \in Calls
      PROVE  (IF d = c THEN y ELSE calls[d]) = Set(c, "answered", a)[d]
  BY <1>3 DEF Set, CallShape
<1> QED
  BY <1>1, <1>4, <1>5 DEF Set

LEMMA StagedSets ==
  ASSUME CallShape, NEW c \in Calls, NEW s
  PROVE  Staged(c, s) = Set(c, s, calls[c].answer)
<1> DEFINE x == [calls[c] EXCEPT !.stage = s]
<1>1. Staged(c, s) = [calls EXCEPT ![c] = x]
  BY DEF CallShape, Staged
<1>2. x = [request |-> calls[c].request, via |-> calls[c].via, stage |-> s, answer |-> calls[c].answer]
  BY DEF CallShape
<1> HIDE DEF x
<1>4. [calls EXCEPT ![c] = x] = [d \in Calls |-> IF d = c THEN x ELSE calls[d]]
  BY DEF CallShape
<1>5. ASSUME NEW d \in Calls
      PROVE  (IF d = c THEN x ELSE calls[d]) = Set(c, s, calls[c].answer)[d]
  BY <1>2 DEF Set, CallShape
<1> QED
  BY <1>1, <1>4, <1>5 DEF Set

\* An answer that may be given.
TrueAnswer(c, a) == Asked(c).kind \in Commands \cup {"cancel"} /\ a[1] = "ok"
    => receipts[Asked(c).key] = <<Asked(c), a>> /\ effects[Asked(c).key] = 1
\* The calls after a step: the same requests, and every new answer a true one.
Truthfully ==
    /\ CallShape'
    /\ \A d \in Calls : calls'[d].request = calls[d].request
    /\ \A d \in Calls : calls'[d].stage = "answered" =>
           (calls[d].stage = "answered" /\ calls'[d].answer = calls[d].answer) \/ TrueAnswer(d, calls'[d].answer)

LEMMA SetTrue ==
  ASSUME CallShape, NEW c \in Calls, NEW s, NEW a, calls' = Set(c, s, a), s = "answered" => TrueAnswer(c, a)
  PROVE  Truthfully
<1>1. ASSUME NEW d \in Calls
      PROVE  /\ calls'[d] = [request |-> calls[d].request, via |-> calls[d].via,
                             stage |-> IF d = c THEN s ELSE calls[d].stage,
                             answer |-> IF d = c THEN a ELSE calls[d].answer]
             /\ calls'[d].request = calls[d].request
             /\ calls'[d].stage = IF d = c THEN s ELSE calls[d].stage
             /\ calls'[d].answer = IF d = c THEN a ELSE calls[d].answer
  <2>1. calls'[d] = [request |-> calls[d].request, via |-> calls[d].via,
                     stage |-> IF d = c THEN s ELSE calls[d].stage,
                     answer |-> IF d = c THEN a ELSE calls[d].answer]
    BY DEF Set
  <2> QED
    BY <2>1
<1>2. CallShape'
  BY <1>1 DEF CallShape, Asked, Set
<1>3. ASSUME NEW d \in Calls, calls'[d].stage = "answered"
      PROVE  (calls[d].stage = "answered" /\ calls'[d].answer = calls[d].answer) \/ TrueAnswer(d, calls'[d].answer)
  BY <1>1, <1>3
<1> QED
  BY <1>1, <1>2, <1>3 DEF Truthfully

LEMMA StayTrue == ASSUME CallShape, calls' = calls PROVE Truthfully
BY DEF CallShape, Truthfully, Asked

LEMMA AnswerTrue ==
  ASSUME CallShape, NEW c \in Calls, NEW a, TrueAnswer(c, a), calls' = Answered(c, a) \/ calls' = Replied(c, a)
  PROVE  Truthfully
BY AnsweredSets, SetTrue, StayTrue DEF Replied

LEMMA StageTrue ==
  ASSUME CallShape, NEW c \in Calls, NEW s, s # "answered", calls' = Staged(c, s)
  PROVE  Truthfully
BY StagedSets, SetTrue

\* What is retained for a call is the answer to it.
LEMMA RetainedTrue ==
  ASSUME KeyInv, NEW c \in Calls
  PROVE  /\ Prior(c) = "complete" => TrueAnswer(c, Retained(c))
         /\ Prior(c) = "new" => receipts[Asked(c).key] = <<>> /\ effects[Asked(c).key] = 0
         /\ Prior(c) \in {"new", "conflict", "pending", "complete"}
<1> DEFINE r == receipts[Asked(c).key]
<1>1. Asked(c).key \in Keys
  BY DEF KeyInv, CallShape
<1>2. \/ r = <<>> /\ effects[Asked(c).key] = 0
      \/ r = <<r[1]>>
      \/ r = <<r[1], r[2]>> /\ effects[Asked(c).key] = 1
  BY <1>1 DEF KeyInv, Written
<1> HIDE DEF r
<1>3. Prior(c) = IF r = <<>> THEN "new" ELSE IF r[1] # Asked(c) THEN "conflict"
                 ELSE IF Len(r) = 1 THEN "pending" ELSE "complete"
  BY DEF Prior, r
<1>4. r = <<r[1]>> => Len(r) = 1 /\ r # <<>>
  OBVIOUS
<1>5. Prior(c) = "complete" => r = <<Asked(c), r[2]>> /\ effects[Asked(c).key] = 1
  BY <1>2, <1>3, <1>4
<1>6. Retained(c) = r[2]
  BY DEF Retained, r
<1>7. r = <<r[1], r[2]>> => r # <<>>
  OBVIOUS
<1> QED
  BY <1>2, <1>3, <1>4, <1>5, <1>6, <1>7 DEF TrueAnswer, r

LEMMA PlainTrue ==
  ASSUME NEW c, NEW s, s # "ok"
  PROVE  TrueAnswer(c, <<s>>)
BY DEF TrueAnswer

-----------------------------------------------------------------------------
(* Steps that leave the receipts alone. *)

LEMMA FrameKeys ==
  ASSUME KeyInv, Truthfully, UNCHANGED <<receipts, effects>>, HandShape',
         hand' = hand \/ ~AtWork(hand)', aide' = aide \/ ~AtWork(aide)'
  PROVE  KeyInv'
<1>1. CallShape' /\ KeyShape' /\ Written'
  BY DEF KeyInv, KeyShape, Written, Truthfully
<1>2. AnswersTrue'
  BY DEF KeyInv, AnswersTrue, Truthfully, TrueAnswer, Asked, Stage
<1>3. AtWork(hand)' => hand[1] \in Calls /\ hand' = hand /\ AtWork(hand)
  BY DEF KeyInv, HandShape, Takes, AtWork, PassInHand, Nobody
<1>4. AtWork(aide)' => aide[1] \in Calls /\ aide' = aide /\ AtWork(aide)
  BY DEF KeyInv, HandShape, Takes, AtWork, Nobody
<1>5. Engaged(hand)'
  BY <1>3, SMTT(30) DEF KeyInv, Engaged, KeyOf, Truthfully, Asked
<1>6. Engaged(aide)'
  BY <1>4 DEF KeyInv, Engaged, KeyOf, Truthfully, Asked
<1>7. Apart'
  BY <1>3, <1>4 DEF KeyInv, Apart, KeyOf, Truthfully, Asked
<1> QED
  BY <1>1, <1>2, <1>5, <1>6, <1>7 DEF KeyInv

LEMMA ThreadKeys ==
  ASSUME KeyInv, NEW c \in Calls, Threads(c)
  PROVE  KeyInv'
<1> USE DEF KeyInv
<1>0. CallShape /\ HandShape
  OBVIOUS
<1>1. CASE Refuse(c) \/ Leave(c)
  <2>1. Truthfully
    BY <1>1, AnswerTrue, PlainTrue DEF Refuse, Leave
  <2> QED
    BY <1>1, <2>1, FrameKeys DEF Refuse, Leave, front, durable, HandShape
<1>2. CASE Look(c)
  <2>1. Truthfully
    BY <1>2, AnswerTrue, StageTrue, PlainTrue, RetainedTrue DEF Look
  <2> QED
    BY <1>2, <2>1, FrameKeys DEF Look, front, durable, HandShape
<1>3. CASE PostCancel(c)
  <2>1. Truthfully
    BY <1>3, AnswerTrue, StageTrue, PlainTrue DEF PostCancel
  <2>2. Append(cancels, c) \in Seq(Calls)
    BY <1>0 DEF HandShape
  <2> QED
    BY <1>3, <2>1, <2>2, FrameKeys DEF PostCancel, durable, HandShape
<1>4. CASE Hold(c)
  <2>1. Truthfully
    BY <1>4, AnswerTrue, StageTrue, PlainTrue DEF Hold
  <2> QED
    BY <1>4, <2>1, FrameKeys DEF Hold, durable, HandShape
<1>5. CASE Post(c)
  <2>1. Truthfully
    BY <1>5, AnswerTrue, StageTrue, PlainTrue DEF Post
  <2>2. Holds(mailbox)'
    BY <1>0, <1>5 DEF Post, Holds, HandShape
  <2> QED
    BY <1>5, <2>1, <2>2, FrameKeys DEF Post, durable, HandShape
<1>6. CASE Connect(c)
  <2>1. Truthfully
    BY <1>6, AnswerTrue, StageTrue, PlainTrue DEF Connect
  <2>2. Holds(line)'
    BY <1>0, <1>6 DEF Connect, Holds, HandShape
  <2> QED
    BY <1>6, <2>1, <2>2, FrameKeys DEF Connect, durable, HandShape
<1>7. CASE Query(c) \/ Stop(c) \/ Results(c)
  <2>1. PICK a : calls' = Answered(c, a)
    <3>1. CASE Query(c)
      BY <3>1 DEF Query, Unprepared
    <3>2. CASE Stop(c)
      BY <3>2 DEF Stop
    <3>3. CASE Results(c)
      BY <3>3 DEF Results
    <3> QED
      BY <1>7, <3>1, <3>2, <3>3
  <2>2. TrueAnswer(c, a)
    BY <1>7 DEF Query, Stop, Results, Ours, TrueAnswer, Commands
  <2>3. Truthfully
    BY <2>1, <2>2, AnswerTrue
  <2> QED
    BY <1>7, <2>3, FrameKeys DEF Query, Stop, Results, queryKeeps, front, durable, HandShape
<1> QED
  BY <1>1, <1>2, <1>3, <1>4, <1>5, <1>6, <1>7 DEF Threads

\* The loop gives an answer, or goes on with something that is not at work.
LEMMA LoopFrame ==
  ASSUME KeyInv, UNCHANGED <<receipts, effects, aide>>, Truthfully,
         Takes(hand)' \/ (hand = PassInHand)', ~AtWork(hand)',
         Holds(mailbox)', Holds(line)', (cancels \in Seq(Calls))'
  PROVE  KeyInv'
<1>1. HandShape'
  BY DEF KeyInv, HandShape, Takes
<1> QED
  BY <1>1, FrameKeys

LEMMA CloseFrame ==
  ASSUME KeyInv, NEW c \in Calls, NEW a, TrueAnswer(c, a), Close(c, a),
         UNCHANGED <<receipts, effects, aide, mailbox, line, cancels>>
  PROVE  KeyInv'
<1>1. Truthfully
  BY AnswerTrue DEF KeyInv, Close
<1> QED
  BY <1>1, LoopFrame DEF KeyInv, HandShape, Close, Nobody, Takes, AtWork, Holds

LEMMA InHandShape ==
  ASSUME KeyInv, NEW s, InHand(s)
  PROVE  hand[1] \in Calls /\ hand = <<hand[1], hand[2], hand[3]>>
BY DEF KeyInv, HandShape, InHand, PassInHand, Takes, Nobody

LEMMA TakingKeys ==
  ASSUME KeyInv, \/ TakeCommand \/ TakeLine("schedule") \/ TakeLine("submit")
                 \/ Pass \/ PassEnds \/ TakeCancel
  PROVE  KeyInv'
<1>1. UNCHANGED <<receipts, effects, aide>> /\ calls' = calls
  BY DEF TakeCommand, TakeLine, Pass, PassEnds, TakeCancel, durable, loopKeeps
<1>2. Truthfully
  BY <1>1, StayTrue DEF KeyInv
<1>3. HandShape
  BY DEF KeyInv
<1>4. ~AtWork(hand)'
  BY DEF TakeCommand, TakeLine, Pass, PassEnds, TakeCancel, AtWork, Idle, PassInHand, Nobody
<1>5. (cancels \in Seq(Calls))'
  <2>1. CASE TakeCancel /\ cancels # <<>>
    <3>1. cancels' = Tail(cancels)
      BY <2>1 DEF TakeCancel
    <3>2. cancels \in Seq(Calls) /\ cancels # <<>>
      BY <1>3, <2>1 DEF HandShape
    <3> QED
      BY <3>1, <3>2
  <2>2. CASE ~(TakeCancel /\ cancels # <<>>)
    <3>1. cancels' = cancels
      BY <2>2 DEF TakeCommand, TakeLine, Pass, PassEnds, TakeCancel
    <3> QED
      BY <3>1, <1>3 DEF HandShape
  <2> QED
    BY <2>1, <2>2
<1>6. Holds(mailbox)' /\ Holds(line)'
  BY <1>3 DEF HandShape, Holds, TakeCommand, TakeLine, Pass, PassEnds, TakeCancel
<1>7. Takes(hand)' \/ (hand = PassInHand)'
  <2>1. ASSUME NEW c \in Calls, hand' = <<c, "check", <<>>>> PROVE Takes(hand)'
    BY <2>1 DEF Takes, Steps
  <2>2. CASE hand' = <<>> \/ hand' = PassInHand
    BY <2>2 DEF Takes, Nobody
  <2>3. CASE TakeCommand
    BY <2>1, <2>2, <2>3, <1>3 DEF TakeCommand, Idle, Nobody, HandShape, Holds
  <2>4. CASE TakeLine("schedule") \/ TakeLine("submit")
    BY <2>1, <2>2, <2>4, <1>3 DEF TakeLine, Idle, Nobody, HandShape, Holds
  <2>5. CASE TakeCancel
    <3>1. cancels # <<>> => Head(cancels) \in Calls
      BY <1>3 DEF HandShape
    <3> QED
      BY <2>1, <2>2, <2>5, <3>1 DEF TakeCancel, Idle, Nobody
  <2>6. CASE Pass \/ PassEnds
    BY <2>2, <2>6 DEF Pass, PassEnds, Idle, Nobody
  <2> QED
    BY <2>3, <2>4, <2>5, <2>6
<1> QED
  BY <1>1, <1>2, <1>4, <1>5, <1>6, <1>7, LoopFrame

LEMMA SubmitKeys ==
  ASSUME KeyInv, Submit
  PROVE  KeyInv'
<1> DEFINE c == hand[1]
<1>1. c \in Calls
  BY InHandShape DEF Submit
<1>2. \A a : TrueAnswer(c, a)
  BY DEF Submit, TrueAnswer, Commands
<1>3. UNCHANGED <<receipts, effects, aide, mailbox, line, cancels>>
  BY DEF Submit, loopKeeps
<1>4. PICK a : Close(c, a) \/ (calls' = Replied(c, a) /\ hand' = Nobody)
  BY DEF Submit
<1> HIDE DEF c
<1>5. CASE Close(c, a)
  BY <1>1, <1>2, <1>3, <1>5, CloseFrame
<1>6. CASE calls' = Replied(c, a) /\ hand' = Nobody
  <2>1. Truthfully
    BY <1>1, <1>2, <1>6, AnswerTrue DEF KeyInv
  <2> QED
    BY <1>3, <1>6, <2>1, LoopFrame DEF KeyInv, HandShape, Takes, Nobody, AtWork, Holds
<1> QED
  BY <1>4, <1>5, <1>6

LEMMA CheckScheduleKeys ==
  ASSUME KeyInv, CheckSchedule
  PROVE  KeyInv'
<1> DEFINE c == hand[1]
<1>1. c \in Calls
  BY InHandShape DEF CheckSchedule
<1>3. UNCHANGED <<receipts, effects, aide, mailbox, line, cancels>>
  BY DEF CheckSchedule, loopKeeps, durable
<1>4. \/ hand' = <<c, "save", <<>>>> /\ calls' = calls
      \/ Prior(c) = "complete" /\ Close(c, Retained(c))
      \/ Close(c, <<"conflict">>)
  BY DEF CheckSchedule
<1> HIDE DEF c
<1>5. CASE hand' = <<c, "save", <<>>>> /\ calls' = calls
  <2>1. Truthfully
    BY <1>5, StayTrue DEF KeyInv
  <2>2. Takes(hand)' /\ ~AtWork(hand)'
    BY <1>1, <1>5 DEF Takes, Steps, AtWork
  <2> QED
    BY <1>3, <2>1, <2>2, LoopFrame DEF KeyInv, HandShape, Holds
<1>6. CASE Prior(c) = "complete" /\ Close(c, Retained(c))
  BY <1>1, <1>3, <1>6, RetainedTrue, CloseFrame
<1>7. CASE Close(c, <<"conflict">>)
  BY <1>1, <1>3, <1>7, PlainTrue, CloseFrame
<1> QED
  BY <1>4, <1>5, <1>6, <1>7

-----------------------------------------------------------------------------
(* Steps that write a receipt, or do the work it stands for. *)

\* One key changes: it was free or reserved for c, and now it is reserved or
\* answered.
KeyStep(c, r, e) ==
    /\ receipts[Asked(c).key] = <<>> \/ receipts[Asked(c).key] = <<Asked(c)>>
    /\ receipts' = [receipts EXCEPT ![Asked(c).key] = r]
    /\ effects' = [effects EXCEPT ![Asked(c).key] = e]
    /\ r = <<Asked(c)>> \/ (r = <<Asked(c), r[2]>> /\ e = 1)
    /\ e \in 0..1

\* Whoever is newly answered "ok" is told what the receipt says.
Informed(c, r, e) ==
    /\ CallShape'
    /\ \A d \in Calls : calls'[d].request = calls[d].request
    /\ \A d \in Calls : calls'[d].stage = "answered" =>
           \/ calls[d].stage = "answered" /\ calls'[d].answer = calls[d].answer
           \/ d = c /\ (calls'[d].answer[1] = "ok" => r = <<Asked(c), calls'[d].answer>> /\ e = 1)

LEMMA KeyStepKeys ==
  ASSUME KeyInv, NEW c \in Calls, NEW r, NEW e, KeyStep(c, r, e), Informed(c, r, e), HandShape'
  PROVE  /\ CallShape' /\ KeyShape' /\ Written' /\ AnswersTrue'
         /\ Asked(c).key \in Keys /\ receipts'[Asked(c).key] = r /\ effects'[Asked(c).key] = e
         /\ \A j \in Keys : j # Asked(c).key => receipts'[j] = receipts[j] /\ effects'[j] = effects[j]
<1> DEFINE k == Asked(c).key
<1>1. k \in Keys /\ e \in 0..1
  BY DEF KeyInv, CallShape, KeyStep
<1>2. receipts' = [j \in Keys |-> IF j = k THEN r ELSE receipts[j]]
  BY DEF KeyInv, KeyShape, KeyStep
<1>3. effects' = [j \in Keys |-> IF j = k THEN e ELSE effects[j]]
  BY DEF KeyInv, KeyShape, KeyStep
<1>4. receipts[k] = <<>> \/ receipts[k] = <<Asked(c)>>
  BY DEF KeyStep
<1>5. r = <<Asked(c)>> \/ (r = <<Asked(c), r[2]>> /\ e = 1)
  BY DEF KeyStep
<1> HIDE DEF k
<1>6. receipts'[k] = r /\ effects'[k] = e
  BY <1>1, <1>2, <1>3
<1>7. \A j \in Keys : j # k => receipts'[j] = receipts[j] /\ effects'[j] = effects[j]
  BY <1>2, <1>3
<1>8. KeyShape'
  <2>1. receipts' = [j \in Keys |-> receipts'[j]]
    BY <1>2
  <2>2. effects' \in [Keys -> 0..1]
    BY <1>1, <1>3 DEF KeyInv, KeyShape
  <2> QED
    BY <2>1, <2>2 DEF KeyShape
<1>9. Written'
  <2>1. ASSUME NEW j \in Keys
        PROVE  \/ receipts'[j] = <<>> /\ effects'[j] = 0
               \/ receipts'[j] = <<receipts'[j][1]>>
               \/ receipts'[j] = <<receipts'[j][1], receipts'[j][2]>> /\ effects'[j] = 1
    <3>1. CASE j = k
      <4>1. r = <<r[1]>> \/ (r = <<r[1], r[2]>> /\ e = 1)
        BY <1>5
      <4> QED
        BY <3>1, <4>1, <1>6
    <3>2. CASE j # k
      BY <3>2, <1>7 DEF KeyInv, Written
    <3> QED
      BY <3>1, <3>2
  <2> QED
    BY <2>1 DEF Written
<1>10. AnswersTrue'
  <2> SUFFICES ASSUME NEW d \in Calls, calls'[d].stage = "answered",
                      Asked(d).kind \in Commands \cup {"cancel"}, calls'[d].answer[1] = "ok"
               PROVE  receipts'[Asked(d).key] = <<Asked(d), calls'[d].answer>> /\ effects'[Asked(d).key] = 1
    BY DEF AnswersTrue, Informed, Stage, Asked
  <2>0. Asked(d).key \in Keys
    BY DEF KeyInv, CallShape
  <2>1. CASE calls[d].stage = "answered" /\ calls'[d].answer = calls[d].answer
    <3>1. receipts[Asked(d).key] = <<Asked(d), calls[d].answer>> /\ effects[Asked(d).key] = 1
      BY <2>1 DEF KeyInv, AnswersTrue, Stage
    <3>2. <<Asked(d), calls[d].answer>> # <<>> /\ <<Asked(d), calls[d].answer>> # <<Asked(c)>>
      OBVIOUS
    <3>3. Asked(d).key # k
      BY <3>1, <3>2, <1>4
    <3> QED
      BY <2>0, <2>1, <3>1, <3>3, <1>7
  <2>2. CASE d = c /\ (calls'[d].answer[1] = "ok" => r = <<Asked(c), calls'[d].answer>> /\ e = 1)
    BY <2>2, <1>6 DEF k
  <2> QED
    BY <2>1, <2>2 DEF Informed
<1> QED
  BY <1>1, <1>6, <1>7, <1>8, <1>9, <1>10 DEF Informed, k

\* A call that is left alone, or told what its receipt says.
LEMMA TellKeys ==
  ASSUME CallShape, NEW c \in Calls, NEW r, NEW e, NEW a,
         calls' = calls \/ (calls' = Replied(c, a) /\ (a[1] = "ok" => r = <<Asked(c), a>> /\ e = 1))
  PROVE  Informed(c, r, e)
<1>1. CASE calls' = calls
  BY <1>1 DEF Informed, CallShape, Asked
<1>2. CASE calls' # calls
  <2>1. calls' = Set(c, "answered", a)
    BY <1>2, AnsweredSets DEF Replied
  <2>2. a[1] = "ok" => r = <<Asked(c), a>> /\ e = 1
    BY <1>2
  <2>3. ASSUME NEW d \in Calls
        PROVE  /\ calls'[d].request = calls[d].request
               /\ calls'[d].stage = IF d = c THEN "answered" ELSE calls[d].stage
               /\ calls'[d].answer = IF d = c THEN a ELSE calls[d].answer
               /\ calls'[d] = [request |-> calls'[d].request, via |-> calls'[d].via,
                               stage |-> calls'[d].stage, answer |-> calls'[d].answer]
    <3>1. calls'[d] = [request |-> calls[d].request, via |-> calls[d].via,
                       stage |-> IF d = c THEN "answered" ELSE calls[d].stage,
                       answer |-> IF d = c THEN a ELSE calls[d].answer]
      BY <2>1 DEF Set
    <3> QED
      BY <3>1
  <2>4. CallShape'
    BY <2>1, <2>3 DEF CallShape, Asked, Set
  <2> QED
    BY <2>2, <2>3, <2>4 DEF Informed
<1> QED
  BY <1>1, <1>2

\* What one who is at the key of c has in hand after the step.
Carries(h, c, r, e) ==
    AtWork(h) => h[1] = c /\ r = <<Asked(c)>> /\ e = IF h[2] = "work" THEN 0 ELSE 1
Elsewhere(h, c) == AtWork(h) => KeyOf(h) # Asked(c).key

LEMMA WriteKeys ==
  ASSUME KeyInv, NEW c \in Calls, NEW r, NEW e, KeyStep(c, r, e), Informed(c, r, e), HandShape',
         \/ aide' = aide /\ Elsewhere(aide, c) /\ Carries(hand', c, r, e)
         \/ hand' = hand /\ Elsewhere(hand, c) /\ Carries(aide', c, r, e)
  PROVE  KeyInv'
<1> DEFINE k == Asked(c).key
<1>1. /\ CallShape' /\ KeyShape' /\ Written' /\ AnswersTrue'
      /\ k \in Keys /\ receipts'[k] = r /\ effects'[k] = e
      /\ \A j \in Keys : j # k => receipts'[j] = receipts[j] /\ effects'[j] = effects[j]
  BY KeyStepKeys
<1>2. \A d \in Calls : Asked(d)' = Asked(d) /\ Asked(d).key \in Keys
  BY DEF Informed, Asked, KeyInv, CallShape
<1> HIDE DEF k
<1>3. ASSUME NEW h, NEW g, h = g, AtWork(h), h[1] \in Calls, Elsewhere(h, c),
             receipts[KeyOf(h)] = <<Asked(h[1])>>, effects[KeyOf(h)] = IF h[2] = "work" THEN 0 ELSE 1
      PROVE  /\ receipts'[KeyOf(g)] = <<Asked(g[1])>>
             /\ effects'[KeyOf(g)] = IF g[2] = "work" THEN 0 ELSE 1
  BY <1>1, <1>2, <1>3 DEF Elsewhere, KeyOf, k
<1>4. AtWork(hand) => hand[1] \in Calls
  BY DEF KeyInv, HandShape, Takes, AtWork, PassInHand, Nobody
<1>5. AtWork(aide) => aide[1] \in Calls
  BY DEF KeyInv, HandShape, Takes, AtWork, Nobody
<1>6. CASE aide' = aide /\ Elsewhere(aide, c) /\ Carries(hand', c, r, e)
  <2>1. Engaged(aide)'
    BY <1>2, <1>3, <1>5, <1>6 DEF KeyInv, Engaged, KeyOf, AtWork
  <2>2. Engaged(hand)'
    BY <1>1, <1>2, <1>6 DEF Carries, Engaged, KeyOf, AtWork, k
  <2>3. Apart'
    BY <1>2, <1>5, <1>6 DEF Apart, Carries, Elsewhere, KeyOf, AtWork
  <2> QED
    BY <1>1, <2>1, <2>2, <2>3 DEF KeyInv
<1>7. CASE hand' = hand /\ Elsewhere(hand, c) /\ Carries(aide', c, r, e)
  <2>1. Engaged(hand)'
    BY <1>2, <1>3, <1>4, <1>7 DEF KeyInv, Engaged, KeyOf, AtWork
  <2>2. Engaged(aide)'
    BY <1>1, <1>2, <1>7 DEF Carries, Engaged, KeyOf, AtWork, k
  <2>3. Apart'
    BY <1>2, <1>4, <1>7 DEF Apart, Carries, Elsewhere, KeyOf, AtWork
  <2> QED
    BY <1>1, <2>1, <2>2, <2>3 DEF KeyInv
<1> QED
  BY <1>6, <1>7

\* A key that nobody has written is nobody's; the keys of two at work differ.
LEMMA ElsewhereKeys ==
  ASSUME KeyInv, NEW c \in Calls
  PROVE  /\ receipts[Asked(c).key] = <<>> => Elsewhere(hand, c) /\ Elsewhere(aide, c)
         /\ AtWork(hand) /\ hand[1] = c => Elsewhere(aide, c)
         /\ AtWork(aide) /\ aide[1] = c => Elsewhere(hand, c)
<1>1. \A x : <<x>> # <<>>
  OBVIOUS
<1> QED
  BY <1>1 DEF KeyInv, Elsewhere, Engaged, Apart, KeyOf

LEMMA SameEffects ==
  ASSUME KeyInv, NEW k \in Keys
  PROVE  effects = [effects EXCEPT ![k] = effects[k]] /\ receipts = [receipts EXCEPT ![k] = receipts[k]]
BY DEF KeyInv, KeyShape

LEMMA ReserveKeys ==
  ASSUME KeyInv, NEW c \in Calls, Prior(c) = "new", receipts' = Reserve(c), UNCHANGED <<effects, calls>>, HandShape',
         \/ hand' = <<c, "work", <<>>>> /\ aide' = aide
         \/ aide' = <<c, "work", <<>>>> /\ hand' = hand
  PROVE  KeyInv'
<1>1. receipts[Asked(c).key] = <<>> /\ effects[Asked(c).key] = 0 /\ Asked(c).key \in Keys
  BY RetainedTrue DEF KeyInv, CallShape
<1>2. KeyStep(c, <<Asked(c)>>, 0)
  BY <1>1, SameEffects DEF KeyStep, Reserve
<1>3. Informed(c, <<Asked(c)>>, 0)
  BY TellKeys DEF KeyInv
<1>4. \A h : h = <<c, "work", <<>>>> => Carries(h, c, <<Asked(c)>>, 0)
  BY DEF Carries, AtWork
<1> QED
  BY <1>1, <1>2, <1>3, <1>4, ElsewhereKeys, WriteKeys

LEMMA WorkKeys ==
  ASSUME KeyInv, NEW c \in Calls, NEW a, effects' = Begun(c), UNCHANGED <<receipts, calls>>, HandShape',
         \/ /\ AtWork(hand) /\ hand[1] = c /\ hand[2] = "work"
            /\ hand' = <<c, "answer", a>> /\ aide' = aide
         \/ /\ AtWork(aide) /\ aide[1] = c /\ aide[2] = "work"
            /\ aide' = <<c, "answer", a>> /\ hand' = hand
  PROVE  KeyInv'
<1>1. receipts[Asked(c).key] = <<Asked(c)>> /\ effects[Asked(c).key] = 0 /\ Asked(c).key \in Keys
  BY DEF KeyInv, CallShape, Engaged, KeyOf
<1>2. effects' = [effects EXCEPT ![Asked(c).key] = 1]
  BY <1>1 DEF Begun, KeyInv, KeyShape
<1>3. KeyStep(c, <<Asked(c)>>, 1)
  BY <1>1, <1>2, SameEffects DEF KeyStep
<1>4. Informed(c, <<Asked(c)>>, 1)
  BY TellKeys DEF KeyInv
<1>5. \A h : h = <<c, "answer", a>> => Carries(h, c, <<Asked(c)>>, 1)
  BY DEF Carries, AtWork
<1> QED
  BY <1>3, <1>4, <1>5, ElsewhereKeys, WriteKeys

LEMMA FinishKeys ==
  ASSUME KeyInv, NEW c \in Calls, NEW a, receipts' = Finish(c, a), calls' = Replied(c, a), HandShape',
         \/ /\ AtWork(hand) /\ hand[1] = c /\ hand[2] = "answer" /\ effects' = effects
            /\ hand' = Nobody /\ aide' = aide
         \/ /\ AtWork(aide) /\ aide[1] = c /\ aide[2] = "answer" /\ effects' = effects
            /\ aide' = Nobody /\ hand' = hand
         \/ Prior(c) = "new" /\ effects' = Begun(c) /\ hand' = Nobody /\ aide' = aide
  PROVE  KeyInv'
<1>1. Asked(c).key \in Keys /\ (receipts[Asked(c).key] = <<>> \/ receipts[Asked(c).key] = <<Asked(c)>>)
  BY RetainedTrue DEF KeyInv, CallShape, Engaged, KeyOf
<1>2. effects' = [effects EXCEPT ![Asked(c).key] = 1]
  <2>1. CASE effects' = effects
    <3>1. effects[Asked(c).key] = 1
      BY <2>1, <1>1, RetainedTrue DEF KeyInv, Engaged, KeyOf, Begun, KeyShape
    <3> QED
      BY <2>1, <3>1, <1>1, SameEffects
  <2>2. CASE Prior(c) = "new" /\ effects' = Begun(c)
    <3>1. effects[Asked(c).key] = 0
      BY <2>2, RetainedTrue
    <3> QED
      BY <2>2, <3>1, <1>1 DEF Begun, KeyInv, KeyShape
  <2> QED
    BY <2>1, <2>2
<1>3. KeyStep(c, <<Asked(c), a>>, 1)
  BY <1>1, <1>2 DEF KeyStep, Finish
<1>4. Informed(c, <<Asked(c), a>>, 1)
  BY TellKeys DEF KeyInv
<1>5. Carries(Nobody, c, <<Asked(c), a>>, 1)
  BY DEF Carries, AtWork
<1> QED
  BY <1>3, <1>4, <1>5, ElsewhereKeys, RetainedTrue, WriteKeys

LEMMA ReserveFirstKeys ==
  ASSUME KeyInv, ReserveFirst
  PROVE  KeyInv'
<1> DEFINE c == hand[1]
<1>1. c \in Calls
  BY InHandShape DEF ReserveFirst
<1>2. UNCHANGED <<aide, mailbox, line, cancels, effects>>
  BY DEF ReserveFirst, loopKeeps
<1>3. \/ Close(c, <<"conflict">>) /\ UNCHANGED receipts
      \/ Prior(c) = "new" /\ receipts' = Reserve(c) /\ hand' = <<c, "work", <<>>>> /\ UNCHANGED calls
      \/ Prior(c) = "complete" /\ Close(c, Retained(c)) /\ UNCHANGED receipts
  BY DEF ReserveFirst
<1> HIDE DEF c
<1>4. CASE Close(c, <<"conflict">>) /\ UNCHANGED receipts
  BY <1>1, <1>2, <1>4, PlainTrue, CloseFrame
<1>5. CASE Prior(c) = "new" /\ receipts' = Reserve(c) /\ hand' = <<c, "work", <<>>>> /\ UNCHANGED calls
  <2>1. HandShape'
    BY <1>1, <1>2, <1>5 DEF KeyInv, HandShape, Takes, Steps, Holds
  <2> QED
    BY <1>1, <1>2, <1>5, <2>1, ReserveKeys
<1>6. CASE Prior(c) = "complete" /\ Close(c, Retained(c)) /\ UNCHANGED receipts
  BY <1>1, <1>2, <1>6, RetainedTrue, CloseFrame
<1> QED
  BY <1>3, <1>4, <1>5, <1>6

LEMMA WorkStepKeys ==
  ASSUME KeyInv, Work
  PROVE  KeyInv'
<1> DEFINE c == hand[1]
<1>1. c \in Calls /\ AtWork(hand) /\ hand[2] = "work"
  BY InHandShape DEF Work, AtWork, InHand
<1>2. UNCHANGED <<aide, mailbox, line, cancels, receipts, calls>> /\ effects' = Begun(c)
  BY DEF Work, loopKeeps
<1>3. PICK a : hand' = <<c, "answer", a>>
  BY DEF Work
<1>4. HandShape'
  BY <1>1, <1>2, <1>3 DEF KeyInv, HandShape, Takes, Steps, Holds
<1> QED
  BY <1>1, <1>2, <1>3, <1>4, WorkKeys

LEMMA ConcludeKeys ==
  ASSUME KeyInv, Conclude
  PROVE  KeyInv'
<1> DEFINE c == hand[1]
<1>1. c \in Calls /\ AtWork(hand) /\ hand[2] = "answer"
  BY InHandShape DEF Conclude, AtWork, InHand
<1>2. UNCHANGED <<aide, mailbox, line, cancels, effects>>
  BY DEF Conclude, loopKeeps
<1>3. \/ receipts' = Finish(c, hand[3]) /\ Close(c, hand[3])
      \/ UNCHANGED receipts /\ Close(c, <<"error">>)
  BY DEF Conclude
<1>4. CASE receipts' = Finish(c, hand[3]) /\ Close(c, hand[3])
  <2>1. hand' = Nobody /\ calls' = Replied(c, hand[3])
    BY <1>4 DEF Close
  <2>2. HandShape'
    BY <1>2, <2>1 DEF KeyInv, HandShape, Takes, Holds
  <2> QED
    BY <1>1, <1>2, <1>4, <2>1, <2>2, FinishKeys
<1>5. CASE UNCHANGED receipts /\ Close(c, <<"error">>)
  BY <1>1, <1>2, <1>5, PlainTrue, CloseFrame
<1> QED
  BY <1>3, <1>4, <1>5

LEMMA SaveScheduleKeys ==
  ASSUME KeyInv, SaveSchedule
  PROVE  KeyInv'
<1> DEFINE c == hand[1]
<1>1. c \in Calls
  BY InHandShape DEF SaveSchedule
<1>2. UNCHANGED <<aide, mailbox, line, cancels>>
  BY DEF SaveSchedule, loopKeeps
<1>3. \/ \E a : Prior(c) = "new" /\ effects' = Begun(c) /\ receipts' = Finish(c, a) /\ Close(c, a)
      \/ Prior(c) = "complete" /\ Close(c, Retained(c)) /\ UNCHANGED <<receipts, effects>>
      \/ Close(c, <<"conflict">>) /\ UNCHANGED <<receipts, effects>>
      \/ Close(c, <<"error">>) /\ UNCHANGED <<receipts, effects>>
  BY DEF SaveSchedule, durable
<1> HIDE DEF c
<1>4. ASSUME NEW a, Prior(c) = "new", effects' = Begun(c), receipts' = Finish(c, a), Close(c, a)
      PROVE  KeyInv'
  <2>1. hand' = Nobody /\ calls' = Replied(c, a)
    BY <1>4 DEF Close
  <2>2. HandShape'
    BY <1>2, <2>1 DEF KeyInv, HandShape, Takes, Holds
  <2> QED
    BY <1>1, <1>2, <1>4, <2>1, <2>2, FinishKeys
<1>5. CASE Prior(c) = "complete" /\ Close(c, Retained(c)) /\ UNCHANGED <<receipts, effects>>
  BY <1>1, <1>2, <1>5, RetainedTrue, CloseFrame
<1>6. CASE Close(c, <<"conflict">>) /\ UNCHANGED <<receipts, effects>>
  BY <1>1, <1>2, <1>6, PlainTrue, CloseFrame
<1>7. CASE Close(c, <<"error">>) /\ UNCHANGED <<receipts, effects>>
  BY <1>1, <1>2, <1>7, PlainTrue, CloseFrame
<1> QED
  BY <1>3, <1>4, <1>5, <1>6, <1>7

LEMMA AideKeys ==
  ASSUME KeyInv, Aide
  PROVE  KeyInv'
<1> DEFINE c == aide[1]
<1>0. CallShape /\ HandShape
  BY DEF KeyInv
<1>1. aide # Nobody => c \in Calls
  BY <1>0 DEF HandShape, Takes
<1>2. UNCHANGED <<hand, mailbox, line>>
  BY DEF Aide, AideTakes, AideReserves, AideWorks, AideConcludes, aideKeeps
<1>3. cancels' \in Seq(Calls) /\ (Takes(aide)' => HandShape')
  <2>1. cancels' \in Seq(Calls)
    <3>1. cancels' = cancels \/ (cancels # <<>> /\ cancels' = Tail(cancels))
      BY DEF Aide, AideTakes, AideReserves, AideWorks, AideConcludes
    <3>2. cancels \in Seq(Calls)
      BY <1>0 DEF HandShape
    <3> QED
      BY <3>1, <3>2
  <2> QED
    BY <1>0, <1>2, <2>1 DEF HandShape, Takes, Holds
<1>4. CASE AideTakes
  <2>1. UNCHANGED <<receipts, effects, calls>> /\ ~AtWork(aide)'
    BY <1>4 DEF AideTakes, AtWork
  <2>2. Head(cancels) \in Calls
    BY <1>0, <1>4 DEF AideTakes, HandShape
  <2>3. HandShape'
    BY <1>3, <1>4, <2>2 DEF AideTakes, Takes, Steps
  <2> QED
    BY <1>0, <1>2, <2>1, <2>3, StayTrue, FrameKeys
<1>5. CASE AideReserves
  <2>1. aide # Nobody /\ UNCHANGED effects
    BY <1>5 DEF AideReserves
  <2>2. CASE Prior(c) = "new"
    <3>1. receipts' = Reserve(c) /\ aide' = <<c, "work", <<>>>> /\ UNCHANGED calls
      BY <1>5, <2>2 DEF AideReserves
    <3>2. HandShape'
      BY <1>1, <1>3, <2>1, <3>1 DEF Takes, Steps
    <3> QED
      BY <1>1, <1>2, <2>1, <2>2, <3>1, <3>2, ReserveKeys
  <2>3. CASE Prior(c) # "new"
    <3>1. UNCHANGED receipts /\ aide' = Nobody
          /\ calls' = Replied(c, IF Prior(c) = "complete" THEN Retained(c) ELSE <<"conflict">>)
      BY <1>5, <2>3 DEF AideReserves
    <3>2. Truthfully
      BY <1>0, <1>1, <2>1, <3>1, AnswerTrue, PlainTrue, RetainedTrue
    <3>3. HandShape' /\ ~AtWork(aide)'
      BY <1>3, <3>1 DEF Takes, AtWork
    <3> QED
      BY <1>2, <2>1, <3>1, <3>2, <3>3, FrameKeys
  <2> QED
    BY <2>2, <2>3
<1>6. CASE AideWorks
  <2>1. aide # Nobody /\ aide[2] = "work" /\ effects' = Begun(c) /\ UNCHANGED <<receipts, calls>>
    BY <1>6 DEF AideWorks
  <2>2. PICK a : aide' = <<c, "answer", a>>
    BY <1>6 DEF AideWorks
  <2>3. HandShape'
    BY <1>1, <1>3, <2>1, <2>2 DEF Takes, Steps
  <2> QED
    BY <1>1, <1>2, <2>1, <2>2, <2>3, WorkKeys DEF AtWork
<1>7. CASE AideConcludes
  <2>1. aide # Nobody /\ aide[2] = "answer" /\ aide' = Nobody /\ UNCHANGED effects
    BY <1>7 DEF AideConcludes
  <2>2. HandShape' /\ ~AtWork(aide)'
    BY <1>3, <2>1 DEF Takes, AtWork
  <2>3. CASE receipts' = Finish(c, aide[3]) /\ calls' = Replied(c, aide[3])
    BY <1>1, <1>2, <2>1, <2>2, <2>3, FinishKeys DEF AtWork
  <2>4. CASE UNCHANGED receipts /\ calls' = Replied(c, <<"error">>)
    <3>1. Truthfully
      BY <1>0, <1>1, <2>1, <2>4, AnswerTrue, PlainTrue
    <3> QED
      BY <1>2, <2>1, <2>2, <2>4, <3>1, FrameKeys
  <2> QED
    BY <1>7, <2>3, <2>4 DEF AideConcludes
<1> QED
  BY <1>4, <1>5, <1>6, <1>7 DEF Aide

\* The threads of the queries and the pool: nothing of this is theirs.
LEMMA OtherKeys ==
  ASSUME KeyInv, UNCHANGED <<calls, receipts, effects, mailbox, line, cancels, hand, aide>>
  PROVE  KeyInv'
<1>1. Truthfully
  BY StayTrue DEF KeyInv
<1>2. HandShape'
  BY DEF KeyInv, HandShape
<1> QED
  BY <1>1, <1>2, FrameKeys

LEMMA DiesKeys ==
  ASSUME KeyInv, NEW s, s # "ok", Dies(<<s>>)
  PROVE  KeyInv'
<1> DEFINE gone(d) == Stage(d) \in {"new", "holding", "waiting"}
<1>0. CallShape
  BY DEF KeyInv
<1>1. ASSUME NEW d \in Calls
      PROVE  /\ calls'[d].request = calls[d].request
             /\ calls'[d] = [request |-> calls'[d].request, via |-> calls'[d].via,
                             stage |-> calls'[d].stage, answer |-> calls'[d].answer]
             /\ calls'[d].stage = IF gone(d) THEN "answered" ELSE calls[d].stage
             /\ calls'[d].answer = IF gone(d) THEN <<s>> ELSE calls[d].answer
  <2>1. calls[d] = [request |-> calls[d].request, via |-> calls[d].via,
                    stage |-> calls[d].stage, answer |-> calls[d].answer]
    BY <1>0 DEF CallShape
  <2>2. calls'[d] = IF gone(d) THEN [calls[d] EXCEPT !.stage = "answered", !.answer = <<s>>] ELSE calls[d]
    BY DEF Dies
  <2> HIDE DEF gone
  <2>3. CASE gone(d)
    <3> DEFINE x == [calls[d] EXCEPT !.stage = "answered"]
    <3>1. x = [request |-> calls[d].request, via |-> calls[d].via, stage |-> "answered", answer |-> calls[d].answer]
      BY <2>1
    <3>2. calls'[d] = [x EXCEPT !.answer = <<s>>]
      BY <2>2, <2>3
    <3> HIDE DEF x
    <3>3. calls'[d] = [request |-> calls[d].request, via |-> calls[d].via, stage |-> "answered", answer |-> <<s>>]
      BY <3>1, <3>2
    <3> QED
      BY <2>3, <3>3
  <2>4. CASE ~gone(d)
    BY <2>1, <2>2, <2>4
  <2> QED
    BY <2>3, <2>4
<1>2. CallShape'
  <2>1. calls' = [d \in Calls |-> calls'[d]]
    BY DEF Dies
  <2> QED
    BY <2>1, <1>0, <1>1 DEF CallShape, Asked
<1>3. Truthfully
  <2>1. ASSUME NEW d \in Calls, calls'[d].stage = "answered"
        PROVE  (calls[d].stage = "answered" /\ calls'[d].answer = calls[d].answer) \/ TrueAnswer(d, calls'[d].answer)
    <3>1. TrueAnswer(d, <<s>>)
      BY PlainTrue
    <3> QED
      BY <1>1, <2>1, <3>1
  <2> QED
    BY <1>1, <1>2, <2>1 DEF Truthfully
<1>4. HandShape' /\ ~AtWork(hand)' /\ ~AtWork(aide)'
  <2>1. <<>> \in Seq(Calls)
    OBVIOUS
  <2> QED
    BY <2>1 DEF Dies, HandShape, Takes, Holds, AtWork
<1>5. UNCHANGED <<receipts, effects>>
  BY DEF Dies, durable
<1> QED
  BY <1>3, <1>4, <1>5, FrameKeys

LEMMA InitKeys ==
  ASSUME ServeInit
  PROVE  KeyInv
<1>1. PICK w \in Workloads : calls = [c \in Calls |->
          [request |-> [kind |-> w[c].kind, key |-> w[c].key, etag |-> w[c].etag],
           via |-> w[c].via, stage |-> "ready", answer |-> <<>>]]
  BY DEF ServeInit
<1>2. ASSUME NEW c \in Calls
      PROVE  /\ calls[c] = [request |-> calls[c].request, via |-> calls[c].via,
                            stage |-> calls[c].stage, answer |-> calls[c].answer]
             /\ calls[c].request.key \in Keys /\ calls[c].stage = "ready"
  <2>1. calls[c] = [request |-> [kind |-> w[c].kind, key |-> w[c].key, etag |-> w[c].etag],
                    via |-> w[c].via, stage |-> "ready", answer |-> <<>>]
    BY <1>1
  <2>2. w[c].key \in Keys
    BY ServeAssumption
  <2> QED
    BY <2>1, <2>2
<1>3. CallShape
  BY <1>1, <1>2 DEF CallShape, Asked
<1>4. AnswersTrue
  BY <1>2 DEF AnswersTrue, Stage
<1>5. <<>> \in Seq(Calls)
  OBVIOUS
<1>6. /\ mailbox = <<>> /\ line = <<>> /\ cancels = <<>> /\ hand = Nobody /\ aide = Nobody
      /\ receipts = [k \in Keys |-> <<>>] /\ effects = [k \in Keys |-> 0]
  BY DEF ServeInit
<1> QED
  BY <1>3, <1>4, <1>5, <1>6
  DEF KeyInv, HandShape, KeyShape, Written, Engaged, Apart, AtWork, Takes, Holds, Nobody

LEMMA NextKeys ==
  ASSUME KeyInv, [ServeNext]_serveVars
  PROVE  KeyInv'
<1>1. CASE \E c \in Calls : Threads(c)
  BY <1>1, ThreadKeys
<1>2. CASE \E k \in Keys : Job(k) \/ Age(k)
  BY <1>2, OtherKeys
  DEF Job, Age, AskPool, Await, Bind, Help, Reap, AcceptResult, Tidy, GiveBack, Publish,
      threadKeeps, queryKeeps, front, durable
<1>3. CASE Start \/ Prepare \/ Halt
  BY <1>3, OtherKeys DEF Start, Prepare, Halt, durable
<1>4. CASE Loop
  BY <1>4, TakingKeys, ReserveFirstKeys, WorkStepKeys, ConcludeKeys, CheckScheduleKeys, SaveScheduleKeys,
     SubmitKeys DEF Loop
<1>5. CASE Aide
  BY <1>5, AideKeys
<1>6. CASE Pool
  BY <1>6, OtherKeys DEF Pool, threadKeeps, front, durable
<1>7. CASE Stopped \/ Crash
  BY <1>7, DiesKeys DEF Stopped, Crash
<1>8. CASE Off \/ UNCHANGED serveVars
  BY <1>8, OtherKeys DEF Off, serveVars, front, durable
<1> QED
  BY <1>1, <1>2, <1>3, <1>4, <1>5, <1>6, <1>7, <1>8 DEF ServeNext

\* The work of an idempotency key is begun at most once, for every set of
\* calls and workloads, whoever takes the request and whatever dies in
\* between (reserve_api).
THEOREM KeyedOnce == ServeSpec => []OncePerKey
<1>1. KeyInv => OncePerKey
  BY DEF KeyInv, KeyShape, OncePerKey
<1> QED
  BY <1>1, InitKeys, NextKeys, PTL DEF ServeSpec

\* Who is told that a keyed command succeeded is told what the receipt will
\* say again, and what the one execution came to (finish_api).
THEOREM AnswersRetained == ServeSpec => []AnswersTrue
<1>1. KeyInv => AnswersTrue
  BY DEF KeyInv
<1> QED
  BY <1>1, InitKeys, NextKeys, PTL DEF ServeSpec

-----------------------------------------------------------------------------
(* Steps of the query jobs. *)

\* A job that may stand: whoever was told in time has not succeeded.
Stands(j) == Full(j) /\ (process # "stopping" /\ j.finished # "no" /\ j.cancel => j.state # "SUCCEEDED" /\ ~j.page)

LEMMA FullKnown == ASSUME NEW j, Full(j) PROVE j # NoJob
<1>1. j = [state |-> j.state, digest |-> j.digest, cancel |-> j.cancel, finished |-> j.finished, page |-> j.page]
  BY DEF Full
<1>2. DOMAIN j = {"state", "digest", "cancel", "finished", "page"}
  BY <1>1
<1>3. DOMAIN NoJob = {"state"}
  BY DEF NoJob
<1> QED
  BY <1>2, <1>3

\* One job is set, and its thread may go on.
LEMMA SetJob ==
  ASSUME JobInv, NEW k \in Keys, NEW j, Stands(j), NEW s, jobs' = [jobs EXCEPT ![k] = j],
         pc' = pc \/ pc' = [pc EXCEPT ![k] = s], process' = process
  PROVE  JobInv'
<1>1. \A i \in Keys : jobs'[i] = IF i = k THEN j ELSE jobs[i]
  BY DEF JobInv, JobShape
<1>2. \A i \in Keys : i # k => pc'[i] = pc[i]
  BY DEF JobInv, JobShape
<1>3. Full(j) /\ j # NoJob
  BY FullKnown DEF Stands
<1>4. JobShape'
  <2>1. jobs' = [i \in Keys |-> jobs'[i]] /\ pc' = [i \in Keys |-> pc'[i]]
    BY DEF JobInv, JobShape
  <2> QED
    BY <2>1, <1>1, <1>3 DEF JobInv, JobShape
<1>5. Threaded'
  BY <1>1, <1>2, <1>3 DEF JobInv, Threaded, Known
<1>6. Kept'
  BY <1>1, <1>3 DEF JobInv, Kept, Finished, Told, Known, Stands
<1> QED
  BY <1>4, <1>5, <1>6 DEF JobInv

\* A thread goes on that has a job, or has ended.
LEMMA GoJob ==
  ASSUME JobInv, NEW k \in Keys, NEW s, At(k, s), s \notin {"idle", "ended"}, NEW t,
         pc' = pc \/ Goes(k, t), UNCHANGED <<jobs, process>>
  PROVE  JobInv'
BY DEF JobInv, JobShape, Threaded, Kept, Known, Finished, Told, At, Goes

\* The parts that are no thread's.
LEMMA SameJobs ==
  ASSUME JobInv, UNCHANGED <<jobs, pc>>, process' = process \/ process # "stopping"
  PROVE  JobInv'
BY DEF JobInv, JobShape, Threaded, Kept, Known, Finished, Told

\* What is left when the old has gone.
LEMMA RetainJobs ==
  ASSUME JobInv, NEW x, x = RetainedJobs
  PROVE  /\ x = [k \in Keys |-> x[k]]
         /\ \A k \in Keys : x[k] = jobs[k] \/ (x[k] = NoJob /\ pc[k] \in {"idle", "ended"})
BY DEF RetainedJobs, Exited

LEMMA RetainSteps ==
  ASSUME JobInv, jobs' = RetainedJobs, UNCHANGED <<pc, process>>
  PROVE  JobInv'
<1>1. /\ jobs' = [k \in Keys |-> jobs'[k]]
      /\ \A k \in Keys : jobs'[k] = jobs[k] \/ (jobs'[k] = NoJob /\ pc[k] \in {"idle", "ended"})
  BY RetainJobs
<1> QED
  BY <1>1 DEF JobInv, JobShape, Threaded, Kept, Known, Finished, Told

LEMMA QueryJobs ==
  ASSUME JobInv, NEW c \in Calls, Asked(c).key \in Keys, Query(c)
  PROVE  JobInv'
<1> DEFINE k == Asked(c).key
<1>1. process' = process
  BY DEF Query, queryKeeps, front
<1>2. \/ UNCHANGED <<jobs, pc>>
      \/ jobs' = RetainedJobs /\ UNCHANGED pc
      \/ jobs' = [RetainedJobs EXCEPT ![k] = NewJob(c)] /\ pc' = [pc EXCEPT ![k] = "asking"]
  BY DEF Query, Unprepared
<1>3. CASE UNCHANGED <<jobs, pc>>
  BY <1>1, <1>3, SameJobs
<1>4. CASE jobs' = RetainedJobs /\ UNCHANGED pc
  BY <1>1, <1>4, RetainSteps
<1>5. CASE jobs' = [RetainedJobs EXCEPT ![k] = NewJob(c)] /\ pc' = [pc EXCEPT ![k] = "asking"]
  <2>1. k \in Keys
    OBVIOUS
  <2> HIDE DEF k
  <2>2. Full(NewJob(c)) /\ NewJob(c).finished = "no"
    <3> DEFINE n == NewJob(c)
    <3>1. n = [state |-> "QUEUED", digest |-> Asked(c), cancel |-> FALSE, finished |-> "no", page |-> FALSE]
      BY DEF NewJob
    <3> HIDE DEF n
    <3>2. n.state = "QUEUED" /\ n.digest = Asked(c) /\ n.cancel = FALSE /\ n.finished = "no" /\ n.page = FALSE
      BY <3>1
    <3>3. Full(n)
      BY <3>1, <3>2 DEF Full
    <3> QED
      BY <3>2, <3>3 DEF n
  <2>3. NewJob(c) # NoJob
    BY <2>2, FullKnown
  <2> DEFINE x == RetainedJobs
  <2>4. /\ x = [i \in Keys |-> x[i]]
        /\ \A i \in Keys : x[i] = jobs[i] \/ (x[i] = NoJob /\ pc[i] \in {"idle", "ended"})
    BY RetainJobs
  <2> HIDE DEF x
  <2>5. /\ jobs' = [i \in Keys |-> jobs'[i]]
        /\ jobs'[k] = NewJob(c)
        /\ \A i \in Keys : i # k => jobs'[i] = jobs[i] \/ (jobs'[i] = NoJob /\ pc[i] \in {"idle", "ended"})
    BY <1>5, <2>1, <2>4 DEF x
  <2>6. pc' = [i \in Keys |-> pc'[i]] /\ \A i \in Keys : i # k => pc'[i] = pc[i]
    BY <1>5 DEF JobInv, JobShape
  <2>7. JobShape'
    BY <2>2, <2>5, <2>6 DEF JobInv, JobShape
  <2>8. Threaded'
    BY <2>3, <2>5, <2>6 DEF JobInv, Threaded, Known
  <2>9. Kept'
    BY <1>1, <2>2, <2>5 DEF JobInv, Kept, Finished, Told, Known
  <2> QED
    BY <2>7, <2>8, <2>9 DEF JobInv
<1> QED
  BY <1>2, <1>3, <1>4, <1>5

\* The fields of a job that is known.
LEMMA KnownJob ==
  ASSUME JobInv, NEW k \in Keys, Known(k)
  PROVE  Full(jobs[k])
BY DEF JobInv, JobShape, Known

LEMMA StopJobs ==
  ASSUME JobInv, NEW c \in Calls, Asked(c).key \in Keys, Stop(c)
  PROVE  JobInv'
<1> DEFINE k == Asked(c).key
<1>1. UNCHANGED <<pc, process>>
  BY DEF Stop, queryKeeps, front
<1>2. UNCHANGED jobs \/ (Known(k) /\ ~Expired(k) /\ jobs' = [jobs EXCEPT ![k].cancel = @ \/ ~Finished(k)])
  BY DEF Stop
<1>3. k \in Keys
  OBVIOUS
<1> HIDE DEF k
<1>4. CASE UNCHANGED jobs
  BY <1>1, <1>4, SameJobs
<1>5. CASE Known(k) /\ jobs' = [jobs EXCEPT ![k].cancel = @ \/ ~Finished(k)]
  <2> DEFINE j == [jobs[k] EXCEPT !.cancel = jobs[k].cancel \/ ~Finished(k)]
             o == jobs[k]
  <2>1. Full(o)
    BY <1>3, <1>5, KnownJob
  <2>2. o = [state |-> o.state, digest |-> o.digest, cancel |-> o.cancel, finished |-> o.finished, page |-> o.page]
        /\ o.cancel \in BOOLEAN /\ o.page \in BOOLEAN
    BY <2>1 DEF Full
  <2>3. jobs' = [jobs EXCEPT ![k] = j]
    BY <1>3, <1>5
  <2>4. Finished(k) <=> o.finished # "no"
    BY <1>5 DEF Finished
  <2>5. process # "stopping" /\ o.finished # "no" /\ o.cancel => o.state # "SUCCEEDED" /\ ~o.page
    BY <1>3, <2>4 DEF JobInv, Kept, Told
  <2>6. j = [o EXCEPT !.cancel = o.cancel \/ ~Finished(k)]
    OBVIOUS
  <2>7. process = "serving"
    BY DEF Stop, Ours
  <2> HIDE DEF j, o
  <2>8. j = [state |-> o.state, digest |-> o.digest, cancel |-> o.cancel \/ ~Finished(k),
             finished |-> o.finished, page |-> o.page]
    BY <2>2, <2>6
  <2>9. /\ j.state = o.state /\ j.digest = o.digest /\ j.cancel = (o.cancel \/ ~Finished(k))
        /\ j.finished = o.finished /\ j.page = o.page
    BY <2>8
  <2>10. Stands(j)
    <3>1. Full(j)
      BY <2>2, <2>8, <2>9 DEF Full
    <3>2. j.finished # "no" /\ j.cancel => o.cancel
      BY <2>4, <2>9
    <3> QED
      BY <2>5, <2>7, <2>9, <3>1, <3>2 DEF Stands
  <2> QED
    BY <1>1, <1>3, <2>3, <2>10, SetJob
<1> QED
  BY <1>2, <1>4, <1>5

LEMMA AgeJobs ==
  ASSUME JobInv, NEW k \in Keys, Age(k)
  PROVE  JobInv'
<1> DEFINE o == jobs[k]
           x == [o EXCEPT !.finished = "old"]
           no == FALSE
           j == [x EXCEPT !.page = no]
<1>1. UNCHANGED <<pc, process>> /\ Known(k) /\ Finished(k) /\ jobs' = [jobs EXCEPT ![k] = j]
  BY DEF Age, queryKeeps, front, Finished, JobInv, JobShape
<1>2. Full(o)
  BY <1>1, KnownJob
<1>3. process # "stopping" /\ o.cancel => o.state # "SUCCEEDED"
  BY <1>1 DEF JobInv, Kept, Told
<1> HIDE DEF o
<1>4. x = [state |-> o.state, digest |-> o.digest, cancel |-> o.cancel, finished |-> "old", page |-> o.page]
  BY <1>2 DEF Full
<1> HIDE DEF x, no
<1>5. j = [state |-> o.state, digest |-> o.digest, cancel |-> o.cancel, finished |-> "old", page |-> no]
  BY <1>4
<1> HIDE DEF j
<1>6. j.state = o.state /\ j.digest = o.digest /\ j.cancel = o.cancel /\ j.finished = "old" /\ j.page = no
  BY <1>5
<1>7. Stands(j)
  <2>1. o.cancel \in BOOLEAN
    BY <1>2 DEF Full
  <2>2. Full(j)
    BY <1>5, <1>6, <2>1 DEF Full, no
  <2> QED
    BY <1>3, <1>6, <2>2 DEF Stands, no
<1> QED
  BY <1>1, <1>7, SetJob

LEMMA AwaitJobs ==
  ASSUME JobInv, NEW k \in Keys, Await(k)
  PROVE  JobInv'
<1> DEFINE o == jobs[k]
           j == [o EXCEPT !.state = "RUNNING"]
<1>1. process' = process /\ At(k, "queued")
  BY DEF Await, threadKeeps, front
<1>2. \/ ~Told(k) /\ Goes(k, "admitted") /\ jobs' = [jobs EXCEPT ![k] = j]
      \/ UNCHANGED jobs /\ (UNCHANGED pc \/ Goes(k, "leaving"))
  BY DEF Await, JobInv, JobShape
<1>3. CASE UNCHANGED jobs /\ (UNCHANGED pc \/ Goes(k, "leaving"))
  BY <1>1, <1>3, GoJob
<1>4. CASE ~Told(k) /\ Goes(k, "admitted") /\ jobs' = [jobs EXCEPT ![k] = j]
  <2>1. Known(k)
    BY <1>1 DEF JobInv, Threaded, At
  <2>2. Full(o) /\ ~o.cancel
    BY <1>4, <2>1, KnownJob DEF Told
  <2> HIDE DEF o
  <2>3. j = [state |-> "RUNNING", digest |-> o.digest, cancel |-> o.cancel, finished |-> o.finished, page |-> o.page]
    BY <2>2 DEF Full
  <2> HIDE DEF j
  <2>4. j.state = "RUNNING" /\ j.digest = o.digest /\ j.cancel = o.cancel /\ j.finished = o.finished /\ j.page = o.page
    BY <2>3
  <2>5. Stands(j)
    <3>1. o.cancel \in BOOLEAN /\ o.page \in BOOLEAN
      BY <2>2 DEF Full
    <3>2. Full(j)
      BY <2>3, <2>4, <3>1 DEF Full
    <3> QED
      BY <2>2, <2>4, <3>2 DEF Stands
  <2> QED
    BY <1>1, <1>4, <2>5, SetJob DEF Goes
<1> QED
  BY <1>2, <1>3, <1>4

LEMMA PublishJobs ==
  ASSUME JobInv, NEW k \in Keys, Publish(k)
  PROVE  JobInv'
<1> DEFINE o == jobs[k]
           f == FinalState(k)
           x == [o EXCEPT !.state = f]
           y == [x EXCEPT !.finished = "fresh"]
           j == [y EXCEPT !.page = (f = "SUCCEEDED")]
<1>1. process' = process /\ Known(k) /\ Goes(k, "ended")
  BY DEF Publish, threadKeeps, front, JobInv, Threaded, At
<1>2. jobs' = [jobs EXCEPT ![k] = j]
  BY DEF Publish, JobInv, JobShape
<1>3. Full(o)
  BY <1>1, KnownJob
<1>4. o.cancel => f # "SUCCEEDED"
  BY DEF FinalState, Told
<1> HIDE DEF o, f
<1>5. x = [state |-> f, digest |-> o.digest, cancel |-> o.cancel, finished |-> o.finished, page |-> o.page]
  BY <1>3 DEF Full
<1> HIDE DEF x
<1>6. y = [state |-> f, digest |-> o.digest, cancel |-> o.cancel, finished |-> "fresh", page |-> o.page]
  BY <1>5
<1> HIDE DEF y
<1>7. j = [state |-> f, digest |-> o.digest, cancel |-> o.cancel, finished |-> "fresh", page |-> (f = "SUCCEEDED")]
  BY <1>6
<1> HIDE DEF j
<1>8. j.state = f /\ j.digest = o.digest /\ j.cancel = o.cancel /\ j.finished = "fresh" /\ j.page = (f = "SUCCEEDED")
  BY <1>7
<1>9. Stands(j)
  <2>1. o.cancel \in BOOLEAN
    BY <1>3 DEF Full
  <2>2. Full(j)
    BY <1>7, <1>8, <2>1 DEF Full
  <2> QED
    BY <1>4, <1>8, <2>2 DEF Stands
<1> QED
  BY <1>1, <1>2, <1>9, SetJob DEF Goes

LEMMA HaltJobs ==
  ASSUME JobInv, Halt
  PROVE  JobInv'
<1>1. process' = "stopping" /\ jobs' = CancelAll /\ pc' = pc
  BY DEF Halt
<1>2. ASSUME NEW k \in Keys
      PROVE  (~Known(k) /\ jobs'[k] = NoJob) \/ (Known(k) /\ Full(jobs'[k]))
  <2>1. CASE ~Known(k)
    BY <1>1, <2>1 DEF CancelAll
  <2>2. CASE Known(k)
    <3> DEFINE o == jobs[k]
    <3>1. Full(o)
      BY <2>2, KnownJob
    <3>2. jobs'[k] = [o EXCEPT !.cancel = TRUE]
      BY <1>1, <2>2 DEF CancelAll
    <3> HIDE DEF o
    <3>3. jobs'[k] = [state |-> o.state, digest |-> o.digest, cancel |-> TRUE, finished |-> o.finished, page |-> o.page]
      BY <3>1, <3>2 DEF Full
    <3>4. o.page \in BOOLEAN
      BY <3>1 DEF Full
    <3> QED
      BY <2>2, <3>3, <3>4 DEF Full
  <2> QED
    BY <2>1, <2>2
<1>3. JobShape'
  <2>1. jobs' = [k \in Keys |-> jobs'[k]]
    BY <1>1 DEF CancelAll
  <2> QED
    BY <1>1, <1>2, <2>1 DEF JobInv, JobShape
<1>4. Threaded'
  <2>1. \A k \in Keys : Known(k) => Known(k)'
    BY <1>2, FullKnown DEF Known
  <2> QED
    BY <1>1, <2>1 DEF JobInv, Threaded
<1> QED
  BY <1>1, <1>3, <1>4 DEF JobInv, Kept

LEMMA NextJobs ==
  ASSUME KeyInv, JobInv, [ServeNext]_serveVars
  PROVE  JobInv'
<1>1. CASE \E c \in Calls : Threads(c)
  <2>1. PICK c \in Calls : Threads(c)
    BY <1>1
  <2>2. Asked(c).key \in Keys
    BY DEF KeyInv, CallShape
  <2>3. CASE Query(c) \/ Stop(c)
    BY <2>2, <2>3, QueryJobs, StopJobs
  <2>4. CASE ~(Query(c) \/ Stop(c))
    <3>1. UNCHANGED <<jobs, pc, process>>
      BY <2>1, <2>4 DEF Threads, Refuse, Look, PostCancel, Hold, Post, Leave, Connect, Results, query, queryKeeps, front
    <3> QED
      BY <3>1, SameJobs
  <2> QED
    BY <2>3, <2>4
<1>2. CASE \E k \in Keys : Job(k) \/ Age(k)
  <2>1. PICK k \in Keys : Job(k) \/ Age(k)
    BY <1>2
  <2>2. CASE Age(k)
    BY <2>2, AgeJobs
  <2>3. CASE Await(k)
    BY <2>3, AwaitJobs
  <2>4. CASE Publish(k)
    BY <2>4, PublishJobs
  <2>5. CASE AskPool(k)
    BY <2>5, GoJob DEF AskPool, threadKeeps, front
  <2>6. CASE Bind(k)
    BY <2>6, GoJob DEF Bind, Fails, threadKeeps, front
  <2>7. CASE Help(k)
    BY <2>7, GoJob DEF Help, threadKeeps, front
  <2>8. CASE Reap(k)
    BY <2>8, GoJob DEF Reap, Fails, threadKeeps, front
  <2>9. CASE AcceptResult(k)
    BY <2>9, GoJob DEF AcceptResult, Fails, threadKeeps, front
  <2>10. CASE Tidy(k) \/ GiveBack(k)
    BY <2>10, SameJobs DEF Tidy, GiveBack, threadKeeps, front, query
  <2> QED
    BY <2>1, <2>2, <2>3, <2>4, <2>5, <2>6, <2>7, <2>8, <2>9, <2>10 DEF Job
<1>3. CASE Start \/ Prepare
  BY <1>3, SameJobs DEF Start, Prepare, query
<1>4. CASE Halt
  BY <1>4, HaltJobs
<1>5. CASE Loop \/ Aide \/ Pool
  <2>1. UNCHANGED <<jobs, pc, process>>
    BY <1>5 DEF Loop, TakeCommand, TakeLine, Pass, PassEnds, TakeCancel, ReserveFirst, Work, Conclude, CheckSchedule,
                SaveSchedule, Submit, loopKeeps, Aide, AideTakes, AideReserves, AideWorks, AideConcludes, aideKeeps,
                Pool, threadKeeps, query, front
  <2> QED
    BY <2>1, SameJobs
<1>6. CASE Stopped \/ Crash
  <2>1. jobs' = [k \in Keys |-> NoJob] /\ pc' = [k \in Keys |-> "idle"]
    BY <1>6 DEF Stopped, Crash, Dies
  <2> QED
    BY <2>1 DEF JobInv, JobShape, Threaded, Kept, Finished, Known
<1>7. CASE Off \/ UNCHANGED serveVars
  BY <1>7, SameJobs DEF Off, serveVars, front, query
<1> QED
  BY <1>1, <1>2, <1>3, <1>4, <1>5, <1>6, <1>7 DEF ServeNext

\* A cancellation of a query that was acknowledged before it finished is kept
\* (the closure of submit looks at the flag once more).
THEOREM CancellationKept == ServeSpec => []CancelKept
<1>1. ServeInit => JobInv
  <2>1. ServeInit => jobs = [k \in Keys |-> NoJob] /\ pc = [k \in Keys |-> "idle"]
    BY DEF ServeInit
  <2> QED
    BY <2>1 DEF JobInv, JobShape, Threaded, Kept, Finished, Known
<1>2. JobInv => CancelKept
  BY DEF JobInv, Kept, CancelKept
<1> QED
  BY <1>1, <1>2, InitKeys, NextKeys, NextJobs, PTL DEF ServeSpec

-----------------------------------------------------------------------------
(* Steps at the flag. *)

LEMMA SetStages ==
  ASSUME NEW c \in Calls, NEW s, NEW a, calls' = Set(c, s, a), NEW d \in Calls
  PROVE  Asked(d)' = Asked(d) /\ Stage(d)' = IF d = c THEN s ELSE Stage(d)
<1>1. calls'[d] = [request |-> calls[d].request, via |-> calls[d].via,
                   stage |-> IF d = c THEN s ELSE calls[d].stage,
                   answer |-> IF d = c THEN a ELSE calls[d].answer]
  BY DEF Set
<1> QED
  BY <1>1 DEF Asked, Stage

\* Nobody takes the flag or lets go of it by what happens to the calls.
Gently == \A d \in Calls :
    /\ Asked(d)' = Asked(d)
    /\ Stage(d)' = "holding" <=> Stage(d) = "holding"
    /\ Stage(d)' = "new" => Stage(d) = "new" \/ process = "serving"

LEMMA GentleStay == ASSUME calls' = calls PROVE Gently
BY DEF Gently, Asked, Stage

LEMMA GentleAnswer ==
  ASSUME CallShape, NEW c \in Calls, NEW a,
         (calls' = Answered(c, a) /\ Stage(c) # "holding") \/ calls' = Replied(c, a)
  PROVE  Gently
<1>1. calls' = calls \/ (calls' = Set(c, "answered", a) /\ Stage(c) # "holding")
  BY AnsweredSets DEF Replied
<1> QED
  BY <1>1, GentleStay, SetStages DEF Gently

LEMMA GentleStage ==
  ASSUME CallShape, NEW c \in Calls, NEW s, s # "holding", Stage(c) # "holding",
         s = "new" => process = "serving", calls' = Staged(c, s)
  PROVE  Gently
BY StagedSets, SetStages DEF Gently

\* What is said of cancellations and of the hand that holds one.
Cancelling ==
    /\ \A i \in 1..Len(cancels) : Asked(cancels[i]).kind = "cancel"
    /\ turn = "cancel" /\ hand # Nobody => Takes(hand) /\ Asked(hand[1]).kind = "cancel"

\* Nothing moves that the flag stands for.
LEMMA FlagFrame ==
  ASSUME FlagInv, Gently, UNCHANGED <<process, busy, early, mailbox, line>>, Cancelling',
         Ahead' = Ahead, hand = Nobody /\ process \notin {"serving", "stopping"} => hand' = Nobody
  PROVE  FlagInv'
<1>1. process \in {"down", "starting", "preparing"} /\ Quiet => Quiet'
  BY DEF Gently, Quiet
<1>2. Single => Single'
  BY DEF Gently, Single
<1>3. (\E c \in Calls : Stage(c) = "holding") <=> (\E c \in Calls : Stage(c)' = "holding")
  BY DEF Gently
<1>4. FlagTrue'
  BY <1>3 DEF FlagInv, FlagTrue, Ahead
<1> QED
  BY <1>1, <1>2, <1>4 DEF FlagInv, Cancelling

\* Cancellations and the hand stay, with the requests.
LEMMA CancelFrame ==
  ASSUME KeyInv, FlagInv, Gently, UNCHANGED <<hand, turn>>, cancels' = cancels
  PROVE  Cancelling' /\ Ahead' = Ahead
<1>1. cancels \in Seq(Calls)
  BY DEF KeyInv, HandShape
<1>2. \A i \in 1..Len(cancels) : cancels[i] \in Calls
  BY <1>1
<1>3. \A i \in 1..Len(cancels) : Asked(cancels[i])' = Asked(cancels[i])
  BY <1>2 DEF Gently, Asked
<1>4. turn = "cancel" /\ hand # Nobody => hand[1] \in Calls /\ Asked(hand[1])' = Asked(hand[1])
  BY DEF FlagInv, Takes, Gently, Asked
<1> QED
  BY <1>3, <1>4 DEF FlagInv, Cancelling, Ahead, Takes, Asked

LEMMA SameFlag ==
  ASSUME KeyInv, FlagInv, Gently, UNCHANGED <<process, busy, early, mailbox, line, hand, turn, cancels>>
  PROVE  FlagInv'
BY FlagFrame, CancelFrame

LEMMA PostCancelFlag ==
  ASSUME KeyInv, FlagInv, NEW c \in Calls, PostCancel(c)
  PROVE  FlagInv'
<1>0. CallShape /\ cancels \in Seq(Calls)
  BY DEF KeyInv, HandShape
<1>1. Gently
  BY <1>0, GentleAnswer, GentleStage DEF PostCancel
<1>2. UNCHANGED <<process, busy, early, mailbox, line, hand, turn>>
  BY DEF PostCancel
<1>3. CASE cancels' = cancels
  BY <1>1, <1>2, <1>3, SameFlag
<1>4. CASE cancels' = Append(cancels, c)
  <2>1. Len(cancels') = Len(cancels) + 1 /\ Len(cancels) \in Nat
    BY <1>0, <1>4
  <2>2. \A i \in 1..Len(cancels') : (i \in 1..Len(cancels) /\ cancels'[i] = cancels[i]) \/ cancels'[i] = c
    BY <1>0, <1>4
  <2>3. \A i \in 1..Len(cancels) : cancels[i] \in Calls
    BY <1>0
  <2>4. \A d \in Calls : calls'[d].request = calls[d].request
    BY <1>1 DEF Gently, Asked
  <2>5. ASSUME NEW i \in 1..Len(cancels') PROVE calls'[cancels'[i]].request.kind = "cancel"
    <3>1. CASE cancels'[i] = c
      BY <2>4, <3>1 DEF PostCancel, Asked
    <3>2. CASE i \in 1..Len(cancels) /\ cancels'[i] = cancels[i]
      BY <2>3, <2>4, <3>2 DEF FlagInv, Asked
    <3> QED
      BY <2>2, <3>1, <3>2
  <2>6. turn = "cancel" /\ hand # Nobody => Takes(hand) /\ calls'[hand[1]].request.kind = "cancel"
    BY <2>4 DEF FlagInv, Takes, Asked
  <2>7. Cancelling'
    BY <1>2, <2>5, <2>6 DEF Cancelling, Asked, Takes
  <2> QED
    BY <1>1, <1>2, <2>7, FlagFrame DEF Ahead
<1> QED
  BY <1>3, <1>4 DEF PostCancel

LEMMA HoldFlag ==
  ASSUME KeyInv, FlagInv, NEW c \in Calls, Hold(c)
  PROVE  FlagInv'
<1>0. CallShape
  BY DEF KeyInv
<1>1. UNCHANGED <<process, early, mailbox, line, hand, turn, cancels>> /\ Stage(c) = "new"
  BY DEF Hold
<1>2. CASE calls' = Answered(c, <<"busy">>) /\ UNCHANGED busy
  BY <1>0, <1>1, <1>2, GentleAnswer, SameFlag
<1>3. CASE ~busy /\ busy' = TRUE /\ calls' = Staged(c, "holding")
  <2>1. ASSUME NEW d \in Calls
        PROVE  Asked(d)' = Asked(d) /\ Stage(d)' = IF d = c THEN "holding" ELSE Stage(d)
    BY <1>0, <1>3, StagedSets, SetStages
  <2>2. process \notin {"down"} /\ (process \in {"starting", "preparing"} => early)
    BY <1>1 DEF FlagInv, Quiet
  <2>3. process = "serving" /\ ~early =>
            mailbox = <<>> /\ line = <<>> /\ ~Ahead /\ \A d \in Calls : Stage(d) # "holding"
    BY <1>3 DEF FlagInv, FlagTrue, Ahead
  <2>4. process = "serving" /\ ~early => Single' /\ FlagTrue'
    BY <1>1, <1>3, <2>1, <2>3 DEF Single, FlagTrue, Ahead
  <2>5. Cancelling'
    <3>1. \A i \in 1..Len(cancels) : cancels[i] \in Calls
      BY DEF KeyInv, HandShape
    <3> QED
      BY <1>1, <2>1, <3>1 DEF Cancelling, FlagInv, Takes, Asked
  <2>6. FlagTrue'
    BY <1>1, <2>4 DEF FlagTrue
  <2> QED
    BY <1>1, <1>3, <2>2, <2>4, <2>5, <2>6 DEF FlagInv, Cancelling
<1> QED
  BY <1>2, <1>3 DEF Hold, Free

LEMMA KeepCancelling ==
  ASSUME KeyInv, FlagInv, \A d \in Calls : Asked(d)' = Asked(d), cancels' = cancels,
         hand' = Nobody \/ turn' # "cancel" \/ UNCHANGED <<hand, turn>>
  PROVE  Cancelling'
<1>1. \A i \in 1..Len(cancels) : cancels[i] \in Calls
  BY DEF KeyInv, HandShape
<1> QED
  BY <1>1 DEF Cancelling, FlagInv, Takes, Asked

LEMMA PostFlag ==
  ASSUME KeyInv, FlagInv, NEW c \in Calls, Post(c)
  PROVE  FlagInv'
<1>0. CallShape
  BY DEF KeyInv
<1>1. UNCHANGED <<process, early, line, hand, turn, cancels>> /\ Stage(c) = "holding"
  BY DEF Post
<1>2. process # "down" /\ (process \in {"starting", "preparing"} => early)
  BY <1>1 DEF FlagInv, Quiet
<1>3. process = "serving" /\ ~early =>
          busy /\ mailbox = <<>> /\ line = <<>> /\ ~Ahead /\ \A d \in Calls : Stage(d) = "holding" => d = c
  <2> SUFFICES ASSUME process = "serving" /\ ~early
               PROVE  busy /\ mailbox = <<>> /\ line = <<>> /\ ~Ahead /\ \A d \in Calls : Stage(d) = "holding" => d = c
    OBVIOUS
  <2>1. Single /\ busy
    BY <1>1 DEF FlagInv, FlagTrue
  <2>2. mailbox = <<>> /\ line = <<>> /\ ~Ahead
    BY <1>1, <2>1 DEF Single
  <2>3. ASSUME NEW d \in Calls, Stage(d) = "holding" PROVE d = c
    BY <1>1, <2>1, <2>3 DEF Single
  <2> QED
    BY <2>1, <2>2, <2>3
<1>4. CASE mailbox = <<>> /\ mailbox' = <<c>> /\ calls' = Staged(c, "waiting") /\ UNCHANGED busy
  <2>1. \A d \in Calls : Asked(d)' = Asked(d) /\ Stage(d)' = IF d = c THEN "waiting" ELSE Stage(d)
    BY <1>0, <1>4, StagedSets, SetStages
  <2>2. process = "serving" /\ ~early => Single' /\ FlagTrue'
    BY <1>1, <1>3, <1>4, <2>1 DEF Single, FlagTrue, Ahead
  <2>3. Cancelling'
    BY <1>1, <2>1, KeepCancelling
  <2> QED
    BY <1>1, <1>2, <1>4, <2>2, <2>3 DEF FlagInv, Cancelling, FlagTrue
<1>5. CASE mailbox # <<>> /\ busy' = FALSE /\ calls' = Answered(c, <<"busy">>) /\ UNCHANGED mailbox
  <2>1. \A d \in Calls : Asked(d)' = Asked(d)
    BY <1>0, <1>5, AnsweredSets, SetStages
  <2>2. Cancelling'
    BY <1>1, <2>1, KeepCancelling
  <2> QED
    BY <1>1, <1>2, <1>3, <1>5, <2>2 DEF FlagInv, Cancelling, FlagTrue
<1> QED
  BY <1>4, <1>5 DEF Post

LEMMA ConnectFlag ==
  ASSUME KeyInv, FlagInv, NEW c \in Calls, Connect(c)
  PROVE  FlagInv'
<1>0. CallShape
  BY DEF KeyInv
<1>1. /\ UNCHANGED <<process, mailbox, hand, turn, cancels>> /\ Stage(c) = "ready"
      /\ busy' = TRUE /\ process \in {"starting", "preparing", "serving"}
  BY DEF Connect
<1>2. CASE busy /\ calls' = Answered(c, <<"busy">>) /\ UNCHANGED <<line, early>>
  <2>1. busy' = busy
    BY <1>1, <1>2 DEF FlagInv
  <2> QED
    BY <1>0, <1>1, <1>2, <2>1, GentleAnswer, SameFlag
<1>3. CASE ~busy /\ line' = <<c>> /\ calls' = Staged(c, "waiting") /\ early' = (early \/ process = "starting")
  <2>1. \A d \in Calls : Asked(d)' = Asked(d) /\ Stage(d)' = IF d = c THEN "waiting" ELSE Stage(d)
    BY <1>0, <1>3, StagedSets, SetStages
  <2>2. Cancelling'
    BY <1>1, <2>1, KeepCancelling
  <2>3. process = "serving" /\ ~early =>
            mailbox = <<>> /\ line = <<>> /\ ~Ahead /\ \A d \in Calls : Stage(d) # "holding"
    BY <1>3 DEF FlagInv, FlagTrue, Ahead
  <2>4. process = "serving" /\ ~early => Single' /\ FlagTrue'
    BY <1>1, <1>3, <2>1, <2>3 DEF Single, FlagTrue, Ahead
  <2>5. process = "preparing" => early
    BY <1>3 DEF FlagInv
  <2> QED
    BY <1>1, <1>3, <2>2, <2>4, <2>5 DEF FlagInv, Cancelling, FlagTrue
<1> QED
  BY <1>2, <1>3 DEF Connect

LEMMA ThreadFlag ==
  ASSUME KeyInv, FlagInv, NEW c \in Calls, Threads(c)
  PROVE  FlagInv'
<1>0. CallShape
  BY DEF KeyInv
<1>1. CASE Refuse(c) \/ Look(c) \/ Leave(c) \/ Query(c) \/ Stop(c) \/ Results(c)
  <2>1. UNCHANGED <<process, busy, early, mailbox, line, hand, turn, cancels>>
    BY <1>1 DEF Refuse, Look, Leave, Query, Stop, Results, queryKeeps, front
  <2>2. Stage(c) # "holding" /\ ((\E a : calls' = Answered(c, a)) \/ (process = "serving" /\ calls' = Staged(c, "new")))
    <3>1. CASE Refuse(c) \/ Leave(c)
      BY <3>1 DEF Refuse, Leave
    <3>2. CASE Look(c)
      <4>1. Stage(c) = "ready" /\ process = "serving"
        BY <3>2 DEF Look
      <4>2. calls' = Staged(c, "new") \/ calls' = Answered(c, Retained(c)) \/ calls' = Answered(c, <<"conflict">>)
        BY <3>2, RetainedTrue DEF Look
      <4> QED
        BY <4>1, <4>2
    <3>3. CASE Query(c)
      BY <3>3 DEF Query, Unprepared, Ours
    <3>4. CASE Stop(c) \/ Results(c)
      BY <3>4 DEF Stop, Results, Ours
    <3> QED
      BY <1>1, <3>1, <3>2, <3>3, <3>4
  <2>3. Gently
    BY <1>0, <2>2, GentleAnswer, GentleStage
  <2> QED
    BY <2>1, <2>3, SameFlag
<1> QED
  BY <1>1, PostCancelFlag, HoldFlag, PostFlag, ConnectFlag DEF Threads

\* The loop lets go of the flag it had, and of what it had in hand.
LEMMA Release ==
  ASSUME KeyInv, FlagInv, Ahead, Gently, UNCHANGED <<process, early, mailbox, line, cancels>>,
         busy' = FALSE, hand' = Nobody
  PROVE  FlagInv'
<1>1. Cancelling'
  BY KeepCancelling DEF Gently
<1>2. process \notin {"down"} /\ (process \in {"starting", "preparing"} => early)
  BY DEF FlagInv, Quiet, Ahead
<1>3. process = "serving" /\ ~early =>
          mailbox = <<>> /\ line = <<>> /\ \A d \in Calls : Stage(d) # "holding"
  <2>1. process = "serving" /\ ~early => Single
    BY DEF FlagInv
  <2>2. Single => mailbox = <<>> /\ line = <<>>
    BY DEF Single
  <2>3. ASSUME Single, NEW d \in Calls, Stage(d) = "holding" PROVE FALSE
    BY <2>3 DEF Single
  <2> QED
    BY <2>1, <2>2, <2>3
<1>4. process = "serving" /\ ~early => Single' /\ FlagTrue'
  BY <1>3 DEF Single, FlagTrue, Gently
<1> QED
  BY <1>1, <1>2, <1>4 DEF FlagInv, Cancelling, FlagTrue

\* Without anything in hand a part of the loop passes on to the next.
LEMMA PassOn ==
  ASSUME KeyInv, FlagInv, Gently, UNCHANGED <<process, busy, early, mailbox, line, cancels>>,
         hand' = Nobody, ~Ahead
  PROVE  FlagInv'
<1>1. Cancelling'
  BY KeepCancelling DEF Gently
<1> QED
  BY <1>1, FlagFrame DEF Ahead

\* It goes on with what it has in hand.
LEMMA GoOn ==
  ASSUME KeyInv, FlagInv, Gently, UNCHANGED <<process, busy, early, mailbox, line, cancels, turn>>,
         hand # Nobody, hand[1] \in Calls, NEW s \in Steps, NEW x, hand' = <<hand[1], s, x>>
  PROVE  FlagInv'
<1>1. \A i \in 1..Len(cancels) : cancels[i] \in Calls
  BY DEF KeyInv, HandShape
<1>2. Takes(hand)' /\ hand'[1] = hand[1] /\ hand' # Nobody
  BY DEF Takes, Nobody
<1>3. Cancelling'
  BY <1>1, <1>2 DEF Cancelling, FlagInv, Gently, Asked
<1> QED
  BY <1>2, <1>3, FlagFrame DEF Ahead

LEMMA CloseFlag ==
  ASSUME KeyInv, FlagInv, NEW a, hand # Nobody, hand[1] \in Calls, Close(hand[1], a),
         UNCHANGED <<process, early, mailbox, line, cancels>>
  PROVE  FlagInv'
<1>1. Gently
  BY GentleAnswer DEF Close, KeyInv
<1>2. CASE turn # "cancel"
  BY <1>1, <1>2, Release DEF Close, Ahead
<1>3. CASE turn = "cancel"
  BY <1>1, <1>3, PassOn DEF Close, Ahead
<1> QED
  BY <1>2, <1>3

\* One of the mailboxes is emptied into the hand.
LEMMA TakeFlag ==
  ASSUME KeyInv, FlagInv, hand = Nobody, turn # "cancel", turn' = turn, hand' # Nobody, calls' = calls,
         UNCHANGED <<process, busy, early, cancels>>,
         \/ mailbox # <<>> /\ mailbox' = <<>> /\ line' = line
         \/ line # <<>> /\ line' = <<>> /\ mailbox' = mailbox
  PROVE  FlagInv'
<1>1. Gently
  BY GentleStay
<1>2. Cancelling'
  BY <1>1, KeepCancelling DEF Gently
<1>3. process # "down" /\ (process \in {"starting", "preparing"} => early)
  BY DEF FlagInv, Quiet
<1>4. process = "serving" /\ ~early => busy /\ Single
  BY DEF FlagInv, FlagTrue
<1>5. process = "serving" /\ ~early => mailbox' = <<>> /\ line' = <<>> /\ \A d \in Calls : Stage(d) # "holding"
  <2>1. Single => mailbox' = <<>> /\ line' = <<>>
    BY DEF Single
  <2>2. ASSUME Single, NEW d \in Calls, Stage(d) = "holding" PROVE FALSE
    BY <2>2 DEF Single
  <2> QED
    BY <1>4, <2>1, <2>2
<1>6. process = "serving" /\ ~early => Single' /\ FlagTrue'
  BY <1>1, <1>4, <1>5 DEF Single, FlagTrue, Gently
<1> QED
  BY <1>2, <1>3, <1>6 DEF FlagInv, Cancelling, FlagTrue

LEMMA TakingFlag ==
  ASSUME KeyInv, FlagInv, \/ TakeCommand \/ TakeLine("schedule") \/ TakeLine("submit")
                          \/ Pass \/ PassEnds \/ TakeCancel
  PROVE  FlagInv'
<1>1. calls' = calls /\ UNCHANGED <<process, early>>
  BY DEF TakeCommand, TakeLine, Pass, PassEnds, TakeCancel, loopKeeps
<1>2. Gently
  BY <1>1, GentleStay
<1>3. CASE TakeCommand
  <2>1. hand = Nobody /\ turn = "api" /\ UNCHANGED <<busy, line, cancels>>
    BY <1>3 DEF TakeCommand, Idle
  <2>2. \/ mailbox' = mailbox /\ hand' = Nobody
        \/ mailbox # <<>> /\ mailbox' = <<>> /\ hand' = <<mailbox[1], "check", <<>>>> /\ turn' = turn
    BY <1>3, <2>1 DEF TakeCommand
  <2>3. CASE mailbox' = mailbox /\ hand' = Nobody
    BY <1>1, <1>2, <2>1, <2>3, PassOn DEF Ahead
  <2>4. CASE mailbox # <<>> /\ mailbox' = <<>> /\ hand' = <<mailbox[1], "check", <<>>>> /\ turn' = turn
    <3>1. hand' # Nobody
      BY <2>4 DEF Nobody
    <3> QED
      BY <1>1, <2>1, <2>4, <3>1, TakeFlag
  <2> QED
    BY <2>2, <2>3, <2>4
<1>4. CASE TakeLine("schedule") \/ TakeLine("submit")
  <2>1. hand = Nobody /\ turn # "cancel" /\ UNCHANGED <<busy, mailbox, cancels>>
    BY <1>4 DEF TakeLine, Idle
  <2>2. \/ line' = line /\ hand' = Nobody
        \/ line # <<>> /\ line' = <<>> /\ hand' = <<line[1], "check", <<>>>> /\ turn' = turn
    BY <1>4, <2>1 DEF TakeLine
  <2>3. CASE line' = line /\ hand' = Nobody
    BY <1>1, <1>2, <2>1, <2>3, PassOn DEF Ahead
  <2>4. CASE line # <<>> /\ line' = <<>> /\ hand' = <<line[1], "check", <<>>>> /\ turn' = turn
    <3>1. hand' # Nobody
      BY <2>4 DEF Nobody
    <3> QED
      BY <1>1, <2>1, <2>4, <3>1, TakeFlag
  <2> QED
    BY <2>2, <2>3, <2>4
<1>5. CASE Pass
  <2>1. hand = Nobody /\ turn = "pass" /\ process = "serving" /\ UNCHANGED <<mailbox, line, cancels>>
    BY <1>5 DEF Pass, Idle
  <2>2. \/ busy' = busy /\ hand' = Nobody
        \/ ~busy /\ busy' = TRUE /\ hand' = PassInHand /\ turn' = turn
    BY <1>5, <2>1 DEF Pass
  <2>3. CASE busy' = busy /\ hand' = Nobody
    BY <1>1, <1>2, <2>1, <2>3, PassOn DEF Ahead
  <2>4. CASE ~busy /\ busy' = TRUE /\ hand' = PassInHand /\ turn' = turn
    <3>1. Cancelling'
      BY <1>2, <2>1, <2>4, KeepCancelling DEF Gently
    <3>2. ~early => mailbox = <<>> /\ line = <<>> /\ \A d \in Calls : Stage(d) # "holding"
      BY <2>1, <2>4 DEF FlagInv, FlagTrue
    <3>3. hand' # Nobody
      BY <2>4 DEF PassInHand, Nobody
    <3>4. ~early => Single' /\ FlagTrue'
      BY <1>1, <1>2, <2>1, <2>4, <3>2, <3>3 DEF Single, FlagTrue, Gently
    <3> QED
      BY <1>1, <2>1, <2>4, <3>1, <3>4 DEF FlagInv, Cancelling, FlagTrue
  <2> QED
    BY <2>2, <2>3, <2>4
<1>6. CASE PassEnds
  <2>1. turn # "cancel" /\ hand # Nobody
    BY <1>6 DEF PassEnds, PassInHand, Nobody, FlagInv, Takes, Steps
  <2> QED
    BY <1>1, <1>2, <1>6, <2>1, Release DEF PassEnds, Ahead
<1>7. CASE TakeCancel
  <2>1. hand = Nobody /\ turn = "cancel" /\ process = "serving" /\ UNCHANGED <<busy, mailbox, line>>
    BY <1>7 DEF TakeCancel, Idle
  <2>2. CASE cancels = <<>>
    BY <1>1, <1>2, <1>7, <2>1, <2>2, PassOn DEF TakeCancel, Ahead
  <2>3. CASE cancels # <<>>
    <3>1. cancels \in Seq(Calls) /\ cancels # <<>>
      BY <2>3 DEF KeyInv, HandShape
    <3>2. /\ Head(cancels) = cancels[1] /\ 1 \in 1..Len(cancels)
          /\ \A i \in 1..Len(Tail(cancels)) : Tail(cancels)[i] = cancels[i + 1] /\ i + 1 \in 1..Len(cancels)
          /\ \A i \in 1..Len(cancels) : cancels[i] \in Calls
      BY <3>1
    <3>3. cancels' = Tail(cancels) /\ hand' = <<cancels[1], "check", <<>>>> /\ turn' = turn
      BY <1>7, <2>3, <3>2 DEF TakeCancel
    <3>4. Takes(hand)' /\ hand'[1] = cancels[1]
      BY <3>2, <3>3 DEF Takes, Steps
    <3>5. Cancelling'
      BY <1>1, <3>2, <3>3, <3>4 DEF Cancelling, FlagInv, Asked
    <3> QED
      BY <1>1, <1>2, <2>1, <3>3, <3>5, FlagFrame DEF Ahead
  <2> QED
    BY <2>2, <2>3
<1> QED
  BY <1>3, <1>4, <1>5, <1>6, <1>7

LEMMA LoopFlag ==
  ASSUME KeyInv, FlagInv, Loop
  PROVE  FlagInv'
<1>1. CASE TakeCommand \/ TakeLine("schedule") \/ TakeLine("submit") \/ Pass \/ PassEnds \/ TakeCancel
  BY <1>1, TakingFlag
<1>2. CASE ReserveFirst \/ Work \/ Conclude \/ CheckSchedule \/ SaveSchedule \/ Submit
  <2>1. hand # Nobody /\ hand[1] \in Calls
    BY <1>2, InHandShape DEF ReserveFirst, Work, Conclude, CheckSchedule, SaveSchedule, Submit, InHand
  <2>2. UNCHANGED <<process, early, mailbox, line, cancels>>
    BY <1>2 DEF ReserveFirst, Work, Conclude, CheckSchedule, SaveSchedule, Submit, loopKeeps
  <2>3. \/ \E a : Close(hand[1], a)
        \/ \E s \in Steps : \E x : hand' = <<hand[1], s, x>> /\ UNCHANGED <<calls, busy, turn>>
        \/ Submit /\ \E a : calls' = Replied(hand[1], a) /\ hand' = Nobody /\ busy' = FALSE
    <3>1. CASE ReserveFirst
      <4>1. \/ \E a : Close(hand[1], a)
            \/ hand' = <<hand[1], "work", <<>>>> /\ UNCHANGED <<calls, busy, turn>>
        BY <3>1 DEF ReserveFirst
      <4> QED
        BY <4>1 DEF Steps
    <3>2. CASE Work
      <4>1. \E x : hand' = <<hand[1], "answer", x>> /\ UNCHANGED <<calls, busy, turn>>
        BY <3>2 DEF Work
      <4> QED
        BY <4>1 DEF Steps
    <3>3. CASE CheckSchedule
      <4>1. \/ \E a : Close(hand[1], a)
            \/ hand' = <<hand[1], "save", <<>>>> /\ UNCHANGED <<calls, busy, turn>>
        BY <3>3 DEF CheckSchedule
      <4> QED
        BY <4>1 DEF Steps
    <3>4. CASE Conclude \/ SaveSchedule
      BY <3>4 DEF Conclude, SaveSchedule
    <3>5. CASE Submit
      BY <3>5 DEF Submit
    <3> QED
      BY <1>2, <3>1, <3>2, <3>3, <3>4, <3>5
  <2>4. CASE \E a : Close(hand[1], a)
    BY <2>1, <2>2, <2>4, CloseFlag
  <2>5. CASE \E s \in Steps : \E x : hand' = <<hand[1], s, x>> /\ UNCHANGED <<calls, busy, turn>>
    BY <2>1, <2>2, <2>5, GentleStay, GoOn
  <2>6. CASE Submit /\ \E a : calls' = Replied(hand[1], a) /\ hand' = Nobody /\ busy' = FALSE
    <3>1. Gently
      BY <2>1, <2>6, GentleAnswer DEF KeyInv
    <3>2. Ahead
      BY <2>1, <2>6 DEF Ahead, Submit, FlagInv
    <3> QED
      BY <2>2, <2>6, <3>1, <3>2, Release
  <2> QED
    BY <2>3, <2>4, <2>5, <2>6
<1> QED
  BY <1>1, <1>2 DEF Loop

\* The build threads share the cancellations with the loop.
LEMMA AideFlag ==
  ASSUME KeyInv, FlagInv, Aide
  PROVE  FlagInv'
<1>1. UNCHANGED <<process, busy, early, mailbox, line, turn, hand>>
  BY DEF Aide, AideTakes, AideReserves, AideWorks, AideConcludes, aideKeeps
<1>2. CASE AideTakes
  <2>1. cancels \in Seq(Calls) /\ cancels # <<>> /\ cancels' = Tail(cancels) /\ calls' = calls
    BY <1>2 DEF KeyInv, HandShape, AideTakes
  <2>2. \A i \in 1..Len(Tail(cancels)) : Tail(cancels)[i] = cancels[i + 1] /\ i + 1 \in 1..Len(cancels)
    BY <2>1
  <2>3. Cancelling'
    BY <1>1, <2>1, <2>2 DEF Cancelling, FlagInv, Asked, Takes
  <2> QED
    BY <1>1, <2>1, <2>3, GentleStay, FlagFrame DEF Ahead
<1>3. CASE AideReserves \/ AideWorks \/ AideConcludes
  <2>1. cancels' = cancels /\ (calls' = calls \/ \E a : aide[1] \in Calls /\ calls' = Replied(aide[1], a))
    BY <1>3 DEF AideReserves, AideWorks, AideConcludes, KeyInv, HandShape, Takes
  <2>2. Gently
    BY <2>1, GentleStay, GentleAnswer DEF KeyInv
  <2> QED
    BY <1>1, <2>1, <2>2, SameFlag
<1> QED
  BY <1>2, <1>3 DEF Aide

LEMMA LifeFlag ==
  ASSUME KeyInv, FlagInv, Start \/ Prepare \/ Halt
  PROVE  FlagInv'
<1>1. calls' = calls /\ UNCHANGED <<mailbox, line, cancels, hand>>
  BY DEF Start, Prepare, Halt
<1>2. \A d \in Calls : Asked(d)' = Asked(d) /\ Stage(d)' = Stage(d)
  BY <1>1 DEF Asked, Stage
<1>3. Quiet => Quiet'
  BY <1>1, <1>2 DEF Quiet
<1>4. CASE Start
  <2>1. Quiet /\ process' = "starting" /\ busy' = FALSE /\ early' = FALSE
    BY <1>4 DEF Start, FlagInv
  <2>2. Cancelling'
    BY <1>1, <1>2, <2>1, KeepCancelling DEF Quiet
  <2> QED
    BY <1>3, <2>1, <2>2 DEF FlagInv, Cancelling, FlagTrue
<1>5. CASE Prepare
  <2>1. /\ process' = IF process = "starting" THEN "preparing" ELSE "serving"
        /\ process \in {"starting", "preparing"}
        /\ busy' = (process = "starting") /\ early' = early /\ turn' = turn
    BY <1>5 DEF Prepare
  <2>2. Cancelling'
    BY <1>1, <1>2, <2>1, KeepCancelling
  <2>3. ~early => Quiet'
    BY <1>3, <2>1 DEF FlagInv
  <2>4. Quiet' => Single'
    BY DEF Quiet, Single
  <2>5. Quiet' /\ ~busy' => FlagTrue'
    BY DEF Quiet, FlagTrue
  <2>6. CASE process = "starting"
    BY <2>1, <2>2, <2>3, <2>6 DEF FlagInv, Cancelling, FlagTrue
  <2>7. CASE process = "preparing"
    <3>1. process' = "serving" /\ busy' = FALSE
      BY <2>1, <2>7
    <3> QED
      BY <2>1, <2>2, <2>3, <2>4, <2>5, <3>1 DEF FlagInv, Cancelling, FlagTrue
  <2> QED
    BY <2>1, <2>6, <2>7
<1>6. CASE Halt
  <2>1. process' = "stopping" /\ UNCHANGED <<busy, early, turn>>
    BY <1>6 DEF Halt
  <2>2. Cancelling'
    BY <1>1, <1>2, <2>1, KeepCancelling
  <2> QED
    BY <2>1, <2>2 DEF FlagInv, Cancelling, FlagTrue
<1> QED
  BY <1>4, <1>5, <1>6

\* Nothing is left that the flag could stand for.
LEMMA DiesFlag ==
  ASSUME KeyInv, FlagInv, NEW a, Dies(a)
  PROVE  FlagInv'
<1>1. ASSUME NEW d \in Calls PROVE Stage(d)' \notin {"new", "holding"}
  <2>1. calls'[d] = IF Stage(d) \in {"new", "holding", "waiting"}
                    THEN [calls[d] EXCEPT !.stage = "answered", !.answer = a] ELSE calls[d]
    BY DEF Dies
  <2>2. calls[d] = [request |-> calls[d].request, via |-> calls[d].via,
                    stage |-> calls[d].stage, answer |-> calls[d].answer]
    BY DEF KeyInv, CallShape
  <2>3. [calls[d] EXCEPT !.stage = "answered", !.answer = a].stage = "answered"
    BY <2>2
  <2> QED
    BY <2>1, <2>3 DEF Stage
<1>2. /\ process' = "down" /\ busy' = FALSE /\ early' = FALSE /\ mailbox' = <<>> /\ line' = <<>>
      /\ cancels' = <<>> /\ hand' = Nobody
  BY DEF Dies
<1>3. Quiet' /\ FlagTrue'
  BY <1>1, <1>2 DEF Quiet, FlagTrue
<1>4. 1..Len(<<>>) = {}
  OBVIOUS
<1>5. \A i \in 1..Len(cancels') : FALSE
  BY <1>2, <1>4
<1> QED
  BY <1>2, <1>3, <1>5 DEF FlagInv

LEMMA InitFlag ==
  ASSUME ServeInit
  PROVE  FlagInv
<1>1. /\ process = "down" /\ busy = FALSE /\ early = FALSE /\ mailbox = <<>> /\ line = <<>>
      /\ cancels = <<>> /\ hand = Nobody
  BY DEF ServeInit
<1>2. PICK w \in Workloads : calls = [c \in Calls |->
          [request |-> [kind |-> w[c].kind, key |-> w[c].key, etag |-> w[c].etag],
           via |-> w[c].via, stage |-> "ready", answer |-> <<>>]]
  BY DEF ServeInit
<1>3. \A c \in Calls : Stage(c) = "ready"
  BY <1>2 DEF Stage
<1>4. Quiet /\ FlagTrue
  BY <1>1, <1>3 DEF Quiet, FlagTrue
<1>5. 1..Len(<<>>) = {}
  OBVIOUS
<1>6. \A i \in 1..Len(cancels) : FALSE
  BY <1>1, <1>5
<1> QED
  BY <1>1, <1>4, <1>6 DEF FlagInv

LEMMA NextFlag ==
  ASSUME KeyInv, FlagInv, [ServeNext]_serveVars
  PROVE  FlagInv'
<1>1. CASE \E c \in Calls : Threads(c)
  BY <1>1, ThreadFlag
<1>2. CASE (\E k \in Keys : Job(k) \/ Age(k)) \/ Pool \/ Off \/ UNCHANGED serveVars
  <2>1. calls' = calls /\ UNCHANGED front
    BY <1>2 DEF Job, Age, AskPool, Await, Bind, Help, Reap, AcceptResult, Tidy, GiveBack, Publish,
                Pool, Off, serveVars, threadKeeps, queryKeeps
  <2> QED
    BY <2>1, GentleStay, SameFlag, SMTT(30) DEF front
<1>3. CASE Start \/ Prepare \/ Halt
  BY <1>3, LifeFlag
<1>4. CASE Loop
  BY <1>4, LoopFlag
<1>5. CASE Aide
  BY <1>5, AideFlag
<1>6. CASE Stopped \/ Crash
  BY <1>6, DiesFlag DEF Stopped, Crash
<1> QED
  BY <1>1, <1>2, <1>3, <1>4, <1>5, <1>6 DEF ServeNext

\* The flag is up exactly while something is before the loop: it neither leaks
\* nor lets a second request in (Endpoint.busy).
THEOREM FlagStands == ServeSpec => []FlagTrue
<1>1. FlagInv => FlagTrue
  BY DEF FlagInv
<1> QED
  BY <1>1, InitKeys, NextKeys, InitFlag, NextFlag, PTL DEF ServeSpec

-----------------------------------------------------------------------------
(* The pool under the server: its callers are the query threads and the
   builds, and a life that ends takes the pool with it. *)

\* A step of the server is a step of the pool, leaves it alone or begins it anew.
LEMMA PoolStep ==
  ASSUME TypeOK, [ServeNext]_serveVars
  PROVE  [Next]_vars \/ Init'
<1>1. \A k \in Keys : k \in Requests
  BY ServeAssumption, CapacityAssumption
<1>2. CASE \E c \in Calls : Threads(c)
  <2>1. PICK c \in Calls : Threads(c)
    BY <1>2
  <2>2. UNCHANGED vars
    BY <2>1 DEF Threads, Refuse, Look, PostCancel, Hold, Post, Leave, Connect, Query, Stop, Results, queryKeeps
  <2> QED
    BY <2>2
<1>3. ASSUME NEW k \in Keys, Job(k) PROVE [Next]_vars
  <2>1. k \in Requests
    BY <1>1
  <2>2. CASE UNCHANGED vars
    BY <2>2
  <2>3. CASE Request(k) \/ DropRequest(k) \/ PollReady(k) \/ PollPending(k) \/ Checkout(k) \/ Checkin(k)
    BY <2>1, <2>3 DEF Next, Poll
  <2>4. CASE GiveBack(k)
    <3>1. PICK h \in handles[k] : Unhandle(k, h)
      BY <2>4 DEF GiveBack
    <3>2. h \in Handles
      BY <2>1 DEF TypeOK
    <3> QED
      BY <2>1, <3>1, <3>2 DEF Next, Drop
  <2> QED
    BY <1>3, <2>2, <2>3, <2>4 DEF Job, AskPool, Await, Bind, Help, Reap, AcceptResult, Tidy, Publish
<1>4. CASE \E k \in Keys : Age(k)
  BY <1>4 DEF Age, queryKeeps
<1>5. CASE Start \/ Prepare \/ Halt
  BY <1>5 DEF Start, Prepare, Halt
<1>6. CASE Loop
  BY <1>6 DEF Loop, TakeCommand, TakeLine, Pass, PassEnds, TakeCancel, ReserveFirst, Work, Conclude,
              CheckSchedule, SaveSchedule, Submit, loopKeeps
<1>7. CASE Aide
  BY <1>7 DEF Aide, AideTakes, AideReserves, AideWorks, AideConcludes, aideKeeps
<1>8. CASE Pool
  <2>1. CASE \E r \in Requests : Notify(r)
    BY <2>1 DEF Next
  <2>2. CASE \E k \in Keys : Unhandle(k, "leaving")
    BY <1>1, <2>2 DEF Next, Drop, Handles
  <2>3. CASE \E r \in Requests \ Keys : Request(r) \/ Poll(r) \/ DropRequest(r) \/ Unhandle(r, "reservation")
    BY <2>3 DEF Next, Drop, Handles
  <2> QED
    BY <1>8, <2>1, <2>2, <2>3 DEF Pool
<1>9. CASE Stopped \/ Crash
  BY <1>9 DEF Stopped, Crash, Dies, Init
<1>10. CASE Off \/ UNCHANGED serveVars
  BY <1>10 DEF Off, serveVars
<1> QED
  BY <1>2, <1>3, <1>4, <1>5, <1>6, <1>7, <1>8, <1>9, <1>10 DEF ServeNext

PoolInv == TypeOK /\ WInv /\ UInv

LEMMA PoolBegins == Init => PoolInv
BY TypeBegins, WakeBegins, UsageBegins DEF PoolInv

LEMMA PoolKept == ASSUME PoolInv, [ServeNext]_serveVars PROVE PoolInv'
<1>1. CASE Next
  BY <1>1, TypeStep, WakeStep, UsageStep DEF PoolInv
<1>2. CASE UNCHANGED vars
  BY <1>2, TypeStays, WakeStays, UsageStays DEF PoolInv
<1>3. Init' => PoolInv'
  BY PoolBegins, PTL
<1> QED
  BY <1>1, <1>2, <1>3, PoolStep DEF PoolInv

\* However jobs are cancelled, fail or are killed: the pool has given out what
\* is in use, and no more than there is (execute_inner, Reservation, WorkerPermit).
THEOREM ServerCapacity == ServeSpec => []UsageExact
<1>1. ServeInit => PoolInv
  BY PoolBegins DEF ServeInit
<1>2. PoolInv => UsageExact
  BY UsageMeans DEF PoolInv
<1> QED
  BY <1>1, <1>2, PoolKept, PTL DEF ServeSpec

\* No query or build of the server sleeps beside capacity that fits it.
THEOREM ServerWakeups == ServeSpec => []NoLostWakeup
<1>1. ServeInit => PoolInv
  BY PoolBegins DEF ServeInit
<1>2. PoolInv => NoLostWakeup
  BY DEF PoolInv, WInv
<1> QED
  BY <1>1, <1>2, PoolKept, PTL DEF ServeSpec
=============================================================================
