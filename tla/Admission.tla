----------------------------- MODULE Admission -----------------------------
(***************************************************************************)
(* The pool that hands out job slots, CPU tokens and estimated memory      *)
(* (crates/tf-exec/src/admission.rs): one mutex around usage and a FIFO    *)
(* queue, futures polled by their tasks, and capacity returned when the    *)
(* last handle of a lease is dropped.                                      *)
(*                                                                         *)
(* A critical section under the mutex is one action.  The wakers copied    *)
(* inside it are called after the unlock, in any order and as late as the  *)
(* scheduler likes: they are the set ringing.  A waker of a future that is  *)
(* gone wakes nothing and leaves the set.                                  *)
(*                                                                         *)
(* An Async request is a future its task awaits (a query); it parks when   *)
(* it is pending and is polled again after a wake.  Any other request is   *)
(* a try_reserve of a dispatcher, polled once with a waker that does       *)
(* nothing and dropped.  Both may be asked for again.                      *)
(***************************************************************************)
EXTENDS Integers, Sequences, FiniteSetsExt, SequencesExt

CONSTANTS
    Requests,    \* the callers, each with one request or lease at a time
    Async,       \* the callers that await; the others try
    Resources,   \* job slots, CPU, memory
    Capacity,    \* Capacity[k]
    Demand,      \* Demand[r][k]: what r asks for, 1 job slot among it
    QueueLimit   \* Capacity.queue

ASSUME CapacityAssumption ==
    /\ Async \subseteq Requests
    /\ Capacity \in [Resources -> Nat \ {0}]
    /\ Demand \in [Requests -> [Resources -> Nat]]
    /\ QueueLimit \in Nat \ {0}
\* request refuses what can never fit before it enters the queue.
ASSUME FeasibleAssumption ==
    \A r \in Requests, k \in Resources : Demand[r][k] <= Capacity[k]

VARIABLES
    usage,     \* State.usage
    queue,     \* State.queue, oldest first
    waker,     \* waker[r]: the waiter of r has stored its waker
    task,      \* the caller: idle, ready to poll, parked, or gone (a failed try)
    ringing,   \* wakers copied under the mutex and not called yet
    handles    \* handles[r]: what keeps the lease of r alive

queueVars == <<queue, waker, task, ringing>>
vars == <<usage, queueVars, handles>>

\* reservation: the Reservation; permit: the WorkerPermit checked out of it;
\* leaving: a permit that gave the slot back and still owns its Arc.
Handles == {"reservation", "permit", "leaving"}

Init ==
    /\ usage = [k \in Resources |-> 0]
    /\ queue = <<>> /\ waker = [r \in Requests |-> FALSE]
    /\ task = [r \in Requests |-> "idle"]
    /\ ringing = {} /\ handles = [r \in Requests |-> {}]

Queued == {queue[i] : i \in 1..Len(queue)}

\* wake: the wakers stored by the waiters that stay in the queue q.
Wake(q, w) == {q[i] : i \in {n \in 1..Len(q) : w[q[n]]}}

\* Admission::request.  A full queue refuses.
Request(r) ==
    /\ task[r] = "idle" /\ handles[r] = {}
    /\ Len(queue) < QueueLimit
    /\ queue' = Append(queue, r)
    /\ waker' = [waker EXCEPT ![r] = FALSE]
    /\ task' = [task EXCEPT ![r] = "ready"]
    /\ UNCHANGED <<usage, ringing, handles>>

\* The oldest request, and all it asks for at once.
Fits(r) == r = queue[1] /\ \A k \in Resources : Demand[r][k] <= Capacity[k] - usage[k]

\* Request::poll when it fits: off the queue, capacity taken, others woken.
PollReady(r) ==
    /\ r \in Queued /\ task[r] \in {"ready", "parked"} /\ Fits(r)
    /\ queue' = Tail(queue)
    /\ usage' = [k \in Resources |-> usage[k] + Demand[r][k]]
    /\ ringing' = (ringing \ {r}) \cup Wake(queue', waker)
    /\ handles' = [handles EXCEPT ![r] = {"reservation"}]
    /\ task' = [task EXCEPT ![r] = "idle"]
    /\ UNCHANGED waker

\* Mutant: the waker is kept only by a request at the head.
StoresAtHead(r) == r \in Async /\ r = queue[1]
Stores(r) == r \in Async

\* Request::poll when it does not: the task parks; a try gives up.
PollPending(r) ==
    /\ r \in Queued /\ task[r] \in {"ready", "parked"} /\ ~Fits(r)
    /\ waker' = [waker EXCEPT ![r] = Stores(r)]
    /\ task' = [task EXCEPT ![r] = IF r \in Async THEN "parked" ELSE "gone"]
    /\ UNCHANGED <<usage, queue, ringing, handles>>

\* The queue without its waiter at i; mutant: without its oldest.
WithoutOldest(q, i) == Tail(q)
Without(q, i) == RemoveAt(q, i)

\* Request::drop: a failed try, or a task canceled while it waits.
DropRequest(r) ==
    /\ r \in Queued /\ (task[r] = "gone" \/ r \in Async)
    /\ \E i \in 1..Len(queue) : queue[i] = r /\ queue' = Without(queue, i)
    /\ ringing' = (ringing \ {r}) \cup Wake(queue', waker)
    /\ task' = [task EXCEPT ![r] = "idle"]
    /\ UNCHANGED <<usage, waker, handles>>

\* notify: a waker is called; a parked task will poll, a later one ignores it.
Notify(r) ==
    /\ r \in ringing
    /\ ringing' = ringing \ {r}
    /\ task' = [task EXCEPT ![r] = IF @ = "parked" THEN "ready" ELSE @]
    /\ UNCHANGED <<usage, queue, waker, handles>>

\* Reservation::worker: one permit at a time.
Checkout(r) ==
    /\ "reservation" \in handles[r] /\ "permit" \notin handles[r]
    /\ handles' = [handles EXCEPT ![r] = @ \cup {"permit"}]
    /\ UNCHANGED <<usage, queueVars>>

\* WorkerPermit::drop stores the flag before its Arc goes (bound: one leaving).
Checkin(r) ==
    /\ "permit" \in handles[r] /\ "leaving" \notin handles[r]
    /\ handles' = [handles EXCEPT ![r] = (@ \ {"permit"}) \cup {"leaving"}]
    /\ UNCHANGED <<usage, queueVars>>

\* Mutant: the caller's handle returns the capacity.
FinalEarly(r, h) == h = "reservation"
Final(r, h) == handles[r] = {h}

\* A handle goes; the last one is Lease::drop and returns the capacity.
Unhandle(r, h) ==
    /\ h \in handles[r] /\ h # "permit"
    /\ handles' = [handles EXCEPT ![r] = @ \ {h}]
    /\ \/ /\ Final(r, h)
          /\ usage' = [k \in Resources |-> usage[k] - Demand[r][k]]
          /\ ringing' = ringing \cup Wake(queue, waker)
       \/ ~Final(r, h) /\ UNCHANGED <<usage, ringing>>
    /\ UNCHANGED <<queue, waker, task>>

Poll(r) == PollReady(r) \/ PollPending(r)
Drop(r) == \E h \in Handles : Unhandle(r, h)

Next == \E r \in Requests :
    \/ Request(r) \/ Poll(r) \/ DropRequest(r) \/ Notify(r)
    \/ Checkout(r) \/ Checkin(r) \/ Drop(r)

Spec == Init /\ [][Next]_vars

----------------------------------------------------------------------------
Alive == {r \in Requests : handles[r] # {}}

\* Types: the queue holds each waiting request once, a caller that waits holds no lease, and only a waiter has a task.
TypeOK ==
    /\ usage \in [Resources -> Int] /\ queue \in Seq(Requests)
    /\ waker \in [Requests -> BOOLEAN]
    /\ task \in [Requests -> {"idle", "ready", "parked", "gone"}]
    /\ ringing \subseteq Requests
    /\ handles \in [Requests -> SUBSET Handles]
    /\ \A r \in Requests : task[r] # "idle" <=> r \in Queued
    /\ \A r \in Queued : handles[r] = {}
    /\ \A i, j \in 1..Len(queue) : queue[i] = queue[j] => i = j

\* Capacity is never oversold and never lost: usage is exactly the demand of the leases something still holds, a worker
\* that outlives the caller who reserved it included (Lease::drop, WorkerPermit).
UsageExact == \A k \in Resources :
    /\ usage[k] = MapThenSumSet(LAMBDA r : Demand[r][k], Alive)
    /\ usage[k] <= Capacity[k]

\* No lost wakeup: when the oldest request fits and its task sleeps, some thread is about to call its waker.
NoLostWakeup == queue # <<>> /\ task[queue[1]] = "parked" /\ Fits(queue[1])
    => queue[1] \in ringing
=============================================================================
