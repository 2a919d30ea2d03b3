---------------------------- MODULE ExternalReads ----------------------------
(* Builds that read the bytes of another workspace in place, under a lease of
   its database: Reads and its renewal thread (transflow/src/external_reads),
   the metadata service of the provider (provider.rs), the loopback transport in
   front of a live coordinator (build_transport.rs, serve.rs) and the lock that
   says whether there is one (tf-exec/src/ownership.rs).

   A build reads one version of its Origin.  A tick of the clock is longer than
   every timeout of the transport, so a call may be given up at any moment. *)
EXTENDS Naturals, Sequences

CONSTANTS
    Spaces,      \* workspaces
    Starts,      \* sets of initial situations: [reads, persistent]
    Free, Coord, Client,
    Ttl,         \* 900 s at the provider
    Margin,      \* 840 s at the reader
    MaxTime      \* bound of the clock

ASSUME Parameters ==
    /\ Margin \in Nat /\ Ttl \in Nat /\ Margin <= Ttl /\ MaxTime \in Nat
    /\ Starts \subseteq [reads : [Spaces -> Spaces], persistent : SUBSET Spaces]

VARIABLES
    now, origin,            \* origin[w]: the workspace a build of w reads, or w
    lock, mode,             \* of a workspace: holder, and its coordinator
    main, listener, mailbox,  \* of a coordinator
    lease, gone,            \* of a provider's database and objects
    stage, polls, thread,   \* of a build: its dispatch, its loop, its renewals
    ticket, call, cut

space == <<lock, mode>>
server == <<main, listener, mailbox>>
provider == <<lease, gone>>
build == <<stage, polls, thread, ticket>>
vars == <<now, origin, space, server, provider, build, call, cut>>

Set(f, w, value) == [f EXCEPT ![w] = value]
NoCall == [kind |-> "none", at |-> "none", asked |-> 0]
NewTicket == [fence |-> 0, confirmed |-> 0]
NoLease == [held |-> FALSE, fence |-> 0, expiry |-> 0]

Init ==
    /\ now = 0
    /\ \E start \in Starts :
        /\ origin = start.reads
        /\ mode = [w \in Spaces |-> IF w \in start.persistent THEN "persistent"
                                    ELSE IF origin[w] # w THEN "temporary" ELSE "none"]
    /\ stage = [w \in Spaces |-> IF origin[w] # w THEN "planned" ELSE "none"]
    /\ lock = [w \in Spaces |-> IF mode[w] = "none" THEN Free ELSE Coord]
    /\ main = [w \in Spaces |-> "idle"] /\ listener = [w \in Spaces |-> Free]
    /\ mailbox = [w \in Spaces |-> <<>>]
    /\ lease = [w \in Spaces |-> NoLease] /\ gone = [w \in Spaces |-> FALSE]
    /\ polls = [w \in Spaces |-> FALSE] /\ thread = [w \in Spaces |-> "none"]
    /\ ticket = [w \in Spaces |-> NewTicket]
    /\ call = [w \in Spaces |-> NoCall] /\ cut = [w \in Spaces |-> FALSE]

Underway(w) == stage[w] \notin {"none", "done", "lost"}
Tick == now < MaxTime /\ (\E w \in Spaces : Underway(w)) /\ now' = now + 1 /\ UNCHANGED <<origin, space, server, provider, build, call, cut>>

-----------------------------------------------------------------------------
(* The provider's service, one transaction of its owner, whoever that is. *)
Request(w) == [from |-> w, kind |-> call[w].kind, fence |-> ticket[w].fence]
Granted(r) ==
    LET l == lease[r.from] IN
    IF r.kind = "resolve" THEN ~gone[origin[r.from]]
    ELSE /\ l.held /\ l.fence = r.fence
         /\ r.kind = "renew" => now < l.expiry
Leased(r) ==
    IF r.kind = "release" THEN NoLease
    ELSE [held |-> TRUE, fence |-> IF r.kind = "resolve" THEN 0 ELSE lease[r.from].fence + 1,
          expiry |-> now + Ttl]
Serve(r) ==
    gone' = gone /\ lease' = IF Granted(r) THEN Set(lease, r.from, Leased(r)) ELSE lease
Answer(r) == IF Granted(r) THEN "answered" ELSE "refused"

\* Collection needs the lock too, and spares what an unexpired lease names.
Protected(p) == \E w \in Spaces : origin[w] = p /\ lease[w].held /\ now < lease[w].expiry
Collect(p) ==
    /\ \E w \in Spaces : origin[w] = p /\ Underway(w)
    /\ lock[p] \in {Free, Coord} /\ ~gone[p] /\ ~Protected(p)
    /\ gone' = Set(gone, p, TRUE)
    /\ UNCHANGED <<now, origin, space, server, lease, build, call, cut>>

-----------------------------------------------------------------------------
(* provider::call.  discover takes the lock for a moment to see that nobody has
   it; whom it finds holding it, it asks, if a registration is there to read. *)
At(w, kind) == call[w].at = kind
Goes(w, at) == call' = [call EXCEPT ![w].at = at] /\ cut' = cut
Fails(w) == call' = [call EXCEPT ![w].at = "refused"] /\ cut' = Set(cut, w, TRUE)
Discover(w) ==
    /\ At(w, "start")
    /\ IF lock[origin[w]] = Free THEN Goes(w, "probing") /\ lock' = Set(lock, origin[w], w)
       ELSE IF lock[origin[w]] = Coord THEN Goes(w, "connecting") /\ lock' = lock
       ELSE Fails(w) /\ lock' = lock
    /\ UNCHANGED <<now, origin, mode, server, provider, build>>
Unlocked(w) ==
    /\ At(w, "probing") /\ Goes(w, "unowned") /\ lock' = Set(lock, origin[w], Free)
    /\ UNCHANGED <<now, origin, mode, server, provider, build>>
AcquireMetadata(w) ==
    /\ At(w, "unowned")
    /\ IF lock[origin[w]] = Free THEN Goes(w, "owning") /\ lock' = Set(lock, origin[w], w)
       ELSE Fails(w) /\ lock' = lock
    /\ UNCHANGED <<now, origin, mode, server, provider, build>>
ServeItself(w) ==
    /\ At(w, "owning") /\ Serve(Request(w)) /\ Goes(w, Answer(Request(w)))
    /\ lock' = Set(lock, origin[w], Free)
    /\ UNCHANGED <<now, origin, mode, server, build>>

\* The listener serves one connection until it is answered.
Connect(w) ==
    /\ At(w, "connecting") /\ lock[origin[w]] = Coord /\ listener[origin[w]] = Free
    /\ listener' = Set(listener, origin[w], w)
    /\ mailbox' = [mailbox EXCEPT ![origin[w]] = Append(@, Request(w))]
    /\ Goes(w, "waiting")
    /\ UNCHANGED <<now, origin, space, main, provider, build>>
\* Ten seconds at the listener, fifteen at the client, or a connection reset.
NeverLate(w) == FALSE    \* mutant: calls without a deadline
Late(w) == call[w].at \in {"connecting", "waiting"}
GiveUp(w) ==
    /\ Late(w) /\ Fails(w)
    /\ listener' = [p \in Spaces |-> IF listener[p] = w THEN Free ELSE listener[p]]
    /\ UNCHANGED <<now, origin, space, main, mailbox, provider, build>>

\* Both loops of a coordinator drain its mailbox; a request that was given up is
\* still there.
Loops(p) ==
    \/ mode[p] = "persistent" /\ main[p] # "preparing"
    \/ stage[p] = "reading" /\ ~polls[p]
Drain(p) ==
    /\ mailbox[p] # <<>> /\ Loops(p)
    /\ LET r == Head(mailbox[p])
           awaited == At(r.from, "waiting") /\ call[r.from].kind = r.kind IN
        /\ Serve(r)
        /\ IF awaited THEN Goes(r.from, Answer(r)) /\ listener' = Set(listener, p, Free)
           ELSE UNCHANGED <<call, cut, listener>>
    /\ mailbox' = [mailbox EXCEPT ![p] = Tail(@)]
    /\ UNCHANGED <<now, origin, space, main, build>>

\* A submission keeps the listener from its arrival to its acceptance, and the
\* main loop while it is prepared.
Submit(p) ==
    /\ mode[p] = "persistent" /\ main[p] = "idle" /\ listener[p] = Free
    /\ main' = Set(main, p, "submitted") /\ listener' = Set(listener, p, Client)
    /\ UNCHANGED <<now, origin, space, mailbox, provider, build, call, cut>>
Take(p) ==
    /\ main[p] = "submitted" /\ main' = Set(main, p, "preparing")
    /\ UNCHANGED <<now, origin, space, listener, mailbox, provider, build, call, cut>>
Prepared(p) ==
    /\ main[p] = "preparing" /\ main' = Set(main, p, "idle") /\ listener' = Set(listener, p, Free)
    /\ UNCHANGED <<now, origin, space, mailbox, provider, build, call, cut>>

-----------------------------------------------------------------------------
(* A build.  Its tickets are behind a mutex the renewal thread keeps through a
   call. *)
Around == UNCHANGED <<now, origin, space, server, provider, cut>>
Ask(w, kind) == call' = Set(call, w, [kind |-> kind, at |-> "start", asked |-> now])
Returned(w) == call[w].at \in {"answered", "refused"}
AskedLate(w) == now    \* mutant: the time of the answer
Asked(w) == call[w].asked

Open(w) ==
    /\ stage[w] = "planned" /\ stage' = Set(stage, w, "opening") /\ Ask(w, "resolve")
    /\ UNCHANGED <<polls, thread, ticket>> /\ Around
Opened(w) ==
    /\ stage[w] = "opening" /\ Returned(w) /\ call' = Set(call, w, NoCall)
    /\ ticket' = [ticket EXCEPT ![w].confirmed = Asked(w)]
    /\ IF At(w, "answered") THEN stage' = Set(stage, w, "reading") /\ thread' = Set(thread, w, "waits")
       ELSE stage' = Set(stage, w, "failed") /\ thread' = thread
    /\ polls' = polls /\ Around

\* check: an error of the thread, or a confirmation that is too old.
Stale(w) == now - ticket[w].confirmed >= Margin
Lost(w) == thread[w] = "dead" \/ Stale(w)
Poll(w) ==
    /\ stage[w] = "reading" /\ ~polls[w] /\ polls' = Set(polls, w, TRUE)
    /\ UNCHANGED <<stage, thread, ticket, call>> /\ Around
Checked(w) ==
    /\ polls[w] /\ thread[w] # "calling" /\ polls' = Set(polls, w, FALSE)
    /\ stage' = IF Lost(w) THEN Set(stage, w, "failed") ELSE stage
    /\ UNCHANGED <<thread, ticket, call>> /\ Around
\* The worker has read what it wanted; or the build is canceled.
Exit(w) ==
    /\ stage[w] = "reading" /\ ~polls[w] /\ stage' \in {Set(stage, w, "ended"), Set(stage, w, "failed")}
    /\ UNCHANGED <<polls, thread, ticket, call>> /\ Around
Accept(w) ==
    /\ stage[w] = "ended" /\ thread[w] # "calling"
    /\ stage' = Set(stage, w, IF Lost(w) THEN "failed" ELSE "accepted")
    /\ UNCHANGED <<polls, thread, ticket, call>> /\ Around
\* Drop: the thread is joined, then the ticket released with its last fence.
Release(w) ==
    /\ stage[w] \in {"accepted", "failed"} /\ thread[w] # "calling"
    /\ thread' = Set(thread, w, "joined") /\ stage' = Set(stage, w, "releasing") /\ Ask(w, "release")
    /\ UNCHANGED <<polls, ticket>> /\ Around
Done(w) ==
    /\ stage[w] = "releasing" /\ Returned(w)
    /\ stage' = Set(stage, w, "done") /\ call' = Set(call, w, NoCall)
    /\ mode' = IF mode[w] = "temporary" THEN Set(mode, w, "down") ELSE mode
    /\ lock' = IF mode[w] = "temporary" THEN Set(lock, w, Free) ELSE lock
    /\ mailbox' = IF mode[w] = "temporary" THEN Set(mailbox, w, <<>>) ELSE mailbox
    /\ listener' = IF mode[w] = "temporary" THEN Set(listener, w, Free) ELSE listener
    /\ ticket' = Set(ticket, w, NewTicket)
    /\ UNCHANGED <<now, origin, main, provider, polls, thread, cut>>

\* Every thirty seconds; here once a tick.
Renew(w) ==
    /\ thread[w] = "waits" /\ ticket[w].confirmed < now
    /\ thread' = Set(thread, w, "calling") /\ Ask(w, "renew")
    /\ UNCHANGED <<stage, polls, ticket>> /\ Around
SameFence(w) == ticket[w].fence    \* mutant: the provider's generation is not kept
Fence(w) == ticket[w].fence + 1
Renewed(w) ==
    /\ thread[w] = "calling" /\ Returned(w) /\ call' = Set(call, w, NoCall)
    /\ IF At(w, "answered")
       THEN /\ ticket' = [ticket EXCEPT ![w].fence = Fence(w), ![w].confirmed = Asked(w)]
            /\ thread' = Set(thread, w, "waits")
       ELSE ticket' = ticket /\ thread' = Set(thread, w, "dead")
    /\ UNCHANGED <<stage, polls>> /\ Around

-----------------------------------------------------------------------------
(* A coordinator ends with everything of it; the kernel unlocks what it held.
   Only a workspace that had one is given another. *)
Crash(p) ==
    /\ mode[p] \notin {"none", "down"} /\ mode' = Set(mode, p, "down")
    /\ lock' = [q \in Spaces |-> IF q = p \/ lock[q] = p THEN Free ELSE lock[q]]
    /\ main' = Set(main, p, "idle") /\ mailbox' = Set(mailbox, p, <<>>)
    /\ listener' = [q \in Spaces |-> IF q = p \/ listener[q] = p THEN Free ELSE listener[q]]
    /\ stage' = IF Underway(p) THEN Set(stage, p, "lost") ELSE stage
    /\ polls' = Set(polls, p, FALSE) /\ thread' = Set(thread, p, "none") /\ call' = Set(call, p, NoCall)
    /\ ticket' = Set(ticket, p, NewTicket)
    /\ UNCHANGED <<now, origin, provider, cut>>
Acquire(p) ==
    /\ mode[p] = "down" /\ lock[p] = Free /\ stage[p] = "none" /\ \E w \in Spaces : origin[w] = p /\ Underway(w)
    /\ lock' = Set(lock, p, Coord) /\ mode' = Set(mode, p, "persistent")
    /\ UNCHANGED <<now, origin, server, provider, build, call, cut>>

Call(w) == Discover(w) \/ Unlocked(w) \/ AcquireMetadata(w) \/ ServeItself(w) \/ Connect(w) \/ GiveUp(w)
Dispatch(w) == Open(w) \/ Opened(w) \/ Checked(w) \/ Accept(w) \/ Release(w) \/ Done(w)
Work(w) == Call(w) \/ Dispatch(w) \/ Renewed(w)
Server(p) == Drain(p) \/ Take(p) \/ Prepared(p)
Rest == (\A w \in Spaces : ~Underway(w)) /\ UNCHANGED vars
Next ==
    \/ Tick \/ Rest
    \/ \E w \in Spaces :
        \/ Work(w) \/ Poll(w) \/ Exit(w) \/ Renew(w)
        \/ Server(w) \/ Submit(w) \/ Collect(w) \/ Crash(w) \/ Acquire(w)

\* Threads run, deadlines pass and a worker ends (Supervision); a renewal, a
\* poll, a crash or a restart may come or not.
Fairness == \A w \in Spaces : WF_vars(Work(w)) /\ SF_vars(Exit(w)) /\ WF_vars(Server(w))
Spec == Init /\ [][Next]_vars /\ Fairness

-----------------------------------------------------------------------------
TypeOK ==
    /\ now \in 0..MaxTime /\ origin \in [Spaces -> Spaces]
    /\ lock \in [Spaces -> Spaces \cup {Free, Coord}]
    /\ \A w \in Spaces : lease[w].fence \in 0..MaxTime + 1

\* What a build accepts was read while the provider kept it: between the first
\* lease and the last check it cannot have been collected.
ReadInPlace == [][\A w \in Spaces : stage[w] = "ended" /\ stage'[w] = "accepted" => ~gone[origin[w]]]_vars

\* A build whose calls all reached the provider and came back leaves no lease behind, however often
\* it was renewed.
GivenBack ==
    \A w \in Spaces : stage[w] = "done" /\ ~cut[w] => ~lease[w].held

\* Every build ends, and has asked the provider to let go, even where two coordinators wait for
\* each other.
Ends == <>(\A w \in Spaces : ~Underway(w))
=============================================================================
