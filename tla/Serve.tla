------------------------------- MODULE Serve -------------------------------
(***************************************************************************)
(* The persistent coordinator as its clients see it (transflow serve):     *)
(* HTTP calls with idempotency keys, the CLI's connection, the flag and    *)
(* mailboxes that put them before one loop, the receipts in the database,  *)
(* and the query jobs that live in memory and share the admission pool     *)
(* (Admission, whose callers here are the query threads and the builds).   *)
(*                                                                         *)
(* A call is one delivery of a request; a client that retries, or sends    *)
(* twice, is two calls with one key.  What a digest covers (method, path,  *)
(* query, body, If-Match) is the request itself, and the revision a client *)
(* has seen is its etag.  A thread, the loop or a build thread takes its   *)
(* steps between those of the others, and the process may be killed        *)
(* between any two; the receipts and the work done survive.                *)
(***************************************************************************)
EXTENDS Admission

CONSTANTS
    Calls,        \* deliveries
    Keys,         \* idempotency keys, which also name the query jobs
    Workloads,    \* what the calls may be: functions from Calls to requests
    InFlight,     \* IN_FLIGHT_LIMIT
    CancelRoom,   \* room in the cancellation channel
    ActiveJobs,   \* unfinished query jobs, 4 in the code
    JobRoom,      \* retained query jobs, 64 in the code
    Lives         \* bound: how often the process is started

ASSUME ServeAssumption ==
    /\ Keys \subseteq Async /\ Requests \ Keys \subseteq Calls
    /\ \A w \in Workloads, c \in Calls : w[c].key \in Keys

\* Kinds of request.  A mutation reserves, works and answers in three
\* transactions; a schedule change in one; a cancellation is done by the
\* loop or by a build thread.  submit comes over the CLI connection only.
Commands == {"mutate", "schedule"}
QueryKinds == {"query", "stop", "results"}

VARIABLES
    process,      \* down, starting, preparing, serving, stopping
    lives,        \* starts left
    busy,         \* Endpoint.busy
    early,        \* a CLI request got in before serve cleared the flag
    mailbox,      \* the HTTP command channel, room for one
    line,         \* requests and schedules: the CLI's channels, one between them
    cancels,      \* the cancellation channel
    turn,         \* where the loop is
    hand,         \* what it has in hand: nothing, <<call, step>> or a pass
    aide,         \* the cancellation a build thread has in hand
    calls,        \* [request, via, stage, answer]
    receipts,     \* api_operations: <<>>, <<digest>> or <<digest, answer>>
    effects,      \* how often the work of a key was begun
    changes,      \* the revision: what has been committed
    edits,        \* the etag of the schedule
    jobs,         \* Manager.jobs
    pc,           \* where the thread of a job is
    outcome,      \* what it will report
    lease, files  \* its protected reads and its directory

front == <<process, lives, busy, early, mailbox, line, cancels, turn, hand, aide>>
durable == <<receipts, effects, changes, edits>>
query == <<jobs, pc, outcome, lease, files>>
serveVars == <<front, calls, durable, query, vars>>


Nobody == <<>>
NoJob == [state |-> "none"]
Asked(c) == calls[c].request
Stage(c) == calls[c].stage
InFlightNow == {c \in Calls : calls[c].via = "http" /\ Stage(c) \in {"new", "holding", "waiting"}}

Answered(c, a) == [calls EXCEPT ![c].stage = "answered", ![c].answer = a]
\* reply.try_send: nobody may be waiting any more.
Replied(c, a) == IF Stage(c) = "waiting" THEN Answered(c, a) ELSE calls
Staged(c, s) == [calls EXCEPT ![c].stage = s]

ServeInit ==
    /\ Init
    /\ process = "down" /\ lives = Lives /\ busy = FALSE /\ early = FALSE
    /\ mailbox = <<>> /\ line = <<>> /\ cancels = <<>>
    /\ turn = "api" /\ hand = Nobody /\ aide = Nobody
    /\ \E w \in Workloads : calls = [c \in Calls |->
           [request |-> [kind |-> w[c].kind, key |-> w[c].key, etag |-> w[c].etag], via |-> w[c].via, stage |-> "ready", answer |-> <<>>]]
    /\ receipts = [k \in Keys |-> <<>>] /\ effects = [k \in Keys |-> 0]
    /\ changes = 0 /\ edits = 0
    /\ jobs = [k \in Keys |-> NoJob] /\ pc = [k \in Keys |-> "idle"]
    /\ outcome = [k \in Keys |-> ""]
    /\ lease = [k \in Keys |-> FALSE] /\ files = [k \in Keys |-> FALSE]

----------------------------------------------------------------------------
(* Receipts. *)

\* Mutant: the digest is not compared.
PriorByKey(c) == LET r == receipts[Asked(c).key] IN
    IF r = <<>> THEN "new" ELSE IF Len(r) = 1 THEN "pending" ELSE "complete"
\* What receipt() finds for the key and digest of a call.
Prior(c) == LET r == receipts[Asked(c).key] IN
    IF r = <<>> THEN "new" ELSE IF r[1] # Asked(c) THEN "conflict"
    ELSE IF Len(r) = 1 THEN "pending" ELSE "complete"
Retained(c) == receipts[Asked(c).key][2]

\* reserve_api; mutant: nothing is written before the work.
ReserveNothing(c) == receipts
Reserve(c) == [receipts EXCEPT ![Asked(c).key] = <<Asked(c)>>]
\* finish_api, and the insert of control_schedule and save_schedule.
Finish(c, a) == [receipts EXCEPT ![Asked(c).key] = <<Asked(c), a>>]
Begun(c) == [effects EXCEPT ![Asked(c).key] = @ + 1]

----------------------------------------------------------------------------
(* The threads of the HTTP server and of the CLI connection. *)

\* dispatch without a permit.
Refuse(c) ==
    /\ process = "serving" /\ Stage(c) = "ready" /\ calls[c].via = "http"
    /\ Asked(c).kind \notin QueryKinds
    /\ Cardinality(InFlightNow) >= InFlight
    /\ calls' = Answered(c, <<"busy">>)
    /\ UNCHANGED <<front, durable, query, vars>>

\* call: the receipt is looked up before anything else happens.
Look(c) ==
    /\ process = "serving" /\ Stage(c) = "ready" /\ calls[c].via = "http"
    /\ Asked(c).kind \notin QueryKinds
    /\ Cardinality(InFlightNow) < InFlight
    /\ calls' = CASE Prior(c) = "new" -> Staged(c, "new")
                  [] Prior(c) = "complete" -> Answered(c, Retained(c))
                  [] OTHER -> Answered(c, <<"conflict">>)
    /\ UNCHANGED <<front, durable, query, vars>>

\* call, cancel: checked against the revision and put into the channel.
PostCancel(c) ==
    /\ Stage(c) = "new" /\ Asked(c).kind = "cancel"
    /\ \/ /\ Asked(c).etag = changes /\ Len(cancels) < CancelRoom
          /\ cancels' = Append(cancels, c) /\ calls' = Staged(c, "waiting")
       \/ /\ Asked(c).etag # changes
          /\ calls' = Answered(c, <<"conflict">>) /\ UNCHANGED cancels
       \/ /\ Asked(c).etag = changes
          /\ Len(cancels) >= CancelRoom
          /\ calls' = Answered(c, <<"busy">>) /\ UNCHANGED cancels
    /\ UNCHANGED <<process, lives, busy, early, mailbox, line, turn, hand, aide, durable, query, vars>>

\* Mutant: the flag is set without being looked at.
FreeAlways == TRUE
Free == ~busy

\* call: the flag, by compare and exchange.
Hold(c) ==
    /\ Stage(c) = "new" /\ Asked(c).kind \in Commands
    /\ \/ Free /\ busy' = TRUE /\ calls' = Staged(c, "holding")
       \/ ~Free /\ UNCHANGED busy /\ calls' = Answered(c, <<"busy">>)
    /\ UNCHANGED <<process, lives, early, mailbox, line, cancels, turn, hand, aide, durable, query, vars>>

\* call: the command goes into the mailbox, or the flag is given back.
Post(c) ==
    /\ Stage(c) = "holding"
    /\ \/ /\ mailbox = <<>> /\ mailbox' = <<c>>
          /\ calls' = Staged(c, "waiting") /\ UNCHANGED busy
       \/ /\ mailbox # <<>> /\ busy' = FALSE
          /\ calls' = Answered(c, <<"busy">>) /\ UNCHANGED mailbox
    /\ UNCHANGED <<process, lives, early, line, cancels, turn, hand, aide, durable, query, vars>>

\* recv_timeout, and a client that went away.  What was accepted stays.
Leave(c) ==
    /\ Stage(c) = "waiting" /\ calls[c].via = "http"
    /\ calls' = Answered(c, <<"busy">>)
    /\ UNCHANGED <<front, durable, query, vars>>

\* endpoint: one connection at a time, from the moment it is registered.
Connect(c) ==
    /\ process \in {"starting", "preparing", "serving"}
    /\ Stage(c) = "ready" /\ calls[c].via = "cli"
    /\ \A d \in Calls : calls[d].via = "cli" => Stage(d) # "waiting"
    /\ busy' = TRUE
    /\ \/ busy /\ calls' = Answered(c, <<"busy">>) /\ UNCHANGED <<line, early>>
       \/ /\ ~busy /\ line' = <<c>> /\ calls' = Staged(c, "waiting")
          /\ early' = (early \/ process = "starting")
    /\ UNCHANGED <<process, lives, mailbox, cancels, turn, hand, aide, durable, query, vars>>

----------------------------------------------------------------------------
(* The loop. *)

\* serve binds its endpoint, sets the flag, prepares, clears it.  recover
\* has removed what the directories of an earlier life hold.
Start ==
    /\ process = "down" /\ lives > 0
    /\ process' = "starting" /\ lives' = lives - 1
    /\ busy' = FALSE /\ early' = FALSE /\ turn' = "api"
    /\ files' = [k \in Keys |-> FALSE]
    /\ UNCHANGED <<mailbox, line, cancels, hand, aide, calls, durable, jobs, pc, outcome, lease, vars>>
Prepare ==
    /\ process \in {"starting", "preparing"}
    /\ process' = IF process = "starting" THEN "preparing" ELSE "serving"
    /\ busy' = (process = "starting")
    /\ UNCHANGED <<lives, early, mailbox, line, cancels, turn, hand, aide, calls, durable, query, vars>>

After(t) == CASE t = "api" -> "schedule" [] t = "schedule" -> "pass" [] t = "pass" -> "submit" [] t = "submit" -> "cancel"
Idle(t) == process = "serving" /\ turn = t /\ hand = Nobody
loopKeeps == <<process, lives, early, aide, query, vars>>

\* drain: at most one command in a pass of the loop.
TakeCommand ==
    /\ Idle("api")
    /\ \/ mailbox = <<>> /\ turn' = After("api") /\ UNCHANGED <<mailbox, hand>>
       \/ /\ mailbox # <<>> /\ mailbox' = <<>>
          /\ hand' = <<mailbox[1], "check", <<>>>> /\ UNCHANGED turn
    /\ UNCHANGED <<busy, line, cancels, calls, durable, loopKeeps>>
\* A schedule before the pass, a submission after it.
TakeLine(t) ==
    LET mine == line # <<>> /\ Asked(line[1]).kind = t IN
    /\ Idle(t)
    /\ \/ ~mine /\ turn' = After(t) /\ UNCHANGED <<line, hand>>
       \/ /\ mine /\ line' = <<>>
          /\ hand' = <<line[1], "check", <<>>>> /\ UNCHANGED turn
    /\ UNCHANGED <<busy, mailbox, cancels, calls, durable, loopKeeps>>
PassInHand == <<"pass", "dispatch", <<>>>>
\* advance: the pass takes the flag to dispatch (bound: one dispatch a pass).
Pass ==
    /\ Idle("pass")
    /\ \/ turn' = After("pass") /\ UNCHANGED <<busy, hand>>
       \/ ~busy /\ busy' = TRUE /\ hand' = PassInHand /\ UNCHANGED turn
    /\ UNCHANGED <<mailbox, line, cancels, calls, durable, loopKeeps>>
PassEnds ==
    /\ hand = PassInHand
    /\ busy' = FALSE /\ hand' = Nobody /\ turn' = After("pass")
    /\ UNCHANGED <<mailbox, line, cancels, calls, durable, loopKeeps>>

InHand(s) == hand # Nobody /\ hand[1] \in Calls /\ hand[2] = s
\* The reply, the flag and the next part of the loop.
Close(c, a) ==
    /\ calls' = Replied(c, a) /\ hand' = Nobody
    /\ \/ turn # "cancel" /\ busy' = FALSE /\ turn' = After(turn)
       \/ turn = "cancel" /\ UNCHANGED <<busy, turn>>

\* execute and cancel_owned: reserved once, or answered from the receipt.
ReserveFirst ==
    /\ InHand("check")
    /\ LET c == hand[1] IN
       /\ Asked(c).kind \in {"mutate", "cancel"}
       /\ \/ /\ Asked(c).kind = "mutate" /\ Asked(c).etag # changes
             /\ Close(c, <<"conflict">>) /\ UNCHANGED receipts
          \/ /\ Asked(c).kind = "mutate" => Asked(c).etag = changes
             /\ \/ /\ Prior(c) = "new" /\ receipts' = Reserve(c)
                   /\ hand' = <<c, "work", <<>>>> /\ UNCHANGED <<calls, busy, turn>>
                \/ /\ Prior(c) = "complete" /\ Close(c, Retained(c)) /\ UNCHANGED receipts
                \/ /\ Prior(c) \in {"pending", "conflict"}
                   /\ Close(c, <<"conflict">>) /\ UNCHANGED receipts
    /\ UNCHANGED <<mailbox, line, cancels, effects, changes, edits, loopKeeps>>

\* mutate, and the cancellation: its own transactions, and it may fail.
Work ==
    /\ InHand("work")
    /\ LET c == hand[1] IN
       /\ effects' = Begun(c)
       /\ \/ changes' = changes + 1 /\ hand' = <<c, "answer", <<"ok", changes + 1>>>>
          \/ UNCHANGED changes /\ hand' = <<c, "answer", <<"error">>>>
    /\ UNCHANGED <<busy, mailbox, line, cancels, turn, calls, receipts, edits, loopKeeps>>

\* finish_api, which may fail and leaves the receipt as it is, and the reply.
Conclude ==
    /\ InHand("answer")
    /\ \/ receipts' = Finish(hand[1], hand[3]) /\ Close(hand[1], hand[3])
       \/ UNCHANGED receipts /\ Close(hand[1], <<"error">>)
    /\ UNCHANGED <<mailbox, line, cancels, effects, changes, edits, loopKeeps>>

\* save: a receipt is looked for, then the change and its receipt are one
\* transaction that looks again, or cannot insert: a build thread may have
\* reserved the key.  A refused change leaves no receipt.
CheckSchedule ==
    /\ InHand("check") /\ Asked(hand[1]).kind = "schedule"
    /\ LET c == hand[1] IN
       \/ Prior(c) = "new" /\ hand' = <<c, "save", <<>>>> /\ UNCHANGED <<calls, busy, turn>>
       \/ Prior(c) = "complete" /\ Close(c, Retained(c))
       \/ Prior(c) \in {"pending", "conflict"} /\ Close(c, <<"conflict">>)
    /\ UNCHANGED <<mailbox, line, cancels, durable, loopKeeps>>
SaveSchedule ==
    /\ InHand("save")
    /\ LET c == hand[1] IN
       \/ /\ Prior(c) = "new" /\ Asked(c).etag = edits
          /\ edits' = edits + 1 /\ changes' = changes + 1 /\ effects' = Begun(c)
          /\ receipts' = Finish(c, <<"ok", changes + 1>>) /\ Close(c, <<"ok", changes + 1>>)
       \/ Prior(c) = "complete" /\ Close(c, Retained(c)) /\ UNCHANGED durable
       \/ /\ Prior(c) \in {"pending", "conflict"} \/ Asked(c).etag # edits
          /\ Close(c, <<"conflict">>) /\ UNCHANGED durable
       \/ Close(c, <<"error">>) /\ UNCHANGED durable
    /\ UNCHANGED <<mailbox, line, cancels, loopKeeps>>

\* A build of the CLI is prepared and accepted, or refused; it has no key.
Submit ==
    /\ InHand("check") /\ Asked(hand[1]).kind = "submit"
    /\ \/ changes' = changes + 1 /\ Close(hand[1], <<"ok", changes + 1>>)
       \/ UNCHANGED changes /\ Close(hand[1], <<"error">>)
       \/ /\ UNCHANGED changes /\ calls' = Replied(hand[1], <<"error">>)    \* invalid arguments: continue
          /\ hand' = Nobody /\ busy' = FALSE /\ turn' = "api"
    /\ UNCHANGED <<mailbox, line, cancels, receipts, effects, edits, loopKeeps>>

\* The loop takes cancellations until there is none.
TakeCancel ==
    /\ Idle("cancel")
    /\ \/ cancels = <<>> /\ turn' = "api" /\ UNCHANGED <<cancels, hand>>
       \/ /\ cancels # <<>> /\ cancels' = Tail(cancels)
          /\ hand' = <<Head(cancels), "check", <<>>>> /\ UNCHANGED turn
    /\ UNCHANGED <<busy, mailbox, line, calls, durable, loopKeeps>>

\* The receiver is shared with the build threads, whose delegates do the same.
aideKeeps == <<process, lives, busy, early, mailbox, line, turn, hand, edits, query, vars>>
AideTakes ==
    /\ process \in {"serving", "stopping"} /\ aide = Nobody /\ cancels # <<>>
    /\ aide' = <<Head(cancels), "check", <<>>>> /\ cancels' = Tail(cancels)
    /\ UNCHANGED <<calls, receipts, effects, changes, aideKeeps>>
AideReserves ==
    /\ aide # Nobody /\ aide[2] = "check"
    /\ LET c == aide[1] IN
       \/ /\ Prior(c) = "new" /\ receipts' = Reserve(c)
          /\ aide' = <<c, "work", <<>>>> /\ UNCHANGED calls
       \/ /\ Prior(c) # "new" /\ aide' = Nobody /\ UNCHANGED receipts
          /\ calls' = Replied(c, IF Prior(c) = "complete" THEN Retained(c) ELSE <<"conflict">>)
    /\ UNCHANGED <<cancels, effects, changes, aideKeeps>>
AideWorks ==
    /\ aide # Nobody /\ aide[2] = "work"
    /\ effects' = Begun(aide[1])
    /\ \/ changes' = changes + 1 /\ aide' = <<aide[1], "answer", <<"ok", changes + 1>>>>
       \/ UNCHANGED changes /\ aide' = <<aide[1], "answer", <<"error">>>>
    /\ UNCHANGED <<cancels, calls, receipts, aideKeeps>>
AideConcludes ==
    /\ aide # Nobody /\ aide[2] = "answer"
    /\ \/ receipts' = Finish(aide[1], aide[3]) /\ calls' = Replied(aide[1], aide[3])
       \/ UNCHANGED receipts /\ calls' = Replied(aide[1], <<"error">>)
    /\ aide' = Nobody
    /\ UNCHANGED <<cancels, effects, changes, aideKeeps>>

----------------------------------------------------------------------------
(* Query jobs: Manager.call under the lock of jobs. *)

Ours(c, kind) == process = "serving" /\ Stage(c) = "ready" /\ Asked(c).kind = kind
Known(k) == jobs[k] # NoJob
Finished(k) == Known(k) /\ jobs[k].finished # "no"
Expired(k) == Known(k) /\ jobs[k].finished = "old"
\* A thread that is gone, or that has nothing left to do.
Exited(k) == pc[k] \in {"idle", "ended"}
queryKeeps == <<front, durable, lease, files, vars>>

\* submit, retain: what is too old goes once its thread has ended.
RetainedJobs == [k \in Keys |-> IF Expired(k) /\ Exited(k) THEN NoJob ELSE jobs[k]]
NewJob(c) == [state |-> "QUEUED", digest |-> Asked(c), cancel |-> FALSE, finished |-> "no", page |-> FALSE]
Unfinished == {k \in Keys : Known(k) /\ ~Finished(k)}

\* prepare: resources that changed, a limit, or a binding that is not there to read.
Unprepared(c) == jobs' = RetainedJobs /\ calls' = Answered(c, <<"error">>) /\ UNCHANGED pc
\* submit: one job for a key, whose digest must agree.
Query(c) ==
    /\ Ours(c, "query")
    /\ LET k == Asked(c).key
           left == {j \in Keys : RetainedJobs[j] # NoJob} IN
       \/ /\ Known(k) /\ UNCHANGED <<jobs, pc>>
          /\ calls' = Answered(c,
                 IF jobs[k].digest # Asked(c) THEN <<"conflict">>
                 ELSE IF Expired(k) THEN <<"expired">> ELSE <<jobs[k].state>>)
       \/ /\ ~Known(k) /\ UNCHANGED <<jobs, pc>>
          /\ Cardinality(Unfinished) >= ActiveJobs
          /\ calls' = Answered(c, <<"busy">>)
       \/ /\ ~Known(k) /\ Cardinality(Unfinished) < ActiveJobs
          /\ \/ /\ Cardinality(left) >= JobRoom
                /\ jobs' = RetainedJobs /\ calls' = Answered(c, <<"busy">>) /\ UNCHANGED pc
             \/ /\ Cardinality(left) < JobRoom /\ Asked(c).etag # changes
                /\ jobs' = RetainedJobs /\ calls' = Answered(c, <<"conflict">>) /\ UNCHANGED pc
             \/ Cardinality(left) < JobRoom /\ Asked(c).etag = changes /\ Unprepared(c)
             \/ /\ Cardinality(left) < JobRoom /\ Asked(c).etag = changes
                /\ jobs' = [RetainedJobs EXCEPT ![k] = NewJob(c)]
                /\ pc' = [pc EXCEPT ![k] = "asking"]
                /\ calls' = Answered(c, <<"QUEUED">>)
    /\ UNCHANGED <<outcome, queryKeeps>>

\* call, cancel: only an unfinished job is told.
Stop(c) ==
    /\ Ours(c, "stop")
    /\ LET k == Asked(c).key IN
       \/ /\ (~Known(k) \/ Expired(k)) /\ UNCHANGED jobs
          /\ calls' = Answered(c, IF Known(k) THEN <<"expired">> ELSE <<"missing">>)
       \/ /\ Known(k) /\ ~Expired(k)
          /\ jobs' = [jobs EXCEPT ![k].cancel = @ \/ ~Finished(k)]
          /\ calls' = Answered(c, <<jobs[k].state>>)
    /\ UNCHANGED <<pc, outcome, queryKeeps>>

\* call, results: the page of a job that has one.
Results(c) ==
    /\ Ours(c, "results")
    /\ LET k == Asked(c).key IN
       calls' = Answered(c, IF ~Known(k) THEN <<"missing">> ELSE IF Expired(k) THEN <<"expired">>
                            ELSE IF jobs[k].page THEN <<"rows">> ELSE <<"conflict">>)
    /\ UNCHANGED <<jobs, pc, outcome, queryKeeps>>

\* RETENTION goes by; tick drops the page.
Age(k) ==
    /\ Finished(k) /\ ~Expired(k)
    /\ jobs' = [jobs EXCEPT ![k].finished = "old", ![k].page = FALSE]
    /\ UNCHANGED <<calls, pc, outcome, queryKeeps>>

----------------------------------------------------------------------------
(* The thread of a job: execute_inner and what its locals do when it ends. *)

At(k, s) == pc[k] = s
Goes(k, s) == pc' = [pc EXCEPT ![k] = s]
Reports(k, o) == outcome' = [outcome EXCEPT ![k] = o]
Told(k) == jobs[k].cancel
threadKeeps == <<front, calls, durable>>

\* request: the pool's queue is full, or the request joins it.
AskPool(k) ==
    /\ At(k, "asking")
    /\ \/ Request(k) /\ Goes(k, "queued") /\ UNCHANGED outcome
       \/ /\ Len(queue) >= QueueLimit
          /\ Goes(k, "leaving") /\ Reports(k, "FAILED") /\ UNCHANGED vars
    /\ UNCHANGED <<jobs, lease, files, threadKeeps>>
\* The select: the flag is looked at before each poll.
Await(k) ==
    /\ At(k, "queued")
    /\ \/ /\ Told(k) /\ DropRequest(k)
          /\ Goes(k, "leaving") /\ Reports(k, "CANCELED") /\ UNCHANGED jobs
       \/ /\ ~Told(k) /\ PollReady(k) /\ Goes(k, "admitted")
          /\ jobs' = [jobs EXCEPT ![k].state = "RUNNING"] /\ UNCHANGED outcome
       \/ ~Told(k) /\ PollPending(k) /\ UNCHANGED <<jobs, pc, outcome>>
    /\ UNCHANGED <<lease, files, threadKeeps>>

\* check, and everything that may fail at this point.
Trouble(k) == {"FAILED", "TIMED_OUT"} \cup (IF Told(k) THEN {"CANCELED"} ELSE {})
Fails(k) == \E o \in Trouble(k) : Goes(k, "leaving") /\ Reports(k, o)
\* The environment, the exact versions protected one by one, the directory.
Bind(k) ==
    /\ At(k, "admitted")
    /\ \/ /\ ~Told(k) /\ Goes(k, "bound") /\ UNCHANGED outcome
          /\ lease' = [lease EXCEPT ![k] = TRUE] /\ files' = [files EXCEPT ![k] = TRUE]
       \/ /\ Fails(k)
          /\ \E l, f \in BOOLEAN : /\ lease' = [lease EXCEPT ![k] = l]
                                   /\ files' = [files EXCEPT ![k] = f /\ l]
    /\ UNCHANGED <<jobs, vars, threadKeeps>>
\* supervisor::run with the permit of the reservation, until it is reaped.
Help(k) ==
    /\ At(k, "bound") /\ Checkout(k) /\ Goes(k, "helping")
    /\ UNCHANGED <<jobs, outcome, lease, files, threadKeeps>>
Reap(k) ==
    /\ At(k, "helping") /\ Checkin(k)
    /\ Fails(k) \/ (Goes(k, "reaped") /\ UNCHANGED outcome)
    /\ UNCHANGED <<jobs, lease, files, threadKeeps>>
\* The reads are checked around the acceptance of the result.
AcceptResult(k) ==
    /\ At(k, "reaped") /\ "leaving" \notin handles[k]
    /\ Fails(k) \/ (~Told(k) /\ Goes(k, "leaving") /\ Reports(k, "SUCCEEDED"))
    /\ UNCHANGED <<jobs, lease, files, vars, threadKeeps>>
\* The reads are dropped and the directory removed, then the reservation.
Tidy(k) ==
    /\ At(k, "leaving")
    /\ \/ lease[k] /\ lease' = [lease EXCEPT ![k] = FALSE] /\ UNCHANGED files
       \/ files[k] /\ files' = [files EXCEPT ![k] = FALSE] /\ UNCHANGED lease
    /\ UNCHANGED <<jobs, pc, outcome, vars, threadKeeps>>
GiveBack(k) ==
    /\ At(k, "leaving") /\ ~lease[k] /\ ~files[k] /\ "permit" \notin handles[k]
    /\ \E h \in handles[k] : Unhandle(k, h)
    /\ UNCHANGED <<query, threadKeeps>>

\* Mutant: what the thread found is published as it is.
FinalAsFound(k) == outcome[k]
FinalState(k) == IF Told(k) /\ outcome[k] = "SUCCEEDED" THEN "CANCELED" ELSE outcome[k]
Clean(k) == ~lease[k] /\ ~files[k] /\ handles[k] = {}

\* The closure of submit, once execute has returned.
Publish(k) ==
    /\ At(k, "leaving") /\ Clean(k)
    /\ jobs' = [jobs EXCEPT ![k].state = FinalState(k), ![k].finished = "fresh",
                            ![k].page = FinalState(k) = "SUCCEEDED"]
    /\ Goes(k, "ended")
    /\ UNCHANGED <<outcome, lease, files, vars, threadKeeps>>

\* The others at the pool: the builds that were submitted (seen as the
\* reservation each keeps until its job is done, over and over again), and
\* the wakers called after the unlock.
Built(c) == Asked(c).kind = "submit" /\ calls[c].answer # <<>> /\ calls[c].answer[1] = "ok"
Pool ==
    /\ \/ \E r \in Requests : Notify(r)
       \/ \E k \in Keys : "leaving" \in handles[k] /\ Unhandle(k, "leaving")
       \/ \E r \in Requests \ Keys :
              (Built(r) /\ Request(r)) \/ Poll(r) \/ DropRequest(r) \/ Unhandle(r, "reservation")
    /\ UNCHANGED <<query, threadKeeps>>

----------------------------------------------------------------------------
(* The end of a life. *)

CancelAll == [k \in Keys |-> IF Known(k) THEN [jobs[k] EXCEPT !.cancel = TRUE] ELSE NoJob]
\* ctrl-C, seen at the head of the loop: the server is dropped (its threads
\* are assumed to return within the two seconds it gives them, except those
\* that wait for the loop), and every query is told.
Halt ==
    /\ Idle("api")
    /\ process' = "stopping" /\ jobs' = CancelAll
    /\ UNCHANGED <<lives, busy, early, mailbox, line, cancels, turn, hand, aide, calls, durable,
                   pc, outcome, lease, files, vars>>

\* What dies with the process: mailboxes, threads, jobs and the pool.
Dies(a) ==
    /\ process' = "down" /\ busy' = FALSE /\ early' = FALSE
    /\ mailbox' = <<>> /\ line' = <<>> /\ cancels' = <<>>
    /\ turn' = "api" /\ hand' = Nobody /\ aide' = Nobody
    /\ calls' = [c \in Calls |-> IF Stage(c) \in {"new", "holding", "waiting"}
                                 THEN [calls[c] EXCEPT !.stage = "answered", !.answer = a] ELSE calls[c]]
    /\ jobs' = [k \in Keys |-> NoJob] /\ pc' = [k \in Keys |-> "idle"]
    /\ outcome' = [k \in Keys |-> ""] /\ lease' = [k \in Keys |-> FALSE]
    /\ usage' = [k \in Resources |-> 0] /\ queue' = <<>>
    /\ waker' = [r \in Requests |-> FALSE] /\ task' = [r \in Requests |-> "idle"]
    /\ ringing' = {} /\ handles' = [r \in Requests |-> {}]
    /\ UNCHANGED <<lives, durable, files>>
\* No query thread is left, the build threads are joined, the senders go.
Stopped ==
    /\ process = "stopping" /\ aide = Nobody /\ \A k \in Keys : Exited(k)
    /\ Dies(<<"busy">>)
\* Killed anywhere.  Bound: while a start is left.
Crash ==
    /\ process # "down" /\ lives > 0 /\ Dies(<<"lost">>)
\* Nothing happens while the process is down for good.
Off == process = "down" /\ lives = 0 /\ UNCHANGED serveVars

Threads(c) ==
    \/ Refuse(c) \/ Look(c) \/ PostCancel(c) \/ Hold(c) \/ Post(c) \/ Leave(c) \/ Connect(c)
    \/ Query(c) \/ Stop(c) \/ Results(c)
Loop ==
    \/ TakeCommand \/ TakeLine("schedule") \/ TakeLine("submit") \/ Pass \/ PassEnds \/ TakeCancel
    \/ ReserveFirst \/ Work \/ Conclude \/ CheckSchedule \/ SaveSchedule \/ Submit
Aide == AideTakes \/ AideReserves \/ AideWorks \/ AideConcludes
Job(k) ==
    \/ AskPool(k) \/ Await(k) \/ Bind(k) \/ Help(k) \/ Reap(k) \/ AcceptResult(k)
    \/ Tidy(k) \/ GiveBack(k) \/ Publish(k)

ServeNext ==
    \/ \E c \in Calls : Threads(c)
    \/ \E k \in Keys : Job(k) \/ Age(k)
    \/ Start \/ Prepare \/ Loop \/ Aide \/ Pool \/ Halt \/ Stopped \/ Crash \/ Off

ServeSpec == ServeInit /\ [][ServeNext]_serveVars

(***************************************************************************)
(* The threads run (no more is asked than that they are not all held up),  *)
(* the loop goes round, a helper is reaped at its deadline, a waker that   *)
(* was copied is called and a build lets go of its capacity (Admission).   *)
(* Nobody must call, leave, be late, ask for a build, halt or be killed.   *)
(***************************************************************************)
Runs(r) == \/ task[r] = "ready" /\ Poll(r)
           \/ task[r] = "gone" /\ DropRequest(r)
           \/ Unhandle(r, "reservation")
ServeFairness ==
    /\ WF_serveVars(\E c \in Calls : Hold(c) \/ Post(c) \/ PostCancel(c))
    /\ WF_serveVars(Loop) /\ WF_serveVars(Aide) /\ WF_serveVars(Prepare \/ Stopped)
    /\ \A k \in Keys : WF_serveVars(Job(k))
    /\ \A r \in Requests \ Keys : WF_serveVars(Pool /\ Runs(r))
    /\ WF_serveVars(Pool /\ \E r \in Requests : Notify(r))
    /\ WF_serveVars(Pool /\ \E k \in Keys : Unhandle(k, "leaving"))
FairServe == ServeSpec /\ ServeFairness

----------------------------------------------------------------------------
\* The work of an idempotency key is begun at most once, however often its request is delivered, by whichever
\* thread it is taken and whatever dies in between (Store::reserve_api: an incomplete receipt never executes again).
OncePerKey == \A k \in Keys : effects[k] <= 1

\* Whoever is told that a keyed command succeeded is told what the one execution of exactly that request came to,
\* and the receipt that will say so again is already durable: no success of another request under the same key, none
\* before the work, none a crash could take back (reserve_api, finish_api, control_schedule, cancel_owned).
AnswersTrue == \A c \in Calls :
    Stage(c) = "answered" /\ Asked(c).kind \in Commands \cup {"cancel"} /\ calls[c].answer[1] = "ok"
    => /\ receipts[Asked(c).key] = <<Asked(c), calls[c].answer>>
       /\ effects[Asked(c).key] = 1

\* The flag is up exactly while one accepted request, or one dispatch of a schedule, is before the loop: it never leaks
\* and never lets a second one in, so a queued command keeps its priority (schedule_dispatch.rs).  Excepted is a life in
\* which a CLI request was taken between the registration of the endpoint and the moment serve raised the flag.
FlagTrue == process = "serving" /\ ~early =>
    (busy <=> \/ \E c \in Calls : Stage(c) = "holding"
              \/ mailbox # <<>> \/ line # <<>> \/ (hand # Nobody /\ turn # "cancel"))

\* A cancellation that was acknowledged before the job finished is kept: the job never reports success and never serves
\* rows, whatever its thread had already found (the closure of submit).
CancelKept == process = "serving" => \A k \in Keys :
    Finished(k) /\ Told(k) => jobs[k].state # "SUCCEEDED" /\ ~jobs[k].page

\* Every call the coordinator has let in is answered and every query finishes, also when the coordinator is asked to
\* stop in the middle: nobody waits for a loop that is gone, a flag that stays up or capacity that never comes back.
\* (Deliveries are finite, so this is that in the end nobody waits.)
Ends == <>[](/\ \A c \in Calls : Stage(c) \in {"ready", "answered"}
            /\ Unfinished = {})
=============================================================================
