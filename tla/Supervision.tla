----------------------------- MODULE Supervision -----------------------------
(* Worker processes and the coordinator sessions that own them: the owner loop
   of crates/tf-exec/src/supervisor.rs, the process it starts (the entry points
   of python/worker), its recovery record, and the startup recovery of the next
   session after a crash.

   A tick of the loop handles one thing; it reads one frame where the code reads
   up to eight.  A timer of the loop may have passed whenever what it measures
   has begun; only the budget of a phase is counted.  Log drains, descriptors
   and the contents of frames are left out. *)
EXTENDS Naturals, Sequences, FiniteSets

CONSTANTS
    Workers,       \* attempt directories; each is used for one process
    MaxSession,    \* bound: sessions of the workspace
    Limit          \* time a phase has

ASSUME Parameters == MaxSession \in Nat \ {0} /\ Limit \in Nat \ {0}

VARIABLES
    session, coord,            \* the lock's holder and how far its startup is
    record,                    \* recovery.json of each directory
    sup, result, canceled,     \* supervising threads
    launched,                  \* the session that did
    link, heard, used,         \* what a thread knows: channel, guard, budget
    proc, child, frames,       \* the leader, a descendant, unread frames
    interrupted                \* a timer or a cancellation ended the loop

sessions == <<session, coord>>
thread == <<sup, result, canceled, launched, link, heard, used, interrupted>>
process == <<proc, child, frames>>
vars == <<sessions, record, thread, process>>

\* Frames of a transform that succeeds.  Phases are numbered as the guard does.
Script == <<"hello", "setup", "running", "materializing", "ready", "completed">>
Rank == [setup |-> 0, running |-> 2, materializing |-> 3]
Alive == {"started", "listening", "sent", "running"}
Nothing == [hello |-> FALSE, phase |-> 9, ready |-> FALSE, terminal |-> "none", eof |-> FALSE]
Process(at) == [at |-> at, said |-> 0, code |-> 0]

Init ==
    /\ session = 0 /\ coord = "down" /\ record = [w \in Workers |-> "none"]
    /\ sup = [w \in Workers |-> "idle"] /\ result = [w \in Workers |-> "none"]
    /\ canceled = [w \in Workers |-> FALSE] /\ launched = [w \in Workers |-> 0]
    /\ link = [w \in Workers |-> "none"] /\ heard = [w \in Workers |-> Nothing]
    /\ used = [w \in Workers |-> 0] /\ interrupted = [w \in Workers |-> FALSE]
    /\ proc = [w \in Workers |-> Process("none")] /\ child = [w \in Workers |-> FALSE]
    /\ frames = [w \in Workers |-> <<>>]

Set(f, w, value) == [f EXCEPT ![w] = value]
Supervised(w) == sup[w] \notin {"idle", "done", "lost"}

-----------------------------------------------------------------------------
(* A launch: the record without a process, the process, the record with it.
   Only then does the thread listen to the process. *)
Persist(w) ==
    /\ sup[w] = "idle" /\ coord = "ready"
    /\ sup' = Set(sup, w, "recorded") /\ record' = Set(record, w, "empty")
    /\ launched' = Set(launched, w, session)
    /\ UNCHANGED <<sessions, result, canceled, link, heard, used, interrupted, process>>

Spawn(w) ==
    /\ sup[w] = "recorded"
    /\ \/ /\ sup' = Set(sup, w, "spawned") /\ proc' = Set(proc, w, Process("started")) /\ result' = result
       \/ /\ sup' = Set(sup, w, "reaped") /\ result' = Set(result, w, "unavailable") /\ proc' = proc
    /\ UNCHANGED <<sessions, record, canceled, launched, link, heard, used, interrupted, child, frames>>

\* Where the start of the process cannot be read, its handle is dropped.
Identify(w) ==
    /\ sup[w] = "spawned"
    /\ \/ sup' = Set(sup, w, "loop") /\ record' = Set(record, w, "full") /\ UNCHANGED <<result, process>>
       \/ /\ sup' = Set(sup, w, "reaped") /\ result' = Set(result, w, "identity") /\ record' = record
          /\ proc' = [proc EXCEPT ![w].at = "gone"] /\ UNCHANGED <<child, frames>>
    /\ UNCHANGED <<sessions, canceled, launched, link, heard, used, interrupted>>

-----------------------------------------------------------------------------
(* The loop. *)
Listens(w) == sup[w] = "loop"
Ends(w, outcome) == sup' = Set(sup, w, "term") /\ result' = Set(result, w, outcome)
Still == UNCHANGED <<sessions, record, canceled, launched, proc, child>>
Cut(w, outcome) ==
    /\ Ends(w, outcome) /\ interrupted' = Set(interrupted, w, TRUE)
    /\ UNCHANGED <<link, heard, used, frames>> /\ Still

Exited(w) == proc[w].at = "exited"
Canceled(w) == Listens(w) /\ canceled[w] /\ Cut(w, "canceled")
NeverExpires(w) == FALSE    \* mutant: a budget that is not asked
Expired(w) == used[w] >= Limit
PhaseDeadline(w) == Listens(w) /\ ~canceled[w] /\ Expired(w) /\ Cut(w, "phase_deadline")
StartupDeadline(w) == Listens(w) /\ ~heard[w].hello /\ Cut(w, "deadline")
TerminalGrace(w) == Listens(w) /\ heard[w].terminal # "none" /\ ~Exited(w) /\ Cut(w, "protocol")
ExitBound(w) == Listens(w) /\ Exited(w) /\ Cut(w, "protocol")

\* The peer proves the token and is answered; a peer that is gone does not.
Accept(w) ==
    /\ Listens(w) /\ ~canceled[w] /\ ~Expired(w) /\ link[w] = "none" /\ proc[w].at = "sent"
    /\ link' = Set(link, w, "acknowledged")
    /\ UNCHANGED <<sup, result, heard, used, interrupted, frames>> /\ Still
Reset(w) ==
    /\ Listens(w) /\ link[w] = "none" /\ Exited(w)
    /\ \E outcome \in {"exit", "authentication"} : Ends(w, outcome)
    /\ UNCHANGED <<link, heard, used, interrupted, frames>> /\ Still

\* Session::accept: hello first and once, nothing after a terminal frame.
InSession(h, frame) == h.terminal = "none" /\ (frame = "hello") = ~h.hello
\* Guard::accept: forward phases, one result in its phase, completion after it.
Accepts(h, frame) ==
    /\ InSession(h, frame)
    /\ frame \in DOMAIN Rank => h.phase = 9 \/ h.phase < Rank[frame]
    /\ frame = "ready" => ~h.ready /\ h.phase = 3
    /\ frame = "completed" => h.ready /\ h.phase \in 1..4
Learnt(h, frame) ==
    CASE frame = "hello" -> [h EXCEPT !.hello = TRUE]
      [] frame \in DOMAIN Rank -> [h EXCEPT !.phase = Rank[frame]]
      [] frame = "ready" -> [h EXCEPT !.ready = TRUE]
      [] OTHER -> [h EXCEPT !.terminal = frame]
Read(w) ==
    /\ Listens(w) /\ ~canceled[w] /\ ~Expired(w) /\ link[w] = "acknowledged" /\ frames[w] # <<>>
    /\ frames' = Set(frames, w, Tail(frames[w]))
    /\ IF Accepts(heard[w], Head(frames[w]))
       THEN heard' = Set(heard, w, Learnt(heard[w], Head(frames[w]))) /\ UNCHANGED <<sup, result>>
       ELSE heard' = heard /\ Ends(w, "protocol")
    /\ UNCHANGED <<link, used, interrupted>> /\ Still

\* The end of the channel, once no process of the group holds it.
Drained(w) == frames[w] = <<>>
ReadEnd(w) ==
    /\ Listens(w) /\ link[w] = "acknowledged" /\ Drained(w) /\ Exited(w) /\ ~child[w] /\ ~heard[w].eof
    /\ heard' = [heard EXCEPT ![w].eof = TRUE]
    /\ UNCHANGED <<sup, result, link, used, interrupted, frames>> /\ Still

HeardOutUnread(w) == TRUE    \* mutant: the exit alone ends the loop
HeardOut(w) == heard[w].eof \/ (heard[w].terminal # "none" /\ Drained(w))
Succeeds(w) ==
    /\ Listens(w) /\ ~canceled[w] /\ ~Expired(w) /\ Exited(w) /\ link[w] # "none" /\ HeardOut(w)
    /\ Ends(w, "none")
    /\ UNCHANGED <<link, heard, used, interrupted, frames>> /\ Still

Pass(w) ==
    /\ Listens(w) /\ used[w] < Limit /\ used' = [used EXCEPT ![w] = @ + 1]
    /\ UNCHANGED <<sup, result, link, heard, interrupted, frames>> /\ Still

Loop(w) ==
    \/ Canceled(w) \/ PhaseDeadline(w) \/ StartupDeadline(w) \/ TerminalGrace(w) \/ ExitBound(w)
    \/ Accept(w) \/ Reset(w) \/ Read(w) \/ ReadEnd(w) \/ Succeeds(w)

-----------------------------------------------------------------------------
(* Cleanup, also after a success: TERM to the group, the grace, KILL to the
   group, then the leader is reaped, so that its number was pinned till then. *)
Ended(w, code) == [proc[w] EXCEPT !.at = "exited", !.code = code]
Term(w) ==
    /\ sup[w] = "term" /\ sup' = Set(sup, w, "grace")
    /\ \E obeys \in BOOLEAN :
        proc' = IF obeys /\ proc[w].at \in Alive THEN Set(proc, w, Ended(w, 1)) ELSE proc
    /\ \E obeys \in BOOLEAN : child' = Set(child, w, child[w] /\ ~obeys)
    /\ UNCHANGED <<sessions, record, result, canceled, launched, link, heard, used, interrupted, frames>>

Spared(w) == FALSE
Outcome(w) ==
    IF result[w] # "none" THEN result[w]
    ELSE IF heard[w].terminal = "error" THEN "worker"
    ELSE IF proc[w].code # 0 THEN "exit"
    ELSE IF heard[w].terminal = "none" THEN "protocol" ELSE "ok"
KillAndReap(w) ==
    /\ sup[w] = "grace" /\ sup' = Set(sup, w, "reaped")
    /\ child' = Set(child, w, Spared(w)) /\ result' = Set(result, w, Outcome(w))
    /\ proc' = [proc EXCEPT ![w].at = "gone"] /\ frames' = Set(frames, w, <<>>)
    /\ UNCHANGED <<sessions, record, canceled, launched, link, heard, used, interrupted>>

Remove(w) ==
    /\ sup[w] = "reaped" /\ sup' = Set(sup, w, "done") /\ record' = Set(record, w, "none")
    /\ UNCHANGED <<sessions, result, canceled, launched, link, heard, used, interrupted, process>>

Cancel(w) ==
    /\ Supervised(w) /\ ~canceled[w] /\ canceled' = Set(canceled, w, TRUE)
    /\ UNCHANGED <<sessions, record, sup, result, launched, link, heard, used, interrupted, process>>

Supervise(w) == Identify(w) \/ Spawn(w) \/ Loop(w) \/ Term(w) \/ KillAndReap(w) \/ Remove(w)

-----------------------------------------------------------------------------
(* The process.  It binds its recovery socket before it connects, and imports
   nothing before the coordinator has answered with the token. *)
Owned(w) == sup[w] \in {"spawned", "loop"}    \* the peer of the channel is there
Elsewhere == UNCHANGED <<sessions, record, thread>>
Becomes(w, at) == proc' = [proc EXCEPT ![w].at = at] /\ UNCHANGED <<child, frames>>
Reap(w) == IF sup[w] = "lost" THEN "gone" ELSE "exited"

Fails(w) == proc' = [proc EXCEPT ![w] = [@ EXCEPT !.at = Reap(w), !.code = 1]] /\ UNCHANGED <<child, frames>>
\* An interpreter or an environment that is broken ends before it connects.
Bind(w) == proc[w].at = "started" /\ (Becomes(w, "listening") \/ Fails(w)) /\ Elsewhere
Connect(w) ==
    /\ proc[w].at = "listening" /\ Elsewhere
    /\ IF Owned(w) THEN Becomes(w, "sent") ELSE Fails(w)
Import(w) == proc[w].at = "sent" /\ link[w] = "acknowledged" /\ Becomes(w, "running") /\ Elsewhere
Rejected(w) ==
    /\ proc[w].at = "sent" /\ link[w] = "none" /\ ~Owned(w) /\ Fails(w) /\ Elsewhere

\* Authored code may start processes in the group, fail at any point and leave
\* without a word; a frame it sends may also be one the guard refuses.
Fork(w) == proc[w].at = "running" /\ ~child[w] /\ child' = Set(child, w, TRUE) /\ UNCHANGED <<proc, frames>> /\ Elsewhere
Send(w) ==
    /\ proc[w].at = "running" /\ Owned(w) /\ proc[w].said < Len(Script) /\ Elsewhere /\ child' = child
    /\ \/ /\ frames' = Set(frames, w, Append(frames[w], Script[proc[w].said + 1]))
          /\ proc' = [proc EXCEPT ![w].said = @ + 1]
       \/ /\ proc[w].said > 1
          /\ frames' = Set(frames, w, Append(frames[w], "error"))
          /\ proc' = [proc EXCEPT ![w] = [@ EXCEPT !.said = Len(Script), !.code = 1]]
       \/ /\ proc[w].said = 3
          /\ frames' = Set(frames, w, Append(frames[w], "completed"))
          /\ proc' = [proc EXCEPT ![w] = [@ EXCEPT !.said = Len(Script), !.code = 1]]
Leave(w) ==
    /\ proc[w].at = "running"
    /\ \E code \in IF proc[w].said = Len(Script) THEN {proc[w].code} ELSE {0, 1} :
        proc' = [proc EXCEPT ![w] = [@ EXCEPT !.at = Reap(w), !.code = code]]
    /\ UNCHANGED <<child, frames>> /\ Elsewhere
\* A heartbeat that cannot be sent ends the whole group.
Disconnected(w) ==
    /\ proc[w].at = "running" /\ sup[w] = "lost" /\ Elsewhere
    /\ proc' = [proc EXCEPT ![w].at = "gone"] /\ child' = Set(child, w, FALSE) /\ frames' = frames

Run(w) == Bind(w) \/ Connect(w) \/ Import(w) \/ Rejected(w) \/ Fork(w) \/ Send(w) \/ Leave(w) \/ Disconnected(w)

-----------------------------------------------------------------------------
(* Sessions.  The lock is free once its holder is gone, however it went. *)
Acquire ==
    /\ coord = "down" /\ session < MaxSession /\ session' = session + 1
    /\ coord' = "fencing" /\ UNCHANGED <<record, thread, process>>
\* register_workspace and recover_publications, one transaction each.
FenceBuilds == coord = "fencing" /\ coord' = "cleaning" /\ UNCHANGED <<session, record, thread, process>>

\* recovery::stop of one directory: the number on record says whether to look
\* for the process, its own answer whether it is the one.
Matches(w) == record[w] = "full" /\ proc[w].at # "gone"
Forget(w) == record' = Set(record, w, "none")
StopStale(w) ==
    /\ coord = "cleaning" /\ record[w] # "none" /\ ~Matches(w)
    /\ Forget(w) /\ UNCHANGED <<sessions, thread, process>>
StopWorker(w) ==
    /\ coord = "cleaning" /\ Matches(w) /\ proc[w].at \in {"listening", "sent", "running"}
    /\ proc' = [proc EXCEPT ![w].at = "gone"] /\ child' = Set(child, w, FALSE)
    /\ Forget(w) /\ UNCHANGED <<sessions, thread, frames>>
\* It cannot be reached in two seconds, or does not end in ten.
StopFails(w) ==
    /\ coord = "cleaning" /\ Matches(w) /\ coord' = "down"
    /\ UNCHANGED <<session, record, thread, process>>
StartsAnyway == TRUE    \* mutant: a worker that cannot be stopped is left for later
Cleaned == \A w \in Workers : record[w] = "none"
\* reconcile::recover may find a conflict with authored files.
Reconcile ==
    /\ coord = "cleaning" /\ Cleaned /\ coord' \in {"ready", "down"}
    /\ UNCHANGED <<session, record, thread, process>>
Startup == FenceBuilds \/ Reconcile \/ \E w \in Workers : StopStale(w) \/ StopWorker(w) \/ StopFails(w)

Lose == [w \in Workers |-> IF Supervised(w) THEN "lost" ELSE sup[w]]
Crash ==
    /\ coord # "down" /\ coord' = "down" /\ sup' = Lose
    \* init reaps what is left of the session
    /\ proc' = [w \in Workers |-> IF Supervised(w) /\ Exited(w) THEN [proc[w] EXCEPT !.at = "gone"] ELSE proc[w]]
    /\ UNCHANGED <<session, record, result, canceled, launched, link, heard, used, interrupted, child, frames>>
Stop ==
    /\ coord = "ready" /\ \A w \in Workers : ~Supervised(w)
    /\ coord' = "down" /\ UNCHANGED <<session, record, thread, process>>

Rest == coord = "down" /\ session = MaxSession /\ UNCHANGED vars
Next ==
    \/ Acquire \/ Startup \/ Crash \/ Stop \/ Rest
    \/ \E w \in Workers : Persist(w) \/ Supervise(w) \/ Pass(w) \/ Cancel(w) \/ Run(w)

\* Threads are scheduled and time passes; nothing is assumed of the processes.
Fairness == \A w \in Workers : WF_vars(Supervise(w)) /\ WF_vars(Pass(w))
Spec == Init /\ [][Next]_vars /\ Fairness

-----------------------------------------------------------------------------
Frame == {Script[n] : n \in 1..Len(Script)} \cup {"error"}
Places == Alive \cup {"none", "exited", "gone"}
ProcessRow == [at : Places, said : 0..Len(Script), code : {0, 1}]
Knowledge == [hello : BOOLEAN, phase : {0, 2, 3, 9}, ready : BOOLEAN,
              terminal : {"none", "completed", "error"}, eof : BOOLEAN]
Threads == {"idle", "recorded", "spawned", "loop", "term", "grace", "reaped", "done", "lost"}

\* Every row of a directory, its thread and its process has its type.
TypeOK ==
    /\ session \in 0..MaxSession /\ coord \in {"down", "fencing", "cleaning", "ready"}
    /\ record \in [Workers -> {"none", "empty", "full"}]
    /\ sup \in [Workers -> Threads] /\ launched \in [Workers -> 0..MaxSession]
    /\ DOMAIN result = Workers
    /\ canceled \in [Workers -> BOOLEAN] /\ interrupted \in [Workers -> BOOLEAN]
    /\ link \in [Workers -> {"none", "acknowledged"}]
    /\ heard \in [Workers -> Knowledge] /\ used \in [Workers -> 0..Limit]
    /\ proc \in [Workers -> ProcessRow] /\ child \in [Workers -> BOOLEAN]
    /\ frames \in [Workers -> Seq(Frame)]

\* Once startup has succeeded, no worker process of an earlier session runs authored
\* code, wherever its coordinator crashed.  What a worker has started is another
\* matter: it outlives the worker only where the coordinator was lost during the
\* run, but then it may run on, since a worker that leaves by itself leaves it.
NoOrphan ==
    \A w \in Workers :
        /\ coord = "ready" /\ launched[w] < session => proc[w].at # "running"
        /\ proc[w].at = "gone" /\ child[w] => sup[w] = "lost"

\* The outcome is success exactly where the process said everything, left with
\* 0 and nothing cut its run short, though it may be gone before it is heard.
Truthful ==
    \A w \in Workers : sup[w] = "done" /\ ~interrupted[w] =>
        (result[w] = "ok" <=> proc[w].said = Len(Script) /\ proc[w].code = 0)

\* Whatever a process does, its supervised run ends or is lost with its session.
Stops == \A w \in Workers : (sup[w] = "recorded") ~> (sup[w] \in {"done", "lost"})
=============================================================================
