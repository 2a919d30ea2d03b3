------------------------ MODULE ExternalReadsProofs ------------------------
(* What the module ExternalReads promises, for every set of workspaces, of
   situations and of lifetimes with a margin below the provider's. *)
EXTENDS ExternalReads, TLAPS

-----------------------------------------------------------------------------
(* The types: of what the two properties are about. *)

Kinds == {"resolve", "renew", "release"}
Places == {"none", "start", "probing", "unowned", "owning", "connecting", "waiting", "answered", "refused"}
Stages == {"none", "planned", "opening", "reading", "ended", "accepted", "failed", "releasing", "done", "lost"}
Requests == [from : Spaces, kind : Kinds, fence : Nat]
LeaseRow == [held : BOOLEAN, fence : Nat, expiry : Nat]
CallRow == [kind : Kinds \cup {"none"}, at : Places, asked : Nat]
TicketRow == [fence : Nat, confirmed : Nat]

Types ==
    /\ now \in Nat /\ origin \in [Spaces -> Spaces]
    /\ mailbox \in [Spaces -> Seq(Requests)]
    /\ lease \in [Spaces -> LeaseRow] /\ gone \in [Spaces -> BOOLEAN]
    /\ stage \in [Spaces -> Stages] /\ thread \in [Spaces -> {"none", "waits", "calling", "dead", "joined"}]
    /\ polls \in [Spaces -> BOOLEAN] /\ ticket \in [Spaces -> TicketRow]
    /\ call \in [Spaces -> CallRow] /\ cut \in [Spaces -> BOOLEAN]

\* The renewal thread lives with the reading; who calls waits for the answer.
Kind(w) == IF stage[w] = "opening" THEN "resolve"
           ELSE IF stage[w] = "releasing" THEN "release"
           ELSE IF thread[w] = "calling" THEN "renew" ELSE "none"
Calls(w) ==
    /\ call[w].kind = Kind(w) /\ (call[w].kind = "none" <=> call[w].at = "none")
    /\ call[w].asked <= now /\ ticket[w].confirmed <= now
    /\ stage[w] \in {"none", "planned", "opening", "lost"} => thread[w] = "none"
    /\ stage[w] \in {"releasing", "done"} => thread[w] \in {"joined", "none"}
    /\ stage[w] \in {"none", "planned", "opening"} => ticket[w].fence = 0
    /\ polls[w] => stage[w] = "reading"

\* A release is under way only when the reading is over, a renewal only after
\* it has begun.
Mail(w) ==
    \A p \in Spaces : \A i \in DOMAIN mailbox[p] : mailbox[p][i].from = w =>
        /\ mailbox[p][i].kind = "release" => stage[w] \in {"releasing", "done", "lost"}
        /\ mailbox[p][i].kind = "renew" => stage[w] \notin {"none", "planned", "opening"}

\* What is held until then was not collected before its expiry, which is later
\* than the reader believes.
Keeps(w, since) ==
    /\ lease[w].held /\ since + Ttl <= lease[w].expiry
    /\ lease[w].expiry <= now + Ttl
    /\ gone[origin[w]] => lease[w].expiry <= now
Protects(w) ==
    /\ stage[w] \in {"reading", "ended"} => Keeps(w, ticket[w].confirmed)
    /\ call[w].at = "answered" /\ stage[w] \in {"opening", "reading", "ended"} => Keeps(w, call[w].asked)

\* Where no call was cut off: the provider's fence is the ticket's, one ahead
\* while its answer is on the way, and no request is left behind.
Ahead(w) == IF call[w].kind = "renew" /\ call[w].at = "answered" THEN 1 ELSE 0
Agrees(w) ==
    stage[w] # "lost" /\ ~cut[w] =>
        /\ lease[w].held /\ stage[w] # "done" => lease[w].fence = ticket[w].fence + Ahead(w)
        /\ stage[w] = "done" \/ (stage[w] = "releasing" /\ Returned(w)) => ~lease[w].held
Awaited(w) ==
    stage[w] # "lost" /\ ~cut[w] =>
        \A p \in Spaces : \A i \in DOMAIN mailbox[p] : mailbox[p][i].from = w =>
            /\ p = origin[w] /\ At(w, "waiting") /\ mailbox[p][i].kind = call[w].kind
            /\ mailbox[p][i].fence = ticket[w].fence
            /\ \A k \in DOMAIN mailbox[p] : mailbox[p][k].from = w => k = i

Good(w) == Calls(w) /\ Mail(w) /\ Protects(w) /\ Agrees(w) /\ Awaited(w)
Inv == Types /\ \A w \in Spaces : Good(w)

LEMMA InitInv == Init => Inv
<1> SUFFICES ASSUME Init PROVE Inv
  OBVIOUS
<1>1. origin \in [Spaces -> Spaces]
  BY Parameters DEF Init
<1>2. NewTicket \in TicketRow /\ NoLease \in LeaseRow /\ NoCall \in CallRow /\ <<>> \in Seq(Requests)
  BY DEF NewTicket, NoLease, NoCall, TicketRow, LeaseRow, CallRow, Kinds, Places
<1>3. Types
  <2>1. stage \in [Spaces -> Stages]
    BY DEF Init, Stages
  <2> QED
    BY <1>1, <1>2, <2>1 DEF Init, Types
<1>4. ASSUME NEW w \in Spaces PROVE Good(w)
  <2>1. /\ stage[w] \in {"planned", "none"} /\ thread[w] = "none" /\ call[w] = NoCall /\ ticket[w] = NewTicket
        /\ lease[w] = NoLease /\ now = 0 /\ polls[w] = FALSE /\ \A p \in Spaces : mailbox[p] = <<>>
    BY DEF Init
  <2> QED
    BY <2>1 DEF Good, Calls, Kind, NoCall, NewTicket, NoLease, Mail, Protects, Agrees, Awaited
<1> QED
  BY <1>3, <1>4 DEF Inv

-----------------------------------------------------------------------------
(* What is left alone. *)

\* The mail of w is what it was, or less.
Passed(w) ==
    \A p \in Spaces :
        \/ mailbox'[p] = mailbox[p] \/ mailbox'[p] = <<>>
        \/ mailbox[p] # <<>> /\ mailbox'[p] = Tail(mailbox[p])
        \/ \E r \in Requests : r.from # w /\ mailbox'[p] = Append(mailbox[p], r)

\* Where each of the requests that are left was.
LEMMA PassedOn ==
  ASSUME Types, NEW w \in Spaces, Passed(w), NEW p \in Spaces
  PROVE  \E shift \in {0, 1} : \A i \in DOMAIN mailbox'[p] : mailbox'[p][i].from = w =>
             i \in Nat /\ i + shift \in DOMAIN mailbox[p] /\ mailbox'[p][i] = mailbox[p][i + shift]
<1>1. mailbox[p] \in Seq(Requests)
  BY DEF Types
<1>2. CASE mailbox'[p] = mailbox[p] \/ mailbox'[p] = <<>>
  BY <1>1, <1>2
<1>3. CASE mailbox[p] # <<>> /\ mailbox'[p] = Tail(mailbox[p])
  BY <1>1, <1>3
<1>4. CASE \E r \in Requests : r.from # w /\ mailbox'[p] = Append(mailbox[p], r)
  BY <1>1, <1>4
<1> QED
  BY <1>2, <1>3, <1>4 DEF Passed

\* The order of the stages, as the mail sees it.
Onward(w) ==
    /\ stage[w] \in {"releasing", "done", "lost"} => stage'[w] \in {"releasing", "done", "lost"}
    /\ stage'[w] \in {"none", "planned", "opening"} => stage[w] \in {"none", "planned", "opening"}
    /\ stage[w] = "lost" => stage'[w] = "lost"

LEMMA MailKept ==
  ASSUME Inv, NEW w \in Spaces, Passed(w), Onward(w)
  PROVE  Mail(w)'
<1> SUFFICES ASSUME NEW p \in Spaces, NEW i \in DOMAIN mailbox'[p], mailbox'[p][i].from = w
             PROVE  /\ mailbox'[p][i].kind = "release" => stage'[w] \in {"releasing", "done", "lost"}
                    /\ mailbox'[p][i].kind = "renew" => stage'[w] \notin {"none", "planned", "opening"}
  BY DEF Mail
<1>1. PICK k \in DOMAIN mailbox[p] : mailbox'[p][i] = mailbox[p][k]
  BY PassedOn DEF Inv
<1> QED
  BY <1>1 DEF Inv, Good, Mail, Onward

\* A build that does not wait for an answer has no request anywhere, unless one
\* was cut off.
LEMMA AwaitedNone ==
  ASSUME Inv, NEW w \in Spaces, Passed(w), Onward(w), cut'[w] = cut[w], ~At(w, "waiting")
  PROVE  Awaited(w)'
<1> SUFFICES ASSUME stage'[w] # "lost", ~cut'[w], NEW p \in Spaces, NEW i \in DOMAIN mailbox'[p], mailbox'[p][i].from = w
             PROVE  FALSE
  BY DEF Awaited
<1>1. PICK k \in DOMAIN mailbox[p] : mailbox'[p][i] = mailbox[p][k]
  BY PassedOn DEF Inv
<1> QED
  BY <1>1 DEF Inv, Good, Awaited, Onward

\* A build whose rows stay is as good as it was, while time passes and what
\* nobody protects is collected.
LEMMA FrameStep ==
  ASSUME Inv, NEW w \in Spaces, Passed(w), now \in Nat, now' \in Nat, now <= now', UNCHANGED origin,
         call'[w] = call[w], ticket'[w] = ticket[w], stage'[w] = stage[w], thread'[w] = thread[w],
         lease'[w] = lease[w], cut[w] => cut'[w], polls'[w] => polls[w] \/ stage[w] = "reading",
         gone'[origin[w]] => gone[origin[w]] \/ ~lease[w].held \/ lease[w].expiry <= now
  PROVE  Good(w)'
<1>1. lease[w] \in LeaseRow /\ call[w] \in CallRow /\ ticket[w] \in TicketRow
  BY DEF Inv, Types
<1>2. lease[w].expiry \in Nat /\ call[w].asked \in Nat /\ ticket[w].confirmed \in Nat /\ Ttl \in Nat
  BY <1>1, Parameters DEF LeaseRow, CallRow, TicketRow
<1>3. Good(w)
  BY DEF Inv
<1>4. Calls(w)'
  BY <1>2, <1>3 DEF Good, Calls, Kind
<1>5. \A since \in Nat : Keeps(w, since) => Keeps(w, since)'
  BY <1>2 DEF Keeps
<1>6. Protects(w)'
  <2>1. stage[w] \in {"reading", "ended"} => Keeps(w, ticket[w].confirmed)'
    BY <1>2, <1>3 DEF Good, Protects, Keeps
  <2>2. call[w].at = "answered" /\ stage[w] \in {"opening", "reading", "ended"} => Keeps(w, call[w].asked)'
    BY <1>2, <1>3 DEF Good, Protects, Keeps
  <2> QED
    BY <2>1, <2>2 DEF Protects
<1>7. Mail(w)'
  BY MailKept DEF Onward
<1>8. Agrees(w)'
  BY <1>3 DEF Good, Agrees, Ahead, Returned
<1>9. Awaited(w)'
  <2> SUFFICES ASSUME stage'[w] # "lost", ~cut'[w], NEW p \in Spaces, NEW i \in DOMAIN mailbox'[p], mailbox'[p][i].from = w
               PROVE  /\ p = origin[w] /\ At(w, "waiting") /\ mailbox'[p][i].kind = call[w].kind
                      /\ mailbox'[p][i].fence = ticket[w].fence
                      /\ \A k \in DOMAIN mailbox'[p] : mailbox'[p][k].from = w => k = i
    BY DEF Awaited, At
  <2>1. PICK shift \in {0, 1} : \A k \in DOMAIN mailbox'[p] : mailbox'[p][k].from = w =>
             k \in Nat /\ k + shift \in DOMAIN mailbox[p] /\ mailbox'[p][k] = mailbox[p][k + shift]
    BY PassedOn DEF Inv
  <2>2. i \in Nat /\ i + shift \in DOMAIN mailbox[p] /\ mailbox'[p][i] = mailbox[p][i + shift]
    BY <2>1
  <2>3. ASSUME NEW k \in DOMAIN mailbox'[p], mailbox'[p][k].from = w PROVE k = i
    <3>1. k \in Nat /\ k + shift \in DOMAIN mailbox[p] /\ mailbox[p][k + shift].from = w
      BY <2>1, <2>3
    <3>2. k + shift = i + shift
      BY <1>3, <2>2, <3>1 DEF Good, Awaited
    <3> QED
      BY <2>2, <3>1, <3>2
  <2> QED
    BY <1>3, <2>2, <2>3 DEF Good, Awaited
<1> QED
  BY <1>4, <1>6, <1>7, <1>8, <1>9 DEF Good

\* Nobody's rows are touched: time, collection, a coordinator at its clients.
LEMMA WorldStep ==
  ASSUME Inv, Tick \/ Rest \/ \E p \in Spaces : Collect(p) \/ Submit(p) \/ Take(p) \/ Prepared(p) \/ Acquire(p) \/ Poll(p)
  PROVE  Inv'
<1>1. /\ UNCHANGED <<origin, mailbox, lease, stage, thread, ticket, call, cut>>
      /\ now' \in Nat /\ now \in Nat /\ now <= now' /\ gone' \in [Spaces -> BOOLEAN]
      /\ polls' \in [Spaces -> BOOLEAN] /\ \A w \in Spaces : polls'[w] => polls[w] \/ stage[w] = "reading"
  <2>1. now \in Nat /\ gone \in [Spaces -> BOOLEAN] /\ polls \in [Spaces -> BOOLEAN]
    BY DEF Inv, Types
  <2>2. CASE Tick
    BY <2>1, <2>2 DEF Tick, server, provider, build
  <2>3. CASE Rest
    BY <2>1, <2>3 DEF Rest, vars, server, provider, build
  <2>4. ASSUME NEW p \in Spaces, Collect(p) PROVE <1>1!:
    BY <2>1, <2>4 DEF Collect, server, build, Set
  <2>5. ASSUME NEW p \in Spaces, Submit(p) \/ Take(p) \/ Prepared(p) PROVE <1>1!:
    BY <2>1, <2>5 DEF Submit, Take, Prepared, provider, build
  <2>6. ASSUME NEW p \in Spaces, Acquire(p) PROVE <1>1!:
    BY <2>1, <2>6 DEF Acquire, server, provider, build
  <2>7. ASSUME NEW p \in Spaces, Poll(p) PROVE <1>1!:
    BY <2>1, <2>7 DEF Poll, Around, server, provider, Set
  <2> QED
    BY <2>2, <2>3, <2>4, <2>5, <2>6, <2>7
<1>2. ASSUME NEW w \in Spaces
      PROVE  gone'[origin[w]] => gone[origin[w]] \/ ~lease[w].held \/ lease[w].expiry <= now
  <2>1. CASE UNCHANGED gone
    BY <2>1
  <2>2. ASSUME NEW p \in Spaces, Collect(p)
        PROVE  gone'[origin[w]] => gone[origin[w]] \/ ~lease[w].held \/ lease[w].expiry <= now
    <3>1. origin[w] \in Spaces /\ lease[w].expiry \in Nat /\ now \in Nat
      BY DEF Inv, Types, LeaseRow
    <3>2. origin[w] # p => gone'[origin[w]] = gone[origin[w]]
      BY <2>2, <3>1 DEF Collect, Set, Inv, Types
    <3>3. CASE origin[w] = p
      <4>1. ~(lease[w].held /\ now < lease[w].expiry)
        BY <2>2, <3>3 DEF Collect, Protected
      <4> QED
        BY <3>1, <4>1
    <3>4. CASE origin[w] # p
      BY <3>2, <3>4
    <3> QED
      BY <3>3, <3>4
  <2> QED
    BY <2>1, <2>2 DEF Tick, Rest, Submit, Take, Prepared, Acquire, Poll, Around, vars, provider
<1>3. Types'
  BY <1>1 DEF Inv, Types
<1>4. ASSUME NEW w \in Spaces PROVE Good(w)'
  <2>1. Passed(w)
    BY <1>1 DEF Passed
  <2> QED
    BY <1>1, <1>2, <2>1, FrameStep
<1> QED
  BY <1>3, <1>4 DEF Inv

\* One build acts: only its rows, and the mail of its requests, can change.
LEMMA Others ==
  ASSUME Inv, NEW w \in Spaces, UNCHANGED <<now, origin, gone>>,
         \A v \in Spaces \ {w} :
            /\ Passed(v) /\ call'[v] = call[v] /\ ticket'[v] = ticket[v] /\ stage'[v] = stage[v]
            /\ thread'[v] = thread[v] /\ polls'[v] = polls[v] /\ lease'[v] = lease[v] /\ cut'[v] = cut[v],
         Types', Good(w)'
  PROVE  Inv'
<1>1. now \in Nat /\ now <= now'
  BY DEF Inv, Types
<1>2. ASSUME NEW v \in Spaces \ {w} PROVE Good(v)'
  BY <1>1, FrameStep
<1> QED
  BY <1>2 DEF Inv

\* What is known of the numbers of a build.
LEMMA Numbers ==
  ASSUME Inv, NEW w \in Spaces
  PROVE  /\ now \in Nat /\ Ttl \in Nat /\ Margin \in Nat /\ Margin <= Ttl /\ origin[w] \in Spaces
         /\ lease[w] \in LeaseRow /\ lease[w].expiry \in Nat /\ lease[w].fence \in Nat /\ lease[w].held \in BOOLEAN
         /\ call[w] \in CallRow /\ call[w].asked \in Nat /\ call[w].at \in Places
         /\ ticket[w] \in TicketRow /\ ticket[w].fence \in Nat /\ ticket[w].confirmed \in Nat
         /\ stage[w] \in Stages
BY Parameters DEF Inv, Types, LeaseRow, CallRow, TicketRow

-----------------------------------------------------------------------------
(* A call on its way. *)

\* It is passed on without an answer, or fails.
LEMMA GoesStep ==
  ASSUME Inv, NEW w \in Spaces, NEW place \in Places \ {"none", "waiting", "answered"},
         call' = [call EXCEPT ![w].at = place], ~At(w, "none"), ~At(w, "answered"),
         (cut' = cut /\ place # "refused" /\ ~At(w, "waiting") /\ ~At(w, "refused")) \/ cut' = [cut EXCEPT ![w] = TRUE],
         UNCHANGED <<now, origin, mailbox, lease, gone, stage, polls, thread, ticket>>
  PROVE  Inv'
<1>1. call[w] = [kind |-> call[w].kind, at |-> call[w].at, asked |-> call[w].asked]
  BY Numbers DEF CallRow
<1>2. call'[w].kind = call[w].kind /\ call'[w].at = place /\ call'[w].asked = call[w].asked /\ call'[w] \in CallRow
      /\ \A v \in Spaces \ {w} : call'[v] = call[v]
  BY <1>1, Numbers DEF Inv, Types, CallRow
<1>3. cut' \in [Spaces -> BOOLEAN] /\ (\A v \in Spaces \ {w} : cut'[v] = cut[v]) /\ (cut[w] => cut'[w])
      /\ (place = "refused" \/ At(w, "waiting") \/ At(w, "refused") => cut'[w])
  BY DEF Inv, Types
<1>4. Types'
  BY <1>2, <1>3 DEF Inv, Types
<1>5. \A v \in Spaces : Passed(v)
  BY DEF Passed
<1>6. Good(w)'
  <2>1. Good(w)
    BY DEF Inv
  <2>2. Calls(w)' /\ Mail(w)'
    BY <1>2, <2>1 DEF Good, Calls, Kind, Mail, At
  <2>3. Protects(w)'
    <3>1. stage[w] \in {"reading", "ended"} => Keeps(w, ticket[w].confirmed)
      BY <2>1 DEF Good, Protects
    <3> QED
      BY <1>2, <3>1 DEF Protects, Keeps
  <2>4. Agrees(w)'
    BY <1>2, <1>3, <2>1 DEF Good, Agrees, Ahead, Returned, At
  <2>5. Awaited(w)'
    BY <1>2, <1>3, <2>1 DEF Good, Awaited, At
  <2> QED
    BY <2>2, <2>3, <2>4, <2>5 DEF Good
<1> QED
  BY <1>2, <1>3, <1>4, <1>5, <1>6, Others

LEMMA CallStep == ASSUME Inv, NEW w \in Spaces, Discover(w) \/ Unlocked(w) \/ AcquireMetadata(w) \/ GiveUp(w) PROVE Inv'
<1>1. UNCHANGED <<now, origin, mailbox, lease, gone, stage, polls, thread, ticket>>
  BY DEF Discover, Unlocked, AcquireMetadata, GiveUp, provider, build, server
<1>2. call[w].at \in {"start", "probing", "unowned", "connecting", "waiting"}
  BY DEF Discover, Unlocked, AcquireMetadata, GiveUp, At, Late
<1>3. \E place \in {"probing", "connecting", "unowned", "owning", "refused"} :
        /\ call' = [call EXCEPT ![w].at = place]
        /\ \/ cut' = cut /\ place # "refused" /\ call[w].at # "waiting"
           \/ cut' = [cut EXCEPT ![w] = TRUE]
  BY DEF Discover, Unlocked, AcquireMetadata, GiveUp, Goes, Fails, Set, At
<1> QED
  BY <1>1, <1>2, <1>3, GoesStep DEF At, Places

-----------------------------------------------------------------------------
(* A request is sent, served, and its answer taken. *)

\* The listener passes a request on: the only one of this build in any mailbox,
\* unless one was cut off before.
LEMMA ConnectStep == ASSUME Inv, NEW w \in Spaces, Connect(w) PROVE Inv'
<1> DEFINE p == origin[w]
<1>1. /\ UNCHANGED <<now, origin, lease, gone, stage, polls, thread, ticket, cut>>
      /\ At(w, "connecting") /\ call' = [call EXCEPT ![w].at = "waiting"] /\ p \in Spaces
      /\ mailbox' = [mailbox EXCEPT ![p] = Append(mailbox[p], Request(w))]
  BY Numbers DEF Connect, Goes, provider, build
<1>2. Good(w) /\ mailbox[p] \in Seq(Requests)
  BY <1>1 DEF Inv, Types
<1>3. call[w].kind \in Kinds /\ call[w].kind = Kind(w)
  BY <1>1, <1>2, Numbers DEF Good, Calls, At, CallRow
<1>4. Request(w) \in Requests /\ Request(w).from = w /\ Request(w).kind = Kind(w) /\ Request(w).fence = ticket[w].fence
  BY <1>3, Numbers DEF Request, Requests
<1>5. /\ call'[w].kind = call[w].kind /\ call'[w].at = "waiting" /\ call'[w].asked = call[w].asked /\ call'[w] \in CallRow
      /\ \A v \in Spaces \ {w} : call'[v] = call[v]
  BY <1>1, Numbers DEF Inv, Types, CallRow, Places
<1>6. /\ mailbox'[p] = Append(mailbox[p], Request(w)) /\ mailbox' \in [Spaces -> Seq(Requests)]
      /\ \A q \in Spaces \ {p} : mailbox'[q] = mailbox[q]
  <2>1. Append(mailbox[p], Request(w)) \in Seq(Requests)
    BY <1>2, <1>4
  <2> QED
    BY <1>1, <2>1 DEF Inv, Types
<1>7. Types'
  BY <1>1, <1>5, <1>6 DEF Inv, Types
<1>8. ASSUME NEW v \in Spaces \ {w} PROVE Passed(v)
  BY <1>4, <1>6 DEF Passed
\* Where the requests of w are.
<1>9. ASSUME NEW q \in Spaces, NEW i \in DOMAIN mailbox'[q], mailbox'[q][i].from = w
      PROVE  \/ i \in DOMAIN mailbox[q] /\ mailbox'[q][i] = mailbox[q][i]
             \/ q = p /\ i = Len(mailbox[p]) + 1 /\ mailbox'[q][i] = Request(w)
  <2>1. CASE q # p
    BY <1>6, <1>9, <2>1
  <2>2. CASE q = p
    <3>1. ASSUME NEW box \in Seq(Requests), NEW e \in Requests, NEW k \in DOMAIN Append(box, e)
          PROVE  \/ k \in DOMAIN box /\ Append(box, e)[k] = box[k]
                 \/ k = Len(box) + 1 /\ Append(box, e)[k] = e
      OBVIOUS
    <3>2. i \in DOMAIN Append(mailbox[p], Request(w)) /\ mailbox'[q][i] = Append(mailbox[p], Request(w))[i]
      BY <1>6, <2>2
    <3>3. \/ i \in DOMAIN mailbox[p] /\ Append(mailbox[p], Request(w))[i] = mailbox[p][i]
          \/ i = Len(mailbox[p]) + 1 /\ Append(mailbox[p], Request(w))[i] = Request(w)
      BY <1>2, <1>4, <3>1, <3>2
    <3> QED
      BY <2>2, <3>2, <3>3
  <2> QED
    BY <2>1, <2>2
<1>10. Good(w)'
  <2>1. Calls(w)'
    BY <1>1, <1>2, <1>5 DEF Good, Calls, Kind, At
  <2>2. Mail(w)'
    <3> SUFFICES ASSUME NEW q \in Spaces, NEW i \in DOMAIN mailbox'[q], mailbox'[q][i].from = w
                 PROVE  /\ mailbox'[q][i].kind = "release" => stage[w] \in {"releasing", "done", "lost"}
                        /\ mailbox'[q][i].kind = "renew" => stage[w] \notin {"none", "planned", "opening"}
      BY <1>1 DEF Mail
    <3>1. CASE i \in DOMAIN mailbox[q] /\ mailbox'[q][i] = mailbox[q][i]
      BY <1>2, <3>1 DEF Good, Mail
    <3>2. CASE mailbox'[q][i] = Request(w)
      BY <1>2, <1>4, <3>2 DEF Good, Calls, Kind
    <3> QED
      BY <1>9, <3>1, <3>2
  <2>3. Protects(w)'
    BY <1>1, <1>2, <1>5 DEF Good, Protects, Keeps
  <2>4. Agrees(w)'
    BY <1>1, <1>2, <1>5 DEF Good, Agrees, Ahead, Returned, At
  <2>5. Awaited(w)'
    <3> SUFFICES ASSUME stage[w] # "lost", ~cut[w], NEW q \in Spaces, NEW i \in DOMAIN mailbox'[q], mailbox'[q][i].from = w
                 PROVE  /\ q = p /\ mailbox'[q][i].kind = call[w].kind /\ mailbox'[q][i].fence = ticket[w].fence
                        /\ \A k \in DOMAIN mailbox'[q] : mailbox'[q][k].from = w => k = i
      BY <1>1, <1>5 DEF Awaited, At
    <3>1. \A r \in Spaces : \A k \in DOMAIN mailbox[r] : mailbox[r][k].from # w
      BY <1>1, <1>2 DEF Good, Awaited, At
    <3>2. q = p /\ i = Len(mailbox[p]) + 1 /\ mailbox'[q][i] = Request(w)
      BY <1>9, <3>1
    <3>3. \A k \in DOMAIN mailbox'[q] : mailbox'[q][k].from = w => k = i
      BY <1>9, <3>1, <3>2
    <3> QED
      BY <1>3, <1>4, <3>2, <3>3
  <2> QED
    BY <2>1, <2>2, <2>3, <2>4, <2>5 DEF Good
<1> QED
  BY <1>1, <1>5, <1>7, <1>8, <1>10, Others
\* What a request does at the provider.
LEMMA Serving ==
  ASSUME Inv, NEW r \in Requests, Serve(r), UNCHANGED <<now, origin>>
  PROVE  /\ lease' \in [Spaces -> LeaseRow] /\ gone' = gone
         /\ \A v \in Spaces \ {r.from} : lease'[v] = lease[v]
         /\ ~Granted(r) => lease' = lease
         /\ Granted(r) => lease'[r.from] = Leased(r)
<1>1. r.from \in Spaces /\ lease \in [Spaces -> LeaseRow]
  BY DEF Inv, Types, Requests
<1>2. Leased(r) \in LeaseRow
  <2>1. now + Ttl \in Nat /\ lease[r.from].fence + 1 \in Nat
    BY <1>1, Numbers
  <2> QED
    BY <2>1 DEF Leased, LeaseRow, NoLease
<1>3. Granted(r) => lease' = [lease EXCEPT ![r.from] = Leased(r)]
  BY DEF Serve, Set
<1>4. ~Granted(r) => lease' = lease
  BY DEF Serve
<1> QED
  BY <1>1, <1>2, <1>3, <1>4 DEF Serve

\* A renewal or a resolution never takes from a reader what it holds, and what
\* either grants holds from its question on.
LEMMA ServingKeeps ==
  ASSUME Inv, NEW r \in Requests, Serve(r), UNCHANGED <<now, origin>>, NEW since \in Nat, since <= now
  PROVE  /\ r.kind # "release" /\ Keeps(r.from, since) => Keeps(r.from, since)'
         /\ r.kind = "resolve" /\ Granted(r) => Keeps(r.from, since)'
         /\ r.kind = "renew" /\ Granted(r) /\ (\E s \in Nat : Keeps(r.from, s)) => Keeps(r.from, since)'
<1> DEFINE w == r.from
<1>1. w \in Spaces /\ r.kind \in Kinds
  BY DEF Requests
<1>2. now \in Nat /\ Ttl \in Nat /\ lease[w].expiry \in Nat /\ lease[w].fence \in Nat /\ lease[w].held \in BOOLEAN
  BY <1>1, Numbers
<1>3. gone'[origin'[w]] = gone[origin[w]] /\ now' = now
  BY Serving
<1>4. ASSUME Granted(r), r.kind # "release"
      PROVE  lease'[w].held /\ lease'[w].expiry = now + Ttl
  <2>1. lease'[w] = Leased(r)
    BY <1>4, Serving
  <2> QED
    BY <1>4, <2>1 DEF Leased
<1>5. ASSUME Granted(r), r.kind # "release", ~gone[origin[w]]
      PROVE  Keeps(w, since)'
  BY <1>2, <1>3, <1>4, <1>5 DEF Keeps
<1>6. ASSUME ~Granted(r), Keeps(w, since)
      PROVE  Keeps(w, since)'
  <2>1. lease' = lease
    BY <1>6, Serving
  <2> QED
    BY <1>3, <1>6, <2>1 DEF Keeps
<1>7. ASSUME Granted(r), r.kind = "resolve"
      PROVE  ~gone[origin[w]]
  BY <1>7 DEF Granted
<1>8. ASSUME Granted(r), r.kind = "renew", NEW s \in Nat, Keeps(w, s)
      PROVE  ~gone[origin[w]]
  <2>1. now < lease[w].expiry
    BY <1>8 DEF Granted
  <2> QED
    BY <1>2, <1>8, <2>1 DEF Keeps
<1>9. r.kind # "release" => r.kind \in {"resolve", "renew"}
  BY <1>1 DEF Kinds
<1> QED
  BY <1>5, <1>6, <1>7, <1>8, <1>9

\* The provider answers who waits for it: at its own database, or through a
\* coordinator.
LEMMA AnswerStep ==
  ASSUME Inv, NEW r \in Requests, NEW w \in Spaces, r.from = w, Serve(r),
         r.kind = call[w].kind, call[w].at \notin {"none", "answered", "refused"},
         stage[w] # "lost" /\ ~cut[w] => r.fence = ticket[w].fence,
         call' = [call EXCEPT ![w].at = Answer(r)],
         UNCHANGED <<now, origin, stage, polls, thread, ticket, cut>>,
         mailbox' \in [Spaces -> Seq(Requests)], \A v \in Spaces : Passed(v),
         stage[w] # "lost" /\ ~cut[w] => \A p \in Spaces : \A i \in DOMAIN mailbox'[p] : mailbox'[p][i].from # w
  PROVE  Inv'
<1>1. Good(w)
  BY DEF Inv
<1>2. Answer(r) = (IF Granted(r) THEN "answered" ELSE "refused") /\ Answer(r) \in Places
  BY DEF Answer, Places
<1>3. /\ call'[w].kind = call[w].kind /\ call'[w].at = Answer(r) /\ call'[w].asked = call[w].asked /\ call'[w] \in CallRow
      /\ \A v \in Spaces \ {w} : call'[v] = call[v]
  BY <1>2, Numbers DEF Inv, Types, CallRow
<1>4. /\ lease' \in [Spaces -> LeaseRow] /\ gone' = gone /\ \A v \in Spaces \ {w} : lease'[v] = lease[v]
  BY Serving
<1>5. Types'
  BY <1>3, <1>4 DEF Inv, Types
<1>6. r.kind \in Kinds /\ call[w].kind = r.kind /\ r.kind = Kind(w)
  BY <1>1 DEF Good, Calls, Requests
<1>7. Calls(w)'
  BY <1>1, <1>2, <1>3, <1>6 DEF Good, Calls, Kind, Kinds
<1>8. Mail(w)'
  BY MailKept DEF Onward
<1>9. Protects(w)'
  <2>1. ticket[w].confirmed \in Nat /\ ticket[w].confirmed <= now /\ call[w].asked \in Nat /\ call[w].asked <= now
    BY <1>1, Numbers DEF Good, Calls
  <2>2. stage[w] \in {"opening", "reading", "ended"} => r.kind # "release"
    BY <1>1, <1>6 DEF Kind
  <2>3. stage[w] \in {"reading", "ended"} => Keeps(w, ticket[w].confirmed)
    BY <1>1 DEF Good, Protects
  <2>4. stage[w] \in {"reading", "ended"} => Keeps(w, ticket[w].confirmed)'
    <3>1. ASSUME NEW s \in Nat, s <= now, r.kind # "release", Keeps(w, s) PROVE Keeps(w, s)'
      BY <3>1, ServingKeeps
    <3> QED
      BY <2>1, <2>2, <2>3, <3>1 DEF Keeps
  <2>5. Granted(r) /\ stage[w] \in {"opening", "reading", "ended"} => Keeps(w, call[w].asked)'
    <3>1. ASSUME NEW s \in Nat, s <= now, Granted(r), r.kind = "resolve" \/ (r.kind = "renew" /\ \E t \in Nat : Keeps(w, t))
          PROVE  Keeps(w, s)'
      BY <3>1, ServingKeeps
    <3>2. stage[w] = "opening" => r.kind = "resolve"
      BY <1>6 DEF Kind
    <3>3. stage[w] \in {"reading", "ended"} => r.kind = "renew"
      BY <1>6 DEF Kind, Kinds
    <3> QED
      BY <1>3, <2>1, <2>3, <3>1, <3>2, <3>3 DEF Keeps
  <2>6. ticket'[w].confirmed = ticket[w].confirmed /\ call'[w].asked = call[w].asked /\ stage'[w] = stage[w]
    BY <1>3
  <2> QED
    BY <1>2, <1>3, <2>4, <2>5, <2>6 DEF Protects, Keeps
<1>10. Agrees(w)'
  <2> SUFFICES ASSUME stage[w] # "lost", ~cut[w]
               PROVE  /\ lease'[w].held /\ stage[w] # "done" => lease'[w].fence = ticket[w].fence + Ahead(w)'
                      /\ stage[w] = "done" \/ (stage[w] = "releasing" /\ Returned(w)') => ~lease'[w].held
    BY DEF Agrees
  <2>1. stage[w] # "done"
    BY <1>1, <1>6 DEF Good, Calls, Kind, Kinds
  <2>2. lease[w].held => lease[w].fence = ticket[w].fence
    BY <1>1, <2>1, Numbers DEF Good, Agrees, Ahead
  <2>3. r.fence = ticket[w].fence /\ ticket[w].fence \in Nat /\ lease[w].held \in BOOLEAN
    BY Numbers
  <2>4. CASE ~Granted(r)
    <3>1. lease' = lease /\ call'[w].at = "refused"
      BY <1>2, <1>3, <2>4, Serving
    <3>2. stage[w] = "releasing" => ~lease[w].held
      BY <1>6, <2>2, <2>3, <2>4 DEF Granted, Kind
    <3> QED
      BY <2>1, <2>2, <2>3, <3>1, <3>2 DEF Ahead
  <2>5. CASE Granted(r)
    <3>1. lease'[w] = Leased(r) /\ call'[w].at = "answered"
      BY <1>2, <1>3, <2>5, Serving
    <3>2. CASE r.kind = "resolve"
      <4>1. stage[w] = "opening" /\ ticket[w].fence = 0
        BY <1>1, <1>6, <3>2 DEF Good, Calls, Kind
      <4>2. lease'[w].fence = 0 /\ Ahead(w)' = 0
        BY <1>3, <1>6, <3>1, <3>2 DEF Leased, Ahead
      <4> QED
        BY <4>1, <4>2
    <3>3. CASE r.kind = "renew"
      <4>1. lease[w].fence = ticket[w].fence /\ lease'[w].fence = lease[w].fence + 1 /\ Ahead(w)' = 1
        BY <1>3, <1>6, <2>3, <2>5, <3>1, <3>3 DEF Granted, Leased, Ahead
      <4>2. stage[w] # "releasing"
        BY <1>6, <3>3 DEF Kind
      <4> QED
        BY <2>1, <4>1, <4>2
    <3>4. CASE r.kind = "release"
      BY <3>1, <3>4 DEF Leased, NoLease
    <3> QED
      BY <1>6, <3>2, <3>3, <3>4 DEF Kinds
  <2> QED
    BY <2>4, <2>5
<1>11. Awaited(w)'
  BY DEF Awaited
<1> QED
  BY <1>3, <1>4, <1>5, <1>7, <1>8, <1>9, <1>10, <1>11, Others DEF Good

\* A reader answers for itself under the provider's lock.
LEMMA ServeItselfStep == ASSUME Inv, NEW w \in Spaces, ServeItself(w) PROVE Inv'
<1> DEFINE r == Request(w)
<1>1. /\ UNCHANGED <<now, origin, mailbox, stage, polls, thread, ticket, cut>> /\ At(w, "owning")
      /\ Serve(r) /\ call' = [call EXCEPT ![w].at = Answer(r)]
  BY DEF ServeItself, Goes, server, build
<1>2. Good(w) /\ mailbox \in [Spaces -> Seq(Requests)]
  BY DEF Inv, Types
<1>3. r.from = w /\ r.kind = call[w].kind /\ r.fence = ticket[w].fence
  BY DEF Request
<1>4. r \in Requests
  BY <1>1, <1>2, Numbers DEF Request, Requests, CallRow, Good, Calls, At
<1>5. \A v \in Spaces : Passed(v)
  BY <1>1 DEF Passed
<1>6. stage[w] # "lost" /\ ~cut[w] => \A p \in Spaces : \A i \in DOMAIN mailbox[p] : mailbox[p][i].from # w
  BY <1>1, <1>2 DEF Good, Awaited, At
<1>7. call[w].at \notin {"none", "answered", "refused"}
  BY <1>1 DEF At
<1> HIDE DEF r
<1> QED
  BY <1>1, <1>2, <1>3, <1>4, <1>5, <1>6, <1>7, AnswerStep

\* A coordinator takes the first request of its mailbox: of a build that waits
\* for it, or of one that has given up.
LEMMA DrainStep == ASSUME Inv, NEW p \in Spaces, Drain(p) PROVE Inv'
<1>0. PICK r \in Requests, w \in Spaces : r = Head(mailbox[p]) /\ w = r.from
  <2>1. mailbox[p] # <<>> /\ mailbox[p] \in Seq(Requests)
    BY DEF Drain, Inv, Types
  <2>2. Head(mailbox[p]) \in Requests
    BY <2>1
  <2> QED
    BY <2>2 DEF Requests
<1>1. /\ UNCHANGED <<now, origin, stage, polls, thread, ticket>> /\ Serve(r)
      /\ mailbox[p] # <<>> /\ mailbox' = [mailbox EXCEPT ![p] = Tail(mailbox[p])]
      /\ IF At(w, "waiting") /\ call[w].kind = r.kind
         THEN call' = [call EXCEPT ![w].at = Answer(r)] /\ cut' = cut ELSE UNCHANGED <<call, cut>>
  BY <1>0 DEF Drain, Goes, build
<1>2. mailbox \in [Spaces -> Seq(Requests)] /\ mailbox[p] \in Seq(Requests)
  BY DEF Inv, Types
<1>3. 1 \in DOMAIN mailbox[p] /\ mailbox[p][1] = r /\ r.from = w
  BY <1>0, <1>1, <1>2
<1>4. mailbox'[p] = Tail(mailbox[p]) /\ mailbox' \in [Spaces -> Seq(Requests)] /\ \A q \in Spaces \ {p} : mailbox'[q] = mailbox[q]
  <2>1. Tail(mailbox[p]) \in Seq(Requests)
    BY <1>1, <1>2
  <2> QED
    BY <1>1, <1>2, <2>1
<1>5. \A v \in Spaces : Passed(v)
  BY <1>1, <1>4 DEF Passed
<1>6. Good(w)
  BY <1>3 DEF Inv
<1>7. CASE At(w, "waiting") /\ call[w].kind = r.kind
  <2>1. ASSUME stage[w] # "lost", ~cut[w]
        PROVE  /\ r.fence = ticket[w].fence
               /\ \A q \in Spaces : \A i \in DOMAIN mailbox'[q] : mailbox'[q][i].from # w
    <3>1. r.fence = ticket[w].fence /\ p = origin[w]
      BY <1>3, <1>6, <2>1 DEF Good, Awaited
    <3>2. ASSUME NEW q \in Spaces \ {p}, NEW i \in DOMAIN mailbox'[q] PROVE mailbox'[q][i].from # w
      BY <1>4, <1>6, <2>1, <3>1, <3>2 DEF Good, Awaited
    <3>3. ASSUME NEW i \in DOMAIN mailbox'[p], mailbox'[p][i].from = w PROVE FALSE
      <4>1. i \in Nat /\ i > 0 /\ i + 1 \in DOMAIN mailbox[p] /\ mailbox[p][i + 1].from = w
        BY <1>1, <1>2, <1>4, <3>3
      <4>2. i + 1 = 1
        BY <1>3, <1>6, <2>1, <4>1 DEF Good, Awaited
      <4> QED
        BY <4>1, <4>2
    <3> QED
      BY <3>1, <3>2, <3>3
  <2>2. call[w].at \notin {"none", "answered", "refused"}
    BY <1>7 DEF At
  <2> QED
    BY <1>1, <1>3, <1>4, <1>5, <1>7, <2>1, <2>2, AnswerStep, SMTT(30)
<1>8. CASE ~(At(w, "waiting") /\ call[w].kind = r.kind)
  <2>1. UNCHANGED <<call, cut>>
    BY <1>1, <1>8
  <2>2. stage[w] = "lost" \/ cut[w]
    BY <1>3, <1>6, <1>8 DEF Good, Awaited
  <2>3. lease' \in [Spaces -> LeaseRow] /\ gone' = gone /\ \A v \in Spaces \ {w} : lease'[v] = lease[v]
    BY <1>1, <1>3, Serving
  <2>4. Types'
    BY <1>1, <1>4, <2>1, <2>3 DEF Inv, Types
  <2>5. Calls(w)' /\ Mail(w)' /\ Agrees(w)' /\ Awaited(w)'
    BY <1>1, <1>3, <1>5, <1>6, <2>1, <2>2, MailKept DEF Good, Calls, Kind, Agrees, Awaited, Onward
  <2>6. Protects(w)'
    <3>1. r.kind # "release" \/ stage[w] \in {"releasing", "done", "lost"}
      BY <1>3, <1>6 DEF Good, Mail
    <3>2. ASSUME NEW s \in Nat, s <= now, r.kind # "release", Keeps(w, s) PROVE Keeps(w, s)'
      BY <1>1, <1>3, <3>2, ServingKeeps
    <3>3. ticket[w].confirmed \in Nat /\ ticket[w].confirmed <= now /\ call[w].asked \in Nat /\ call[w].asked <= now
      BY <1>3, <1>6, Numbers DEF Good, Calls
    <3>4. ticket'[w] = ticket[w] /\ call'[w] = call[w] /\ stage'[w] = stage[w]
      BY <1>1, <2>1
    <3>5. stage[w] \in {"reading", "ended"} => Keeps(w, ticket[w].confirmed)'
      BY <1>6, <3>1, <3>2, <3>3, <3>4 DEF Good, Protects, Keeps
    <3>6. call[w].at = "answered" /\ stage[w] \in {"opening", "reading", "ended"} => Keeps(w, call[w].asked)'
      BY <1>6, <3>1, <3>2, <3>3, <3>4 DEF Good, Protects, Keeps
    <3> QED
      BY <3>4, <3>5, <3>6 DEF Protects, Keeps
  <2>7. Good(w)'
    BY <2>5, <2>6 DEF Good
  <2> QED
    BY <1>1, <1>3, <1>5, <2>1, <2>3, <2>4, <2>7, Others
<1> QED
  BY <1>7, <1>8

-----------------------------------------------------------------------------
(* A build takes a step of its own. *)

\* What such a step has to show, when the provider is not asked.
LEMMA ActStep ==
  ASSUME Inv, NEW w \in Spaces, UNCHANGED <<now, origin, lease, gone, cut>>,
         mailbox' \in [Spaces -> Seq(Requests)], \A v \in Spaces : Passed(v),
         NEW c \in CallRow, call' = [call EXCEPT ![w] = c], NEW t \in TicketRow, ticket' = [ticket EXCEPT ![w] = t],
         NEW at \in Stages, stage' = [stage EXCEPT ![w] = at], NEW now1 \in BOOLEAN, polls' = [polls EXCEPT ![w] = now1],
         NEW renews \in {"none", "waits", "calling", "dead", "joined"}, thread' = [thread EXCEPT ![w] = renews],
         Onward(w), ~At(w, "waiting") \/ UNCHANGED <<mailbox, call, ticket>>,
         Calls(w)', Protects(w)', Agrees(w)'
  PROVE  Inv'
<1>1. Types'
  BY DEF Inv, Types
<1>2. Mail(w)'
  BY MailKept
<1>3. Awaited(w)'
  <2>1. CASE ~At(w, "waiting")
    BY <2>1, AwaitedNone
  <2>2. CASE UNCHANGED <<mailbox, call, ticket>>
    BY <2>2 DEF Inv, Good, Awaited, At, Onward
  <2> QED
    BY <2>1, <2>2
<1>4. \A v \in Spaces \ {w} :
        /\ Passed(v) /\ call'[v] = call[v] /\ ticket'[v] = ticket[v] /\ stage'[v] = stage[v]
        /\ thread'[v] = thread[v] /\ polls'[v] = polls[v] /\ lease'[v] = lease[v] /\ cut'[v] = cut[v]
  BY DEF Inv, Types
<1> QED
  BY <1>1, <1>2, <1>3, <1>4, Others DEF Good

\* A row that is written back is left alone.
LEMMA SameRows ==
  ASSUME Inv, NEW w \in Spaces
  PROVE  /\ call = [call EXCEPT ![w] = call[w]] /\ ticket = [ticket EXCEPT ![w] = ticket[w]]
         /\ stage = [stage EXCEPT ![w] = stage[w]] /\ polls = [polls EXCEPT ![w] = polls[w]]
         /\ thread = [thread EXCEPT ![w] = thread[w]]
         /\ polls[w] \in BOOLEAN /\ thread[w] \in {"none", "waits", "calling", "dead", "joined"}
         /\ NoCall \in CallRow /\ NewTicket \in TicketRow
         /\ \A kind \in Kinds : [kind |-> kind, at |-> "start", asked |-> now] \in CallRow
<1>1. NoCall \in CallRow /\ NewTicket \in TicketRow /\ \A kind \in Kinds : [kind |-> kind, at |-> "start", asked |-> now] \in CallRow
  BY Numbers DEF NoCall, NewTicket, CallRow, TicketRow, Kinds, Places
<1> QED
  BY <1>1 DEF Inv, Types

\* The mail of a build's own steps.
LEMMA Unmailed == ASSUME Inv, UNCHANGED mailbox PROVE mailbox' \in [Spaces -> Seq(Requests)] /\ \A v \in Spaces : Passed(v)
BY DEF Inv, Types, Passed

LEMMA OpenStep == ASSUME Inv, NEW w \in Spaces, Open(w) PROVE Inv'
<1> DEFINE c == [kind |-> "resolve", at |-> "start", asked |-> now]
<1>1. /\ UNCHANGED <<now, origin, lease, gone, cut, mailbox, polls, thread, ticket>> /\ stage[w] = "planned"
      /\ stage' = [stage EXCEPT ![w] = "opening"] /\ call' = [call EXCEPT ![w] = c]
  BY DEF Open, Ask, Set, Around, provider, server
<1>2. Good(w) /\ stage'[w] = "opening" /\ call'[w] = c
  BY <1>1 DEF Inv, Types
<1>3. call[w].kind = "none" /\ call[w].at = "none" /\ now \in Nat
  BY <1>1, <1>2, Numbers DEF Good, Calls, Kind
<1>4. Calls(w)' /\ Protects(w)'
  BY <1>1, <1>2, <1>3, Numbers DEF Good, Calls, Kind, Protects
<1>5. Agrees(w)'
  BY <1>1, <1>2, <1>3 DEF Good, Agrees, Ahead, Returned
<1>6. Onward(w) /\ ~At(w, "waiting") /\ "opening" \in Stages /\ c \in CallRow
  BY <1>1, <1>2, <1>3, SameRows DEF Onward, At, Stages, Kinds
<1> HIDE DEF c
<1> QED
  BY <1>1, <1>4, <1>5, <1>6, SameRows, Unmailed, Numbers, ActStep

LEMMA OpenedStep == ASSUME Inv, NEW w \in Spaces, Opened(w) PROVE Inv'
<1> DEFINE t == [ticket[w] EXCEPT !.confirmed = Asked(w)]
           next == IF At(w, "answered") THEN "reading" ELSE "failed"
           renews == IF At(w, "answered") THEN "waits" ELSE thread[w]
<1>1. /\ UNCHANGED <<now, origin, lease, gone, cut, mailbox, polls>> /\ stage[w] = "opening" /\ Returned(w)
      /\ stage' = [stage EXCEPT ![w] = next] /\ call' = [call EXCEPT ![w] = NoCall]
      /\ ticket' = [ticket EXCEPT ![w] = t] /\ thread' = [thread EXCEPT ![w] = renews]
  BY SameRows DEF Opened, Set, Around, provider, server
<1>2. t.fence = ticket[w].fence /\ t.confirmed = call[w].asked /\ t \in TicketRow
  BY Numbers DEF TicketRow, Asked
<1>3. Good(w) /\ stage'[w] = next /\ call'[w] = NoCall /\ ticket'[w] = t /\ thread'[w] = renews
  BY <1>1 DEF Inv, Types
<1>4. call[w].kind = "resolve" /\ thread[w] = "none" /\ ~polls[w] /\ call[w].asked <= now /\ call[w].at \in {"answered", "refused"}
  BY <1>1, <1>3 DEF Good, Calls, Kind, Returned
<1> HIDE DEF t
<1>5. Calls(w)'
  BY <1>1, <1>2, <1>3, <1>4, Numbers DEF Calls, Kind, NoCall, At
<1>6. Protects(w)'
  BY <1>1, <1>2, <1>3, <1>4 DEF Good, Protects, Keeps, NoCall, At
<1>7. Agrees(w)'
  BY <1>1, <1>2, <1>3, <1>4 DEF Good, Agrees, Ahead, Returned, NoCall
<1>8. Onward(w) /\ ~At(w, "waiting") /\ next \in Stages /\ renews \in {"none", "waits", "calling", "dead", "joined"}
  BY <1>1, <1>3, <1>4 DEF Onward, At, Stages
<1> HIDE DEF next, renews
<1> QED
  BY <1>1, <1>2, <1>5, <1>6, <1>7, <1>8, SameRows, Unmailed, Numbers, ActStep

\* The three steps after which only the stage and the poll are new.
LEMMA LoopStep == ASSUME Inv, NEW w \in Spaces, Checked(w) \/ Exit(w) \/ Accept(w) PROVE Inv'
<1>1. /\ UNCHANGED <<now, origin, lease, gone, cut, mailbox, thread, ticket, call>>
      /\ polls' = [polls EXCEPT ![w] = FALSE]
  <2>1. ASSUME ~polls[w], polls' = polls PROVE polls' = [polls EXCEPT ![w] = FALSE]
    BY <2>1 DEF Inv, Types
  <2>2. Exit(w) \/ Accept(w) => ~polls[w] /\ polls' = polls
    BY DEF Inv, Good, Calls, Exit, Accept
  <2> QED
    BY <2>1, <2>2 DEF Checked, Exit, Accept, Set, Around, provider, server
<1>2. Good(w)
  BY DEF Inv
<1>3. PICK next \in {"reading", "ended", "accepted", "failed"} :
        /\ stage' = [stage EXCEPT ![w] = next]
        /\ stage[w] \in {"reading", "ended"}
        /\ next \in {"reading", "ended"} \/ thread[w] # "calling" \/ stage[w] = "reading"
  <2>1. CASE Checked(w)
    <3>1. stage[w] = "reading"
      BY <1>2, <2>1 DEF Good, Calls, Checked
    <3> QED
      BY <2>1, <3>1, SameRows DEF Checked, Set
  <2>2. CASE Exit(w)
    BY <2>2 DEF Exit, Set
  <2>3. CASE Accept(w)
    BY <2>3 DEF Accept, Set
  <2> QED
    BY <2>1, <2>2, <2>3
<1>4. stage'[w] = next /\ polls'[w] = FALSE
  BY <1>1, <1>3 DEF Inv, Types
<1>5. Calls(w)'
  BY <1>1, <1>2, <1>3, <1>4 DEF Good, Calls, Kind
<1>6. Protects(w)'
  BY <1>1, <1>2, <1>3, <1>4 DEF Good, Protects, Keeps
<1>7. Agrees(w)'
  BY <1>1, <1>2, <1>3, <1>4 DEF Good, Agrees, Ahead
<1>8. Onward(w) /\ next \in Stages
  BY <1>3, <1>4 DEF Onward, Stages
<1> QED
  BY <1>1, <1>3, <1>5, <1>6, <1>7, <1>8, SameRows, Unmailed, Numbers, ActStep

LEMMA ReleaseStep == ASSUME Inv, NEW w \in Spaces, Release(w) PROVE Inv'
<1> DEFINE c == [kind |-> "release", at |-> "start", asked |-> now]
<1>1. /\ UNCHANGED <<now, origin, lease, gone, cut, mailbox, polls, ticket>>
      /\ stage[w] \in {"accepted", "failed"} /\ thread[w] # "calling"
      /\ stage' = [stage EXCEPT ![w] = "releasing"] /\ call' = [call EXCEPT ![w] = c]
      /\ thread' = [thread EXCEPT ![w] = "joined"]
  BY DEF Release, Ask, Set, Around, provider, server
<1>2. Good(w) /\ stage'[w] = "releasing" /\ call'[w] = c /\ thread'[w] = "joined"
  BY <1>1 DEF Inv, Types
<1>3. call[w].kind = "none" /\ call[w].at = "none" /\ now \in Nat /\ ~polls[w]
  BY <1>1, <1>2, Numbers DEF Good, Calls, Kind
<1>4. Calls(w)' /\ Protects(w)'
  BY <1>1, <1>2, <1>3, Numbers DEF Good, Calls, Kind, Protects
<1>5. Agrees(w)'
  BY <1>1, <1>2, <1>3 DEF Good, Agrees, Ahead, Returned
<1>6. Onward(w) /\ ~At(w, "waiting") /\ "releasing" \in Stages /\ c \in CallRow
  BY <1>1, <1>2, <1>3, SameRows DEF Onward, At, Stages, Kinds
<1> HIDE DEF c
<1> QED
  BY <1>1, <1>4, <1>5, <1>6, SameRows, Unmailed, Numbers, ActStep

LEMMA DoneStep == ASSUME Inv, NEW w \in Spaces, Done(w) PROVE Inv'
<1>1. /\ UNCHANGED <<now, origin, lease, gone, cut, polls, thread>> /\ stage[w] = "releasing" /\ Returned(w)
      /\ stage' = [stage EXCEPT ![w] = "done"] /\ call' = [call EXCEPT ![w] = NoCall]
      /\ ticket' = [ticket EXCEPT ![w] = NewTicket]
      /\ mailbox' = mailbox \/ mailbox' = [mailbox EXCEPT ![w] = <<>>]
  BY DEF Done, Set, provider
<1>2. Good(w) /\ stage'[w] = "done" /\ call'[w] = NoCall /\ ticket'[w] = NewTicket
  BY <1>1 DEF Inv, Types
<1>3. call[w].kind = "release" /\ ~polls[w] /\ thread[w] \in {"joined", "none"} /\ call[w].at # "waiting"
  BY <1>1, <1>2 DEF Good, Calls, Kind, Returned
<1>4. mailbox' \in [Spaces -> Seq(Requests)] /\ \A v \in Spaces : Passed(v)
  <2>1. <<>> \in Seq(Requests)
    OBVIOUS
  <2> QED
    BY <1>1, <2>1, ZenonT(40) DEF Inv, Types, Passed
<1>5. Calls(w)' /\ Protects(w)'
  BY <1>1, <1>2, <1>3, Numbers DEF Good, Calls, Kind, Protects, NoCall, NewTicket
<1>6. Agrees(w)'
  BY <1>1, <1>2 DEF Good, Agrees, Returned
<1>7. Onward(w) /\ ~At(w, "waiting") /\ "done" \in Stages
  BY <1>1, <1>2, <1>3 DEF Onward, At, Stages
<1> QED
  BY <1>1, <1>4, <1>5, <1>6, <1>7, SameRows, ActStep

LEMMA RenewStep == ASSUME Inv, NEW w \in Spaces, Renew(w) PROVE Inv'
<1> DEFINE c == [kind |-> "renew", at |-> "start", asked |-> now]
<1>1. /\ UNCHANGED <<now, origin, lease, gone, cut, mailbox, stage, polls, ticket>> /\ thread[w] = "waits"
      /\ thread' = [thread EXCEPT ![w] = "calling"] /\ call' = [call EXCEPT ![w] = c]
  BY DEF Renew, Ask, Set, Around, provider, server
<1>2. Good(w) /\ call'[w] = c /\ thread'[w] = "calling"
  BY <1>1 DEF Inv, Types
<1>3. stage[w] \notin {"none", "planned", "opening", "releasing", "done", "lost"}
  BY <1>1, <1>2 DEF Good, Calls
<1>4. call[w].kind = "none" /\ call[w].at = "none" /\ now \in Nat
  BY <1>1, <1>2, <1>3, Numbers DEF Good, Calls, Kind
<1>5. Calls(w)'
  BY <1>1, <1>2, <1>3, <1>4, Numbers DEF Good, Calls, Kind
<1>6. Protects(w)'
  BY <1>1, <1>2, <1>3, <1>4, Numbers DEF Good, Protects, Keeps
<1>7. Agrees(w)'
  BY <1>1, <1>2, <1>3, <1>4 DEF Good, Agrees, Ahead, Returned
<1>8. Onward(w) /\ ~At(w, "waiting") /\ c \in CallRow
  BY <1>1, <1>4, SameRows DEF Onward, At, Kinds
<1> HIDE DEF c
<1> QED
  BY <1>1, <1>5, <1>6, <1>7, <1>8, SameRows, Unmailed, Numbers, ActStep

LEMMA RenewedStep == ASSUME Inv, NEW w \in Spaces, Renewed(w) PROVE Inv'
<1> DEFINE t == IF At(w, "answered") THEN [ticket[w] EXCEPT !.fence = Fence(w), !.confirmed = Asked(w)] ELSE ticket[w]
           renews == IF At(w, "answered") THEN "waits" ELSE "dead"
<1>1. /\ UNCHANGED <<now, origin, lease, gone, cut, mailbox, stage, polls>> /\ thread[w] = "calling" /\ Returned(w)
      /\ call' = [call EXCEPT ![w] = NoCall] /\ ticket' = [ticket EXCEPT ![w] = t] /\ thread' = [thread EXCEPT ![w] = renews]
  <2>1. At(w, "answered") => ticket' = [ticket EXCEPT ![w] = t]
    BY DEF Renewed, Inv, Types
  <2> QED
    BY <2>1, SameRows DEF Renewed, Set, Around, provider, server
<1>2. /\ t \in TicketRow
      /\ At(w, "answered") => t.fence = ticket[w].fence + 1 /\ t.confirmed = call[w].asked
      /\ ~At(w, "answered") => t = ticket[w]
  <2>1. ticket[w].fence + 1 \in Nat /\ call[w].asked \in Nat /\ ticket[w] \in TicketRow
    BY Numbers
  <2>2. CASE At(w, "answered")
    BY <2>1, <2>2 DEF TicketRow, Asked, Fence
  <2>3. CASE ~At(w, "answered")
    BY <2>1, <2>3
  <2> QED
    BY <2>2, <2>3
<1>3. Good(w) /\ call'[w] = NoCall /\ ticket'[w] = t /\ thread'[w] = renews
  BY <1>1 DEF Inv, Types
<1>4. stage[w] \notin {"none", "planned", "opening", "releasing", "done", "lost"}
  BY <1>1, <1>3 DEF Good, Calls
<1>5. call[w].kind = "renew" /\ call[w].asked <= now /\ call[w].at \in {"answered", "refused"}
  BY <1>1, <1>3, <1>4 DEF Good, Calls, Kind, Returned
<1> HIDE DEF t
<1>6. Calls(w)'
  BY <1>1, <1>2, <1>3, <1>4, <1>5, Numbers DEF Good, Calls, Kind, NoCall, At
<1>7. Protects(w)'
  BY <1>1, <1>2, <1>3, <1>4, <1>5 DEF Good, Protects, Keeps, NoCall, At
<1>8. Agrees(w)'
  BY <1>1, <1>2, <1>3, <1>4, <1>5, Numbers DEF Good, Agrees, Ahead, Returned, NoCall, At
<1>9. Onward(w) /\ ~At(w, "waiting") /\ renews \in {"none", "waits", "calling", "dead", "joined"}
  BY <1>1, <1>5 DEF Onward, At
<1> HIDE DEF renews
<1> QED
  BY <1>1, <1>2, <1>6, <1>7, <1>8, <1>9, SameRows, Unmailed, Numbers, ActStep

LEMMA CrashStep == ASSUME Inv, NEW p \in Spaces, Crash(p) PROVE Inv'
<1> DEFINE next == IF Underway(p) THEN "lost" ELSE stage[p]
<1>1. /\ UNCHANGED <<now, origin, lease, gone, cut>>
      /\ stage' = [stage EXCEPT ![p] = next] /\ call' = [call EXCEPT ![p] = NoCall]
      /\ ticket' = [ticket EXCEPT ![p] = NewTicket] /\ mailbox' = [mailbox EXCEPT ![p] = <<>>]
      /\ polls' = [polls EXCEPT ![p] = FALSE] /\ thread' = [thread EXCEPT ![p] = "none"]
  BY SameRows DEF Crash, Set, provider
<1>2. Good(p) /\ stage'[p] = next /\ call'[p] = NoCall /\ ticket'[p] = NewTicket /\ polls'[p] = FALSE /\ thread'[p] = "none"
  BY <1>1 DEF Inv, Types
<1>3. next \in {"none", "done", "lost"} /\ (next # "lost" => next = stage[p])
  BY Numbers DEF Underway, Stages
<1>4. mailbox' \in [Spaces -> Seq(Requests)] /\ \A v \in Spaces : Passed(v)
  <2>1. <<>> \in Seq(Requests)
    OBVIOUS
  <2> QED
    BY <1>1, <2>1 DEF Inv, Types, Passed
<1> HIDE DEF next
<1>5. next # "lost" => call[p].at = "none" /\ call[p].kind = "none"
  BY <1>2, <1>3 DEF Good, Calls, Kind
<1>6. Calls(p)' /\ Protects(p)'
  BY <1>1, <1>2, <1>3, Numbers DEF Good, Calls, Kind, Protects, NoCall, NewTicket
<1>7. Agrees(p)'
  BY <1>1, <1>2, <1>3, <1>5 DEF Good, Calls, Agrees, Ahead, Returned, NoCall, NewTicket
<1>8. Onward(p) /\ next \in Stages
  BY <1>2, <1>3, Numbers DEF Onward, Stages, Underway, next
<1>9. Types'
  BY <1>1, <1>4, <1>8, SameRows DEF Inv, Types
<1>10. Mail(p)'
  BY <1>4, <1>8, MailKept
<1>11. Awaited(p)'
  <2>1. CASE next = "lost"
    BY <1>2, <2>1 DEF Awaited
  <2>2. CASE next # "lost"
    BY <1>1, <1>4, <1>5, <1>8, <2>2, AwaitedNone DEF At
  <2> QED
    BY <2>1, <2>2
<1>12. \A v \in Spaces \ {p} :
        /\ Passed(v) /\ call'[v] = call[v] /\ ticket'[v] = ticket[v] /\ stage'[v] = stage[v]
        /\ thread'[v] = thread[v] /\ polls'[v] = polls[v] /\ lease'[v] = lease[v] /\ cut'[v] = cut[v]
  BY <1>1, <1>4 DEF Inv, Types
<1> QED
  BY <1>1, <1>6, <1>7, <1>9, <1>10, <1>11, <1>12, Others DEF Good

-----------------------------------------------------------------------------
(* The invariant and what it promises. *)

LEMMA InvStep == Inv /\ [Next]_vars => Inv'
<1> SUFFICES ASSUME Inv, [Next]_vars PROVE Inv'
  OBVIOUS
<1>1. CASE UNCHANGED vars
  BY <1>1 DEF Inv, Types, Good, Calls, Kind, Mail, Protects, Keeps, Agrees, Ahead, Returned, Awaited, At, vars, space, server, provider, build
<1>2. CASE Tick \/ Rest
  BY <1>2, WorldStep
<1>3. ASSUME NEW w \in Spaces, Call(w)
      PROVE  Inv'
  BY <1>3, CallStep, ServeItselfStep, ConnectStep DEF Call
<1>4. ASSUME NEW w \in Spaces, Dispatch(w) \/ Renewed(w) \/ Exit(w) \/ Renew(w)
      PROVE  Inv'
  BY <1>4, OpenStep, OpenedStep, LoopStep, ReleaseStep, DoneStep, RenewStep, RenewedStep DEF Dispatch
<1>5. ASSUME NEW p \in Spaces, Server(p) \/ Poll(p) \/ Submit(p) \/ Collect(p) \/ Crash(p) \/ Acquire(p)
      PROVE  Inv'
  BY <1>5, DrainStep, CrashStep, WorldStep DEF Server
<1> QED
  BY <1>1, <1>2, <1>3, <1>4, <1>5 DEF Next, Work

THEOREM Invariance == Spec => []Inv
<1> QED
  BY InitInv, InvStep, PTL DEF Spec

LEMMA OnlyAccept ==
  ASSUME Inv, Next, NEW w \in Spaces, stage[w] = "ended", stage'[w] = "accepted"
  PROVE  Accept(w)
<1>1. stage \in [Spaces -> Stages] /\ stage' # stage
  BY DEF Inv, Types
<1>2. \A v \in Spaces, at \in Stages : stage' = [stage EXCEPT ![v] = at] => v = w /\ at = "accepted"
  BY <1>1
<1>3. ~Tick /\ ~Rest
  BY <1>1 DEF Tick, Rest, vars, build
<1>4. ASSUME NEW v \in Spaces, Call(v) \/ Server(v) \/ Poll(v) \/ Submit(v) \/ Collect(v) \/ Acquire(v) \/ Renew(v) \/ Renewed(v)
      PROVE  FALSE
  <2>1. ~Call(v)
    BY <1>1 DEF Call, Discover, Unlocked, AcquireMetadata, ServeItself, Connect, GiveUp, build
  <2>2. ~Server(v) /\ ~Poll(v) /\ ~Submit(v) /\ ~Collect(v) /\ ~Acquire(v)
    BY <1>1 DEF Server, Drain, Take, Prepared, Poll, Submit, Collect, Acquire, build
  <2>3. ~Renew(v) /\ ~Renewed(v)
    BY <1>1 DEF Renew, Renewed
  <2> QED
    BY <1>4, <2>1, <2>2, <2>3
<1>5. ASSUME NEW v \in Spaces, Crash(v) PROVE FALSE
  BY <1>1, <1>2, <1>5 DEF Crash, Set, Stages
<1>6. ASSUME NEW v \in Spaces, Open(v) \/ Opened(v) \/ Release(v) \/ Done(v) \/ Checked(v) \/ Exit(v) PROVE FALSE
  <2>1. ~Open(v) /\ ~Opened(v) /\ ~Release(v) /\ ~Done(v)
    BY <1>2 DEF Open, Opened, Release, Done, Set, Stages
  <2>2. ~Checked(v) /\ ~Exit(v)
    BY <1>1, <1>2 DEF Checked, Exit, Set, Stages
  <2> QED
    BY <1>6, <2>1, <2>2
<1>7. ASSUME NEW v \in Spaces, Accept(v) PROVE Accept(w)
  <2>1. v = w
    BY <1>2, <1>7 DEF Accept, Set, Stages
  <2> QED
    BY <1>7, <2>1
<1> QED
  BY <1>3, <1>4, <1>5, <1>6, <1>7 DEF Next, Work, Dispatch

\* What a build accepts was read while the provider kept it (Reads::check before
\* the acceptance, against the renewals of the thread and the collections of the
\* provider).
THEOREM AcceptedInPlace == Spec => ReadInPlace
<1> DEFINE Kept == \A w \in Spaces : stage[w] = "ended" /\ stage'[w] = "accepted" => ~gone[origin[w]]
<1>1. ASSUME Inv, [Next]_vars PROVE [Kept]_vars
  <2> SUFFICES ASSUME NEW w \in Spaces, stage[w] = "ended", stage'[w] = "accepted" PROVE ~gone[origin[w]]
    OBVIOUS
  <2>1. Accept(w)
    BY <1>1, OnlyAccept DEF vars, build
  <2>2. now - ticket[w].confirmed < Margin
    <3>1. ~Stale(w)
      BY <1>1, <2>1 DEF Accept, Lost, Set, Inv, Types
    <3> QED
      BY <1>1, <3>1, Numbers DEF Stale
  <2>3. Keeps(w, ticket[w].confirmed)
    BY <1>1 DEF Inv, Good, Protects
  <2> QED
    BY <2>2, <2>3, <1>1, Numbers DEF Keeps
<1> QED
  BY <1>1, Invariance, PTL DEF Spec, ReadInPlace, Kept

\* A build whose calls all came back has given its lease back (Reads::drop, with
\* the last fence of the ticket).
THEOREM LeasesReturned == Spec => []GivenBack
<1>1. Inv => GivenBack
  BY DEF Inv, Good, Agrees, GivenBack
<1> QED
  BY <1>1, Invariance, PTL
=============================================================================
