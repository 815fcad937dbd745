----------------------------- MODULE Scheduler -----------------------------
(* One schedule of reminders: the services that claim what is due and turn  *)
(* an occurrence into a run with a row in the outbox, the publisher that     *)
(* takes rows through the Slack adapter's preflight and post, the owner who  *)
(* pauses, resumes, replaces and cancels, and the crashes between two        *)
(* transactions.  Each action is one transaction, or one answer that the     *)
(* publisher acts on.  SchedulerStore has what a transaction does.           *)
EXTENDS SchedulerStore

CONSTANT CrashLimit   \* bound: restarts of the Dispatcher
ASSUME CrashAssumption == CrashLimit \in Nat

VARIABLES batch,      \* per service: the occurrence it has claimed and computed
          sender,     \* per sender: the row it delivers, and how far it is
          ticket,     \* the adapter's `prepared` entry
          wire,       \* requests to Slack that nobody waits for any more
          posts,      \* per occurrence: the messages Slack has stored
          made,       \* per occurrence: the runs inserted for it
          waived,     \* occurrences whose outcome a person decided
          crashes

outside == <<ticket, wire, posts>>
vars == <<db, now, lapsed, batch, sender, outside, made, waived, crashes>>

NoBatch == [occ |-> 0, late |-> FALSE, rev |-> 0, usable |-> FALSE]
NoSend == [at |-> "idle", occ |-> 0, posted |-> FALSE]
NoTicket == [occ |-> 0, by |-> Nobody]

Init == /\ \E once \in BOOLEAN : db = Created(once)
        /\ now = 0 /\ lapsed = {}
        /\ batch = [i \in Instance |-> NoBatch]
        /\ sender = [s \in Sender |-> NoSend]
        /\ ticket = NoTicket /\ wire = [o \in Occ |-> 0] /\ posts = [o \in Occ |-> 0]
        /\ made = [o \in Occ |-> 0] /\ waived = {} /\ crashes = 0

(***************************************************************************)
(* The outbox.                                                              *)
(***************************************************************************)
\* Mutant: a claim is good however late it has become.
ExpireWithdrawn(d, o) ==
    IF d.box[o].status \notin Unsent THEN d
    ELSE IF d.state # "active" \/ d.rev # d.run[o].rev \/ d.run[o].status # "materialized"
    THEN CompleteIfDrained([d EXCEPT !.box[o] = Put(@, "cancelled"), !.run[o].status = "cancelled"])
    ELSE d

Withdrawn(d, o, status) ==
    CompleteIfDrained([d EXCEPT !.box[o] = Put(@, "cancelled"),
                                !.run[o].status = IF @ \in {"materialized", "started"} THEN status ELSE @])

\* expireUnsent: a row that may not be sent any more is withdrawn.
ExpireUnsent(d, o) ==
    IF d.box[o].status \notin Unsent THEN d
    ELSE IF d.state # "active" \/ d.rev # d.run[o].rev \/ d.run[o].status \notin {"materialized", "started"}
    THEN Withdrawn(d, o, "cancelled")
    ELSE IF ~Usable(d, d.run[o].rev) THEN Expire(d)
    ELSE IF Late(o) THEN Withdrawn(d, o, "skipped")
    ELSE d

\* markAmbiguous: whether Slack has the message is for a person to find out.
MarkAmbiguous(d, o) ==
    Retire([Suppress([d EXCEPT !.box[o] = Put(@, "needs_review")]) EXCEPT
              !.run[o].status = "needs_review",
              !.state = IF @ \in {"cancelled", "completed"} THEN @ ELSE "needs_review"], Rev)

Doubt(d, o, all) ==
    IF d.box[o].status = "request_started" /\ (all \/ ~d.box[o].live) THEN MarkAmbiguous(d, o) ELSE d

\* One row after the other.
Doubted(d, all) ==
    LET f[o \in 0..Horizon] == IF o = 0 THEN d ELSE Doubt(f[o - 1], o, all) IN f[Horizon]
AllExpired(d) ==
    LET f[o \in 0..Horizon] == IF o = 0 THEN d ELSE ExpireUnsent(f[o - 1], o) IN f[Horizon]

Released(d, all) ==
    [d EXCEPT !.box = [o \in Occ |->
        IF @[o].status = "claimed" /\ (all \/ ~@[o].live) THEN Put(@[o], "pending") ELSE @[o]]]

\* Mutant: a request whose lease ended is sent again.
RecoverForResend(d, all) ==
    [d EXCEPT !.box = [o \in Occ |->
        IF @[o].status \in {"claimed", "request_started"} /\ (all \/ ~@[o].live) THEN Put(@[o], "pending") ELSE @[o]]]

\* recover: after a lease ended, or after a restart (all).
Recover(d, all) == AllExpired(Released(Doubted(d, all), all))

\* claimBatch.  What recover leaves pending is current, authorized and in time.
Poll ==
    /\ UNCHANGED <<now, lapsed, batch, outside, made, waived, crashes>>
    /\ LET d == Recover(db, FALSE)
       IN \/ /\ \A s \in Sender : sender[s].at # "idle"
             /\ db' = d /\ UNCHANGED sender
          \/ \E s \in Sender :
               /\ sender[s].at = "idle"
               /\ IF \E o \in Occ : d.box[o].status = "pending"
                  THEN \E o \in Occ :
                         /\ d.box[o].status = "pending"
                         /\ db' = [d EXCEPT !.box[o] = [@ EXCEPT !.status = "claimed", !.holder = s, !.live = TRUE]]
                         /\ sender' = [sender EXCEPT ![s] = [NoSend EXCEPT !.at = "preflight", !.occ = o]]
                  ELSE db' = d /\ UNCHANGED sender

(***************************************************************************)
(* What the outcome of a request does to its row.                           *)
(***************************************************************************)
HoldsRow(d, s, o, status) == d.box[o].status = status /\ d.box[o].holder = s
MayStart(d, s, o) == HoldsRow(d, s, o, "claimed") /\ d.box[o].live /\ d.box[o].attempt < 3
Begun(box) == [box EXCEPT !.status = "request_started", !.attempt = @ + 1]
Started(d, o) == [d EXCEPT !.box[o] = Begun(@)]

\* An authorization the connector refuses is not used again.
Revoke(d, o) ==
    IF SameAuthorization(d, d.run[o].rev, d.rev) /\ d.state \in {"active", "paused"}
    THEN Retire([Suppress(d) EXCEPT !.state = "paused"], {d.rev})
    ELSE d

Authorized(d, o) == /\ d.run[o].status \in {"materialized", "started"} /\ d.state = "active"
                    /\ d.rev = d.run[o].rev /\ Usable(d, d.rev)

\* The row may be sent again: the provider did not take it, or was not asked.
Retry(d, o, outcome, within) ==
    /\ outcome \in {"not_accepted", "authorization_unavailable", "unavailable"}
    /\ outcome = "unavailable" \/ d.box[o].attempt < 3
    /\ Authorized(d, o)
    /\ outcome = "authorization_unavailable" => within

\* The row with its outcome.  A request that was never made costs no attempt.
SettledRow(box, status, refund) ==
    [status |-> status, attempt |-> IF refund THEN box.attempt - 1 ELSE box.attempt, holder |-> Nobody, live |-> FALSE]
SettledAs(d, o, outcome, within) ==
    IF outcome = "sent" THEN "sent" ELSE IF Retry(d, o, outcome, within) THEN "pending"
    ELSE IF Authorized(d, o) THEN "failed" ELSE "cancelled"
Settled(d, o, outcome, within) ==
    [d EXCEPT !.box[o] = SettledRow(@, SettledAs(d, o, outcome, within),
                                    outcome = "unavailable" /\ Retry(d, o, outcome, within))]

\* What the outcome says of the authorization, and of the occurrence.
Checked(d, o, outcome, within) ==
    IF \/ outcome = "revoked"
       \/ outcome = "authorization_unavailable" /\ d.state = "active" /\ ~Retry(d, o, outcome, within)
    THEN Revoke(Settled(d, o, outcome, within), o)
    ELSE Settled(d, o, outcome, within)
Timely(d, o, outcome, within) ==
    IF outcome = "misfire" /\ Authorized(d, o)
    THEN [Checked(d, o, outcome, within) EXCEPT !.box[o].status = "cancelled", !.run[o].status = "skipped"]
    ELSE Checked(d, o, outcome, within)

\* The run of a row that is over is over too.
Told(d, o) ==
    IF d.box[o].status # "pending" /\ d.run[o].status \in {"materialized", "started"}
    THEN [d EXCEPT !.run[o].status = IF d.box[o].status = "sent" THEN "completed"
                                     ELSE IF d.box[o].status = "cancelled" THEN "cancelled" ELSE "failed"]
    ELSE d

ExpireIfEnded(d) == IF d.state \in {"active", "paused"} /\ ~Usable(d, d.rev) THEN Expire(d) ELSE d

\* finishWrite; `within` says whether the wait Slack asked for ends in time.
FinishWrite(d, o, outcome, within) ==
    IF outcome = "ambiguous" THEN CompleteIfDrained(MarkAmbiguous(d, o))
    ELSE ExpireIfEnded(CompleteIfDrained(Told(ExpireUnsent(Timely(d, o, outcome, within), o), o)))

\* finishWriteAfterPreflight: the request that was not begun is begun and
\* settled in one transaction, all of which is undone when it may not begin.
FinishUnbegun(d, s, o, outcome, within) ==
    IF d.box[o].status = "cancelled" /\ d.box[o].holder = Nobody
    THEN IF outcome # "revoked" \/ ~SameAuthorization(d, d.run[o].rev, d.rev) THEN d
         ELSE Retire(IF d.state = "active" THEN [Suppress(d) EXCEPT !.state = "paused"] ELSE d, {d.rev})
    ELSE IF MayStart(d, s, o) /\ ExpireUnsent(d, o) = d
    THEN FinishWrite(Started(d, o), o, outcome, within)
    ELSE d

(***************************************************************************)
(* publishClaimed, and the connector in the Slack adapter.                  *)
(***************************************************************************)
At(s, at) == sender[s].at = at
Go(s, at) == sender' = [sender EXCEPT ![s].at = at]
Done(s) == sender' = [sender EXCEPT ![s] = NoSend]
Row(s) == sender[s].occ
Quiet == <<now, lapsed, batch, made, waived, crashes>>

\* Nothing forbids the post: the adapter hands out a ticket for this claim.
Prepared(s) ==
    /\ At(s, "preflight") /\ Usable(db, db.run[Row(s)].rev) /\ ~Late(Row(s))
    /\ ticket' = [occ |-> Row(s), by |-> s] /\ Go(s, "prepared")
    /\ UNCHANGED <<db, wire, posts>> /\ UNCHANGED Quiet

Refused(s) ==
    /\ At(s, "preflight") /\ Done(s) /\ UNCHANGED outside /\ UNCHANGED Quiet
    /\ \E outcome \in {"authorization_unavailable", "unavailable", "rejected", "revoked"}
                        \cup (IF Late(Row(s)) THEN {"misfire"} ELSE {}), within \in BOOLEAN :
          /\ within => ~Late(Row(s))
          /\ db' = FinishUnbegun(db, s, Row(s), outcome, within)

\* requestStarted: durable before the request; a refusal is committed too.
Begin(s) ==
    /\ At(s, "prepared") /\ UNCHANGED outside /\ UNCHANGED Quiet
    /\ LET d == IF HoldsRow(db, s, Row(s), "claimed") /\ db.box[Row(s)].live
                THEN ExpireUnsent(db, Row(s)) ELSE db
       IN IF MayStart(d, s, Row(s))
          THEN db' = Started(d, Row(s)) /\ Go(s, "deliver")
          ELSE db' = d /\ Done(s)

\* A ticket is good for one post of the claim it was given for.
Arrive(s) ==
    /\ At(s, "deliver") /\ ticket' = NoTicket
    /\ IF ticket = [occ |-> Row(s), by |-> s] /\ Usable(db, db.run[Row(s)].rev) /\ ~Late(Row(s))
       THEN Go(s, "posting") ELSE Go(s, "refused")
    /\ UNCHANGED <<db, wire, posts>> /\ UNCHANGED Quiet

SlackStores(s) ==
    /\ At(s, "posting") /\ ~sender[s].posted
    /\ posts' = [posts EXCEPT ![Row(s)] = @ + 1]
    /\ sender' = [sender EXCEPT ![s].posted = TRUE]
    /\ UNCHANGED <<db, ticket, wire>> /\ UNCHANGED Quiet

SlackStoresLate(o) ==
    /\ wire[o] > 0
    /\ wire' = [wire EXCEPT ![o] = @ - 1] /\ posts' = [posts EXCEPT ![o] = @ + 1]
    /\ UNCHANGED <<db, ticket, sender>> /\ UNCHANGED Quiet

\* An answer of Slack is true; no answer says nothing, and the request may be
\* on its way still.
Answers(s) == CASE At(s, "deliver") -> {"unavailable"}           \* the adapter is not there
                [] At(s, "refused") -> {"not_accepted"}          \* preflight_required
                [] At(s, "posting") /\ sender[s].posted -> {"sent", "ambiguous"}
                [] At(s, "posting") /\ ~sender[s].posted ->
                     {"not_accepted", "revoked", "rejected", "ambiguous"}
                [] OTHER -> {}

Answered(s) ==
    /\ Done(s) /\ UNCHANGED <<ticket, posts>> /\ UNCHANGED Quiet
    /\ \E outcome \in Answers(s) :
          /\ db' = IF HoldsRow(db, s, Row(s), "request_started")
                   THEN FinishWrite(db, Row(s), outcome, FALSE) ELSE db
          /\ wire' = IF outcome = "ambiguous" /\ ~sender[s].posted
                     THEN [wire EXCEPT ![Row(s)] = @ + 1] ELSE wire

(***************************************************************************)
(* The service.                                                             *)
(***************************************************************************)
ClaimDue(i) ==
    /\ batch[i] = NoBatch /\ MayClaim(db)
    /\ db' = Claim(db, i) /\ batch' = [batch EXCEPT ![i] = Claimed(db)]
    /\ UNCHANGED <<now, lapsed, sender, outside, made, waived, crashes>>

MaterializeDue(i) ==
    /\ batch[i] # NoBatch /\ batch' = [batch EXCEPT ![i] = NoBatch]
    /\ UNCHANGED <<now, lapsed, sender, outside, waived, crashes>>
    /\ LET o == batch[i].occ
       IN /\ db' = Materialize(db, i, batch[i], "reminder")
          /\ made' = [made EXCEPT ![o] = @ + IF db.run[o] = NoRun /\ db'.run[o] # NoRun THEN 1 ELSE 0]

Still == UNCHANGED <<now, lapsed, batch, sender, outside, made, crashes>>

\* expireDue before every batch; purge the same for a paused one.
ExpireDue ==
    /\ ~Usable(db, db.rev)
    /\ db.state = "active" \/ db.state = "paused"
    /\ db' = Expire(db)
    /\ Still /\ UNCHANGED waived

PurgeRun(o) ==
    /\ MayPurge(db, o) /\ \A s \in Sender : Row(s) # o
    /\ db' = Purge(db, o)
    /\ Still /\ UNCHANGED waived

(***************************************************************************)
(* People, time, and restarts.                                              *)
(***************************************************************************)
OwnerTransition ==
    /\ \E operation \in {"pause", "resume", "cancel"} :
          /\ MayTransition(db, operation)
          /\ Usable(db, db.rev) => db.rev < MaxRevision
          /\ db' = Transition(db, operation)
    /\ Still /\ UNCHANGED waived

\* A new definition with a new approval; its first occurrence lies ahead.
OwnerUpdates ==
    /\ MayUpdate(db) /\ db.rev < MaxRevision
    /\ \E next \in 1..(Horizon + 1) :
          /\ next > db.high /\ now < 2 * next - 1 /\ \A o \in Occ : o < next => o <= db.high \/ Due(o)
          /\ db' = Update(db, next)
    /\ Still /\ UNCHANGED waived

\* reconcile: a person looked whether the message is there.
Reconciled(d, o, outcome) ==
    CompleteIfDrained([d EXCEPT !.box[o] = Put(@, outcome),
                                !.run[o].status = IF @ # "needs_review" THEN @
                                                  ELSE IF outcome = "sent" THEN "completed" ELSE "failed"])
Reconcile(o) ==
    /\ db.box[o].status = "needs_review"
    /\ \E outcome \in {"sent", "failed"} : db' = Reconciled(db, o, outcome)
    /\ waived' = waived \cup {o}
    /\ Still

LeasesEnd == [db EXCEPT !.claim.live = FALSE, !.box = [o \in Occ |-> [@[o] EXCEPT !.live = FALSE]]]

\* A lease of minutes ends, or a ticket of a second.
LeaseEnds ==
    /\ \/ db.claim.live /\ db' = [db EXCEPT !.claim.live = FALSE] /\ UNCHANGED ticket
       \/ /\ \E o \in Occ : db.box[o].live /\ db' = [db EXCEPT !.box[o].live = FALSE]
          /\ UNCHANGED ticket
       \/ ticket # NoTicket /\ ticket' = NoTicket /\ UNCHANGED db
    /\ UNCHANGED <<now, lapsed, batch, sender, wire, posts, made, waived, crashes>>

Tick ==
    /\ now < 2 * Horizon /\ now' = now + 1
    /\ db' = LeasesEnd /\ ticket' = NoTicket
    /\ UNCHANGED <<lapsed, batch, sender, wire, posts, made, waived, crashes>>

AuthorizationEnds ==
    /\ lapsed' = lapsed \cup {db.auth[db.rev].id} /\ lapsed' # lapsed
    /\ UNCHANGED <<db, now, batch, sender, outside, made, waived, crashes>>

\* The Dispatcher ends and starts: what its publisher had sent may be stored
\* yet; a service that stopped in order released its claim; one in another
\* process goes on.
Restart ==
    /\ crashes < CrashLimit /\ crashes' = crashes + 1
    /\ sender' = [s \in Sender |-> NoSend]
    /\ wire' = [o \in Occ |-> wire[o] + Cardinality({s \in Sender : At(s, "posting") /\ Row(s) = o /\ ~sender[s].posted})]
    /\ \E K \in SUBSET Instance, released \in BOOLEAN :
          /\ released => /\ \A s \in Sender : At(s, "idle")
                         /\ \A i \in K : batch[i] = NoBatch
          /\ batch' = [i \in Instance |-> IF i \in K THEN NoBatch ELSE batch[i]]
          /\ db' = Recover(IF released /\ db.claim.owner \in K THEN ReleaseClaim(db) ELSE db, TRUE)
    /\ UNCHANGED <<now, lapsed, ticket, posts, made, waived>>

Publish(s) == Prepared(s) \/ Refused(s) \/ Begin(s) \/ Arrive(s) \/ Answered(s)
Serve(i) == ClaimDue(i) \/ MaterializeDue(i)
InTime(i) == MaterializeDue(i) /\ HoldsClaim(db, i)

Next == \/ Poll \/ ExpireDue \/ LeaseEnds \/ Tick \/ AuthorizationEnds \/ Restart
        \/ OwnerTransition \/ OwnerUpdates
        \/ \E s \in Sender : Publish(s) \/ SlackStores(s)
        \/ \E i \in Instance : Serve(i)
        \/ \E o \in Occ : SlackStoresLate(o) \/ PurgeRun(o) \/ Reconcile(o)

Spec == Init /\ [][Next]_vars

\* The publisher and a service poll every second, and time goes by; nobody is
\* obliged to answer, pause, update or reconcile.  A batch takes no minute:
\* who claims again and again keeps the lease at last.
Fairness == /\ WF_vars(Poll) /\ WF_vars(Tick) /\ WF_vars(LeaseEnds)
            /\ WF_vars(\E i \in Instance : Serve(i)) /\ SF_vars(\E i \in Instance : InTime(i))
FairSpec == Spec /\ Fairness

(***************************************************************************)
(* Properties.                                                              *)
(***************************************************************************)
TypeOK ==
    /\ db \in Schedules
    /\ now \in 0..(2 * Horizon) /\ lapsed \subseteq 1..MaxRevision
    /\ batch \in [Instance -> [occ : 0..Horizon, late : BOOLEAN, rev : 0..MaxRevision, usable : BOOLEAN]]
    /\ sender \in [Sender -> [at : {"idle", "preflight", "prepared", "deliver", "refused", "posting"},
                              occ : 0..Horizon, posted : BOOLEAN]]
    /\ ticket \in [occ : 0..Horizon, by : Sender \cup {Nobody}]
    /\ wire \in [Occ -> Nat] /\ posts \in [Occ -> Nat] /\ made \in [Occ -> Nat]
    /\ waived \subseteq Occ /\ crashes \in 0..CrashLimit

\* publishClaimed, finishWrite, recover: a reminder is in Slack at most once,
\* through lost answers, restarts and retries, and one that is there is never
\* recorded as not sent but by a person.
PostsAccounted ==
    \A o \in Occ : /\ posts[o] + wire[o] <= 1
                   /\ posts[o] = 1 => \/ db.box[o].status \in {"request_started", "needs_review", "sent"}
                                      \/ o \in waived \/ db.run[o] = NoRun

\* materialize: an occurrence becomes a run once in the life of the schedule, two
\* services, replaced revisions and purged runs notwithstanding; and of two
\* occurrences at most one is unresolved.
OccurrenceOnce ==
    /\ \A o \in Occ : made[o] <= 1
    /\ \A o, p \in Occ : db.run[o].status \in Running /\ db.run[p].status \in Running => o = p

\* suppress: what waits to be sent belongs to the schedule as it is now; pausing,
\* replacing, expiring, revoking and ambiguity leave nothing behind to be sent.
UnsentIsCurrent ==
    \A o \in Occ : db.box[o].status \in Unsent =>
        db.state = "active" /\ db.rev = db.run[o].rev /\ db.run[o].status = "materialized"

\* Once the owner is done, a due occurrence of an active schedule is decided, and
\* no reminder stays on its way: each is sent, withdrawn or put before a person.
EventuallyDecided ==
    <>[](/\ ~(db.state = "active" /\ db.next \in Occ /\ Due(db.next))
         /\ \A o \in Occ : db.box[o].status \notin Unsent \cup {"request_started"})
=============================================================================
