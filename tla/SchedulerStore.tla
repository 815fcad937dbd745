--------------------------- MODULE SchedulerStore ---------------------------
(* The scheduler's tables for one schedule, and the writes the repository   *)
(* makes of them.  Every operator takes the tables as a record d and returns *)
(* them changed; the modules that EXTEND this one turn the operators into    *)
(* transactions.  Occurrences are numbered 1, 2, ... in the order of their   *)
(* scheduled_for.  The audit, which records and decides nothing, and the     *)
(* clamping of timestamps that keeps them monotone are left out.             *)
EXTENDS Naturals, FiniteSets

CONSTANTS Horizon,       \* bound: the last occurrence that becomes due
          MaxRevision,   \* bound: revisions of the schedule
          Instance,      \* scheduler services on the database
          Sender,        \* reminders the publisher has in flight at once
          Nobody         \* neither of them

ASSUME StoreAssumption == /\ Horizon \in Nat \ {0}
                          /\ MaxRevision \in Nat \ {0}
                          /\ Nobody \notin Instance \cup Sender

VARIABLES db,       \* the rows of the schedule
          now,      \* the clock, see Due and Late
          lapsed    \* authorizations past expires_at, their content gone with them

Occ == 1..Horizon
Rev == 1..MaxRevision

\* An occurrence is due, and then more than the 15 minutes of grace ago, before
\* the next one is: the shortest recurrence is a day.
Due(o) == now >= 2 * o - 1
Late(o) == now >= 2 * o

Unsent == {"pending", "claimed"}
Undecided == Unsent \cup {"request_started", "needs_review"}
Running == {"materialized", "started", "needs_review"}
RunStatus == Running \cup {"none", "skipped", "completed", "failed", "cancelled"}

NoRun == [status |-> "none", rev |-> 0]
NoBox == [status |-> "none", attempt |-> 0, holder |-> Nobody, live |-> FALSE]
NoNotice == [state |-> "none", phase |-> "none", event |-> "none"]
NoClaim == [owner |-> Nobody, live |-> FALSE]

\* create.
Created(once) ==
    [state |-> "active", rev |-> 1, next |-> 1, high |-> 0, once |-> once, claim |-> NoClaim,
     auth |-> [r \in Rev |-> [id |-> IF r = 1 THEN 1 ELSE 0, retired |-> FALSE]],
     run |-> [o \in Occ |-> NoRun], box |-> [o \in Occ |-> NoBox],
     notice |-> [o \in Occ |-> NoNotice]]

\* expires_at of the revision lies ahead.
Usable(d, r) == d.auth[r].id \notin lapsed
SameAuthorization(d, r, s) == d.auth[r].id = d.auth[s].id

Retire(d, revisions) ==
    [d EXCEPT !.auth = [r \in Rev |-> IF r \in revisions THEN [@[r] EXCEPT !.retired = TRUE] ELSE @[r]]]

Put(box, status) == [box EXCEPT !.status = status, !.holder = Nobody, !.live = FALSE]

\* Mutant: the row a sender has claimed is forgotten.
SuppressPending(d) ==
    [d EXCEPT !.box = [o \in Occ |-> IF @[o].status = "pending" THEN Put(@[o], "cancelled") ELSE @[o]],
              !.run = [o \in Occ |-> IF @[o].status = "materialized" /\ d.box[o].status # "claimed"
                                     THEN [@[o] EXCEPT !.status = "cancelled"] ELSE @[o]]]

\* suppress: nothing that was not begun is begun any more.
Suppress(d) ==
    [d EXCEPT
       !.box = [o \in Occ |-> IF @[o].status \in Unsent THEN Put(@[o], "cancelled") ELSE @[o]],
       !.run = [o \in Occ |-> IF /\ @[o].status = "materialized"
                                 /\ d.box[o].status \notin {"request_started", "needs_review", "sent"}
                              THEN [@[o] EXCEPT !.status = "cancelled"] ELSE @[o]],
       !.notice = [o \in Occ |-> IF @[o].state = "pending" /\ @[o].phase = "none" /\ @[o].event = "queued"
                                 THEN [@[o] EXCEPT !.state = "none", !.event = "done"] ELSE @[o]]]

\* Mutant: what nobody has begun does not count.
UnresolvedOnceBegun(d, o) ==
    d.run[o].status \in Running \ {"materialized"} \/ d.box[o].status \in Undecided \ Unsent

\* What keeps the next occurrence waiting, and what a person must see to.
Unresolved(d, o) ==
    \/ d.run[o].status \in Running
    \/ d.box[o].status \in Undecided
    \/ d.notice[o].state \in {"pending", "needs_review"}
Drained(d) == \A o \in Occ : ~Unresolved(d, o) /\ d.notice[o].state # "failed"

\* completeIfDrained: a schedule of one occurrence is over when it is settled.
CompleteIfDrained(d) ==
    IF /\ d.state \in {"active", "paused", "expired", "needs_review"}
       /\ d.next = 0 /\ d.high # 0 /\ d.once
       /\ ~(d.state = "paused" /\ d.auth[d.rev].retired)
       /\ Drained(d)
    THEN [Retire(d, Rev) EXCEPT !.state = "completed"]
    ELSE d

\* expireSchedule.
Expire(d) == CompleteIfDrained(Retire([Suppress(d) EXCEPT !.state = "expired"], {d.rev}))

(***************************************************************************)
(* The owner's operations.                                                  *)
(***************************************************************************)
\* The revision that copies the authorization of the current one.
Advance(d, state) ==
    LET r == d.rev + 1
    IN [Retire([d EXCEPT !.auth[r] = d.auth[d.rev]], {d.rev})
          EXCEPT !.rev = r, !.state = state, !.claim = NoClaim]

MayTransition(d, operation) ==
    /\ \A o \in Occ : ~(d.notice[o].state = "needs_review" /\ d.notice[o].phase = "write")
    /\ CASE operation = "pause" -> d.state = "active"
         [] operation = "resume" -> d.state = "paused" /\ ~d.auth[d.rev].retired /\ Usable(d, d.rev)
         [] operation = "cancel" -> d.state \notin {"cancelled", "completed"}

\* A notice nobody has begun to write is dropped; one the agent has in hand is
\* left for a person.
Recalled(d, operation) ==
    IF operation = "resume" THEN d
    ELSE [d EXCEPT !.notice = [o \in Occ |->
            IF @[o].phase \notin {"none", "preflight"} \/ @[o].state \notin {"pending", "needs_review"} THEN @[o]
            ELSE IF @[o].event = "held" THEN [@[o] EXCEPT !.state = "needs_review", !.event = "review"]
            ELSE IF @[o].state = "needs_review" /\ @[o].event = "queued"
                 THEN [@[o] EXCEPT !.state = "none", !.event = "done"]
            ELSE @[o]]]

\* transition.
Transition(d, operation) ==
    LET e == Recalled(d, operation)
    IN IF Usable(d, d.rev)
       THEN LET moved == Advance(e, CASE operation = "pause" -> "paused"
                                      [] operation = "resume" -> "active"
                                      [] operation = "cancel" -> "cancelled")
                quiet == IF operation = "resume" THEN moved ELSE Suppress(moved)
            IN CompleteIfDrained(IF operation = "cancel" THEN Retire(quiet, Rev) ELSE quiet)
       ELSE IF operation = "cancel"
            THEN CompleteIfDrained(Retire([Suppress(e) EXCEPT !.state = "cancelled"], Rev))
            ELSE Expire(e)

\* update: refused while a person has something to decide.
MayUpdate(d) ==
    /\ d.state \in {"active", "paused", "expired", "needs_review"}
    /\ \A o \in Occ : /\ d.run[o].status # "needs_review" /\ d.box[o].status # "needs_review"
                      /\ d.notice[o].state \notin {"pending", "failed", "needs_review"}
Update(d, next) ==
    LET r == d.rev + 1
    IN [Retire(Suppress(d), {d.rev})
          EXCEPT !.auth[r] = [id |-> r, retired |-> FALSE], !.rev = r, !.state = "active", !.next = next]

(***************************************************************************)
(* Claims and occurrences.                                                  *)
(***************************************************************************)
\* claimDue, and what the service derives from the claimed definition: the
\* latest occurrence that is due, the one after it, and the authorization.
MayClaim(d) == d.state = "active" /\ d.next # 0 /\ Due(d.next) /\ ~d.claim.live
Claim(d, i) == [d EXCEPT !.claim = [owner |-> i, live |-> TRUE]]

\* Mutant: the occurrence after the latest.
LatestAndOne(d) ==
    IF d.once THEN d.next ELSE 1 + CHOOSE o \in d.next..Horizon : Due(o) /\ \A p \in Occ : Due(p) => p <= o

Latest(d) == IF d.once THEN d.next
             ELSE CHOOSE o \in d.next..Horizon : Due(o) /\ \A p \in Occ : Due(p) => p <= o
Claimed(d) == [occ |-> Latest(d), late |-> Late(Latest(d)), rev |-> d.rev, usable |-> Usable(d, d.rev)]

\* The claim is i's own still.  An instance claims again only when it is done
\* with its batch, so the owner tells what owner and fence tell in the code.
\* (The lease is compared with the time of the claim, before which it cannot end.)
HoldsClaim(d, i) == d.claim.owner = i

ReleaseClaim(d) == [d EXCEPT !.claim = NoClaim]

New(d, b) == b.occ >= d.next /\ b.occ > d.high

\* materialize, for the batch b: the occurrence is skipped when it is late or
\* another one is unresolved, and handed on otherwise.  A refusal throws and
\* leaves the claim to its lease.
Materialize(d, i, b, action) ==
    IF ~HoldsClaim(d, i) THEN d
    ELSE IF d.run[b.occ].status # "none" THEN ReleaseClaim(d)
    ELSE IF d.rev # b.rev \/ d.state # "active" \/ d.next = 0 \/ ~New(d, b) THEN d
    ELSE IF ~b.usable THEN Expire(d)
    ELSE LET skip == b.late \/ \E o \in Occ : Unresolved(d, o)
         IN CompleteIfDrained([ReleaseClaim(d) EXCEPT
               !.run[b.occ] = [status |-> IF skip THEN "skipped" ELSE "materialized", rev |-> b.rev],
               !.box[b.occ] = IF action = "reminder" /\ ~skip THEN [NoBox EXCEPT !.status = "pending"] ELSE @,
               !.high = b.occ,
               !.next = IF d.once THEN 0 ELSE b.occ + 1])

\* purge: what is settled goes after 30 days; the high-watermark stays.
MayPurge(d, o) == /\ d.run[o].status \notin Running \cup {"none"} /\ Late(o)
                  /\ d.box[o].status \notin Undecided
                  /\ d.notice[o].state \notin {"pending", "failed", "needs_review"}
Purge(d, o) == [d EXCEPT !.run[o] = NoRun, !.box[o] = NoBox, !.notice[o] = NoNotice]

(***************************************************************************)
(* The values of the rows.                                                  *)
(***************************************************************************)
ScheduleState == {"active", "paused", "cancelled", "expired", "completed", "needs_review"}
BoxStatus == Undecided \cup {"none", "sent", "failed", "cancelled"}
Schedules ==
    [state : ScheduleState, rev : Rev, next : 0..(Horizon + 1), high : 0..Horizon, once : BOOLEAN,
     claim : [owner : Instance \cup {Nobody}, live : BOOLEAN],
     auth : [Rev -> [id : 0..MaxRevision, retired : BOOLEAN]],
     run : [Occ -> [status : RunStatus, rev : 0..MaxRevision]],
     box : [Occ -> [status : BoxStatus, attempt : 0..3, holder : Sender \cup {Nobody}, live : BOOLEAN]],
     notice : [Occ -> [state : {"none", "pending", "failed", "needs_review", "accepted"},
                       phase : {"none", "preflight", "write"},
                       event : {"none", "queued", "held", "review", "failed", "done"}]]]
=============================================================================
