-------------------------- MODULE SchedulerProofs --------------------------
(* The proofs about Scheduler, for any number of occurrences, revisions,      *)
(* services and senders: a reminder is in Slack at most once and is not       *)
(* forgotten, an occurrence becomes one run, and what waits to be sent is      *)
(* what the owner approved last.                                              *)
EXTENDS Scheduler, FiniteSetTheorems, TLAPS

(***************************************************************************)
(* The rows of the tables, each kind by name.                               *)
(***************************************************************************)
Claims == [owner : Instance \cup {Nobody}, live : BOOLEAN]
AuthRow == [id : 0..MaxRevision, retired : BOOLEAN]
RunRow == [status : RunStatus, rev : 0..MaxRevision]
BoxRow == [status : BoxStatus, attempt : 0..3, holder : Sender \cup {Nobody}, live : BOOLEAN]
NoticeRow == [state : {"none", "pending", "failed", "needs_review", "accepted"},
              phase : {"none", "preflight", "write"},
              event : {"none", "queued", "held", "review", "failed", "done"}]
Auths == [Rev -> AuthRow]
Runs == [Occ -> RunRow]
Boxes == [Occ -> BoxRow]
Notices == [Occ -> NoticeRow]
Tables == [state : ScheduleState, rev : Rev, next : 0..(Horizon + 1), high : 0..Horizon, once : BOOLEAN,
           claim : Claims, auth : Auths, run : Runs, box : Boxes, notice : Notices]

LEMMA SchedulesAre == Schedules = Tables
BY DEF Schedules, Tables, Claims, Auths, Runs, Boxes, Notices, AuthRow, RunRow, BoxRow, NoticeRow

\* What the literals of the operators are.
LEMMA Words ==
    /\ {"active", "paused", "cancelled", "expired", "completed", "needs_review"} \subseteq ScheduleState
    /\ {"none", "materialized", "started", "needs_review", "skipped", "completed", "failed", "cancelled"} \subseteq RunStatus
    /\ {"none", "pending", "claimed", "request_started", "needs_review", "sent", "failed", "cancelled"} \subseteq BoxStatus
BY DEF ScheduleState, RunStatus, Running, BoxStatus, Undecided, Unsent

LEMMA Bounds == /\ Horizon \in Nat /\ Horizon > 0 /\ MaxRevision \in Nat /\ MaxRevision > 0
                /\ Occ = 1..Horizon /\ Rev = 1..MaxRevision /\ CrashLimit \in Nat
BY StoreAssumption, CrashAssumption DEF Occ, Rev

(***************************************************************************)
(* What a row may be.                                                       *)
(***************************************************************************)
Numbered(d) ==
    /\ d.auth[d.rev].id \in Rev
    /\ \A o \in Occ : IF d.run[o].status = "none" THEN d.run[o] = NoRun /\ d.box[o].status = "none"
                      ELSE o <= d.high /\ d.run[o].rev \in Rev

Agreed(d, o) ==
    /\ d.run[o].status = "materialized" <=> d.box[o].status \in Unsent \cup {"request_started"}
    /\ d.run[o].status = "needs_review" <=> d.box[o].status = "needs_review"
    /\ d.run[o].status # "started"
    /\ d.box[o].status = "request_started" => d.box[o].attempt > 0
    /\ d.box[o].status \in Unsent => d.state = "active" /\ d.run[o].rev = d.rev

Single(d) == \A o, p \in Occ : d.run[o].status \in Running /\ d.run[p].status \in Running => o = p

(***************************************************************************)
(* What is left of the tables when rows are withdrawn.                      *)
(***************************************************************************)
Kept(d, e, o) == e.box[o] = d.box[o] /\ e.run[o] = d.run[o]

Dropped(d, e, o) ==
    /\ d.box[o].status \notin {"request_started", "needs_review", "sent"}
    /\ e.box[o] = IF d.box[o].status \in Unsent THEN Put(d.box[o], "cancelled") ELSE d.box[o]
    /\ e.run[o].rev = d.run[o].rev
    /\ IF d.run[o].status = "materialized" THEN e.run[o].status \in {"cancelled", "skipped"}
       ELSE e.run[o].status = d.run[o].status

NoneUnsent(d) == \A o \in Occ : d.box[o].status \notin Unsent

Narrows(d, e) ==
    /\ e \in Tables /\ e.high = d.high /\ e.rev = d.rev
    /\ \A r \in Rev : e.auth[r].id = d.auth[r].id
    /\ \A o \in Occ : Kept(d, e, o) \/ Dropped(d, e, o)
    /\ NoneUnsent(e) \/ e.state = d.state

LEMMA RetireNarrows ==
    ASSUME NEW d \in Tables, NEW R
    PROVE  /\ Narrows(d, Retire(d, R))
           /\ Retire(d, R).box = d.box /\ Retire(d, R).run = d.run /\ Retire(d, R).state = d.state
           /\ Retire(d, R).notice = d.notice /\ Retire(d, R).next = d.next /\ Retire(d, R).claim = d.claim
           /\ Retire(d, R).once = d.once
<1> DEFINE a == [r \in Rev |-> IF r \in R THEN [d.auth[r] EXCEPT !.retired = TRUE] ELSE d.auth[r]]
<1>1. Retire(d, R) = [d EXCEPT !.auth = a]
    BY DEF Retire
<1>2. a \in Auths /\ \A r \in Rev : a[r].id = d.auth[r].id
    BY DEF Tables, Auths, AuthRow
<1> HIDE DEF a
<1>3. [d EXCEPT !.auth = a] \in Tables
    BY <1>2 DEF Tables
<1> QED
    BY <1>1, <1>2, <1>3 DEF Narrows, Kept, Tables

LEMMA SuppressNarrows ==
    ASSUME NEW d \in Tables
    PROVE  /\ Narrows(d, Suppress(d)) /\ NoneUnsent(Suppress(d))
           /\ Suppress(d).state = d.state /\ Suppress(d).auth = d.auth /\ Suppress(d).next = d.next
           /\ Suppress(d).claim = d.claim /\ Suppress(d).once = d.once
<1> DEFINE b == [o \in Occ |-> IF d.box[o].status \in Unsent THEN Put(d.box[o], "cancelled") ELSE d.box[o]]
           r == [o \in Occ |-> IF /\ d.run[o].status = "materialized"
                                  /\ d.box[o].status \notin {"request_started", "needs_review", "sent"}
                               THEN [d.run[o] EXCEPT !.status = "cancelled"] ELSE d.run[o]]
           n == [o \in Occ |-> IF d.notice[o].state = "pending" /\ d.notice[o].phase = "none" /\ d.notice[o].event = "queued"
                               THEN [d.notice[o] EXCEPT !.state = "none", !.event = "done"] ELSE d.notice[o]]
<1>1. Suppress(d) = [d EXCEPT !.box = b, !.run = r, !.notice = n]
    BY DEF Suppress
<1>2. ASSUME NEW o \in Occ
      PROVE  /\ b[o] \in BoxRow /\ b[o].status \notin Unsent /\ r[o] \in RunRow
             /\ \/ b[o] = d.box[o] /\ r[o] = d.run[o]
                \/ /\ d.box[o].status \notin {"request_started", "needs_review", "sent"}
                   /\ b[o] = IF d.box[o].status \in Unsent THEN Put(d.box[o], "cancelled") ELSE d.box[o]
                   /\ r[o].rev = d.run[o].rev
                   /\ IF d.run[o].status = "materialized" THEN r[o].status = "cancelled"
                      ELSE r[o].status = d.run[o].status
  <2>1. d.box[o] \in BoxRow /\ d.run[o] \in RunRow
      BY DEF Tables, Boxes, Runs
  <2>2. Put(d.box[o], "cancelled") \in BoxRow /\ Put(d.box[o], "cancelled").status = "cancelled"
      BY <2>1, Words DEF BoxRow, Put
  <2>3. [d.run[o] EXCEPT !.status = "cancelled"] \in RunRow
      BY <2>1, Words DEF RunRow
  <2> QED
      BY <2>1, <2>2, <2>3 DEF Unsent, RunRow
<1>3. n \in Notices
  <2>1. ASSUME NEW o \in Occ PROVE n[o] \in NoticeRow
    <3>1. d.notice[o] \in NoticeRow
        BY DEF Tables, Notices
    <3> QED BY <3>1 DEF NoticeRow
  <2> QED BY <2>1 DEF Notices
<1>4. b \in Boxes /\ r \in Runs
    BY <1>2 DEF Boxes, Runs
<1> HIDE DEF b, r, n
<1>5. [d EXCEPT !.box = b, !.run = r, !.notice = n] \in Tables
    BY <1>3, <1>4 DEF Tables
<1> QED
    BY <1>1, <1>2, <1>5 DEF Narrows, NoneUnsent, Kept, Dropped, Tables

LEMMA NarrowsItself == ASSUME NEW d \in Tables PROVE Narrows(d, d)
BY DEF Narrows, Kept

LEMMA NarrowsFurther ==
    ASSUME NEW d \in Tables, NEW e, NEW f, Narrows(d, e), Narrows(e, f)
    PROVE  Narrows(d, f)
<1>1. ASSUME NEW o \in Occ PROVE Kept(d, f, o) \/ Dropped(d, f, o)
  <2>1. d.box[o] \in BoxRow /\ e.box[o] \in BoxRow /\ f.box[o] \in BoxRow
      BY DEF Narrows, Tables, Boxes
  <2>2. CASE Kept(d, e, o)
      BY <2>2 DEF Narrows, Kept, Dropped
  <2>3. CASE Dropped(d, e, o)
    <3>1. e.box[o].status \notin Unsent
        BY <2>1, <2>3 DEF Dropped, Put, BoxRow, Unsent
    <3>2. e.run[o].status # "materialized"
        BY <2>3 DEF Dropped
    <3>3. CASE Kept(e, f, o)
        BY <2>3, <3>3 DEF Kept, Dropped
    <3>4. CASE Dropped(e, f, o)
        BY <2>3, <3>1, <3>2, <3>4 DEF Dropped
    <3> QED BY <3>3, <3>4 DEF Narrows
  <2> QED BY <2>2, <2>3 DEF Narrows
<1>2. NoneUnsent(f) \/ f.state = d.state
  <2>1. ASSUME NoneUnsent(e) PROVE NoneUnsent(f)
    <3>1. ASSUME NEW o \in Occ PROVE f.box[o].status \notin Unsent
        BY <2>1, <3>1 DEF NoneUnsent, Narrows, Kept, Dropped
    <3> QED BY <3>1 DEF NoneUnsent
  <2> QED BY <2>1 DEF Narrows
<1> QED
    BY <1>1, <1>2 DEF Narrows

LEMMA NoneUnsentStays ==
    ASSUME NEW d, NEW e, NoneUnsent(d), Narrows(d, e)
    PROVE  NoneUnsent(e)
<1>1. ASSUME NEW o \in Occ PROVE e.box[o].status \notin Unsent
    BY <1>1 DEF NoneUnsent, Narrows, Kept, Dropped
<1> QED BY <1>1 DEF NoneUnsent

LEMMA Restated ==
    ASSUME NEW d \in Tables, NoneUnsent(d), NEW x \in ScheduleState
    PROVE  Narrows(d, [d EXCEPT !.state = x]) /\ NoneUnsent([d EXCEPT !.state = x])
<1>1. [d EXCEPT !.state = x] \in Tables
    BY DEF Tables
<1> QED
    BY <1>1 DEF Narrows, NoneUnsent, Kept, Tables

LEMMA CompleteNarrows ==
    ASSUME NEW d \in Tables
    PROVE  /\ Narrows(d, CompleteIfDrained(d))
           /\ CompleteIfDrained(d).box = d.box /\ CompleteIfDrained(d).run = d.run
<1>1. CASE CompleteIfDrained(d) = d
    BY <1>1, NarrowsItself
<1>2. CASE Drained(d) /\ CompleteIfDrained(d) = [Retire(d, Rev) EXCEPT !.state = "completed"]
  <2>1. NoneUnsent(Retire(d, Rev))
      BY <1>2, RetireNarrows DEF Drained, Unresolved, Undecided, NoneUnsent
  <2>2. Retire(d, Rev) \in Tables
      BY RetireNarrows DEF Narrows
  <2>3. Narrows(Retire(d, Rev), CompleteIfDrained(d))
      BY <1>2, <2>1, <2>2, Restated, Words
  <2>4. /\ CompleteIfDrained(d).box = Retire(d, Rev).box
        /\ CompleteIfDrained(d).run = Retire(d, Rev).run
      BY <1>2, <2>2 DEF Tables
  <2> QED
      BY <2>3, <2>4, RetireNarrows, NarrowsFurther
<1> QED
    BY <1>1, <1>2 DEF CompleteIfDrained

\* Suppressed, in another state, some revisions retired.
LEMMA Suppressed ==
    ASSUME NEW d \in Tables, NEW x \in ScheduleState
    PROVE  /\ Narrows(d, [Suppress(d) EXCEPT !.state = x])
           /\ NoneUnsent([Suppress(d) EXCEPT !.state = x])
<1>1. Suppress(d) \in Tables
    BY SuppressNarrows DEF Narrows
<1>2. /\ Narrows(Suppress(d), [Suppress(d) EXCEPT !.state = x])
      /\ NoneUnsent([Suppress(d) EXCEPT !.state = x])
    BY <1>1, SuppressNarrows, Restated
<1> QED
    BY <1>2, SuppressNarrows, NarrowsFurther

LEMMA RetireAfter ==
    ASSUME NEW d \in Tables, NEW e, Narrows(d, e), NEW R
    PROVE  /\ Narrows(d, Retire(e, R))
           /\ NoneUnsent(e) => NoneUnsent(Retire(e, R))
<1>1. e \in Tables
    BY DEF Narrows
<1>2. Narrows(e, Retire(e, R))
    BY <1>1, RetireNarrows
<1> QED
    BY <1>2, NarrowsFurther, NoneUnsentStays

LEMMA CompleteAfter ==
    ASSUME NEW d \in Tables, NEW e, Narrows(d, e)
    PROVE  /\ Narrows(d, CompleteIfDrained(e))
           /\ NoneUnsent(e) => NoneUnsent(CompleteIfDrained(e))
<1>1. e \in Tables
    BY DEF Narrows
<1>2. Narrows(e, CompleteIfDrained(e))
    BY <1>1, CompleteNarrows
<1> QED
    BY <1>2, NarrowsFurther, NoneUnsentStays

LEMMA ExpireNarrows ==
    ASSUME NEW d \in Tables
    PROVE  Narrows(d, Expire(d)) /\ NoneUnsent(Expire(d))
<1> DEFINE e == [Suppress(d) EXCEPT !.state = "expired"]
<1>1. Narrows(d, e) /\ NoneUnsent(e)
    BY Suppressed, Words
<1> HIDE DEF e
<1>2. Narrows(d, Retire(e, {d.rev})) /\ NoneUnsent(Retire(e, {d.rev}))
    BY <1>1, RetireAfter
<1>3. /\ Narrows(d, CompleteIfDrained(Retire(e, {d.rev})))
      /\ NoneUnsent(CompleteIfDrained(Retire(e, {d.rev})))
    BY <1>2, CompleteAfter
<1> QED
    BY <1>3 DEF Expire, e

\* One unsent row and its run, withdrawn.
LEMMA WithdrawnNarrows ==
    ASSUME NEW d \in Tables, NEW o \in Occ, d.box[o].status \in Unsent, d.run[o].status # "started",
           NEW status \in {"cancelled", "skipped"}
    PROVE  Narrows(d, Withdrawn(d, o, status)) /\ Withdrawn(d, o, status).box[o].status = "cancelled"
<1> DEFINE w == IF d.run[o].status \in {"materialized", "started"} THEN status ELSE d.run[o].status
           b == [d.box EXCEPT ![o] = Put(d.box[o], "cancelled")]
           r == [d.run EXCEPT ![o] = [d.run[o] EXCEPT !.status = w]]
           e == [d EXCEPT !.box = b, !.run = r]
<1>1. d.box \in Boxes /\ d.run \in Runs /\ d.box[o] \in BoxRow /\ d.run[o] \in RunRow
    BY DEF Tables, Boxes, Runs
<1>2. Put(d.box[o], "cancelled") \in BoxRow
    BY <1>1, Words DEF Put, BoxRow
<1>3. w \in RunStatus
    BY <1>1, Words DEF RunRow
<1>4. [d.run[o] EXCEPT !.status = w] \in RunRow
    BY <1>1, <1>3 DEF RunRow
<1>5. b \in Boxes /\ r \in Runs
    BY <1>1, <1>2, <1>4 DEF Boxes, Runs
<1>6. /\ b[o] = Put(d.box[o], "cancelled") /\ r[o].status = w /\ r[o].rev = d.run[o].rev
      /\ \A p \in Occ \ {o} : b[p] = d.box[p] /\ r[p] = d.run[p]
    BY <1>1 DEF Boxes, Runs, RunRow
<1>7. e = [d EXCEPT !.box[o] = Put(@, "cancelled"),
                    !.run[o].status = IF @ \in {"materialized", "started"} THEN status ELSE @]
    BY <1>1 DEF Tables
<1>8. d.run[o].status = "materialized" => w \in {"cancelled", "skipped"}
    OBVIOUS
<1>12. d.run[o].status # "materialized" => w = d.run[o].status
    OBVIOUS
<1> HIDE DEF b, r, w
<1>9. e \in Tables /\ e.box = b /\ e.run = r /\ e.high = d.high /\ e.rev = d.rev /\ e.auth = d.auth /\ e.state = d.state
    BY <1>5 DEF Tables
<1> HIDE DEF e
<1>10. Dropped(d, e, o)
    BY <1>6, <1>8, <1>12, <1>9 DEF Dropped, Unsent
<1>11. Narrows(d, e)
    BY <1>6, <1>9, <1>10 DEF Narrows, Kept
<1> QED
  <2>1. CompleteIfDrained(e).box = b
      BY <1>9, CompleteNarrows
  <2>2. b[o].status = "cancelled"
      BY <1>1, <1>6 DEF Put, BoxRow
  <2>3. Withdrawn(d, o, status) = CompleteIfDrained(e)
      BY <1>7 DEF Withdrawn
  <2> QED
      BY <1>11, <2>1, <2>2, <2>3, CompleteAfter

LEMMA ExpireUnsentNarrows ==
    ASSUME NEW d \in Tables, NEW o \in Occ, d.run[o].status # "started"
    PROVE  /\ Narrows(d, ExpireUnsent(d, o))
           /\ ExpireUnsent(d, o).box[o].status \in Unsent =>
                 ExpireUnsent(d, o) = d /\ d.state = "active" /\ d.rev = d.run[o].rev
<1>1. /\ Narrows(d, d)
      /\ d.box[o].status \in Unsent =>
            /\ Narrows(d, Withdrawn(d, o, "cancelled")) /\ Withdrawn(d, o, "cancelled").box[o].status = "cancelled"
            /\ Narrows(d, Withdrawn(d, o, "skipped")) /\ Withdrawn(d, o, "skipped").box[o].status = "cancelled"
    BY NarrowsItself, WithdrawnNarrows
<1>2. Narrows(d, Expire(d)) /\ Expire(d).box[o].status \notin Unsent
    BY ExpireNarrows DEF NoneUnsent
<1>3. "cancelled" \notin Unsent
    BY DEF Unsent
<1> QED
    BY <1>1, <1>2, <1>3 DEF ExpireUnsent

LEMMA RevokeNarrows ==
    ASSUME NEW d \in Tables, NEW o \in Occ
    PROVE  Narrows(d, Revoke(d, o))
<1>1. /\ Narrows(d, [Suppress(d) EXCEPT !.state = "paused"])
    BY Suppressed, Words
<1>2. Narrows(d, Retire([Suppress(d) EXCEPT !.state = "paused"], {d.rev}))
    BY <1>1, RetireAfter
<1> QED
    BY <1>2, NarrowsItself DEF Revoke

(***************************************************************************)
(* Tables in good order, and what the rest of the system sees of a change.  *)
(***************************************************************************)
Good(d) == d \in Tables /\ Numbered(d) /\ (\A o \in Occ : Agreed(d, o)) /\ Single(d)

Follows(d, e, o) ==
    /\ e.run[o].status = "none" <=> d.run[o].status = "none"
    /\ e.box[o].status = "request_started" => e.box[o] = d.box[o]
    /\ d.box[o].status = "request_started" => e.box[o] = d.box[o] \/ e.box[o].status = "needs_review"
    /\ d.box[o].status \in {"needs_review", "sent", "failed", "none"} => e.box[o].status = d.box[o].status
    /\ e.box[o].status \in Unsent => d.box[o].status \in Unsent

LEMMA FollowsItself == \A d : \A o \in Occ : Follows(d, d, o)
BY DEF Follows

LEMMA FollowsFurther ==
    ASSUME NEW d, NEW e, NEW f, NEW o, Follows(d, e, o), Follows(e, f, o)
    PROVE  Follows(d, f, o)
BY DEF Follows

LEMMA RowNarrows ==
    ASSUME NEW d \in Tables, NEW e \in Tables, NEW o \in Occ, Agreed(d, o),
           NoneUnsent(e) \/ (e.state = d.state /\ e.rev = d.rev),
           Kept(d, e, o) \/ Dropped(d, e, o)
    PROVE  /\ Agreed(e, o) /\ Follows(d, e, o)
           /\ e.run[o].status \in Running => d.run[o].status \in Running
           /\ e.run[o].rev = d.run[o].rev
           /\ e.box[o].status = "none" <=> d.box[o].status = "none"
<1>1. /\ d.box[o] \in BoxRow /\ e.box[o] \in BoxRow /\ d.run[o] \in RunRow /\ e.run[o] \in RunRow
    BY DEF Tables, Boxes, Runs
<1>2. CASE Kept(d, e, o)
    BY <1>1, <1>2 DEF Kept, Agreed, Follows, NoneUnsent
<1>3. CASE Dropped(d, e, o)
  <2>1. CASE d.box[o].status \in Unsent
    <3>1. e.box[o].status = "cancelled"
        BY <1>1, <1>3, <2>1 DEF Dropped, Put, BoxRow
    <3>2. d.run[o].status = "materialized" /\ e.run[o].status \in {"cancelled", "skipped"}
        BY <1>3, <2>1 DEF Dropped, Agreed
    <3> QED
        BY <1>3, <2>1, <3>1, <3>2 DEF Dropped, Agreed, Follows, Unsent, Running
  <2>2. CASE d.box[o].status \notin Unsent
    <3>1. e.box[o] = d.box[o]
        BY <1>3, <2>2 DEF Dropped
    <3>2. d.run[o].status # "materialized" /\ e.run[o].status = d.run[o].status
        BY <1>3, <2>2 DEF Dropped, Agreed
    <3> QED
        BY <1>3, <2>2, <3>1, <3>2 DEF Dropped, Agreed, Follows
  <2> QED BY <2>1, <2>2
<1> QED BY <1>2, <1>3

\* Tables of which all rows but o are what they were, or withdrawn.
NarrowsBut(d, e, o) ==
    /\ e \in Tables /\ e.high = d.high /\ e.rev = d.rev
    /\ \A r \in Rev : e.auth[r].id = d.auth[r].id
    /\ \A p \in Occ \ {o} : Kept(d, e, p) \/ Dropped(d, e, p)
    /\ NoneUnsent(e) \/ e.state = d.state

LEMMA ButKeeps ==
    ASSUME NEW d, Good(d), NEW e, NEW o \in Occ, NarrowsBut(d, e, o), Agreed(e, o),
           d.run[o].status # "none", e.run[o].status # "none", e.run[o].rev = d.run[o].rev,
           e.run[o].status \in Running => d.run[o].status \in Running
    PROVE  /\ Good(e) /\ \A p \in Occ \ {o} : Follows(d, e, p)
           /\ e.high = d.high
<1>1. \A p \in Occ \ {o} :
         /\ Agreed(e, p) /\ Follows(d, e, p)
         /\ e.run[p].status \in Running => d.run[p].status \in Running
         /\ e.run[p].rev = d.run[p].rev
         /\ e.box[p].status = "none" <=> d.box[p].status = "none"
    BY RowNarrows DEF Good, NarrowsBut
<1>2. \A p \in Occ : Agreed(e, p)
    BY <1>1
<1>3. Single(e)
    BY <1>1 DEF Single, Good
<1>4. Numbered(e)
  <2>1. e.auth[e.rev].id \in Rev
      BY DEF Good, Numbered, NarrowsBut, Tables
  <2>2. ASSUME NEW p \in Occ
        PROVE  IF e.run[p].status = "none" THEN e.run[p] = NoRun /\ e.box[p].status = "none"
               ELSE p <= e.high /\ e.run[p].rev \in Rev
    <3>1. d.run[p] \in RunRow /\ e.run[p] \in RunRow
        BY DEF Good, NarrowsBut, Tables, Runs
    <3>2. CASE p = o
        BY <3>2 DEF Good, Numbered, NarrowsBut
    <3>3. CASE p # o
      <4>1. Follows(d, e, p) /\ e.run[p].rev = d.run[p].rev /\ (e.box[p].status = "none" <=> d.box[p].status = "none")
          BY <1>1, <3>3
      <4>2. e.run[p].status = "none" <=> d.run[p].status = "none"
          BY <4>1 DEF Follows
      <4>3. e.high = d.high
          BY DEF NarrowsBut
      <4> QED
          BY <3>1, <4>1, <4>2, <4>3 DEF Good, Numbered, NoRun, RunRow
    <3> QED BY <3>2, <3>3
  <2> QED BY <2>1, <2>2 DEF Numbered
<1> QED
    BY <1>1, <1>2, <1>3, <1>4 DEF Good, NarrowsBut

LEMMA NarrowsKeeps ==
    ASSUME NEW d, Good(d), NEW e, Narrows(d, e)
    PROVE  /\ Good(e) /\ \A o \in Occ : Follows(d, e, o)
           /\ e.high = d.high
<1>1. \A p \in Occ :
         /\ Agreed(e, p) /\ Follows(d, e, p)
         /\ e.run[p].status \in Running => d.run[p].status \in Running
         /\ e.run[p].rev = d.run[p].rev
         /\ e.box[p].status = "none" <=> d.box[p].status = "none"
    BY RowNarrows DEF Good, Narrows
<1>3. Single(e)
    BY <1>1 DEF Single, Good
<1>4. Numbered(e)
  <2>1. e.auth[e.rev].id \in Rev
      BY DEF Good, Numbered, Narrows, Tables
  <2>2. ASSUME NEW p \in Occ
        PROVE  IF e.run[p].status = "none" THEN e.run[p] = NoRun /\ e.box[p].status = "none"
               ELSE p <= e.high /\ e.run[p].rev \in Rev
    <3>1. d.run[p] \in RunRow /\ e.run[p] \in RunRow
        BY DEF Good, Narrows, Tables, Runs
    <3>2. e.run[p].status = "none" <=> d.run[p].status = "none"
        BY <1>1 DEF Follows
    <3>3. e.high = d.high
        BY DEF Narrows
    <3> QED
        BY <1>1, <3>1, <3>2, <3>3 DEF Good, Numbered, NoRun, RunRow
  <2> QED BY <2>1, <2>2 DEF Numbered
<1> QED
    BY <1>1, <1>3, <1>4 DEF Good, Narrows

LEMMA ButFurther ==
    ASSUME NEW d \in Tables, NEW e, NEW f, NEW o \in Occ, NarrowsBut(d, e, o), Narrows(e, f)
    PROVE  NarrowsBut(d, f, o)
<1>1. ASSUME NEW p \in Occ \ {o} PROVE Kept(d, f, p) \/ Dropped(d, f, p)
  <2>1. d.box[p] \in BoxRow /\ e.box[p] \in BoxRow /\ f.box[p] \in BoxRow
      BY DEF Narrows, NarrowsBut, Tables, Boxes
  <2>2. CASE Kept(d, e, p)
      BY <2>2 DEF Narrows, Kept, Dropped
  <2>3. CASE Dropped(d, e, p)
    <3>1. e.box[p].status \notin Unsent
        BY <2>1, <2>3 DEF Dropped, Put, BoxRow, Unsent
    <3>2. e.run[p].status # "materialized"
        BY <2>3 DEF Dropped
    <3>3. CASE Kept(e, f, p)
        BY <2>3, <3>3 DEF Kept, Dropped
    <3>4. CASE Dropped(e, f, p)
        BY <2>3, <3>1, <3>2, <3>4 DEF Dropped
    <3> QED BY <3>3, <3>4 DEF Narrows
  <2> QED BY <2>2, <2>3 DEF NarrowsBut
<1>2. NoneUnsent(f) \/ f.state = d.state
    BY NoneUnsentStays DEF NarrowsBut, Narrows
<1> QED
    BY <1>1, <1>2 DEF Narrows, NarrowsBut

(***************************************************************************)
(* markAmbiguous.                                                           *)
(***************************************************************************)
LEMMA AmbiguousKeeps ==
    ASSUME NEW d, Good(d), NEW o \in Occ, d.box[o].status = "request_started"
    PROVE  LET e == MarkAmbiguous(d, o)
           IN  /\ Good(e) /\ \A p \in Occ : Follows(d, e, p)
               /\ e.high = d.high /\ e.box[o].status = "needs_review"
<1> DEFINE b == [d.box EXCEPT ![o] = Put(d.box[o], "needs_review")]
           c == [d EXCEPT !.box = b]
           f == Suppress(c)
           x == IF f.state \in {"cancelled", "completed"} THEN f.state ELSE "needs_review"
           r == [f.run EXCEPT ![o] = [f.run[o] EXCEPT !.status = "needs_review"]]
           g == [f EXCEPT !.run = r, !.state = x]
           e == MarkAmbiguous(d, o)
<1>1. d \in Tables /\ d.box \in Boxes /\ d.box[o] \in BoxRow /\ Agreed(d, o)
    BY DEF Good, Tables, Boxes
<1>2. d.run[o].status = "materialized"
    BY <1>1 DEF Agreed
<1>3. Put(d.box[o], "needs_review") \in BoxRow /\ Put(d.box[o], "needs_review").status = "needs_review"
    BY <1>1, Words DEF Put, BoxRow
<1>4. b \in Boxes /\ b[o].status = "needs_review" /\ \A p \in Occ \ {o} : b[p] = d.box[p]
    BY <1>1, <1>3 DEF Boxes
<1> HIDE DEF b
<1>5. /\ c \in Tables /\ c.box = b /\ c.run = d.run /\ c.high = d.high /\ c.rev = d.rev
      /\ c.auth = d.auth /\ c.state = d.state
    BY <1>1, <1>4 DEF Tables
<1>6. c = [d EXCEPT !.box[o] = Put(@, "needs_review")]
    BY <1>1 DEF b, Tables
<1> HIDE DEF c
<1>7. Narrows(c, f) /\ NoneUnsent(f) /\ f \in Tables /\ f.state = c.state
    BY <1>5, SuppressNarrows DEF Narrows
<1>8. f.box[o].status = "needs_review" /\ f.run[o] = d.run[o]
    BY <1>4, <1>5, <1>7 DEF Narrows, Kept, Dropped
<1>9. NarrowsBut(d, f, o)
  <2>1. NarrowsBut(d, c, o)
      BY <1>4, <1>5 DEF NarrowsBut, Kept
  <2> QED BY <1>1, <1>7, <2>1, ButFurther
<1> HIDE DEF f
<1>10. f.run \in Runs /\ f.run[o] \in RunRow
    BY <1>7 DEF Tables, Runs
<1>11. [f.run[o] EXCEPT !.status = "needs_review"] \in RunRow
    BY <1>10, Words DEF RunRow
<1>12. /\ r \in Runs /\ r[o].status = "needs_review" /\ r[o].rev = d.run[o].rev
       /\ \A p \in Occ \ {o} : r[p] = f.run[p]
    BY <1>8, <1>10, <1>11 DEF Runs, RunRow
<1>13. x \in ScheduleState
    BY <1>7, Words DEF Tables
<1> HIDE DEF r, x
<1>14. /\ g \in Tables /\ g.run = r /\ g.box = f.box /\ g.high = f.high /\ g.rev = f.rev /\ g.auth = f.auth
    BY <1>7, <1>12, <1>13 DEF Tables
<1>15. g = [f EXCEPT !.run[o].status = "needs_review",
                     !.state = IF @ \in {"cancelled", "completed"} THEN @ ELSE "needs_review"]
    BY <1>7, <1>10 DEF r, x, Tables
<1> HIDE DEF g
<1>16. NarrowsBut(d, g, o) /\ NoneUnsent(g)
    BY <1>7, <1>9, <1>12, <1>14 DEF NarrowsBut, NoneUnsent, Kept, Dropped
<1>17. e = Retire(g, Rev)
    BY <1>6, <1>15 DEF MarkAmbiguous, f
<1>18. Narrows(g, e) /\ e.box = g.box /\ e.run = g.run
    BY <1>14, <1>17, RetireNarrows
<1>19. NarrowsBut(d, e, o)
    BY <1>1, <1>16, <1>18, ButFurther
<1>20. e.box[o].status = "needs_review" /\ e.run[o].status = "needs_review" /\ e.run[o].rev = d.run[o].rev
    BY <1>8, <1>12, <1>14, <1>18
<1> HIDE DEF e
<1>21. Agreed(e, o) /\ Follows(d, e, o)
    BY <1>1, <1>2, <1>20 DEF Agreed, Follows, Unsent
<1>22. /\ Good(e) /\ \A p \in Occ \ {o} : Follows(d, e, p)
       /\ e.high = d.high
    BY <1>2, <1>19, <1>20, <1>21, ButKeeps DEF Running
<1> QED
    BY <1>20, <1>21, <1>22 DEF e

(***************************************************************************)
(* finishWrite.                                                             *)
(***************************************************************************)
\* The tables in the course of finishWrite for the row o, which had been begun.
Halfway(d, e, o, sent) ==
    /\ NarrowsBut(d, e, o)
    /\ e.run[o].rev = d.run[o].rev
    /\ e.run[o].status \in {"materialized", "cancelled", "skipped"}
    /\ e.box[o].status \in {"pending", "sent", "failed", "cancelled"}
    /\ e.box[o].status = "sent" <=> sent
    /\ e.box[o].status = "pending" => e.run[o].status = "materialized"

LEMMA HalfwayFurther ==
    ASSUME NEW d \in Tables, NEW e, NEW f, NEW o \in Occ, NEW sent \in BOOLEAN, Halfway(d, e, o, sent), Narrows(e, f)
    PROVE  Halfway(d, f, o, sent)
<1>1. NarrowsBut(d, f, o)
    BY ButFurther DEF Halfway
<1>2. e.box[o] \in BoxRow
    BY DEF Halfway, NarrowsBut, Tables, Boxes
<1>3. CASE Kept(e, f, o)
    BY <1>1, <1>3 DEF Halfway, Kept
<1>4. CASE Dropped(e, f, o)
  <2>1. f.box[o].status \in {"failed", "cancelled"} /\ e.box[o].status # "sent"
      BY <1>2, <1>4 DEF Dropped, Halfway, Put, BoxRow, Unsent
  <2>2. f.run[o].status \in {"cancelled", "skipped"} /\ f.run[o].rev = e.run[o].rev
      BY <1>4 DEF Dropped, Halfway
  <2> QED BY <1>1, <2>1, <2>2 DEF Halfway
<1> QED BY <1>3, <1>4 DEF Narrows

LEMMA SettledHalfway ==
    ASSUME NEW d, Good(d), NEW o \in Occ, d.box[o].status = "request_started", NEW outcome, NEW within
    PROVE  Halfway(d, Settled(d, o, outcome, within), o, outcome = "sent")
<1> DEFINE status == SettledAs(d, o, outcome, within)
           refund == outcome = "unavailable" /\ Retry(d, o, outcome, within)
           row == SettledRow(d.box[o], status, refund)
           b == [d.box EXCEPT ![o] = row]
           e == Settled(d, o, outcome, within)
<1>1. d \in Tables /\ d.box \in Boxes /\ d.box[o] \in BoxRow /\ Agreed(d, o)
    BY DEF Good, Tables, Boxes
<1>2. d.run[o].status = "materialized"
    BY <1>1 DEF Agreed
<1>3. status \in {"sent", "pending", "failed", "cancelled"} /\ (status = "sent" <=> outcome = "sent")
    BY DEF SettledAs
<1>4. e = [d EXCEPT !.box = b]
    BY <1>1 DEF Settled, Tables
<1> HIDE DEF status, refund
<1>5. row \in BoxRow /\ row.status = status
  <2>1. d.box[o].attempt \in 1..3
      BY <1>1 DEF Agreed, BoxRow
  <2>2. status \in BoxStatus
      BY <1>3, Words
  <2>3. (IF refund THEN d.box[o].attempt - 1 ELSE d.box[o].attempt) \in 0..3
      BY <2>1
  <2> QED BY <2>2, <2>3 DEF SettledRow, BoxRow
<1> HIDE DEF row
<1>6. b \in Boxes /\ b[o] = row /\ \A p \in Occ \ {o} : b[p] = d.box[p]
    BY <1>1, <1>5 DEF Boxes
<1> HIDE DEF b, e
<1>7. /\ e \in Tables /\ e.box = b /\ e.run = d.run /\ e.high = d.high /\ e.rev = d.rev
      /\ e.auth = d.auth /\ e.state = d.state
    BY <1>1, <1>4, <1>6 DEF Tables
<1>8. NarrowsBut(d, e, o)
    BY <1>6, <1>7 DEF NarrowsBut, Kept
<1> QED
    BY <1>2, <1>3, <1>5, <1>6, <1>7, <1>8 DEF Halfway, e

LEMMA CheckedHalfway ==
    ASSUME NEW d, Good(d), NEW o \in Occ, d.box[o].status = "request_started", NEW outcome, NEW within
    PROVE  Halfway(d, Checked(d, o, outcome, within), o, outcome = "sent")
<1> DEFINE e == Settled(d, o, outcome, within)
<1>1. Halfway(d, e, o, outcome = "sent")
    BY SettledHalfway
<1>2. Narrows(e, Revoke(e, o))
    BY <1>1, RevokeNarrows DEF Halfway, NarrowsBut
<1>3. Halfway(d, Revoke(e, o), o, outcome = "sent")
    BY <1>1, <1>2, HalfwayFurther DEF Good
<1> QED
    BY <1>1, <1>3 DEF Checked

LEMMA TimelyHalfway ==
    ASSUME NEW d, Good(d), NEW o \in Occ, d.box[o].status = "request_started", NEW outcome, NEW within
    PROVE  Halfway(d, Timely(d, o, outcome, within), o, outcome = "sent")
<1> DEFINE c == Checked(d, o, outcome, within)
           b == [c.box EXCEPT ![o] = [c.box[o] EXCEPT !.status = "cancelled"]]
           r == [c.run EXCEPT ![o] = [c.run[o] EXCEPT !.status = "skipped"]]
           e == [c EXCEPT !.box = b, !.run = r]
<1>1. Halfway(d, c, o, outcome = "sent")
    BY CheckedHalfway
<1> HIDE DEF c
<1>2. c \in Tables /\ c.box \in Boxes /\ c.run \in Runs /\ c.box[o] \in BoxRow /\ c.run[o] \in RunRow
    BY <1>1 DEF Halfway, NarrowsBut, Tables, Boxes, Runs
<1>3. [c.box[o] EXCEPT !.status = "cancelled"] \in BoxRow /\ [c.run[o] EXCEPT !.status = "skipped"] \in RunRow
    BY <1>2, Words DEF BoxRow, RunRow
<1>4. /\ b \in Boxes /\ b[o].status = "cancelled" /\ \A p \in Occ \ {o} : b[p] = c.box[p]
      /\ r \in Runs /\ r[o].status = "skipped" /\ r[o].rev = c.run[o].rev /\ \A p \in Occ \ {o} : r[p] = c.run[p]
    BY <1>2, <1>3 DEF Boxes, Runs, BoxRow, RunRow
<1>5. e = [c EXCEPT !.box[o].status = "cancelled", !.run[o].status = "skipped"]
    BY <1>2 DEF Tables
<1> HIDE DEF b, r
<1>6. /\ e \in Tables /\ e.box = b /\ e.run = r /\ e.high = c.high /\ e.rev = c.rev
      /\ e.auth = c.auth /\ e.state = c.state
    BY <1>2, <1>4 DEF Tables
<1> HIDE DEF e
<1>7. NoneUnsent(c) => NoneUnsent(e)
    BY <1>4, <1>6 DEF NoneUnsent, Unsent
<1>8. NarrowsBut(d, e, o)
    BY <1>1, <1>4, <1>6, <1>7 DEF Halfway, NarrowsBut, Kept, Dropped
<1>9. outcome # "sent" => Halfway(d, e, o, outcome = "sent")
    BY <1>1, <1>4, <1>6, <1>8 DEF Halfway
<1> QED
    BY <1>1, <1>5, <1>9 DEF Timely, c

LEMMA ToldAgrees ==
    ASSUME NEW d, Good(d), NEW o \in Occ, d.run[o].status = "materialized", NEW k, NEW sent \in BOOLEAN,
           Halfway(d, k, o, sent),
           k.box[o].status \in Unsent => k.state = "active" /\ k.rev = k.run[o].rev
    PROVE  LET e == Told(k, o)
           IN  /\ Good(e) /\ \A p \in Occ \ {o} : Follows(d, e, p)
               /\ e.high = d.high /\ e.run[o].status # "none" /\ e.box[o] = k.box[o]
<1> DEFINE w == IF k.box[o].status = "sent" THEN "completed"
                ELSE IF k.box[o].status = "cancelled" THEN "cancelled" ELSE "failed"
           r == [k.run EXCEPT ![o] = [k.run[o] EXCEPT !.status = w]]
           e == Told(k, o)
<1>1. k \in Tables /\ k.run \in Runs /\ k.run[o] \in RunRow /\ d.run[o].rev \in Rev
    BY DEF Halfway, NarrowsBut, Good, Numbered, Tables, Runs
<1>2. w \in {"completed", "cancelled", "failed"} /\ w \in RunStatus
    BY Words
<1> HIDE DEF w
<1>3. [k.run[o] EXCEPT !.status = w] \in RunRow
    BY <1>1, <1>2 DEF RunRow
<1>4. r \in Runs /\ r[o].status = w /\ r[o].rev = k.run[o].rev /\ \A p \in Occ \ {o} : r[p] = k.run[p]
    BY <1>1, <1>3 DEF Runs, RunRow
<1>5. [k EXCEPT !.run[o].status = w] = [k EXCEPT !.run = r]
    BY <1>1 DEF Tables
<1> HIDE DEF r
<1>6. /\ [k EXCEPT !.run = r] \in Tables
      /\ [k EXCEPT !.run = r].run = r /\ [k EXCEPT !.run = r].box = k.box /\ [k EXCEPT !.run = r].high = k.high
      /\ [k EXCEPT !.run = r].rev = k.rev /\ [k EXCEPT !.run = r].auth = k.auth /\ [k EXCEPT !.run = r].state = k.state
    BY <1>1, <1>4 DEF Tables
<1>7. \/ /\ e = [k EXCEPT !.run = r] /\ k.box[o].status # "pending"
      \/ /\ e = k /\ (k.box[o].status = "pending" \/ k.run[o].status # "materialized")
    BY <1>5 DEF Told, w, Halfway
<1>8. /\ e \in Tables /\ e.box = k.box /\ e.high = k.high /\ e.rev = k.rev /\ e.auth = k.auth /\ e.state = k.state
      /\ \A p \in Occ \ {o} : e.run[p] = k.run[p]
      /\ e.run[o].rev = k.run[o].rev
      /\ IF k.box[o].status = "pending" THEN e.run[o].status = "materialized"
         ELSE e.run[o].status \in {"completed", "cancelled", "failed", "skipped"}
    BY <1>1, <1>2, <1>4, <1>6, <1>7 DEF Halfway
<1> HIDE DEF e
<1>9. NarrowsBut(d, e, o)
    BY <1>8 DEF Halfway, NarrowsBut, NoneUnsent, Kept, Dropped
<1>10. Agreed(e, o)
    BY <1>8 DEF Agreed, Halfway, Unsent
<1>11. /\ e.run[o].status # "none" /\ e.run[o].rev = d.run[o].rev
    BY <1>8 DEF Halfway
<1> QED
    BY <1>8, <1>9, <1>10, <1>11, ButKeeps DEF Running, e

LEMMA FinishKeeps ==
    ASSUME NEW d, Good(d), NEW o \in Occ, d.box[o].status = "request_started", NEW outcome, NEW within
    PROVE  LET e == FinishWrite(d, o, outcome, within)
           IN  /\ Good(e) /\ \A p \in Occ \ {o} : Follows(d, e, p)
               /\ e.high = d.high /\ e.run[o].status # "none"
               /\ e.box[o].status \in {"pending", "sent", "failed", "cancelled", "needs_review"}
               /\ outcome = "ambiguous" => e.box[o].status = "needs_review"
               /\ outcome = "sent" => e.box[o].status = "sent"
<1>1. d.run[o].status = "materialized" /\ d \in Tables
    BY DEF Good, Agreed
<1>2. CASE outcome = "ambiguous"
  <2> DEFINE m == MarkAmbiguous(d, o)
  <2>1. /\ Good(m) /\ \A p \in Occ : Follows(d, m, p)
        /\ m.high = d.high /\ m.box[o].status = "needs_review"
      BY AmbiguousKeeps
  <2> HIDE DEF m
  <2>2. Narrows(m, CompleteIfDrained(m)) /\ CompleteIfDrained(m).box = m.box
      BY <2>1, CompleteNarrows DEF Good
  <2>3. /\ Good(CompleteIfDrained(m)) /\ \A p \in Occ : Follows(m, CompleteIfDrained(m), p)
        /\ CompleteIfDrained(m).high = m.high
      BY <2>1, <2>2, NarrowsKeeps
  <2>4. \A p \in Occ : Follows(d, CompleteIfDrained(m), p)
      BY <2>1, <2>3, FollowsFurther
  <2>5. CompleteIfDrained(m).run[o].status # "none"
      BY <1>1, <2>4 DEF Follows
  <2> QED
      BY <1>2, <2>1, <2>2, <2>3, <2>4, <2>5 DEF FinishWrite, m
<1>3. CASE outcome # "ambiguous"
  <2> DEFINE t == Timely(d, o, outcome, within)
             k == ExpireUnsent(t, o)
             u == Told(k, o)
             c == CompleteIfDrained(u)
             e == ExpireIfEnded(c)
             sent == outcome = "sent"
  <2>1. Halfway(d, t, o, sent)
      BY TimelyHalfway
  <2> HIDE DEF t
  <2>2. t \in Tables /\ t.run[o].status # "started"
      BY <2>1 DEF Halfway, NarrowsBut
  <2>3. /\ Narrows(t, k)
        /\ k.box[o].status \in Unsent => k = t /\ t.state = "active" /\ t.rev = t.run[o].rev
      BY <2>2, ExpireUnsentNarrows
  <2> HIDE DEF k
  <2>4. Halfway(d, k, o, sent)
      BY <1>1, <2>1, <2>3, HalfwayFurther
  <2>5. /\ Good(u) /\ \A p \in Occ \ {o} : Follows(d, u, p)
        /\ u.high = d.high /\ u.run[o].status # "none" /\ u.box[o] = k.box[o]
    <3>1. k.box[o].status \in Unsent => k.state = "active" /\ k.rev = k.run[o].rev
        BY <2>3
    <3>2. sent \in BOOLEAN
        OBVIOUS
    <3> HIDE DEF sent
    <3> QED BY <1>1, <2>4, <3>1, <3>2, ToldAgrees
  <2> HIDE DEF u
  <2>6. Narrows(u, c) /\ c \in Tables
      BY <2>5, CompleteNarrows DEF Good, Narrows
  <2> HIDE DEF c
  <2>7. Narrows(c, e)
      BY <2>6, NarrowsItself, ExpireNarrows DEF ExpireIfEnded
  <2> HIDE DEF e
  <2>8. Narrows(u, e)
      BY <2>5, <2>6, <2>7, NarrowsFurther DEF Good
  <2>9. /\ Good(e) /\ \A p \in Occ : Follows(u, e, p)
        /\ e.high = u.high
      BY <2>5, <2>8, NarrowsKeeps
  <2>10. \A p \in Occ \ {o} : Follows(d, e, p)
      BY <2>5, <2>9, FollowsFurther
  <2>11. /\ e.run[o].status # "none"
         /\ e.box[o].status \in {"pending", "sent", "failed", "cancelled"}
         /\ outcome = "sent" => e.box[o].status = "sent"
    <3>1. u.box[o] \in BoxRow
        BY <2>5 DEF Good, Tables, Boxes
    <3>2. u.box[o].status \in {"pending", "sent", "failed", "cancelled"} /\ (sent => u.box[o].status = "sent")
        BY <2>4, <2>5 DEF Halfway
    <3>3. Kept(u, e, o) \/ Dropped(u, e, o)
        BY <2>8 DEF Narrows
    <3>4. /\ e.box[o].status \in {"pending", "sent", "failed", "cancelled"}
          /\ u.box[o].status = "sent" => e.box[o].status = "sent"
        BY <3>1, <3>2, <3>3 DEF Kept, Dropped, Put, BoxRow
    <3> QED BY <2>5, <2>9, <3>2, <3>4 DEF Follows
  <2>12. e = FinishWrite(d, o, outcome, within)
      BY <1>3 DEF FinishWrite, e, c, u, k, t
  <2> QED
      BY <1>3, <2>5, <2>9, <2>10, <2>11, <2>12
<1> QED BY <1>2, <1>3

LEMMA StartedKeeps ==
    ASSUME NEW d, Good(d), NEW o \in Occ, d.box[o].status = "claimed", d.box[o].attempt < 3
    PROVE  LET e == Started(d, o)
           IN  /\ Good(e) /\ \A p \in Occ \ {o} : Follows(d, e, p)
               /\ e.high = d.high /\ e.run = d.run
               /\ e.box[o].status = "request_started" /\ e.box[o].holder = d.box[o].holder
<1> DEFINE b == [d.box EXCEPT ![o] = [d.box[o] EXCEPT !.status = "request_started", !.attempt = d.box[o].attempt + 1]]
           e == Started(d, o)
<1>1. d \in Tables /\ d.box \in Boxes /\ d.box[o] \in BoxRow /\ Agreed(d, o)
    BY DEF Good, Tables, Boxes
<1>2. d.run[o].status = "materialized"
    BY <1>1 DEF Agreed, Unsent
<1>3. [d.box[o] EXCEPT !.status = "request_started", !.attempt = d.box[o].attempt + 1] \in BoxRow
  <2>1. d.box[o].attempt + 1 \in 0..3
      BY <1>1 DEF BoxRow
  <2> QED BY <1>1, <2>1, Words DEF BoxRow
<1>4. /\ b \in Boxes /\ b[o].status = "request_started" /\ b[o].attempt > 0 /\ b[o].holder = d.box[o].holder
      /\ \A p \in Occ \ {o} : b[p] = d.box[p]
    BY <1>1, <1>3 DEF Boxes, BoxRow
<1>5. e = [d EXCEPT !.box = b]
    BY <1>1 DEF Started, Begun, Tables
<1> HIDE DEF b, e
<1>6. /\ e \in Tables /\ e.box = b /\ e.run = d.run /\ e.high = d.high /\ e.rev = d.rev
      /\ e.auth = d.auth /\ e.state = d.state
    BY <1>1, <1>4, <1>5 DEF Tables
<1>7. NarrowsBut(d, e, o) /\ Agreed(e, o)
    BY <1>2, <1>4, <1>6 DEF NarrowsBut, Kept, Agreed, Unsent
<1> QED
    BY <1>2, <1>4, <1>6, <1>7, ButKeeps DEF e

LEMMA UnbegunKeeps ==
    ASSUME NEW d, Good(d), NEW s, NEW o \in Occ, NEW outcome, outcome # "ambiguous", NEW within, d.run[o].status # "none"
    PROVE  LET e == FinishUnbegun(d, s, o, outcome, within)
           IN  /\ Good(e) /\ \A p \in Occ \ {o} : Follows(d, e, p)
               /\ e.high = d.high
               /\ \/ Follows(d, e, o)
                  \/ /\ d.box[o].status \in Unsent /\ e.run[o].status # "none"
                     /\ e.box[o].status \in {"pending", "sent", "failed", "cancelled", "needs_review"}
<1> DEFINE e == FinishUnbegun(d, s, o, outcome, within)
           x == [Suppress(d) EXCEPT !.state = "paused"]
<1>1. d \in Tables
    BY DEF Good
<1>2. Narrows(d, x)
    BY <1>1, Suppressed, Words
<1>3. Narrows(d, Retire(x, {d.rev})) /\ Narrows(d, Retire(d, {d.rev})) /\ Narrows(d, d)
    BY <1>1, <1>2, RetireAfter, NarrowsItself
<1>4. \/ Narrows(d, e)
      \/ MayStart(d, s, o) /\ e = FinishWrite(Started(d, o), o, outcome, within)
    BY <1>3 DEF FinishUnbegun
<1> HIDE DEF e, x
<1>5. CASE Narrows(d, e)
    BY <1>5, NarrowsKeeps DEF e
<1>6. CASE MayStart(d, s, o) /\ e = FinishWrite(Started(d, o), o, outcome, within)
  <2> DEFINE f == Started(d, o)
  <2>1. d.box[o].status = "claimed" /\ d.box[o].attempt < 3
      BY <1>6 DEF MayStart, HoldsRow
  <2>2. /\ Good(f) /\ \A p \in Occ \ {o} : Follows(d, f, p)
        /\ f.high = d.high /\ f.run = d.run
        /\ f.box[o].status = "request_started"
      BY <2>1, StartedKeeps
  <2> HIDE DEF f
  <2>3. /\ Good(e) /\ \A p \in Occ \ {o} : Follows(f, e, p)
        /\ e.high = f.high /\ e.run[o].status # "none"
        /\ e.box[o].status \in {"pending", "sent", "failed", "cancelled", "needs_review"}
      BY <1>6, <2>2, FinishKeeps DEF f
  <2>4. \A p \in Occ \ {o} : Follows(d, e, p)
      BY <2>2, <2>3, FollowsFurther
  <2> QED
      BY <2>1, <2>2, <2>3, <2>4 DEF e, Unsent
<1> QED BY <1>4, <1>5, <1>6

(***************************************************************************)
(* recover.  Its two sweeps are recursive functions of the row; that they    *)
(* are defined, and what they keep, follows from the least row of which it   *)
(* would be false.                                                          *)
(***************************************************************************)
LEMMA Least ==
    ASSUME NEW T, T \subseteq 0..Horizon, T # {}
    PROVE  \E n \in T : \A m \in T : n <= m
<1> DEFINE S == FiniteSubsetsOf(0..Horizon)
           R == StrictSubsetOrdering(0..Horizon)
           F == {0..n : n \in T}
<1>0. Horizon \in Nat
    BY Bounds
<1>1. IsWellFoundedOn(R, S)
    BY FS_StrictSubsetOrderingWellFounded
<1>2. F \subseteq S
  <2>1. ASSUME NEW n \in T PROVE 0..n \in S
    <3>1. 0..n \in SUBSET (0..Horizon) /\ 0 \in Int /\ n \in Int
        BY <1>0
    <3>2. IsFiniteSet(0..n)
        BY <3>1, FS_Interval
    <3> QED BY <3>1, <3>2 DEF FiniteSubsetsOf
  <2> QED BY <2>1
<1>3. F # {}
    OBVIOUS
<1> HIDE DEF R, S
<1>4. \E x \in F : \A y \in F : ~(<<y, x>> \in R)
    BY <1>1, <1>2, <1>3, WFMin
<1>5. PICK n \in T : \A m \in T : ~(<<0..m, 0..n>> \in R)
    BY <1>4
<1>6. ASSUME NEW m \in T, m < n PROVE FALSE
  <2>1. 0..m \subseteq 0..n /\ n \notin 0..m /\ n \in 0..n /\ 0..m \subseteq 0..Horizon /\ 0..n \subseteq 0..Horizon
      BY <1>0, <1>6
  <2> QED BY <2>1, <1>5 DEF R, StrictSubsetOrdering
<1> QED
    BY <1>0, <1>6

LEMMA DoubtKeeps ==
    ASSUME NEW d, Good(d), NEW o \in Occ, NEW all \in BOOLEAN
    PROVE  LET e == Doubt(d, o, all)
           IN  /\ Good(e) /\ \A p \in Occ : Follows(d, e, p)
               /\ e.high = d.high
               /\ ~(e.box[o].status = "request_started" /\ (all \/ ~e.box[o].live))
BY AmbiguousKeeps, FollowsItself DEF Doubt

LEMMA DoubtedKeeps ==
    ASSUME NEW d, Good(d), NEW all \in BOOLEAN
    PROVE  LET e == Doubted(d, all)
           IN  /\ Good(e) /\ \A p \in Occ : Follows(d, e, p)
               /\ e.high = d.high
               /\ \A p \in Occ : ~(e.box[p].status = "request_started" /\ (all \/ ~e.box[p].live))
<1> DEFINE G(g, n) == g = [o \in 0..n |-> IF o = 0 THEN d ELSE Doubt(g[o - 1], o, all)]
           T == {n \in 0..Horizon : ~\E g : G(g, n)}
           f == CHOOSE g : G(g, Horizon)
<1>1. Horizon \in Nat /\ Occ = 1..Horizon
    BY Bounds
<1>2. T = {}
  <2> SUFFICES ASSUME T # {} PROVE FALSE
      OBVIOUS
  <2>1. PICK n \in T : \A m \in T : n <= m
      BY Least
  <2>2. n # 0
    <3>1. G([o \in 0..0 |-> d], 0)
        OBVIOUS
    <3> QED BY <2>1, <3>1
  <2>3. n \in 1..Horizon /\ n - 1 \in 0..Horizon /\ n - 1 \notin T
    <3>1. n \in 0..Horizon
        OBVIOUS
    <3> HIDE DEF T
    <3> QED BY <1>1, <2>1, <2>2, <3>1
  <2>4. PICK g : G(g, n - 1)
      BY <2>3
  <2> DEFINE h == [o \in 0..n |-> IF o = n THEN Doubt(g[n - 1], n, all) ELSE g[o]]
  <2>5. ASSUME NEW o \in 0..n PROVE h[o] = IF o = 0 THEN d ELSE Doubt(h[o - 1], o, all)
    <3>1. CASE o = n
        BY <2>3, <3>1
    <3>2. CASE o # n
      <4>1. o \in 0..(n - 1) /\ (o # 0 => o - 1 \in 0..n /\ o - 1 # n)
          BY <2>3, <3>2
      <4>2. g[o] = IF o = 0 THEN d ELSE Doubt(g[o - 1], o, all)
          BY <2>4, <4>1
      <4> QED BY <3>2, <4>1, <4>2
    <3> QED BY <3>1, <3>2
  <2>6. h = [o \in 0..n |-> h[o]]
      OBVIOUS
  <2>7. G(h, n)
    <3> HIDE DEF h
    <3> QED BY <2>5, <2>6
  <2> QED BY <2>1, <2>7
<1>3. G(f, Horizon)
  <2>1. \E g : G(g, Horizon)
      BY <1>1, <1>2
  <2> HIDE DEF G
  <2> QED BY <2>1
<1>4. Doubted(d, all) = f[Horizon]
    BY DEF Doubted
<1> HIDE DEF f
<1>5. /\ f[0] = d
      /\ \A o \in Occ : f[o] = Doubt(f[o - 1], o, all)
    BY <1>1, <1>3
<1> DEFINE P(n) == /\ Good(f[n]) /\ (\A p \in Occ : Follows(d, f[n], p)) /\ f[n].high = d.high
                   /\ \A p \in 1..n : ~(f[n].box[p].status = "request_started" /\ (all \/ ~f[n].box[p].live))
           U == {n \in 0..Horizon : ~P(n)}
<1>6. U = {}
  <2> SUFFICES ASSUME U # {} PROVE FALSE
      OBVIOUS
  <2>1. PICK n \in U : \A m \in U : n <= m
      BY Least
  <2>2. P(0)
      BY <1>5, FollowsItself
  <2>3. n \in Occ /\ n - 1 \in 0..Horizon /\ n - 1 \notin U
      BY <1>1, <2>1, <2>2
  <2>4. P(n - 1)
      BY <2>3
  <2> DEFINE c == f[n - 1]
             e == f[n]
  <2>5. e = Doubt(c, n, all)
      BY <1>5, <2>3
  <2> HIDE DEF c, e
  <2>6. /\ Good(c) /\ (\A p \in Occ : Follows(d, c, p)) /\ c.high = d.high
        /\ \A p \in 1..(n - 1) : ~(c.box[p].status = "request_started" /\ (all \/ ~c.box[p].live))
      BY <2>4 DEF c
  <2>7. /\ Good(e) /\ \A p \in Occ : Follows(c, e, p)
        /\ e.high = c.high
        /\ ~(e.box[n].status = "request_started" /\ (all \/ ~e.box[n].live))
      BY <2>3, <2>5, <2>6, DoubtKeeps
  <2>8. /\ \A p \in Occ : Follows(d, e, p)
        /\ \A p \in 1..n : ~(e.box[p].status = "request_started" /\ (all \/ ~e.box[p].live))
    <3>1. ASSUME NEW p \in 1..n PROVE ~(e.box[p].status = "request_started" /\ (all \/ ~e.box[p].live))
      <4>1. p = n \/ p \in 1..(n - 1)
          BY <2>3, <1>1
      <4>2. p \in Occ
          BY <2>3, <1>1
      <4> QED BY <2>6, <2>7, <4>1, <4>2 DEF Follows
    <3> QED BY <2>6, <2>7, <3>1, FollowsFurther
  <2>9. P(n)
      BY <2>6, <2>7, <2>8 DEF e
  <2> QED BY <2>1, <2>9
<1> QED
    BY <1>1, <1>4, <1>6

LEMMA AllExpiredKeeps ==
    ASSUME NEW d, Good(d)
    PROVE  LET e == AllExpired(d)
           IN  /\ Good(e) /\ \A p \in Occ : Follows(d, e, p)
               /\ e.high = d.high
<1> DEFINE G(g, n) == g = [o \in 0..n |-> IF o = 0 THEN d ELSE ExpireUnsent(g[o - 1], o)]
           T == {n \in 0..Horizon : ~\E g : G(g, n)}
           f == CHOOSE g : G(g, Horizon)
<1>1. Horizon \in Nat /\ Occ = 1..Horizon
    BY Bounds
<1>2. T = {}
  <2> SUFFICES ASSUME T # {} PROVE FALSE
      OBVIOUS
  <2>1. PICK n \in T : \A m \in T : n <= m
      BY Least
  <2>2. n # 0
    <3>1. G([o \in 0..0 |-> d], 0)
        OBVIOUS
    <3> QED BY <2>1, <3>1
  <2>3. n \in 1..Horizon /\ n - 1 \in 0..Horizon /\ n - 1 \notin T
    <3>1. n \in 0..Horizon
        OBVIOUS
    <3> HIDE DEF T
    <3> QED BY <1>1, <2>1, <2>2, <3>1
  <2>4. PICK g : G(g, n - 1)
      BY <2>3
  <2> DEFINE h == [o \in 0..n |-> IF o = n THEN ExpireUnsent(g[n - 1], n) ELSE g[o]]
  <2>5. ASSUME NEW o \in 0..n PROVE h[o] = IF o = 0 THEN d ELSE ExpireUnsent(h[o - 1], o)
    <3>1. CASE o = n
        BY <2>3, <3>1
    <3>2. CASE o # n
      <4>1. o \in 0..(n - 1) /\ (o # 0 => o - 1 \in 0..n /\ o - 1 # n)
          BY <2>3, <3>2
      <4>2. g[o] = IF o = 0 THEN d ELSE ExpireUnsent(g[o - 1], o)
          BY <2>4, <4>1
      <4> QED BY <3>2, <4>1, <4>2
    <3> QED BY <3>1, <3>2
  <2>6. h = [o \in 0..n |-> h[o]]
      OBVIOUS
  <2>7. G(h, n)
    <3> HIDE DEF h
    <3> QED BY <2>5, <2>6
  <2> QED BY <2>1, <2>7
<1>3. G(f, Horizon)
  <2>1. \E g : G(g, Horizon)
      BY <1>1, <1>2
  <2> HIDE DEF G
  <2> QED BY <2>1
<1>4. AllExpired(d) = f[Horizon]
    BY DEF AllExpired
<1> HIDE DEF f
<1>5. /\ f[0] = d
      /\ \A o \in Occ : f[o] = ExpireUnsent(f[o - 1], o)
    BY <1>1, <1>3
<1> DEFINE P(n) == /\ Good(f[n]) /\ (\A p \in Occ : Follows(d, f[n], p)) /\ f[n].high = d.high
           U == {n \in 0..Horizon : ~P(n)}
<1>6. U = {}
  <2> SUFFICES ASSUME U # {} PROVE FALSE
      OBVIOUS
  <2>1. PICK n \in U : \A m \in U : n <= m
      BY Least
  <2>2. P(0)
      BY <1>5, FollowsItself
  <2>3. n \in Occ /\ n - 1 \in 0..Horizon /\ n - 1 \notin U
      BY <1>1, <2>1, <2>2
  <2>4. P(n - 1)
      BY <2>3
  <2> DEFINE c == f[n - 1]
             e == f[n]
  <2>5. e = ExpireUnsent(c, n)
      BY <1>5, <2>3
  <2> HIDE DEF c, e
  <2>6. Good(c) /\ (\A p \in Occ : Follows(d, c, p)) /\ c.high = d.high
      BY <2>4 DEF c
  <2>7. Narrows(c, e)
      BY <2>3, <2>5, <2>6, ExpireUnsentNarrows DEF Good, Agreed
  <2>8. /\ Good(e) /\ \A p \in Occ : Follows(c, e, p)
        /\ e.high = c.high
      BY <2>6, <2>7, NarrowsKeeps
  <2>9. P(n)
      BY <2>6, <2>8, FollowsFurther DEF e
  <2> QED BY <2>1, <2>9
<1> QED
    BY <1>1, <1>4, <1>6

LEMMA ReleasedKeeps ==
    ASSUME NEW d, Good(d), NEW all \in BOOLEAN
    PROVE  LET e == Released(d, all)
           IN  /\ Good(e) /\ \A p \in Occ : Follows(d, e, p)
               /\ e.high = d.high
<1> DEFINE b == [o \in Occ |-> IF d.box[o].status = "claimed" /\ (all \/ ~d.box[o].live)
                               THEN Put(d.box[o], "pending") ELSE d.box[o]]
           e == Released(d, all)
<1>1. d \in Tables /\ \A o \in Occ : d.box[o] \in BoxRow
    BY DEF Good, Tables, Boxes
<1>2. ASSUME NEW o \in Occ
      PROVE  /\ b[o] \in BoxRow
             /\ b[o] = d.box[o] \/ (d.box[o].status = "claimed" /\ b[o].status = "pending")
  <2>1. Put(d.box[o], "pending") \in BoxRow /\ Put(d.box[o], "pending").status = "pending"
      BY <1>1, Words DEF Put, BoxRow
  <2> QED BY <1>1, <2>1
<1>3. b \in Boxes
    BY <1>2 DEF Boxes
<1>4. e = [d EXCEPT !.box = b]
    BY <1>1 DEF Released, Tables
<1> HIDE DEF b, e
<1>5. /\ e \in Tables /\ e.box = b /\ e.run = d.run /\ e.high = d.high /\ e.rev = d.rev
      /\ e.auth = d.auth /\ e.state = d.state
    BY <1>1, <1>3, <1>4 DEF Tables
<1>6. ASSUME NEW o \in Occ PROVE Agreed(e, o) /\ Follows(d, e, o)
    BY <1>2, <1>5 DEF Good, Agreed, Follows, Unsent
<1>7. Numbered(e) /\ Single(e)
    BY <1>2, <1>5 DEF Good, Numbered, Single
<1> QED
    BY <1>5, <1>6, <1>7 DEF Good, e

LEMMA RecoverKeeps ==
    ASSUME NEW d, Good(d), NEW all \in BOOLEAN
    PROVE  LET e == Recover(d, all)
           IN  /\ Good(e) /\ \A p \in Occ : Follows(d, e, p)
               /\ e.high = d.high
               /\ all => \A p \in Occ : e.box[p].status # "request_started"
<1> DEFINE b == Doubted(d, all)
           c == Released(b, all)
           e == AllExpired(c)
<1>1. /\ Good(b) /\ \A p \in Occ : Follows(d, b, p)
      /\ b.high = d.high
      /\ \A p \in Occ : ~(b.box[p].status = "request_started" /\ (all \/ ~b.box[p].live))
    BY DoubtedKeeps
<1> HIDE DEF b
<1>2. /\ Good(c) /\ \A p \in Occ : Follows(b, c, p)
      /\ c.high = b.high
    BY <1>1, ReleasedKeeps
<1> HIDE DEF c
<1>3. /\ Good(e) /\ \A p \in Occ : Follows(c, e, p)
      /\ e.high = c.high
    BY <1>2, AllExpiredKeeps
<1> HIDE DEF e
<1>4. \A p \in Occ : Follows(d, e, p)
    BY <1>1, <1>2, <1>3, FollowsFurther
<1>5. all => \A p \in Occ : e.box[p].status # "request_started"
    BY <1>1, <1>2, <1>3 DEF Follows
<1> QED
    BY <1>1, <1>2, <1>3, <1>4, <1>5 DEF Recover, e, c, b

(***************************************************************************)
(* The owner's operations.                                                  *)
(***************************************************************************)
\* Tables with another revision, in which nothing waits to be sent.
Emptied(d, e) ==
    /\ e \in Tables /\ e.high = d.high /\ e.auth[e.rev].id \in Rev
    /\ \A o \in Occ : Kept(d, e, o) \/ Dropped(d, e, o)
    /\ NoneUnsent(e)

LEMMA EmptiedKeeps ==
    ASSUME NEW d, Good(d), NEW e, Emptied(d, e)
    PROVE  /\ Good(e) /\ \A o \in Occ : Follows(d, e, o)
           /\ e.high = d.high
<1>1. \A p \in Occ :
         /\ Agreed(e, p) /\ Follows(d, e, p)
         /\ e.run[p].status \in Running => d.run[p].status \in Running
         /\ e.run[p].rev = d.run[p].rev
         /\ e.box[p].status = "none" <=> d.box[p].status = "none"
    BY RowNarrows DEF Good, Emptied
<1>3. Single(e)
    BY <1>1 DEF Single, Good
<1>4. Numbered(e)
  <2>2. ASSUME NEW p \in Occ
        PROVE  IF e.run[p].status = "none" THEN e.run[p] = NoRun /\ e.box[p].status = "none"
               ELSE p <= e.high /\ e.run[p].rev \in Rev
    <3>1. d.run[p] \in RunRow /\ e.run[p] \in RunRow
        BY DEF Good, Emptied, Tables, Runs
    <3>2. e.run[p].status = "none" <=> d.run[p].status = "none"
        BY <1>1 DEF Follows
    <3>3. e.high = d.high
        BY DEF Emptied
    <3> QED
        BY <1>1, <3>1, <3>2, <3>3 DEF Good, Numbered, NoRun, RunRow
  <2> QED BY <2>2 DEF Numbered, Emptied
<1> QED
    BY <1>1, <1>3, <1>4 DEF Good, Emptied

LEMMA EmptiedFurther ==
    ASSUME NEW d \in Tables, NEW e, NEW f, Emptied(d, e), Narrows(e, f)
    PROVE  Emptied(d, f)
<1>1. ASSUME NEW o \in Occ PROVE Kept(d, f, o) \/ Dropped(d, f, o)
  <2>1. e.box[o].status \notin Unsent
      BY DEF Emptied, NoneUnsent
  <2>2. CASE Kept(d, e, o)
      BY <2>2 DEF Narrows, Kept, Dropped
  <2>3. CASE Dropped(d, e, o)
    <3>1. e.run[o].status # "materialized"
        BY <2>3 DEF Dropped
    <3>2. CASE Kept(e, f, o)
        BY <2>3, <3>2 DEF Kept, Dropped
    <3>3. CASE Dropped(e, f, o)
        BY <2>1, <2>3, <3>1, <3>3 DEF Dropped
    <3> QED BY <3>2, <3>3 DEF Narrows
  <2> QED BY <2>2, <2>3 DEF Emptied
<1>2. NoneUnsent(f)
    BY NoneUnsentStays DEF Emptied
<1>3. f.auth[f.rev].id \in Rev
    BY DEF Emptied, Narrows, Tables
<1> QED
    BY <1>1, <1>2, <1>3 DEF Narrows, Emptied

\* A current revision with its successor.
LEMMA Advanced ==
    ASSUME NEW d \in Tables, d.auth[d.rev].id \in Rev, d.rev < MaxRevision, NEW state \in ScheduleState
    PROVE  LET e == Advance(d, state)
           IN  /\ e \in Tables /\ e.high = d.high /\ e.auth[e.rev].id \in Rev
               /\ e.box = d.box /\ e.run = d.run
<1> DEFINE a == [d.auth EXCEPT ![d.rev + 1] = d.auth[d.rev]]
           c == [d EXCEPT !.auth = a]
           f == Retire(c, {d.rev})
           e == [f EXCEPT !.rev = d.rev + 1, !.state = state, !.claim = NoClaim]
<1>1. d.rev \in Rev /\ d.rev + 1 \in Rev /\ d.auth \in Auths
    BY Bounds DEF Tables
<1>2. d.auth[d.rev] \in AuthRow
    BY <1>1 DEF Auths
<1>3. a \in Auths /\ a[d.rev + 1] = d.auth[d.rev]
    BY <1>1, <1>2 DEF Auths
<1>4. c = [d EXCEPT !.auth[d.rev + 1] = d.auth[d.rev]]
    BY <1>1 DEF Tables
<1> HIDE DEF a
<1>5. c \in Tables /\ c.auth = a /\ c.box = d.box /\ c.run = d.run /\ c.high = d.high /\ c.rev = d.rev
    BY <1>3 DEF Tables
<1> HIDE DEF c
<1>6. /\ f \in Tables /\ f.box = d.box /\ f.run = d.run /\ f.high = d.high
      /\ f.auth[d.rev + 1].id = d.auth[d.rev].id
  <2>1. Narrows(c, f) /\ f.box = c.box /\ f.run = c.run
      BY <1>5, RetireNarrows
  <2> HIDE DEF f
  <2> QED BY <1>1, <1>3, <1>5, <2>1 DEF Narrows
<1> HIDE DEF f
<1>7. NoClaim \in Claims
    BY DEF NoClaim, Claims
<1>8. /\ e \in Tables /\ e.box = f.box /\ e.run = f.run /\ e.high = f.high /\ e.auth = f.auth /\ e.rev = d.rev + 1
    BY <1>1, <1>6, <1>7 DEF Tables
<1> QED
    BY <1>4, <1>6, <1>8 DEF Advance, f

LEMMA RecalledNarrows ==
    ASSUME NEW d \in Tables, NEW operation
    PROVE  LET e == Recalled(d, operation)
           IN  /\ Narrows(d, e) /\ e.auth = d.auth /\ e.rev = d.rev /\ e.state = d.state
<1> DEFINE n == [o \in Occ |->
                   IF d.notice[o].phase \notin {"none", "preflight"} \/ d.notice[o].state \notin {"pending", "needs_review"}
                   THEN d.notice[o]
                   ELSE IF d.notice[o].event = "held" THEN [d.notice[o] EXCEPT !.state = "needs_review", !.event = "review"]
                   ELSE IF d.notice[o].state = "needs_review" /\ d.notice[o].event = "queued"
                        THEN [d.notice[o] EXCEPT !.state = "none", !.event = "done"]
                   ELSE d.notice[o]]
           e == [d EXCEPT !.notice = n]
<1>1. ASSUME NEW o \in Occ PROVE n[o] \in NoticeRow
  <2>1. d.notice[o] \in NoticeRow
      BY DEF Tables, Notices
  <2>2. /\ [d.notice[o] EXCEPT !.state = "needs_review", !.event = "review"] \in NoticeRow
        /\ [d.notice[o] EXCEPT !.state = "none", !.event = "done"] \in NoticeRow
      BY <2>1 DEF NoticeRow
  <2> QED BY <2>1, <2>2
<1>2. n \in Notices
    BY <1>1 DEF Notices
<1>3. Recalled(d, operation) = d \/ Recalled(d, operation) = e
    BY DEF Recalled, Tables
<1> HIDE DEF n
<1>4. Narrows(d, e) /\ e.auth = d.auth /\ e.rev = d.rev /\ e.state = d.state
    BY <1>2 DEF Narrows, Kept, Tables
<1> QED
    BY <1>3, <1>4, NarrowsItself

LEMMA TransitionKeeps ==
    ASSUME NEW d, Good(d), NEW operation \in {"pause", "resume", "cancel"}, MayTransition(d, operation),
           Usable(d, d.rev) => d.rev < MaxRevision
    PROVE  LET e == Transition(d, operation)
           IN  /\ Good(e) /\ \A o \in Occ : Follows(d, e, o)
               /\ e.high = d.high
<1> DEFINE e == Recalled(d, operation)
           x == CASE operation = "pause" -> "paused"
                  [] operation = "resume" -> "active"
                  [] operation = "cancel" -> "cancelled"
           moved == Advance(e, x)
           quiet == IF operation = "resume" THEN moved ELSE Suppress(moved)
           rest == IF operation = "cancel" THEN Retire(quiet, Rev) ELSE quiet
<1>1. d \in Tables /\ Narrows(d, e) /\ e.auth = d.auth /\ e.rev = d.rev /\ e.state = d.state /\ e \in Tables
    BY RecalledNarrows DEF Good, Narrows
<1>2. Good(e) /\ (\A o \in Occ : Follows(d, e, o)) /\ e.high = d.high
    BY <1>1, NarrowsKeeps
<1>3. operation = "resume" => d.state = "paused"
    BY DEF MayTransition
<1>4. Usable(e, e.rev) = Usable(d, d.rev)
    BY <1>1 DEF Usable
<1> HIDE DEF e
<1>5. CASE Usable(d, d.rev)
  <2>1. x \in ScheduleState
      BY Words
  <2> HIDE DEF x
  <2>2. /\ moved \in Tables /\ moved.high = e.high /\ moved.auth[moved.rev].id \in Rev
        /\ moved.box = e.box /\ moved.run = e.run
      BY <1>1, <1>2, <1>5, <2>1, Advanced DEF Good, Numbered
  <2> HIDE DEF moved
  <2>3. Emptied(e, quiet)
    <3>1. CASE operation = "resume"
      <4>1. NoneUnsent(e)
          BY <1>1, <1>2, <1>3, <3>1 DEF Good, Agreed, NoneUnsent
      <4> QED
          BY <2>2, <3>1, <4>1 DEF Emptied, NoneUnsent, Kept
    <3>2. CASE operation # "resume"
      <4>1. Narrows(moved, Suppress(moved)) /\ NoneUnsent(Suppress(moved)) /\ Suppress(moved).auth = moved.auth
          BY <2>2, SuppressNarrows
      <4> QED
          BY <2>2, <3>2, <4>1 DEF Emptied, Narrows, Kept, Dropped
    <3> QED BY <3>1, <3>2
  <2> HIDE DEF quiet
  <2>4. Emptied(e, rest)
    <3>1. Narrows(quiet, Retire(quiet, Rev))
        BY <2>3, RetireNarrows DEF Emptied
    <3> QED BY <1>1, <2>3, <3>1, EmptiedFurther
  <2> HIDE DEF rest
  <2>5. Emptied(e, CompleteIfDrained(rest))
    <3>1. Narrows(rest, CompleteIfDrained(rest))
        BY <2>4, CompleteNarrows DEF Emptied
    <3> QED BY <1>1, <2>4, <3>1, EmptiedFurther
  <2>6. Transition(d, operation) = CompleteIfDrained(rest)
      BY <1>5 DEF Transition, rest, quiet, moved, x, e
  <2> QED
      BY <1>2, <2>5, <2>6, EmptiedKeeps, FollowsFurther
<1>6. CASE ~Usable(d, d.rev)
  <2> DEFINE c == Retire([Suppress(e) EXCEPT !.state = "cancelled"], Rev)
  <2>1. Narrows(e, [Suppress(e) EXCEPT !.state = "cancelled"])
      BY <1>1, Suppressed, Words
  <2>2. Narrows(e, c)
      BY <1>1, <2>1, RetireAfter
  <2> HIDE DEF c
  <2>3. Narrows(e, CompleteIfDrained(c)) /\ Narrows(e, Expire(e))
      BY <1>1, <2>2, CompleteAfter, ExpireNarrows
  <2>4. Transition(d, operation) = CompleteIfDrained(c) \/ Transition(d, operation) = Expire(e)
      BY <1>6 DEF Transition, c, e
  <2> QED
      BY <1>2, <2>3, <2>4, NarrowsKeeps, FollowsFurther
<1> QED BY <1>5, <1>6

LEMMA UpdateKeeps ==
    ASSUME NEW d, Good(d), NEW next \in 1..(Horizon + 1), d.rev < MaxRevision
    PROVE  LET e == Update(d, next)
           IN  /\ Good(e) /\ \A o \in Occ : Follows(d, e, o)
               /\ e.high = d.high
<1> DEFINE r == d.rev + 1
           c == Suppress(d)
           f == Retire(c, {d.rev})
           row == [id |-> r, retired |-> FALSE]
           a == [f.auth EXCEPT ![r] = row]
           e == [f EXCEPT !.auth = a, !.rev = r, !.state = "active", !.next = next]
<1>1. d \in Tables /\ Narrows(d, c) /\ NoneUnsent(c) /\ c \in Tables
    BY SuppressNarrows DEF Good, Narrows
<1>2. Narrows(c, f)
    BY <1>1, RetireNarrows
<1>3. Narrows(d, f) /\ NoneUnsent(f) /\ f \in Tables /\ f.auth \in Auths
    BY <1>1, <1>2, NarrowsFurther, NoneUnsentStays DEF Narrows, Tables
<1>4. r \in Rev /\ row \in AuthRow /\ row.id = r
  <2>1. r \in Rev
      BY <1>1, Bounds DEF Tables
  <2> QED BY <2>1, Bounds DEF AuthRow
<1>5. e = Update(d, next)
    BY <1>3 DEF Update, Tables
<1> HIDE DEF f, c
<1>6. a \in Auths /\ a[r] = row
    BY <1>3, <1>4 DEF Auths
<1>7. next \in 0..(Horizon + 1) /\ "active" \in ScheduleState
    BY Bounds, Words
<1>8. /\ e \in Tables /\ e.box = f.box /\ e.run = f.run /\ e.high = f.high /\ e.auth = a /\ e.rev = r
  <2> HIDE DEF r, a
  <2> QED BY <1>3, <1>4, <1>6, <1>7 DEF Tables
<1> HIDE DEF e
<1>9. Emptied(d, e)
    BY <1>3, <1>4, <1>6, <1>8 DEF Emptied, NoneUnsent, Narrows, Kept, Dropped
<1> QED
    BY <1>5, <1>9, EmptiedKeeps

(***************************************************************************)
(* Claims, occurrences, and what people and time do to a row.               *)
(***************************************************************************)
LEMMA ClaimNarrows ==
    ASSUME NEW d \in Tables, NEW c \in Claims
    PROVE  LET e == [d EXCEPT !.claim = c]
           IN  /\ Narrows(d, e)
               /\ e.box = d.box /\ e.run = d.run /\ e.high = d.high /\ e.rev = d.rev /\ e.auth = d.auth
               /\ e.state = d.state /\ e.next = d.next /\ e.once = d.once /\ e.claim = c
<1>1. [d EXCEPT !.claim = c] \in Tables
    BY DEF Tables
<1> QED
    BY <1>1 DEF Narrows, Kept, Tables

\* A change of one row alone.
WithRow(d, o, box, run) == [d EXCEPT !.box = [d.box EXCEPT ![o] = box], !.run = [d.run EXCEPT ![o] = run]]

LEMMA OneRow ==
    ASSUME NEW d, Good(d), NEW o \in Occ, NEW box \in BoxRow, NEW run \in RunRow
    PROVE  LET e == WithRow(d, o, box, run)
           IN  /\ e \in Tables /\ e.box[o] = box /\ e.run[o] = run
               /\ \A p \in Occ \ {o} : e.box[p] = d.box[p] /\ e.run[p] = d.run[p] /\ Follows(d, e, p)
               /\ e.high = d.high /\ e.rev = d.rev /\ e.auth = d.auth /\ e.state = d.state
               /\ e.claim = d.claim /\ e.next = d.next /\ e.once = d.once
<1> DEFINE b == [d.box EXCEPT ![o] = box]
           r == [d.run EXCEPT ![o] = run]
           e == [d EXCEPT !.box = b, !.run = r]
<1>1. d \in Tables /\ d.box \in Boxes /\ d.run \in Runs
    BY DEF Good, Tables
<1>2. /\ b \in Boxes /\ b[o] = box /\ \A p \in Occ \ {o} : b[p] = d.box[p]
      /\ r \in Runs /\ r[o] = run /\ \A p \in Occ \ {o} : r[p] = d.run[p]
    BY <1>1 DEF Boxes, Runs
<1> HIDE DEF b, r
<1>3. /\ e \in Tables /\ e.box = b /\ e.run = r /\ e.high = d.high /\ e.rev = d.rev /\ e.auth = d.auth
      /\ e.state = d.state /\ e.claim = d.claim /\ e.next = d.next /\ e.once = d.once
    BY <1>1, <1>2 DEF Tables
<1> HIDE DEF e
<1> QED
    BY <1>2, <1>3 DEF Follows, e, b, r, WithRow

LEMMA OneRowGood ==
    ASSUME NEW d, Good(d), NEW o \in Occ, NEW e \in Tables,
           \A p \in Occ \ {o} : e.box[p] = d.box[p] /\ e.run[p] = d.run[p],
           e.high >= d.high, e.rev = d.rev, e.auth = d.auth, e.state = d.state,
           Agreed(e, o),
           IF e.run[o].status = "none" THEN e.run[o] = NoRun /\ e.box[o].status = "none"
           ELSE o <= e.high /\ e.run[o].rev \in Rev,
           e.run[o].status \in Running => (d.run[o].status \in Running \/ \A p \in Occ : d.run[p].status \notin Running)
    PROVE  Good(e)
<1>1. ASSUME NEW p \in Occ PROVE Agreed(e, p)
    BY DEF Agreed, Good
<1>2. Single(e)
    BY DEF Single, Good
<1>3. Numbered(e)
  <2>1. ASSUME NEW p \in Occ
        PROVE  IF e.run[p].status = "none" THEN e.run[p] = NoRun /\ e.box[p].status = "none"
               ELSE p <= e.high /\ e.run[p].rev \in Rev
    <3>1. d.high \in Nat /\ e.high \in Nat /\ p \in Nat
        BY Bounds DEF Good, Tables
    <3> QED BY <3>1 DEF Good, Numbered
  <2> QED BY <2>1 DEF Numbered, Good
<1> QED
    BY <1>1, <1>2, <1>3 DEF Good

LEMMA TakenKeeps ==
    ASSUME NEW d, Good(d), NEW o \in Occ, d.box[o].status = "pending", NEW s \in Sender
    PROVE  LET e == [d EXCEPT !.box[o] = [@ EXCEPT !.status = "claimed", !.holder = s, !.live = TRUE]]
           IN  /\ Good(e) /\ \A p \in Occ : Follows(d, e, p)
               /\ e.high = d.high
<1> DEFINE box == [d.box[o] EXCEPT !.status = "claimed", !.holder = s, !.live = TRUE]
           e == WithRow(d, o, box, d.run[o])
<1>1. d \in Tables /\ d.box \in Boxes /\ d.run \in Runs /\ d.box[o] \in BoxRow /\ d.run[o] \in RunRow /\ Agreed(d, o)
    BY DEF Good, Tables, Boxes, Runs
<1>2. box \in BoxRow /\ box.status = "claimed"
    BY <1>1, Words DEF BoxRow
<1>3. e = [d EXCEPT !.box[o] = [@ EXCEPT !.status = "claimed", !.holder = s, !.live = TRUE]]
    BY <1>1 DEF WithRow, Tables, Runs
<1> HIDE DEF box
<1>4. /\ e \in Tables /\ e.box[o] = box /\ e.run[o] = d.run[o]
      /\ \A p \in Occ \ {o} : e.box[p] = d.box[p] /\ e.run[p] = d.run[p] /\ Follows(d, e, p)
      /\ e.high = d.high /\ e.rev = d.rev /\ e.auth = d.auth /\ e.state = d.state
    BY <1>1, <1>2, OneRow
<1> HIDE DEF e
<1>5. Agreed(e, o) /\ Follows(d, e, o)
    BY <1>1, <1>2, <1>4 DEF Agreed, Follows, Unsent
<1>6. d.run[o].status = "materialized" /\ o <= e.high /\ d.run[o].rev \in Rev /\ e.high >= d.high
    BY <1>1, <1>4, Bounds DEF Agreed, Unsent, Good, Numbered, Tables
<1>7. Good(e)
    BY <1>4, <1>5, <1>6, OneRowGood
<1> QED
    BY <1>3, <1>4, <1>5, <1>7

LEMMA PurgeKeeps ==
    ASSUME NEW d, Good(d), NEW o \in Occ
    PROVE  LET e == Purge(d, o)
           IN  /\ Good(e) /\ \A p \in Occ \ {o} : Follows(d, e, p)
               /\ e.high = d.high /\ e.run[o].status = "none" /\ e.box[o].status = "none"
<1> DEFINE c == WithRow(d, o, NoBox, NoRun)
           n == [d.notice EXCEPT ![o] = NoNotice]
           e == [c EXCEPT !.notice = n]
<1>1. d \in Tables /\ d.notice \in Notices
    BY DEF Good, Tables
<1>2. NoBox \in BoxRow /\ NoRun \in RunRow /\ NoNotice \in NoticeRow
    BY Words, Bounds DEF NoBox, BoxRow, NoRun, RunRow, NoNotice, NoticeRow
<1>3. n \in Notices
    BY <1>1, <1>2 DEF Notices
<1>4. /\ c \in Tables /\ c.box[o] = NoBox /\ c.run[o] = NoRun
      /\ \A p \in Occ \ {o} : c.box[p] = d.box[p] /\ c.run[p] = d.run[p] /\ Follows(d, c, p)
      /\ c.high = d.high /\ c.rev = d.rev /\ c.auth = d.auth /\ c.state = d.state
    BY <1>2, OneRow
<1>5. e = Purge(d, o)
    BY <1>1 DEF WithRow, Purge, Tables
<1> HIDE DEF c, n
<1>6. /\ e \in Tables /\ e.box = c.box /\ e.run = c.run /\ e.high = c.high /\ e.rev = c.rev /\ e.auth = c.auth
      /\ e.state = c.state
    BY <1>3, <1>4 DEF Tables
<1> HIDE DEF e
<1>7. NoRun.status = "none" /\ NoBox.status = "none" /\ d.high \in Nat
    BY <1>1, Bounds DEF NoRun, NoBox, Tables
<1>8. Agreed(e, o)
    BY <1>4, <1>6, <1>7 DEF Agreed, Unsent
<1>9. Good(e)
    BY <1>4, <1>6, <1>7, <1>8, OneRowGood DEF Running
<1>10. \A p \in Occ \ {o} : Follows(d, e, p)
    BY <1>4, <1>6 DEF Follows
<1> QED
    BY <1>4, <1>5, <1>6, <1>7, <1>9, <1>10

LEMMA ReconciledKeeps ==
    ASSUME NEW d, Good(d), NEW o \in Occ, d.box[o].status = "needs_review", NEW outcome \in {"sent", "failed"}
    PROVE  LET e == Reconciled(d, o, outcome)
           IN  /\ Good(e) /\ \A p \in Occ \ {o} : Follows(d, e, p)
               /\ e.high = d.high /\ e.run[o].status # "none" /\ e.box[o].status = outcome
<1> DEFINE w == IF outcome = "sent" THEN "completed" ELSE "failed"
           box == Put(d.box[o], outcome)
           run == [d.run[o] EXCEPT !.status = w]
           c == WithRow(d, o, box, run)
<1>1. d \in Tables /\ d.box \in Boxes /\ d.run \in Runs /\ d.box[o] \in BoxRow /\ d.run[o] \in RunRow /\ Agreed(d, o)
    BY DEF Good, Tables, Boxes, Runs
<1>2. d.run[o].status = "needs_review"
    BY <1>1 DEF Agreed
<1>3. box \in BoxRow /\ box.status = outcome /\ outcome \in {"sent", "failed"}
    BY <1>1, Words DEF Put, BoxRow
<1>4. run \in RunRow /\ run.status = w /\ run.rev = d.run[o].rev /\ w \in {"completed", "failed"}
    BY <1>1, Words DEF RunRow
<1>5. c = [d EXCEPT !.box[o] = Put(@, outcome),
               !.run[o].status = IF @ # "needs_review" THEN @
                                 ELSE IF outcome = "sent" THEN "completed" ELSE "failed"]
    BY <1>1, <1>2 DEF WithRow, Tables
<1>12. Reconciled(d, o, outcome) = CompleteIfDrained(c)
    BY <1>5 DEF Reconciled
<1> HIDE DEF box, run, w
<1>6. /\ c \in Tables /\ c.box[o] = box /\ c.run[o] = run
      /\ \A p \in Occ \ {o} : c.box[p] = d.box[p] /\ c.run[p] = d.run[p] /\ Follows(d, c, p)
      /\ c.high = d.high /\ c.rev = d.rev /\ c.auth = d.auth /\ c.state = d.state
    BY <1>3, <1>4, OneRow
<1> HIDE DEF c
<1>7. Agreed(c, o)
    BY <1>3, <1>4, <1>6 DEF Agreed, Unsent
<1>8. o <= c.high /\ run.rev \in Rev /\ c.high >= d.high
    BY <1>1, <1>2, <1>4, <1>6, Bounds DEF Good, Numbered, Tables
<1>9. Good(c)
    BY <1>4, <1>6, <1>7, <1>8, OneRowGood DEF Running
<1>10. Narrows(c, CompleteIfDrained(c)) /\ CompleteIfDrained(c).box = c.box /\ CompleteIfDrained(c).run = c.run
    BY <1>6, CompleteNarrows
<1>11. /\ Good(CompleteIfDrained(c)) /\ \A p \in Occ : Follows(c, CompleteIfDrained(c), p)
       /\ CompleteIfDrained(c).high = c.high
    BY <1>9, <1>10, NarrowsKeeps
<1> QED
    BY <1>3, <1>4, <1>6, <1>10, <1>11, <1>12, FollowsFurther

LEMMA LeaseKeeps ==
    ASSUME NEW d, Good(d), NEW e \in Tables,
           \A o \in Occ : e.box[o] = d.box[o] \/ e.box[o] = [d.box[o] EXCEPT !.live = FALSE],
           e.run = d.run, e.high = d.high, e.rev = d.rev, e.auth = d.auth, e.state = d.state
    PROVE  /\ Good(e)
           /\ \A o \in Occ : e.box[o].status = d.box[o].status /\ e.box[o].holder = d.box[o].holder
<1>1. ASSUME NEW o \in Occ
      PROVE  /\ e.box[o].status = d.box[o].status /\ e.box[o].holder = d.box[o].holder
             /\ e.box[o].attempt = d.box[o].attempt
  <2>1. d.box[o] \in BoxRow
      BY DEF Good, Tables, Boxes
  <2> QED BY <2>1 DEF BoxRow
<1>2. ASSUME NEW o \in Occ PROVE Agreed(e, o)
    BY <1>1 DEF Good, Agreed
<1> QED
    BY <1>1, <1>2 DEF Good, Numbered, Single

LEMMA MaterializeKeeps ==
    ASSUME NEW d, Good(d), NEW i, NEW b, b.occ \in Occ
    PROVE  LET e == Materialize(d, i, b, "reminder")
           IN  /\ Good(e) /\ e.high >= d.high /\ \A p \in Occ \ {b.occ} : Follows(d, e, p)
               /\ \/ Follows(d, e, b.occ)
                  \/ /\ b.occ > d.high /\ e.high = b.occ /\ d.run[b.occ].status = "none"
                     /\ e.run[b.occ].status # "none" /\ e.box[b.occ].status \in {"none", "pending"}
<1> DEFINE o == b.occ
           skip == b.late \/ \E p \in Occ : Unresolved(d, p)
           run == [status |-> IF skip THEN "skipped" ELSE "materialized", rev |-> b.rev]
           box == IF skip THEN d.box[o] ELSE [NoBox EXCEPT !.status = "pending"]
           z == ReleaseClaim(d)
           f == WithRow(z, o, box, run)
           n == IF d.once THEN 0 ELSE o + 1
           c == [f EXCEPT !.high = o, !.next = n]
           e == Materialize(d, i, b, "reminder")
<1>1. d \in Tables /\ d.high \in Nat /\ NoClaim \in Claims
    BY Bounds DEF Good, Tables, NoClaim, Claims
<1>2. /\ Narrows(d, z) /\ z.box = d.box /\ z.run = d.run /\ z.high = d.high /\ z.rev = d.rev /\ z.auth = d.auth
      /\ z.state = d.state /\ z.once = d.once
    BY <1>1, ClaimNarrows DEF ReleaseClaim
<1>3. Narrows(d, d) /\ Narrows(d, Expire(d))
    BY <1>1, NarrowsItself, ExpireNarrows
<1>4. \/ Narrows(d, e)
      \/ /\ d.run[o].status = "none" /\ d.rev = b.rev /\ d.state = "active" /\ New(d, b)
         /\ e = CompleteIfDrained([z EXCEPT
               !.run[b.occ] = [status |-> IF skip THEN "skipped" ELSE "materialized", rev |-> b.rev],
               !.box[b.occ] = IF "reminder" = "reminder" /\ ~skip THEN [NoBox EXCEPT !.status = "pending"] ELSE @,
               !.high = b.occ,
               !.next = IF d.once THEN 0 ELSE b.occ + 1])
  <2> HIDE DEF z, skip
  <2> SUFFICES ASSUME ~Narrows(d, e)
               PROVE  /\ d.run[o].status = "none" /\ d.rev = b.rev /\ d.state = "active" /\ New(d, b)
                      /\ e = CompleteIfDrained([z EXCEPT
                           !.run[b.occ] = [status |-> IF skip THEN "skipped" ELSE "materialized", rev |-> b.rev],
                           !.box[b.occ] = IF "reminder" = "reminder" /\ ~skip THEN [NoBox EXCEPT !.status = "pending"] ELSE @,
                           !.high = b.occ,
                           !.next = IF d.once THEN 0 ELSE b.occ + 1])
      OBVIOUS
  <2>1. HoldsClaim(d, i)
      BY <1>3 DEF Materialize
  <2>2. d.run[o].status = "none"
      BY <1>2, <1>3, <2>1 DEF Materialize, z
  <2>3. ~(d.rev # b.rev \/ d.state # "active" \/ d.next = 0 \/ ~New(d, b))
      BY <1>3, <2>1, <2>2 DEF Materialize
  <2>4. b.usable
      BY <1>3, <2>1, <2>2, <2>3 DEF Materialize
  <2> QED
      BY <2>1, <2>2, <2>3, <2>4 DEF Materialize, z, skip
<1> HIDE DEF e
<1>5. CASE Narrows(d, e)
    BY <1>1, <1>5, NarrowsKeeps DEF e
<1>6. CASE /\ d.run[o].status = "none" /\ d.rev = b.rev /\ d.state = "active" /\ New(d, b)
           /\ e = CompleteIfDrained([z EXCEPT
               !.run[b.occ] = [status |-> IF skip THEN "skipped" ELSE "materialized", rev |-> b.rev],
               !.box[b.occ] = IF "reminder" = "reminder" /\ ~skip THEN [NoBox EXCEPT !.status = "pending"] ELSE @,
               !.high = b.occ,
               !.next = IF d.once THEN 0 ELSE b.occ + 1])
  <2> HIDE DEF z
  <2>0. skip \in BOOLEAN /\ (skip \/ \A p \in Occ : d.run[p].status \notin Running)
      BY DEF Unresolved
  <2> HIDE DEF skip
  <2>1. z \in Tables /\ Good(z) /\ d.box[o] \in BoxRow /\ d.box[o].status = "none" /\ d.rev \in Rev
      BY <1>1, <1>2, <1>6, NarrowsKeeps DEF Narrows, Tables, Boxes, Good, Numbered
  <2>2. run \in RunRow /\ run.rev = d.rev /\ run.status = IF skip THEN "skipped" ELSE "materialized"
      BY <1>6, <2>1, Words, Bounds DEF RunRow
  <2>3. box \in BoxRow /\ box.status = IF skip THEN "none" ELSE "pending"
    <3>1. [NoBox EXCEPT !.status = "pending"] \in BoxRow /\ [NoBox EXCEPT !.status = "pending"].status = "pending"
      <4>1. NoBox \in BoxRow
          BY Words, Bounds DEF NoBox, BoxRow
      <4> QED BY <4>1, Words DEF BoxRow
    <3> QED BY <2>1, <3>1
  <2>4. n \in 0..(Horizon + 1) /\ o \in 0..Horizon
      BY Bounds
  <2>5. [z EXCEPT
               !.run[b.occ] = [status |-> IF skip THEN "skipped" ELSE "materialized", rev |-> b.rev],
               !.box[b.occ] = IF "reminder" = "reminder" /\ ~skip THEN [NoBox EXCEPT !.status = "pending"] ELSE @,
               !.high = b.occ,
               !.next = IF d.once THEN 0 ELSE b.occ + 1] = c
      BY <1>2, <2>0, <2>1 DEF WithRow, Tables
  <2> HIDE DEF run, box, n
  <2>6. /\ f \in Tables /\ f.box[o] = box /\ f.run[o] = run
        /\ \A p \in Occ \ {o} : f.box[p] = d.box[p] /\ f.run[p] = d.run[p]
        /\ f.rev = d.rev /\ f.auth = d.auth /\ f.state = d.state
      BY <1>2, <2>1, <2>2, <2>3, OneRow
  <2> HIDE DEF f
  <2>7. /\ c \in Tables /\ c.box = f.box /\ c.run = f.run /\ c.high = o
        /\ c.rev = d.rev /\ c.auth = d.auth /\ c.state = d.state
      BY <2>4, <2>6 DEF Tables
  <2> HIDE DEF c
  <2>8. o > d.high /\ o \in Nat
      BY <1>6, Bounds DEF New
  <2>9. Agreed(c, o)
      BY <1>6, <2>2, <2>3, <2>6, <2>7 DEF Agreed, Unsent
  <2>10. Good(c)
    <3>1. c.run[o].status # "none" /\ c.run[o].rev \in Rev /\ o <= c.high /\ c.high >= d.high
        BY <1>1, <2>1, <2>2, <2>6, <2>7, <2>8
    <3>2. c.run[o].status \in Running => \A p \in Occ : d.run[p].status \notin Running
        BY <2>0, <2>2, <2>6, <2>7 DEF Running
    <3> HIDE DEF o
    <3> QED
        BY <2>6, <2>7, <2>9, <3>1, <3>2, OneRowGood DEF o
  <2>11. \A p \in Occ \ {o} : Follows(d, c, p)
      BY <2>6, <2>7 DEF Follows
  <2>12. Narrows(c, e) /\ e.box = c.box /\ e.run = c.run
      BY <1>6, <2>5, <2>7, CompleteNarrows
  <2>13. Good(e) /\ e.high = c.high /\ \A p \in Occ : Follows(c, e, p)
      BY <2>10, <2>12, NarrowsKeeps
  <2>14. \A p \in Occ \ {o} : Follows(d, e, p)
      BY <2>11, <2>13, FollowsFurther
  <2>15. e.run[o].status # "none" /\ e.box[o].status \in {"none", "pending"}
      BY <2>2, <2>3, <2>6, <2>7, <2>12
  <2> QED
      BY <1>1, <1>6, <2>7, <2>8, <2>13, <2>14, <2>15 DEF e
<1> QED BY <1>4, <1>5, <1>6

(***************************************************************************)
(* The inductive invariant.                                                 *)
(***************************************************************************)
InFlight(s) == sender[s].at \in {"deliver", "refused", "posting"}
Sum(o) == posts[o] + wire[o]

Working(s) ==
    /\ sender[s].at # "idle" => Row(s) \in Occ /\ db.run[Row(s)].status # "none"
    /\ sender[s].posted => sender[s].at = "posting"
    /\ InFlight(s) =>
         /\ \/ db.box[Row(s)].status = "request_started" /\ db.box[Row(s)].holder = s
            \/ db.box[Row(s)].status = "needs_review"
            \/ Row(s) \in waived
         /\ Sum(Row(s)) = IF sender[s].posted THEN 1 ELSE 0
         /\ \A t \in Sender : InFlight(t) /\ Row(t) = Row(s) => t = s

Held(o) == db.box[o].status = "request_started" =>
               /\ db.box[o].holder \in Sender
               /\ InFlight(db.box[o].holder) /\ Row(db.box[o].holder) = o

Known(o) ==
    /\ Sum(o) <= 1
    /\ Sum(o) = 1 => /\ o <= db.high
                     /\ \/ db.box[o].status \in {"request_started", "needs_review", "sent"}
                        \/ o \in waived \/ db.run[o].status = "none"
    /\ made[o] <= 1 /\ (made[o] = 1 => o <= db.high)
    /\ o \in waived => o <= db.high /\ db.box[o].status \in {"sent", "failed", "none"}

Handed(i) == batch[i] # NoBatch => batch[i].occ \in Occ

IInv == /\ TypeOK /\ Good(db)
        /\ \A s \in Sender : Working(s)
        /\ \A o \in Occ : Held(o) /\ Known(o)
        /\ \A i \in Instance : Handed(i)

\* What the senders see of a step.
Onward(o) ==
    /\ db'.run[o].status = "none" <=> db.run[o].status = "none"
    /\ db'.box[o].status = "request_started" =>
          db.box[o].status = "request_started" /\ db'.box[o].holder = db.box[o].holder
    /\ db.box[o].status = "request_started" => db'.box[o].status \in {"request_started", "needs_review"}
    /\ db.box[o].status \in {"needs_review", "sent", "failed", "none"} => db'.box[o].status = db.box[o].status

LEMMA FollowsOnward == ASSUME NEW o, Follows(db, db', o) PROVE Onward(o)
BY DEF Follows, Onward

LEMMA WorkingStays ==
    ASSUME NEW s \in Sender, Working(s), sender'[s] = sender[s],
           sender[s].at # "idle" => Onward(Row(s)) /\ Sum(Row(s))' = Sum(Row(s)),
           waived \subseteq waived',
           \A t \in Sender : InFlight(t)' => InFlight(t) /\ Row(t)' = Row(t)
    PROVE  Working(s)'
<1>1. Row(s)' = Row(s) /\ InFlight(s)' = InFlight(s)
    BY DEF Row, InFlight
<1>2. InFlight(s) => sender[s].at # "idle"
    BY DEF InFlight
<1>3. (sender[s].at # "idle" => Row(s) \in Occ /\ db.run[Row(s)].status # "none")'
    BY <1>1 DEF Working, Onward
<1>4. (sender[s].posted => sender[s].at = "posting")'
    BY DEF Working
<1>5. ASSUME InFlight(s)'
      PROVE  (/\ \/ db.box[Row(s)].status = "request_started" /\ db.box[Row(s)].holder = s
                 \/ db.box[Row(s)].status = "needs_review"
                 \/ Row(s) \in waived
              /\ Sum(Row(s)) = IF sender[s].posted THEN 1 ELSE 0
              /\ \A t \in Sender : InFlight(t) /\ Row(t) = Row(s) => t = s)'
  <2>1. InFlight(s) /\ Onward(Row(s)) /\ Sum(Row(s))' = Sum(Row(s))
      BY <1>1, <1>2, <1>5
  <2>2. \/ db'.box[Row(s)].status = "request_started" /\ db'.box[Row(s)].holder = s
        \/ db'.box[Row(s)].status = "needs_review"
        \/ Row(s) \in waived'
      BY <2>1 DEF Working, Onward
  <2>3. \A t \in Sender : InFlight(t)' /\ Row(t)' = Row(s)' => t = s
      BY <1>1, <2>1 DEF Working
  <2>4. Sum(Row(s))' = IF sender[s].posted THEN 1 ELSE 0
      BY <2>1 DEF Working
  <2> QED
      BY <1>1, <2>1, <2>2, <2>3, <2>4 DEF Sum
<1> QED
    BY <1>3, <1>4, <1>5 DEF Working

LEMMA RowStays ==
    ASSUME NEW o \in Occ, Held(o), Known(o), Onward(o), Sum(o)' = Sum(o), made'[o] = made[o],
           db.high \in Nat, db'.high \in Nat, db'.high >= db.high, o \in waived' <=> o \in waived,
           \A t \in Sender : InFlight(t) /\ Row(t) = o => InFlight(t)' /\ Row(t)' = o
    PROVE  Held(o)' /\ Known(o)'
<1>1. Held(o)'
    BY DEF Held, Onward
<1>2. o \in Nat
    BY Bounds
<1>3. (Sum(o) = 1 => /\ o <= db.high
                     /\ \/ db.box[o].status \in {"request_started", "needs_review", "sent"}
                        \/ o \in waived \/ db.run[o].status = "none")'
    BY <1>2 DEF Known, Onward
<1>4. (o \in waived => o <= db.high /\ db.box[o].status \in {"sent", "failed", "none"})'
    BY <1>2 DEF Known, Onward
<1>5. (/\ Sum(o) <= 1 /\ made[o] <= 1 /\ (made[o] = 1 => o <= db.high))'
    BY <1>2 DEF Known
<1> QED
    BY <1>1, <1>3, <1>4, <1>5 DEF Known

\* The values of everything but the tables.
Others ==
    /\ now \in 0..(2 * Horizon) /\ lapsed \subseteq 1..MaxRevision
    /\ batch \in [Instance -> [occ : 0..Horizon, late : BOOLEAN, rev : 0..MaxRevision, usable : BOOLEAN]]
    /\ sender \in [Sender -> [at : {"idle", "preflight", "prepared", "deliver", "refused", "posting"},
                              occ : 0..Horizon, posted : BOOLEAN]]
    /\ ticket \in [occ : 0..Horizon, by : Sender \cup {Nobody}]
    /\ wire \in [Occ -> Nat] /\ posts \in [Occ -> Nat] /\ made \in [Occ -> Nat]
    /\ waived \subseteq Occ /\ crashes \in 0..CrashLimit

LEMMA TypesApart == TypeOK <=> db \in Tables /\ Others
BY SchedulesAre DEF TypeOK, Others

\* A step of the tables alone.
LEMMA TablesStep ==
    ASSUME IInv, Good(db'), \A o \in Occ : Onward(o), db'.high >= db.high,
           UNCHANGED <<sender, wire, posts, made, waived>>, Others', \A i \in Instance : Handed(i)'
    PROVE  IInv'
<1>1. db.high \in Nat /\ db'.high \in Nat
    BY Bounds DEF IInv, Good, Tables
<1>2. \A t \in Sender : (InFlight(t)' <=> InFlight(t)) /\ Row(t)' = Row(t)
    BY DEF InFlight, Row
<1>3. \A o \in Occ : Sum(o)' = Sum(o)
    BY DEF Sum
<1>4. ASSUME NEW s \in Sender PROVE Working(s)'
  <2>1. Working(s) /\ sender'[s] = sender[s] /\ waived \subseteq waived'
      BY DEF IInv
  <2>2. sender[s].at # "idle" => Onward(Row(s)) /\ Sum(Row(s))' = Sum(Row(s))
      BY <1>2, <1>3, <2>1 DEF Working, Sum
  <2> QED BY <1>2, <2>1, <2>2, WorkingStays
<1>5. ASSUME NEW o \in Occ PROVE Held(o)' /\ Known(o)'
    BY <1>1, <1>2, <1>3, RowStays DEF IInv
<1>6. TypeOK'
    BY SchedulesAre DEF TypeOK, Others, Good
<1> QED
    BY <1>4, <1>5, <1>6 DEF IInv

LEMMA OthersStay == ASSUME Others, UNCHANGED <<now, lapsed, batch, sender, outside, made, waived, crashes>> PROVE Others'
BY DEF Others, outside

LEMMA HandedStays == ASSUME \A i \in Instance : Handed(i), UNCHANGED batch PROVE \A i \in Instance : Handed(i)'
BY DEF Handed

LEMMA Follows2 == ASSUME \A o \in Occ : Follows(db, db', o) PROVE \A o \in Occ : Onward(o)
BY FollowsOnward

LEMMA ExpireDueKeeps == ASSUME IInv, ExpireDue PROVE IInv'
<1>1. db' = Expire(db) /\ UNCHANGED <<now, lapsed, batch, sender, outside, made, waived, crashes>>
    BY DEF ExpireDue, Still
<1>2. Narrows(db, Expire(db))
    BY ExpireNarrows DEF IInv, Good
<1>3. Good(db') /\ (\A o \in Occ : Follows(db, db', o)) /\ db'.high = db.high
    BY <1>1, <1>2, NarrowsKeeps DEF IInv
<1>4. Others' /\ \A i \in Instance : Handed(i)'
    BY <1>1, OthersStay, HandedStays, TypesApart DEF IInv
<1>5. db'.high >= db.high
    BY <1>3, Bounds DEF IInv, Good, Tables
<1> QED
    BY <1>1, <1>3, <1>4, <1>5, Follows2, TablesStep DEF outside

LEMMA OwnerTransitionKeeps == ASSUME IInv, OwnerTransition PROVE IInv'
<1>1. UNCHANGED <<now, lapsed, batch, sender, outside, made, waived, crashes>>
    BY DEF OwnerTransition, Still
<1>2. PICK operation \in {"pause", "resume", "cancel"} :
        /\ MayTransition(db, operation)
        /\ Usable(db, db.rev) => db.rev < MaxRevision
        /\ db' = Transition(db, operation)
    BY DEF OwnerTransition
<1>3. Good(db') /\ (\A o \in Occ : Follows(db, db', o)) /\ db'.high = db.high
    BY <1>2, TransitionKeeps DEF IInv
<1>4. Others' /\ \A i \in Instance : Handed(i)'
    BY <1>1, OthersStay, HandedStays, TypesApart DEF IInv
<1>5. db'.high >= db.high
    BY <1>3, Bounds DEF IInv, Good, Tables
<1> QED
    BY <1>1, <1>3, <1>4, <1>5, Follows2, TablesStep DEF outside

LEMMA OwnerUpdatesKeeps == ASSUME IInv, OwnerUpdates PROVE IInv'
<1>1. UNCHANGED <<now, lapsed, batch, sender, outside, made, waived, crashes>> /\ db.rev < MaxRevision
    BY DEF OwnerUpdates, Still
<1>2. PICK next \in 1..(Horizon + 1) : db' = Update(db, next)
    BY DEF OwnerUpdates
<1>3. Good(db') /\ (\A o \in Occ : Follows(db, db', o)) /\ db'.high = db.high
    BY <1>1, <1>2, UpdateKeeps DEF IInv
<1>4. Others' /\ \A i \in Instance : Handed(i)'
    BY <1>1, OthersStay, HandedStays, TypesApart DEF IInv
<1>5. db'.high >= db.high
    BY <1>3, Bounds DEF IInv, Good, Tables
<1> QED
    BY <1>1, <1>3, <1>4, <1>5, Follows2, TablesStep DEF outside

LEMMA AuthorizationEndsKeeps == ASSUME IInv, AuthorizationEnds PROVE IInv'
<1>1. /\ UNCHANGED <<db, now, batch, sender, outside, made, waived, crashes>>
      /\ lapsed' = lapsed \cup {db.auth[db.rev].id}
    BY DEF AuthorizationEnds
<1>2. Good(db') /\ (\A o \in Occ : Follows(db, db', o)) /\ db'.high >= db.high
    BY <1>1, FollowsItself, Bounds DEF IInv, Good, Tables
<1>3. lapsed' \subseteq 1..MaxRevision
    BY <1>1, Bounds, TypesApart DEF IInv, Good, Numbered, Others
<1>4. Others' /\ \A i \in Instance : Handed(i)'
    BY <1>1, <1>3, HandedStays, TypesApart DEF IInv, Others, outside
<1> QED
    BY <1>1, <1>2, <1>4, Follows2, TablesStep DEF outside

LEMMA Leased ==
    ASSUME IInv, db' \in Tables,
           \A o \in Occ : db'.box[o] = db.box[o] \/ db'.box[o] = [db.box[o] EXCEPT !.live = FALSE],
           db'.run = db.run, db'.high = db.high, db'.rev = db.rev, db'.auth = db.auth, db'.state = db.state
    PROVE  Good(db') /\ (\A o \in Occ : Onward(o)) /\ db'.high >= db.high
<1>1. /\ Good(db')
      /\ \A o \in Occ : db'.box[o].status = db.box[o].status /\ db'.box[o].holder = db.box[o].holder
    BY LeaseKeeps DEF IInv
<1>2. \A o \in Occ : Onward(o)
    BY <1>1 DEF Onward
<1> QED
    BY <1>1, <1>2, Bounds DEF IInv, Good, Tables

LEMMA NotLive ==
    ASSUME NEW box \in BoxRow
    PROVE  [box EXCEPT !.live = FALSE] \in BoxRow
BY DEF BoxRow

LEMMA ClaimNotLive ==
    ASSUME NEW d \in Tables
    PROVE  LET e == [d EXCEPT !.claim.live = FALSE]
           IN  /\ e \in Tables /\ e.box = d.box /\ e.run = d.run /\ e.high = d.high /\ e.rev = d.rev
               /\ e.auth = d.auth /\ e.state = d.state
<1>1. [d.claim EXCEPT !.live = FALSE] \in Claims
    BY DEF Tables, Claims
<1>2. [d EXCEPT !.claim.live = FALSE] = [d EXCEPT !.claim = [d.claim EXCEPT !.live = FALSE]]
    BY DEF Tables
<1> DEFINE c == [d.claim EXCEPT !.live = FALSE]
<1>3. c \in Claims
    BY <1>1
<1> HIDE DEF c
<1>4. [d EXCEPT !.claim.live = FALSE] = [d EXCEPT !.claim = c]
    BY <1>2 DEF c
<1> QED
    BY <1>3, <1>4, ClaimNarrows DEF Narrows

LEMMA LeaseEndsKeeps == ASSUME IInv, LeaseEnds PROVE IInv'
<1>1. UNCHANGED <<now, lapsed, batch, sender, wire, posts, made, waived, crashes>>
    BY DEF LeaseEnds
<1>2. db \in Tables
    BY DEF IInv, Good
<1>3. Good(db') /\ (\A o \in Occ : Onward(o)) /\ db'.high >= db.high
  <2>1. CASE db' = [db EXCEPT !.claim.live = FALSE]
    <3>1. /\ db' \in Tables /\ db'.box = db.box /\ db'.run = db.run /\ db'.high = db.high /\ db'.rev = db.rev
          /\ db'.auth = db.auth /\ db'.state = db.state
        BY <1>2, <2>1, ClaimNotLive
    <3> QED BY <3>1, Leased
  <2>2. CASE \E o \in Occ : db' = [db EXCEPT !.box[o].live = FALSE]
    <3>1. PICK o \in Occ : db' = [db EXCEPT !.box[o].live = FALSE]
        BY <2>2
    <3> DEFINE box == [db.box[o] EXCEPT !.live = FALSE]
               b == [db.box EXCEPT ![o] = box]
    <3>2. db.box \in Boxes /\ box \in BoxRow
        BY <1>2, NotLive DEF Tables, Boxes
    <3>3. b \in Boxes /\ b[o] = box /\ \A p \in Occ \ {o} : b[p] = db.box[p]
        BY <3>2 DEF Boxes
    <3>4. db' = [db EXCEPT !.box = b]
        BY <1>2, <3>1 DEF Tables
    <3> HIDE DEF b
    <3>5. /\ db' \in Tables /\ db'.box = b /\ db'.run = db.run /\ db'.high = db.high /\ db'.rev = db.rev
          /\ db'.auth = db.auth /\ db'.state = db.state
        BY <1>2, <3>3, <3>4 DEF Tables
    <3>6. \A p \in Occ : db'.box[p] = db.box[p] \/ db'.box[p] = [db.box[p] EXCEPT !.live = FALSE]
        BY <3>3, <3>5
    <3> QED BY <3>5, <3>6, Leased
  <2>3. CASE UNCHANGED db
    <3>1. \A o \in Occ : Follows(db, db', o)
        BY <2>3, FollowsItself
    <3> QED BY <2>3, <3>1, Follows2, Bounds DEF IInv, Good, Tables
  <2> QED BY <2>1, <2>2, <2>3 DEF LeaseEnds
<1>4. ticket' = ticket \/ ticket' = NoTicket
    BY DEF LeaseEnds
<1>5. NoTicket \in [occ : 0..Horizon, by : Sender \cup {Nobody}]
    BY Bounds DEF NoTicket
<1>6. Others' /\ \A i \in Instance : Handed(i)'
    BY <1>1, <1>4, <1>5, HandedStays, TypesApart DEF IInv, Others
<1> QED
    BY <1>1, <1>3, <1>6, TablesStep

LEMMA TickKeeps == ASSUME IInv, Tick PROVE IInv'
<1>1. /\ UNCHANGED <<lapsed, batch, sender, wire, posts, made, waived, crashes>>
      /\ now < 2 * Horizon /\ now' = now + 1 /\ ticket' = NoTicket /\ db' = LeasesEnd
    BY DEF Tick
<1> DEFINE b == [o \in Occ |-> [db.box[o] EXCEPT !.live = FALSE]]
           c == [db EXCEPT !.claim.live = FALSE]
<1>2. db \in Tables
    BY DEF IInv, Good
<1>3. /\ c \in Tables /\ c.box = db.box /\ c.run = db.run /\ c.high = db.high /\ c.rev = db.rev
      /\ c.auth = db.auth /\ c.state = db.state
    BY <1>2, ClaimNotLive
<1>4. b \in Boxes
    BY <1>2, NotLive DEF Tables, Boxes
<1>5. db' = [c EXCEPT !.box = b]
    BY <1>1 DEF LeasesEnd
<1>6. \A o \in Occ : b[o] = [db.box[o] EXCEPT !.live = FALSE]
    OBVIOUS
<1> HIDE DEF b, c
<1>7. /\ db' \in Tables /\ db'.box = b /\ db'.run = db.run /\ db'.high = db.high /\ db'.rev = db.rev
      /\ db'.auth = db.auth /\ db'.state = db.state
    BY <1>3, <1>4, <1>5 DEF Tables
<1>8. Good(db') /\ (\A o \in Occ : Onward(o)) /\ db'.high >= db.high
    BY <1>6, <1>7, Leased
<1>9. now' \in 0..(2 * Horizon) /\ ticket' \in [occ : 0..Horizon, by : Sender \cup {Nobody}]
    BY <1>1, Bounds, TypesApart DEF NoTicket, IInv, Others
<1>10. Others' /\ \A i \in Instance : Handed(i)'
    BY <1>1, <1>9, HandedStays, TypesApart DEF IInv, Others
<1> QED
    BY <1>1, <1>8, <1>10, TablesStep

\* A step that concerns one occurrence, and the senders in S.
LEMMA RowStep ==
    ASSUME IInv, NEW o \in Occ, NEW S \in SUBSET Sender, Good(db'), Others', \A i \in Instance : Handed(i)',
           db'.high >= db.high, waived \subseteq waived',
           \A p \in Occ \ {o} : /\ Onward(p) /\ Sum(p)' = Sum(p) /\ made'[p] = made[p]
                                /\ p \in waived' => p \in waived,
           \A t \in Sender \ S : sender'[t] = sender[t],
           \A t \in S : (InFlight(t) => Row(t) = o) /\ (InFlight(t)' => Row(t)' = o),
           \A t \in Sender : t \in S \/ (sender[t].at # "idle" /\ Row(t) = o) => Working(t)',
           Held(o)', Known(o)'
    PROVE  IInv'
<1>1. db.high \in Nat /\ db'.high \in Nat
    BY Bounds DEF IInv, Good, Tables
<1>2. \A t \in Sender \ S : (InFlight(t)' <=> InFlight(t)) /\ Row(t)' = Row(t)
    BY DEF InFlight, Row
<1>3. ASSUME NEW s \in Sender PROVE Working(s)'
  <2>1. CASE s \in S \/ (sender[s].at # "idle" /\ Row(s) = o)
      BY <2>1
  <2>2. CASE s \notin S /\ sender[s].at = "idle"
    <3>1. sender'[s] = sender[s] /\ ~InFlight(s)'
        BY <2>2 DEF InFlight
    <3> QED BY <2>2, <3>1 DEF IInv, Working
  <2>3. CASE s \notin S /\ sender[s].at # "idle" /\ Row(s) # o
    <3>1. Working(s) /\ sender'[s] = sender[s] /\ Row(s) \in Occ \ {o}
        BY <2>3 DEF IInv, Working
    <3>2. Onward(Row(s)) /\ Sum(Row(s))' = Sum(Row(s))
      <4>1. Row(s)' = Row(s) /\ Onward(Row(s))
          BY <1>2, <2>3, <3>1
      <4> QED BY <3>1, <4>1 DEF Sum
    <3>3. Row(s)' = Row(s) /\ InFlight(s)' = InFlight(s)
        BY <3>1 DEF Row, InFlight
    <3>4. \A t \in Sender : InFlight(t)' /\ Row(t)' = Row(s) => InFlight(t) /\ Row(t) = Row(s)
        BY <1>2, <3>1
    <3>5. (sender[s].at # "idle" => Row(s) \in Occ /\ db.run[Row(s)].status # "none")'
        BY <3>1, <3>2, <3>3 DEF Working, Onward
    <3>6. (sender[s].posted => sender[s].at = "posting")'
        BY <3>1 DEF Working
    <3>7. ASSUME InFlight(s)'
          PROVE  (/\ \/ db.box[Row(s)].status = "request_started" /\ db.box[Row(s)].holder = s
                     \/ db.box[Row(s)].status = "needs_review"
                     \/ Row(s) \in waived
                  /\ Sum(Row(s)) = IF sender[s].posted THEN 1 ELSE 0
                  /\ \A t \in Sender : InFlight(t) /\ Row(t) = Row(s) => t = s)'
      <4>1. \/ db'.box[Row(s)].status = "request_started" /\ db'.box[Row(s)].holder = s
            \/ db'.box[Row(s)].status = "needs_review"
            \/ Row(s) \in waived'
          BY <3>1, <3>2, <3>3, <3>7 DEF Working, Onward
      <4>2. \A t \in Sender : InFlight(t)' /\ Row(t)' = Row(s)' => t = s
          BY <3>1, <3>3, <3>4, <3>7 DEF Working
      <4>3. Sum(Row(s))' = IF sender[s].posted THEN 1 ELSE 0
          BY <3>1, <3>2, <3>3, <3>7 DEF Working
      <4> QED BY <3>1, <3>3, <4>1, <4>2, <4>3 DEF Sum
    <3> QED BY <3>5, <3>6, <3>7 DEF Working
  <2> QED BY <2>1, <2>2, <2>3
<1>4. ASSUME NEW p \in Occ PROVE Held(p)' /\ Known(p)'
  <2>1. CASE p = o
      BY <2>1
  <2>2. CASE p # o
    <3>1. \A t \in Sender : InFlight(t) /\ Row(t) = p => InFlight(t)' /\ Row(t)' = p
        BY <1>2, <2>2
    <3>2. p \in waived' <=> p \in waived
        BY <2>2
    <3>3. Held(p) /\ Known(p) /\ Onward(p) /\ Sum(p)' = Sum(p) /\ made'[p] = made[p]
        BY <2>2 DEF IInv
    <3> QED BY <1>1, <3>1, <3>2, <3>3, RowStays
  <2> QED BY <2>1, <2>2
<1>5. TypeOK'
    BY SchedulesAre DEF TypeOK, Others, Good
<1> QED
    BY <1>3, <1>4, <1>5 DEF IInv

LEMMA LatestIsDue ==
    ASSUME NEW d \in Tables, now \in 0..(2 * Horizon), d.next # 0, Due(d.next)
    PROVE  Latest(d) \in Occ
<1>1. d.next \in Nat /\ d.next > 0 /\ 2 * d.next <= 2 * Horizon + 1 /\ now \in Nat
    BY Bounds DEF Tables, Due
<1>2. d.next <= Horizon
    BY <1>1, Bounds
<1>3. CASE d.once
    BY <1>1, <1>2, <1>3, Bounds DEF Latest
<1>4. CASE ~d.once
  <2> DEFINE k == (now + 1) \div 2
  <2>1. k \in Nat /\ 2 * k <= now + 1 /\ now + 1 < 2 * k + 2
      BY <1>1
  <2>2. k <= Horizon /\ d.next <= k
      BY <1>1, <2>1, Bounds DEF Due
  <2>3. Due(k)
      BY <1>1, <2>1 DEF Due
  <2>4. \A p \in Occ : Due(p) => p <= k
    <3> TAKE p \in Occ
    <3>1. p \in Nat
        BY Bounds
    <3> QED BY <1>1, <2>1, <3>1 DEF Due
  <2> HIDE DEF k
  <2>5. \E o \in d.next..Horizon : Due(o) /\ \A p \in Occ : Due(p) => p <= o
      BY <1>1, <2>1, <2>2, <2>3, <2>4, Bounds
  <2>6. Latest(d) \in d.next..Horizon
      BY <1>4, <2>5 DEF Latest
  <2> QED BY <1>1, <2>6, Bounds
<1> QED BY <1>3, <1>4 DEF Tables

LEMMA ClaimDueKeeps == ASSUME IInv, NEW i \in Instance, ClaimDue(i) PROVE IInv'
<1>1. /\ UNCHANGED <<now, lapsed, sender, outside, made, waived, crashes>>
      /\ MayClaim(db) /\ db' = Claim(db, i) /\ batch' = [batch EXCEPT ![i] = Claimed(db)]
    BY DEF ClaimDue
<1>2. db \in Tables /\ [owner |-> i, live |-> TRUE] \in Claims /\ Others
    BY TypesApart DEF IInv, Good, Claims
<1>3. Narrows(db, db')
    BY <1>1, <1>2, ClaimNarrows DEF Claim
<1>4. Good(db') /\ (\A o \in Occ : Follows(db, db', o)) /\ db'.high = db.high
    BY <1>1, <1>3, NarrowsKeeps DEF IInv
<1>5. Latest(db) \in Occ
    BY <1>1, <1>2, LatestIsDue DEF MayClaim, Others
<1>6. Claimed(db) \in [occ : 0..Horizon, late : BOOLEAN, rev : 0..MaxRevision, usable : BOOLEAN]
    BY <1>2, <1>5, Bounds DEF Claimed, Late, Usable, Tables
<1>7. Claimed(db).occ \in Occ
    BY <1>5 DEF Claimed
<1> HIDE DEF Claimed
<1>8. Others'
    BY <1>1, <1>2, <1>6 DEF Others, outside
<1>9. \A j \in Instance : Handed(j)'
    BY <1>1, <1>2, <1>7 DEF Others, Handed, IInv
<1>10. db'.high >= db.high
    BY <1>4, Bounds DEF IInv, Good, Tables
<1> QED
    BY <1>1, <1>4, <1>8, <1>9, <1>10, Follows2, TablesStep DEF outside

\* No sender does a thing.
LEMMA RowAlone ==
    ASSUME IInv, NEW o \in Occ, Good(db'), Others', \A i \in Instance : Handed(i)',
           db'.high >= db.high, waived \subseteq waived', UNCHANGED sender,
           \A p \in Occ \ {o} : /\ Onward(p) /\ Sum(p)' = Sum(p) /\ made'[p] = made[p]
                                /\ p \in waived' => p \in waived,
           \A t \in Sender : sender[t].at # "idle" /\ Row(t) = o => Working(t)',
           Held(o)', Known(o)'
    PROVE  IInv'
<1> DEFINE S == {}
<1>1. S \in SUBSET Sender
    OBVIOUS
<1>2. \A t \in Sender \ S : sender'[t] = sender[t]
    OBVIOUS
<1>3. \A t \in S : (InFlight(t) => Row(t) = o) /\ (InFlight(t)' => Row(t)' = o)
    OBVIOUS
<1>4. \A t \in Sender : t \in S \/ (sender[t].at # "idle" /\ Row(t) = o) => Working(t)'
    OBVIOUS
<1> HIDE DEF S
<1> QED
    BY <1>1, <1>2, <1>3, <1>4, RowStep

LEMMA SenderStep ==
    ASSUME IInv, NEW s \in Sender, NEW o \in Occ, Good(db'), Others', \A i \in Instance : Handed(i)',
           db'.high >= db.high, UNCHANGED waived,
           \A t \in Sender \ {s} : sender'[t] = sender[t],
           InFlight(s) => Row(s) = o, InFlight(s)' => Row(s)' = o,
           \A p \in Occ \ {o} : Onward(p) /\ Sum(p)' = Sum(p) /\ made'[p] = made[p],
           \A t \in Sender : t = s \/ (sender[t].at # "idle" /\ Row(t) = o) => Working(t)',
           Held(o)', Known(o)'
    PROVE  IInv'
<1> DEFINE S == {s}
<1>1. S \in SUBSET Sender
    OBVIOUS
<1>2. \A t \in Sender \ S : sender'[t] = sender[t]
    OBVIOUS
<1>3. \A t \in S : (InFlight(t) => Row(t) = o) /\ (InFlight(t)' => Row(t)' = o)
    OBVIOUS
<1>4. \A t \in Sender : t \in S \/ (sender[t].at # "idle" /\ Row(t) = o) => Working(t)'
    OBVIOUS
<1>5. \A p \in Occ \ {o} : /\ Onward(p) /\ Sum(p)' = Sum(p) /\ made'[p] = made[p]
                           /\ p \in waived' => p \in waived
    OBVIOUS
<1> HIDE DEF S
<1> QED
    BY <1>1, <1>2, <1>3, <1>4, <1>5, RowStep

\* Nobody works on an occurrence that has no run.
LEMMA NobodyOn ==
    ASSUME IInv, NEW o \in Occ, db.run[o].status = "none"
    PROVE  \A t \in Sender : ~(sender[t].at # "idle" /\ Row(t) = o)
BY DEF IInv, Working

LEMMA MaterializeDueKeeps == ASSUME IInv, NEW i \in Instance, MaterializeDue(i) PROVE IInv'
<1>0. PICK o \in Occ : o = batch[i].occ
    BY DEF MaterializeDue, IInv, Handed
<1> DEFINE inc == IF db.run[o] = NoRun /\ db'.run[o] # NoRun THEN 1 ELSE 0
<1>1. /\ UNCHANGED <<now, lapsed, sender, outside, waived, crashes>>
      /\ batch[i] # NoBatch /\ batch' = [batch EXCEPT ![i] = NoBatch]
      /\ db' = Materialize(db, i, batch[i], "reminder")
      /\ made' = [made EXCEPT ![o] = @ + inc]
    BY <1>0 DEF MaterializeDue
<1>2. db \in Tables /\ Others /\ o \in Occ /\ Good(db) /\ Held(o) /\ Known(o)
    BY TypesApart DEF IInv, Good
<1>3. /\ Good(db') /\ db'.high >= db.high /\ \A p \in Occ \ {o} : Follows(db, db', p)
      /\ \/ Follows(db, db', o)
         \/ /\ o > db.high /\ db'.high = o /\ db.run[o].status = "none"
            /\ db'.run[o].status # "none" /\ db'.box[o].status \in {"none", "pending"}
    BY <1>0, <1>1, <1>2, MaterializeKeeps
<1>4. NoBatch \in [occ : 0..Horizon, late : BOOLEAN, rev : 0..MaxRevision, usable : BOOLEAN]
    BY Bounds DEF NoBatch
<1>5. inc \in 0..1
    OBVIOUS
<1> HIDE DEF inc
<1>6. /\ made' \in [Occ -> Nat] /\ made'[o] = made[o] + inc /\ made[o] \in Nat
      /\ \A p \in Occ \ {o} : made'[p] = made[p]
    BY <1>1, <1>2, <1>5 DEF Others
<1>7. Others'
    BY <1>1, <1>2, <1>4, <1>6 DEF Others, outside
<1>8. \A j \in Instance : Handed(j)'
    BY <1>1, <1>2, <1>4 DEF Others, Handed, IInv
<1>9. \A p \in Occ : Sum(p)' = Sum(p)
    BY <1>1 DEF Sum, outside
<1>10. \A p \in Occ \ {o} : Onward(p)
    BY <1>3, FollowsOnward
<1>11. waived' = waived /\ sender' = sender
    BY <1>1
<1>12. db.high \in Nat /\ db'.high \in Nat /\ o \in Nat
    BY <1>2, <1>3, Bounds DEF Tables, Good
<1>13. CASE Follows(db, db', o)
  <2>1. inc = 0
    <3>1. db.run[o] = NoRun => db'.run[o] = NoRun
        BY <1>2, <1>3, <1>13 DEF NoRun, Follows, Good, Numbered
    <3> QED BY <3>1 DEF inc
  <2>2. \A p \in Occ : Onward(p) /\ Sum(p)' = Sum(p) /\ made'[p] = made[p]
      BY <1>6, <1>9, <1>10, <1>13, <2>1, FollowsOnward
  <2>3. \A t \in Sender : (InFlight(t)' <=> InFlight(t)) /\ Row(t)' = Row(t)
      BY <1>11 DEF InFlight, Row
  <2>4. Held(o)' /\ Known(o)'
      BY <1>2, <1>3, <1>11, <1>12, <2>2, <2>3, RowStays
  <2>5. ASSUME NEW t \in Sender PROVE Working(t)'
    <3>1. Working(t) /\ sender'[t] = sender[t] /\ waived \subseteq waived'
        BY <1>11 DEF IInv
    <3>2. sender[t].at # "idle" => Onward(Row(t)) /\ Sum(Row(t))' = Sum(Row(t))
      <4>1. sender[t].at # "idle" => Row(t) \in Occ /\ Row(t)' = Row(t)
          BY <2>3, <3>1 DEF Working
      <4> QED BY <2>2, <4>1 DEF Sum
    <3> QED BY <2>3, <3>1, <3>2, WorkingStays
  <2> QED
      BY <1>2, <1>3, <1>7, <1>8, <1>11, <2>2, <2>4, <2>5, RowAlone
<1>14. CASE /\ o > db.high /\ db'.high = o /\ db.run[o].status = "none"
            /\ db'.run[o].status # "none" /\ db'.box[o].status \in {"none", "pending"}
  <2>1. \A t \in Sender : ~(sender[t].at # "idle" /\ Row(t) = o)
      BY <1>2, <1>14, NobodyOn
  <2>2. Held(o)'
      BY <1>14 DEF Held
  <2>3. Sum(o) # 1 /\ made[o] = 0 /\ o \notin waived
      BY <1>2, <1>6, <1>12, <1>14 DEF Known
  <2>4. Known(o)'
      BY <1>2, <1>5, <1>6, <1>9, <1>11, <1>12, <1>14, <2>3 DEF Known
  <2>5. \A t \in Sender : sender[t].at # "idle" /\ Row(t) = o => Working(t)'
      BY <2>1
  <2> QED
      BY <1>2, <1>3, <1>6, <1>7, <1>8, <1>9, <1>10, <1>11, <2>2, <2>4, <2>5, RowAlone
<1> QED BY <1>3, <1>13, <1>14

LEMMA PurgeRunKeeps == ASSUME IInv, NEW o \in Occ, PurgeRun(o) PROVE IInv'
<1>1. /\ UNCHANGED <<now, lapsed, batch, sender, outside, made, waived, crashes>>
      /\ db' = Purge(db, o) /\ (\A s \in Sender : Row(s) # o) /\ MayPurge(db, o)
    BY DEF PurgeRun, Still
<1>2. db \in Tables /\ Others /\ Good(db) /\ Held(o) /\ Known(o)
    BY TypesApart DEF IInv, Good
<1>3. /\ Good(db') /\ \A p \in Occ \ {o} : Follows(db, db', p)
      /\ db'.high = db.high /\ db'.run[o].status = "none" /\ db'.box[o].status = "none"
    BY <1>1, <1>2, PurgeKeeps
<1>4. Others' /\ (\A i \in Instance : Handed(i)')
    BY <1>1, <1>2, OthersStay, HandedStays DEF IInv
<1>5. \A p \in Occ : Sum(p)' = Sum(p) /\ made'[p] = made[p]
    BY <1>1 DEF Sum, outside
<1>6. \A p \in Occ \ {o} : Onward(p)
    BY <1>3, FollowsOnward
<1>7. Held(o)'
    BY <1>3 DEF Held
<1>8. o <= db.high
  <2>1. db.run[o].status # "none"
      BY <1>1 DEF MayPurge
  <2> QED BY <1>2, <2>1 DEF Good, Numbered
<1>9. Known(o)'
    BY <1>1, <1>2, <1>3, <1>5, <1>8 DEF Known
<1>10. \A t \in Sender : sender[t].at # "idle" /\ Row(t) = o => Working(t)'
    BY <1>1
<1>11. db'.high >= db.high
    BY <1>2, <1>3, Bounds DEF Tables
<1> QED
    BY <1>1, <1>3, <1>4, <1>5, <1>6, <1>7, <1>9, <1>10, <1>11, RowAlone

LEMMA ReconcileKeeps == ASSUME IInv, NEW o \in Occ, Reconcile(o) PROVE IInv'
<1>1. /\ UNCHANGED <<now, lapsed, batch, sender, outside, made, crashes>>
      /\ db.box[o].status = "needs_review" /\ waived' = waived \cup {o}
    BY DEF Reconcile, Still
<1>2. PICK outcome \in {"sent", "failed"} : db' = Reconciled(db, o, outcome)
    BY DEF Reconcile
<1>3. db \in Tables /\ Others /\ Good(db) /\ Held(o) /\ Known(o)
    BY TypesApart DEF IInv, Good
<1>4. /\ Good(db') /\ \A p \in Occ \ {o} : Follows(db, db', p)
      /\ db'.high = db.high /\ db'.run[o].status # "none" /\ db'.box[o].status = outcome
    BY <1>1, <1>2, <1>3, ReconciledKeeps
<1>5. Others' /\ \A i \in Instance : Handed(i)'
    BY <1>1, <1>3, HandedStays DEF IInv, Others, outside
<1>6. \A p \in Occ : Sum(p)' = Sum(p) /\ made'[p] = made[p]
    BY <1>1 DEF Sum, outside
<1>7. \A p \in Occ \ {o} : Onward(p)
    BY <1>4, FollowsOnward
<1>8. Held(o)'
    BY <1>4 DEF Held
<1>9. o <= db.high
  <2>1. db.run[o].status = "needs_review"
      BY <1>1, <1>3 DEF Good, Agreed
  <2> QED BY <1>3, <2>1 DEF Good, Numbered
<1>10. Known(o)'
    BY <1>1, <1>3, <1>4, <1>6, <1>9 DEF Known
<1>11. ASSUME NEW t \in Sender, sender[t].at # "idle", Row(t) = o
       PROVE  Working(t)'
  <2>1. Working(t) /\ Row(t)' = o /\ sender' = sender
      BY <1>1, <1>11 DEF IInv, Row
  <2>2. \A u \in Sender : (InFlight(u)' <=> InFlight(u)) /\ Row(u)' = Row(u)
      BY <1>1 DEF InFlight, Row
  <2>3. (InFlight(t) => \A u \in Sender : InFlight(u) /\ Row(u) = Row(t) => u = t)'
      BY <2>1, <2>2 DEF Working
  <2>4. (InFlight(t) => Sum(Row(t)) = IF sender[t].posted THEN 1 ELSE 0)'
    <3>1. InFlight(t)' => Sum(o)' = IF sender'[t].posted THEN 1 ELSE 0
        BY <1>6, <1>11, <2>1, <2>2 DEF Working
    <3> QED BY <2>1, <3>1 DEF Sum
  <2>5. Row(t)' \in waived'
      BY <1>1, <2>1
  <2> QED
      BY <1>4, <2>1, <2>3, <2>4, <2>5 DEF Working
<1>12. db'.high >= db.high
    BY <1>3, <1>4, Bounds DEF Tables
<1>13. \A t \in Sender : sender[t].at # "idle" /\ Row(t) = o => Working(t)'
    BY <1>11
<1>14. \A p \in Occ \ {o} : p \in waived' => p \in waived
    BY <1>1
<1> QED
    BY <1>1, <1>4, <1>5, <1>6, <1>7, <1>8, <1>10, <1>12, <1>13, <1>14, RowAlone

\* A sender that goes on with its row, and leaves the tables as they are.
LEMMA GoesOn ==
    ASSUME IInv, NEW s \in Sender, NEW row, row \in [at : {"idle", "preflight", "prepared", "deliver", "refused", "posting"},
                                                 occ : 0..Horizon, posted : BOOLEAN],
           sender' = [sender EXCEPT ![s] = row]
    PROVE  /\ sender' \in [Sender -> [at : {"idle", "preflight", "prepared", "deliver", "refused", "posting"},
                                      occ : 0..Horizon, posted : BOOLEAN]]
           /\ sender'[s] = row /\ Row(s)' = row.occ
           /\ InFlight(s)' <=> row.at \in {"deliver", "refused", "posting"}
           /\ \A t \in Sender \ {s} : /\ sender'[t] = sender[t] /\ InFlight(t)' = InFlight(t) /\ Row(t)' = Row(t)
BY DEF IInv, TypeOK, InFlight, Row

LEMMA TablesStill ==
    ASSUME Good(db), UNCHANGED db
    PROVE  Good(db') /\ db'.high >= db.high /\ \A p \in Occ : Onward(p)
BY Bounds DEF Good, Tables, Onward

\* Another sender, of whose row the step says nothing new.
LEMMA OtherWorks ==
    ASSUME IInv, NEW s \in Sender, NEW t \in Sender \ {s}, UNCHANGED waived,
           \A u \in Sender \ {s} : sender'[u] = sender[u] /\ InFlight(u)' = InFlight(u) /\ Row(u)' = Row(u),
           InFlight(s)' => InFlight(s) /\ Row(s)' = Row(s),
           sender[t].at # "idle" => db'.run[Row(t)].status # "none",
           InFlight(t) => Onward(Row(t)) /\ posts'[Row(t)] + wire'[Row(t)] = Sum(Row(t))
    PROVE  Working(t)'
<1>1. Working(t) /\ Row(t)' = Row(t) /\ sender'[t] = sender[t] /\ InFlight(t)' = InFlight(t)
    BY DEF IInv
<1>2. (sender[t].at # "idle" => Row(t) \in Occ /\ db.run[Row(t)].status # "none")'
    BY <1>1 DEF Working
<1>3. (sender[t].posted => sender[t].at = "posting")'
    BY <1>1 DEF Working
<1>4. ASSUME InFlight(t)'
      PROVE  (/\ \/ db.box[Row(t)].status = "request_started" /\ db.box[Row(t)].holder = t
                 \/ db.box[Row(t)].status = "needs_review"
                 \/ Row(t) \in waived
              /\ Sum(Row(t)) = IF sender[t].posted THEN 1 ELSE 0
              /\ \A u \in Sender : InFlight(u) /\ Row(u) = Row(t) => u = t)'
  <2>1. \/ db'.box[Row(t)].status = "request_started" /\ db'.box[Row(t)].holder = t
        \/ db'.box[Row(t)].status = "needs_review"
        \/ Row(t) \in waived'
      BY <1>1, <1>4 DEF Working, Onward
  <2>2. \A u \in Sender : InFlight(u)' /\ Row(u)' = Row(t) => u = t
      BY <1>1, <1>4 DEF Working
  <2>3. posts'[Row(t)] + wire'[Row(t)] = IF sender[t].posted THEN 1 ELSE 0
      BY <1>1, <1>4 DEF Working
  <2> QED BY <1>1, <2>1, <2>2, <2>3 DEF Sum
<1> QED BY <1>2, <1>3, <1>4 DEF Working

\* What the senders alone do: a request is made, or is not, and nothing arrives.
LEMMA SenderMoves ==
    ASSUME IInv, NEW s \in Sender, sender[s].at # "idle", NEW at \in {"prepared", "posting", "refused"},
           sender' = [sender EXCEPT ![s].at = at], ~sender[s].posted,
           at \in {"posting", "refused"} <=> InFlight(s),
           ticket' \in [occ : 0..Horizon, by : Sender \cup {Nobody}],
           UNCHANGED <<db, wire, posts, now, lapsed, batch, made, waived, crashes>>
    PROVE  IInv'
<1> DEFINE row == [sender[s] EXCEPT !.at = at]
<1>1. Others /\ Good(db) /\ Working(s) /\ Row(s) \in Occ
    BY TypesApart DEF IInv, Working
<1>2. PICK q \in Occ : q = Row(s)
    BY <1>1
<1>3. /\ row \in [at : {"idle", "preflight", "prepared", "deliver", "refused", "posting"}, occ : 0..Horizon, posted : BOOLEAN]
      /\ row.at = at /\ row.occ = q /\ row.posted = FALSE /\ sender' = [sender EXCEPT ![s] = row]
    BY <1>1, <1>2 DEF Others, Row
<1> HIDE DEF row
<1>4. /\ sender' \in [Sender -> [at : {"idle", "preflight", "prepared", "deliver", "refused", "posting"},
                                 occ : 0..Horizon, posted : BOOLEAN]]
      /\ sender'[s] = row /\ Row(s)' = q /\ (InFlight(s)' <=> InFlight(s))
      /\ \A t \in Sender \ {s} : /\ sender'[t] = sender[t] /\ InFlight(t)' = InFlight(t) /\ Row(t)' = Row(t)
  <2>0. InFlight(s)' <=> at \in {"deliver", "refused", "posting"}
      BY <1>3, GoesOn
  <2>1. InFlight(s)' <=> InFlight(s)
      BY <2>0
  <2> QED BY <1>3, <2>1, GoesOn
<1>5. Others' /\ \A i \in Instance : Handed(i)'
    BY <1>1, <1>4, HandedStays DEF Others, IInv
<1>6. Good(db') /\ db'.high >= db.high /\ \A p \in Occ : Onward(p)
    BY <1>1, TablesStill
<1>7. \A p \in Occ : Sum(p)' = Sum(p) /\ made'[p] = made[p]
    BY DEF Sum
<1>8. (sender[s].at # "idle" => Row(s) \in Occ /\ db.run[Row(s)].status # "none")'
    BY <1>1, <1>2, <1>4 DEF Working
<1>9. ASSUME InFlight(s)'
      PROVE  (/\ \/ db.box[Row(s)].status = "request_started" /\ db.box[Row(s)].holder = s
                 \/ db.box[Row(s)].status = "needs_review"
                 \/ Row(s) \in waived
              /\ Sum(Row(s)) = IF sender[s].posted THEN 1 ELSE 0
              /\ \A t \in Sender : InFlight(t) /\ Row(t) = Row(s) => t = s)'
  <2>1. InFlight(s) /\ sender'[s].posted = FALSE
      BY <1>3, <1>4, <1>9
  <2>2. \A t \in Sender : InFlight(t)' /\ Row(t)' = q => t = s
      BY <1>1, <1>2, <1>4, <2>1 DEF Working
  <2>3. Sum(q)' = 0
      BY <1>1, <1>2, <1>7, <2>1 DEF Working
  <2>4. \/ db'.box[q].status = "request_started" /\ db'.box[q].holder = s
        \/ db'.box[q].status = "needs_review"
        \/ q \in waived'
      BY <1>1, <1>2, <2>1 DEF Working
  <2> QED BY <1>4, <2>1, <2>2, <2>3, <2>4 DEF Sum
<1>10. Working(s)'
    BY <1>3, <1>4, <1>8, <1>9 DEF Working
<1>11. ASSUME NEW t \in Sender, t # s PROVE Working(t)'
  <2>1. Working(t)
      BY DEF IInv
  <2>2. sender[t].at # "idle" => db'.run[Row(t)].status # "none"
      BY <2>1 DEF Working
  <2>3. InFlight(t) => Onward(Row(t)) /\ posts'[Row(t)] + wire'[Row(t)] = Sum(Row(t))
    <3>1. InFlight(t) => Row(t) \in Occ /\ Row(t)' = Row(t)
        BY <1>4, <1>11, <2>1 DEF Working, InFlight
    <3> QED BY <1>6, <3>1 DEF Sum
  <2> QED BY <1>2, <1>4, <1>11, <2>2, <2>3, OtherWorks
<1>12. Held(q)' /\ Known(q)'
  <2>1. Held(q) /\ Known(q) /\ Onward(q) /\ db.high \in Nat /\ db'.high \in Nat
      BY <1>1, <1>6, Bounds DEF IInv, Good, Tables
  <2>2. \A t \in Sender : InFlight(t) /\ Row(t) = q => InFlight(t)' /\ Row(t)' = q
      BY <1>4
  <2> QED BY <1>6, <1>7, <2>1, <2>2, RowStays
<1> QED
    BY <1>2, <1>4, <1>5, <1>6, <1>7, <1>10, <1>11, <1>12, SenderStep

LEMMA PreparedKeeps == ASSUME IInv, NEW s \in Sender, Prepared(s) PROVE IInv'
<1>1. /\ sender[s].at = "preflight" /\ ticket' = [occ |-> Row(s), by |-> s] /\ sender' = [sender EXCEPT ![s].at = "prepared"]
      /\ UNCHANGED <<db, wire, posts, now, lapsed, batch, made, waived, crashes>>
    BY DEF Prepared, At, Go, Quiet
<1>2. Row(s) \in 0..Horizon /\ ~sender[s].posted /\ ~InFlight(s)
    BY <1>1, Bounds DEF IInv, Working, InFlight
<1>3. ticket' \in [occ : 0..Horizon, by : Sender \cup {Nobody}]
    BY <1>1, <1>2
<1> QED
    BY <1>1, <1>2, <1>3, SenderMoves

LEMMA ArriveKeeps == ASSUME IInv, NEW s \in Sender, Arrive(s) PROVE IInv'
<1>1. PICK at \in {"posting", "refused"} : sender' = [sender EXCEPT ![s].at = at]
    BY DEF Arrive, Go
<1>2. /\ sender[s].at = "deliver" /\ ticket' = NoTicket
      /\ UNCHANGED <<db, wire, posts, now, lapsed, batch, made, waived, crashes>>
    BY DEF Arrive, At, Quiet
<1>3. ~sender[s].posted /\ InFlight(s)
    BY <1>2 DEF IInv, Working, InFlight
<1>4. ticket' \in [occ : 0..Horizon, by : Sender \cup {Nobody}]
    BY <1>2, Bounds DEF NoTicket
<1> QED
    BY <1>1, <1>2, <1>3, <1>4, SenderMoves

LEMMA SlackStoresKeeps == ASSUME IInv, NEW s \in Sender, SlackStores(s) PROVE IInv'
<1> DEFINE row == [sender[s] EXCEPT !.posted = TRUE]
<1>1. /\ sender[s].at = "posting" /\ ~sender[s].posted /\ sender' = [sender EXCEPT ![s].posted = TRUE]
      /\ posts' = [posts EXCEPT ![Row(s)] = @ + 1]
      /\ UNCHANGED <<db, ticket, wire, now, lapsed, batch, made, waived, crashes>>
    BY DEF SlackStores, At, Quiet
<1>2. Others /\ Good(db) /\ Working(s) /\ Row(s) \in Occ /\ InFlight(s)
    BY <1>1, TypesApart DEF IInv, Working, InFlight
<1>3. PICK q \in Occ : q = Row(s)
    BY <1>2
<1>4. /\ row \in [at : {"idle", "preflight", "prepared", "deliver", "refused", "posting"}, occ : 0..Horizon, posted : BOOLEAN]
      /\ row.at = "posting" /\ row.occ = q /\ row.posted = TRUE /\ sender' = [sender EXCEPT ![s] = row]
    BY <1>1, <1>2, <1>3 DEF Others, Row
<1> HIDE DEF row
<1>5. /\ sender' \in [Sender -> [at : {"idle", "preflight", "prepared", "deliver", "refused", "posting"},
                                 occ : 0..Horizon, posted : BOOLEAN]]
      /\ sender'[s] = row /\ Row(s)' = q /\ InFlight(s)'
      /\ \A t \in Sender \ {s} : /\ sender'[t] = sender[t] /\ InFlight(t)' = InFlight(t) /\ Row(t)' = Row(t)
  <2>1. InFlight(s)'
      BY <1>4, GoesOn
  <2> QED BY <1>4, <2>1, GoesOn
<1>6. /\ posts' \in [Occ -> Nat] /\ wire' = wire /\ posts'[q] = posts[q] + 1 /\ posts[q] \in Nat /\ wire[q] \in Nat
      /\ \A p \in Occ \ {q} : posts'[p] = posts[p]
    BY <1>1, <1>2, <1>3 DEF Others
<1>7. Others' /\ \A i \in Instance : Handed(i)'
    BY <1>1, <1>2, <1>5, <1>6, HandedStays DEF Others, IInv
<1>8. Good(db') /\ db'.high >= db.high /\ \A p \in Occ : Onward(p)
    BY <1>1, <1>2, TablesStill
<1>9. \A p \in Occ \ {q} : Sum(p)' = Sum(p) /\ made'[p] = made[p]
    BY <1>1, <1>6 DEF Sum
<1>10. Sum(q) = 0 /\ Sum(q)' = 1
    BY <1>1, <1>2, <1>3, <1>6 DEF Sum, Working
<1>11. \/ db.box[q].status = "request_started" /\ db.box[q].holder = s
       \/ db.box[q].status = "needs_review"
       \/ q \in waived
    BY <1>2, <1>3 DEF Working
<1>12. Working(s)'
  <2>1. \A t \in Sender : InFlight(t)' /\ Row(t)' = q => t = s
      BY <1>2, <1>3, <1>5 DEF Working
  <2>2. db.run[q].status # "none"
      BY <1>1, <1>2, <1>3 DEF Working
  <2>3. posts'[q] + wire'[q] = 1
      BY <1>10 DEF Sum
  <2>4. sender'[s].at = "posting" /\ sender'[s].posted = TRUE
      BY <1>4, <1>5
  <2>5. Sum(Row(s))' = 1
      BY <1>5, <2>3 DEF Sum
  <2> QED BY <1>1, <1>5, <1>11, <2>1, <2>2, <2>4, <2>5 DEF Working
<1>13. ASSUME NEW t \in Sender, t # s PROVE Working(t)'
  <2>1. Working(t)
      BY DEF IInv
  <2>2. sender[t].at # "idle" => db'.run[Row(t)].status # "none"
      BY <1>1, <2>1 DEF Working
  <2>3. InFlight(t) => Onward(Row(t)) /\ posts'[Row(t)] + wire'[Row(t)] = Sum(Row(t))
    <3>1. InFlight(t) => Row(t) \in Occ \ {q} /\ Row(t)' = Row(t)
        BY <1>2, <1>3, <1>5, <1>13, <2>1 DEF Working, InFlight
    <3> QED BY <1>6, <1>8, <3>1 DEF Sum
  <2> QED BY <1>1, <1>2, <1>3, <1>5, <1>13, <2>2, <2>3, OtherWorks
<1>14. Held(q)'
  <2>1. Held(q)
      BY DEF IInv
  <2> QED BY <1>1, <1>3, <1>5, <2>1 DEF Held
<1>15. Known(q)'
  <2>1. q <= db.high
      BY <1>1, <1>2, <1>3 DEF Working, Good, Numbered
  <2>2. Known(q)
      BY DEF IInv
  <2>3. Sum(q)' <= 1
      BY <1>10
  <2> QED BY <1>1, <1>11, <2>1, <2>2, <2>3 DEF Known
<1> QED
    BY <1>1, <1>3, <1>5, <1>7, <1>8, <1>9, <1>12, <1>13, <1>14, <1>15, SenderStep

LEMMA SlackStoresLateKeeps == ASSUME IInv, NEW o \in Occ, SlackStoresLate(o) PROVE IInv'
<1>1. /\ wire[o] > 0 /\ wire' = [wire EXCEPT ![o] = @ - 1] /\ posts' = [posts EXCEPT ![o] = @ + 1]
      /\ UNCHANGED <<db, ticket, sender, now, lapsed, batch, made, waived, crashes>>
    BY DEF SlackStoresLate, Quiet
<1>2. Others /\ Good(db)
    BY TypesApart DEF IInv
<1>3. \A p \in Occ : posts'[p] + wire'[p] = posts[p] + wire[p]
  <2> TAKE p \in Occ
  <2>1. posts[p] \in Nat /\ wire[p] \in Nat
      BY <1>2 DEF Others
  <2> QED BY <1>1, <1>2, <2>1 DEF Others
<1>4. wire' \in [Occ -> Nat] /\ posts' \in [Occ -> Nat]
    BY <1>1, <1>2 DEF Others
<1>5. Others' /\ \A i \in Instance : Handed(i)'
    BY <1>1, <1>2, <1>4, HandedStays DEF Others, IInv
<1>6. Good(db') /\ db'.high >= db.high /\ \A p \in Occ : Onward(p)
    BY <1>1, <1>2, TablesStill
<1>7. \A t \in Sender : (InFlight(t)' <=> InFlight(t)) /\ Row(t)' = Row(t)
    BY <1>1 DEF InFlight, Row
<1>8. ASSUME NEW t \in Sender PROVE Working(t)'
  <2>1. Working(t) /\ sender'[t] = sender[t] /\ waived \subseteq waived'
      BY <1>1 DEF IInv
  <2>2. sender[t].at # "idle" => Onward(Row(t)) /\ Sum(Row(t))' = Sum(Row(t))
    <3>1. sender[t].at # "idle" => Row(t) \in Occ /\ Row(t)' = Row(t)
        BY <1>7, <2>1 DEF Working
    <3> QED BY <1>3, <1>6, <3>1 DEF Sum
  <2> QED BY <1>7, <2>1, <2>2, WorkingStays
<1>9. Held(o)' /\ Known(o)'
  <2>1. Held(o) /\ Known(o) /\ Onward(o) /\ db.high \in Nat /\ db'.high \in Nat
      BY <1>2, <1>6, Bounds DEF IInv, Good, Tables
  <2> QED BY <1>1, <1>3, <1>6, <1>7, <2>1, RowStays DEF Sum
<1>10. \A p \in Occ \ {o} : Sum(p)' = Sum(p)
    BY <1>3 DEF Sum
<1> QED
    BY <1>1, <1>5, <1>6, <1>8, <1>9, <1>10, RowAlone

LEMMA DoneIs ==
    ASSUME IInv, NEW s \in Sender, Done(s)
    PROVE  /\ sender' \in [Sender -> [at : {"idle", "preflight", "prepared", "deliver", "refused", "posting"},
                                      occ : 0..Horizon, posted : BOOLEAN]]
           /\ ~InFlight(s)' /\ Working(s)'
           /\ \A t \in Sender \ {s} : /\ sender'[t] = sender[t] /\ InFlight(t)' = InFlight(t) /\ Row(t)' = Row(t)
<1>1. /\ NoSend \in [at : {"idle", "preflight", "prepared", "deliver", "refused", "posting"}, occ : 0..Horizon, posted : BOOLEAN]
      /\ NoSend.at = "idle" /\ NoSend.posted = FALSE
    BY Bounds DEF NoSend
<1>2. /\ sender' \in [Sender -> [at : {"idle", "preflight", "prepared", "deliver", "refused", "posting"},
                                      occ : 0..Horizon, posted : BOOLEAN]]
      /\ sender'[s] = NoSend
      /\ InFlight(s)' <=> NoSend.at \in {"deliver", "refused", "posting"}
      /\ \A t \in Sender \ {s} : /\ sender'[t] = sender[t] /\ InFlight(t)' = InFlight(t) /\ Row(t)' = Row(t)
    BY <1>1, GoesOn DEF Done
<1>3. ~InFlight(s)'
    BY <1>1, <1>2
<1>4. Working(s)'
    BY <1>1, <1>2, <1>3 DEF Working
<1> QED BY <1>2, <1>3, <1>4

\* A sender that gives its row up, of which nobody has begun a request.
LEMMA GivenUp ==
    ASSUME IInv, NEW s \in Sender, Done(s), NEW q \in Occ, q = Row(s), ~InFlight(s),
           Good(db'), db'.high = db.high, \A p \in Occ \ {q} : Follows(db, db', p),
           \/ Follows(db, db', q)
           \/ /\ db.box[q].status \in Unsent /\ db'.run[q].status # "none"
              /\ db'.box[q].status \in {"pending", "sent", "failed", "cancelled", "needs_review"},
           UNCHANGED <<ticket, wire, posts, now, lapsed, batch, made, waived, crashes>>
    PROVE  IInv'
<1>1. Others /\ Good(db) /\ db.high \in Nat /\ Held(q) /\ Known(q)
    BY Bounds, TypesApart DEF IInv, Good, Tables
<1>2. /\ sender' \in [Sender -> [at : {"idle", "preflight", "prepared", "deliver", "refused", "posting"},
                                      occ : 0..Horizon, posted : BOOLEAN]]
      /\ ~InFlight(s)' /\ Working(s)'
      /\ \A t \in Sender \ {s} : /\ sender'[t] = sender[t] /\ InFlight(t)' = InFlight(t) /\ Row(t)' = Row(t)
    BY DoneIs
<1>3. Others' /\ \A i \in Instance : Handed(i)'
    BY <1>1, <1>2, HandedStays DEF Others, IInv
<1>4. db'.high >= db.high /\ \A p \in Occ \ {q} : Onward(p)
    BY <1>1, FollowsOnward
<1>5. \A p \in Occ : Sum(p)' = Sum(p) /\ made'[p] = made[p]
    BY DEF Sum
<1>6. CASE Follows(db, db', q)
  <2>1. \A p \in Occ : Onward(p)
      BY <1>4, <1>6, FollowsOnward
  <2>2. ASSUME NEW t \in Sender, t # s PROVE Working(t)'
    <3>1. Working(t)
        BY DEF IInv
    <3>2. sender[t].at # "idle" => db'.run[Row(t)].status # "none"
        BY <2>1, <3>1 DEF Working, Onward
    <3>3. InFlight(t) => Onward(Row(t)) /\ posts'[Row(t)] + wire'[Row(t)] = Sum(Row(t))
      <4>1. InFlight(t) => Row(t) \in Occ /\ Row(t)' = Row(t)
          BY <1>2, <2>2, <3>1 DEF Working, InFlight
      <4> QED BY <2>1, <4>1 DEF Sum
    <3> QED BY <1>2, <2>2, <3>2, <3>3, OtherWorks
  <2>3. Held(q)' /\ Known(q)'
    <3>1. \A t \in Sender : InFlight(t) /\ Row(t) = q => InFlight(t)' /\ Row(t)' = q
        BY <1>2
    <3> QED BY <1>1, <1>4, <1>5, <2>1, <3>1, RowStays
  <2> QED BY <1>2, <1>3, <1>4, <1>5, <2>2, <2>3, SenderStep
<1>7. CASE /\ db.box[q].status \in Unsent /\ db'.run[q].status # "none"
           /\ db'.box[q].status \in {"pending", "sent", "failed", "cancelled", "needs_review"}
  <2>1. db.run[q].status # "none"
      BY <1>1, <1>7 DEF Good, Numbered, Unsent
  <2>2. Sum(q) # 1 /\ q \notin waived
      BY <1>1, <1>7, <2>1 DEF Known, Unsent
  <2>3. ASSUME NEW t \in Sender, t # s PROVE Working(t)'
    <3>1. Working(t)
        BY DEF IInv
    <3>2. sender[t].at # "idle" => db'.run[Row(t)].status # "none"
        BY <1>4, <1>7, <3>1 DEF Working, Onward
    <3>3. InFlight(t) => Row(t) \in Occ \ {q}
        BY <1>7, <2>2, <3>1 DEF Working, InFlight, Unsent
    <3>4. InFlight(t) => Onward(Row(t)) /\ posts'[Row(t)] + wire'[Row(t)] = Sum(Row(t))
      <4>1. InFlight(t) => Row(t)' = Row(t)
          BY <1>2, <2>3
      <4> QED BY <1>4, <3>3, <4>1 DEF Sum
    <3> QED BY <1>2, <2>3, <3>2, <3>4, OtherWorks
  <2>4. Held(q)'
      BY <1>7 DEF Held
  <2>5. Known(q)'
      BY <1>1, <1>5, <2>2 DEF Known
  <2> QED BY <1>2, <1>3, <1>4, <1>5, <2>3, <2>4, <2>5, SenderStep
<1> QED BY <1>6, <1>7

LEMMA RefusedKeeps == ASSUME IInv, NEW s \in Sender, Refused(s) PROVE IInv'
<1>1. /\ sender[s].at = "preflight" /\ Done(s)
      /\ UNCHANGED <<ticket, wire, posts, now, lapsed, batch, made, waived, crashes>>
    BY DEF Refused, At, Quiet, outside
<1>2. PICK outcome \in {"authorization_unavailable", "unavailable", "rejected", "revoked"}
                          \cup (IF Late(Row(s)) THEN {"misfire"} ELSE {}), within \in BOOLEAN :
        db' = FinishUnbegun(db, s, Row(s), outcome, within)
    BY DEF Refused
<1>6. outcome # "ambiguous"
    BY <1>2
<1>3. Good(db) /\ Row(s) \in Occ /\ db.run[Row(s)].status # "none" /\ ~InFlight(s)
    BY <1>1 DEF IInv, Working, InFlight
<1>4. PICK q \in Occ : q = Row(s)
    BY <1>3
<1>5. /\ Good(db') /\ \A p \in Occ \ {q} : Follows(db, db', p)
      /\ db'.high = db.high
      /\ \/ Follows(db, db', q)
         \/ /\ db.box[q].status \in Unsent /\ db'.run[q].status # "none"
            /\ db'.box[q].status \in {"pending", "sent", "failed", "cancelled", "needs_review"}
  <2> DEFINE e == FinishUnbegun(db, s, q, outcome, within)
  <2>1. db' = e /\ db.run[q].status # "none"
      BY <1>2, <1>3, <1>4
  <2>2. /\ Good(e) /\ \A p \in Occ \ {q} : Follows(db, e, p)
        /\ e.high = db.high
        /\ \/ Follows(db, e, q)
           \/ /\ db.box[q].status \in Unsent /\ e.run[q].status # "none"
              /\ e.box[q].status \in {"pending", "sent", "failed", "cancelled", "needs_review"}
      BY <1>3, <1>6, <2>1, UnbegunKeeps
  <2> HIDE DEF e
  <2> QED BY <2>1, <2>2
<1> QED
    BY <1>1, <1>3, <1>4, <1>5, GivenUp

LEMMA BeginKeeps == ASSUME IInv, NEW s \in Sender, Begin(s) PROVE IInv'
<1> DEFINE d == IF HoldsRow(db, s, Row(s), "claimed") /\ db.box[Row(s)].live THEN ExpireUnsent(db, Row(s)) ELSE db
<1>1. /\ sender[s].at = "prepared"
      /\ UNCHANGED <<ticket, wire, posts, now, lapsed, batch, made, waived, crashes>>
      /\ IF MayStart(d, s, Row(s)) THEN db' = Started(d, Row(s)) /\ Go(s, "deliver") ELSE db' = d /\ Done(s)
    BY DEF Begin, At, Quiet, outside
<1>2. /\ Others /\ Good(db) /\ Working(s) /\ Row(s) \in Occ /\ db.run[Row(s)].status # "none" /\ ~InFlight(s)
      /\ db \in Tables /\ db.high \in Nat
    BY <1>1, TypesApart, Bounds DEF IInv, Working, InFlight, Good, Tables
<1>3. PICK q \in Occ : q = Row(s)
    BY <1>2
<1>4. Held(q) /\ Known(q)
    BY DEF IInv
<1>5. Narrows(db, d) /\ (d.box[q].status \in Unsent => d = db)
  <2>1. db.run[q].status # "started"
      BY <1>2 DEF Good, Agreed
  <2> QED BY <1>2, <1>3, <2>1, ExpireUnsentNarrows, NarrowsItself
<1>6. Good(d) /\ (\A p \in Occ : Follows(db, d, p)) /\ d.high = db.high
    BY <1>2, <1>5, NarrowsKeeps
<1>7. CASE ~MayStart(d, s, Row(s))
  <2>1. db' = d /\ Done(s)
      BY <1>1, <1>7
  <2> HIDE DEF d
  <2> QED BY <1>1, <1>2, <1>3, <1>6, <2>1, GivenUp
<1>8. CASE MayStart(d, s, Row(s))
  <2>1. d.box[q].status = "claimed" /\ d.box[q].holder = s /\ d.box[q].attempt < 3
      BY <1>3, <1>8 DEF MayStart, HoldsRow
  <2>2. d = db
      BY <1>5, <2>1 DEF Unsent
  <2>3. db' = Started(db, q) /\ Go(s, "deliver")
      BY <1>1, <1>3, <1>8, <2>2
  <2> HIDE DEF d
  <2>4. /\ Good(db') /\ \A p \in Occ \ {q} : Follows(db, db', p)
        /\ db'.high = db.high /\ db'.run = db.run
        /\ db'.box[q].status = "request_started" /\ db'.box[q].holder = s
      BY <1>2, <2>1, <2>2, <2>3, StartedKeeps
  <2>5. Sum(q) = 0 /\ q \notin waived
    <3>1. Sum(q) \in Nat
        BY <1>2 DEF Sum, Others
    <3> QED BY <1>2, <1>3, <1>4, <2>1, <2>2, <3>1 DEF Known
  <2> DEFINE row == [sender[s] EXCEPT !.at = "deliver"]
  <2>6. /\ row \in [at : {"idle", "preflight", "prepared", "deliver", "refused", "posting"}, occ : 0..Horizon, posted : BOOLEAN]
        /\ row.at = "deliver" /\ row.occ = q /\ row.posted = FALSE /\ sender' = [sender EXCEPT ![s] = row]
      BY <1>1, <1>2, <1>3, <2>3 DEF Others, Row, Go, Working
  <2> HIDE DEF row
  <2>7. /\ sender' \in [Sender -> [at : {"idle", "preflight", "prepared", "deliver", "refused", "posting"},
                                   occ : 0..Horizon, posted : BOOLEAN]]
        /\ sender'[s] = row /\ Row(s)' = q /\ InFlight(s)'
        /\ \A t \in Sender \ {s} : /\ sender'[t] = sender[t] /\ InFlight(t)' = InFlight(t) /\ Row(t)' = Row(t)
    <3>1. InFlight(s)' <=> row.at \in {"deliver", "refused", "posting"}
        BY <2>6, GoesOn
    <3> QED BY <2>6, <3>1, GoesOn
  <2>8. Others' /\ \A i \in Instance : Handed(i)'
      BY <1>1, <1>2, <2>7, HandedStays DEF Others, IInv
  <2>9. db'.high >= db.high /\ \A p \in Occ \ {q} : Onward(p)
      BY <1>2, <2>4, FollowsOnward
  <2>10. \A p \in Occ : Sum(p)' = Sum(p) /\ made'[p] = made[p]
      BY <1>1 DEF Sum
  <2>11. \A t \in Sender : InFlight(t) => Row(t) \in Occ \ {q}
      BY <2>1, <2>2, <2>5 DEF IInv, Working, InFlight
  <2>12. Working(s)'
    <3>1. \A t \in Sender : InFlight(t)' /\ Row(t)' = q => t = s
        BY <2>7, <2>11
    <3>2. Sum(q)' = 0
        BY <2>5, <2>10
    <3>3. sender'[s].posted = FALSE
        BY <2>6, <2>7
    <3>4. Sum(Row(s))' = 0
        BY <2>7, <3>2 DEF Sum
    <3> QED BY <1>2, <1>3, <2>4, <2>7, <3>1, <3>3, <3>4 DEF Working
  <2>13. ASSUME NEW t \in Sender, t # s PROVE Working(t)'
    <3>1. Working(t)
        BY DEF IInv
    <3>2. sender[t].at # "idle" => db'.run[Row(t)].status # "none"
        BY <2>4, <3>1 DEF Working
    <3>3. InFlight(t) => Onward(Row(t)) /\ posts'[Row(t)] + wire'[Row(t)] = Sum(Row(t))
      <4>1. InFlight(t) => Row(t) \in Occ \ {q} /\ Row(t)' = Row(t)
          BY <2>7, <2>11, <2>13
      <4> QED BY <2>9, <2>10, <4>1 DEF Sum
    <3>4. \A u \in Sender : InFlight(u)' /\ InFlight(t) /\ Row(u)' = Row(t) => u = t
        BY <2>7, <2>11, <3>1 DEF Working
    <3>5. Row(t)' = Row(t) /\ sender'[t] = sender[t] /\ InFlight(t)' = InFlight(t)
        BY <2>7, <2>13
    <3> HIDE DEF Onward
    <3>6. InFlight(t) => \/ db'.box[Row(t)].status = "request_started" /\ db'.box[Row(t)].holder = t
                         \/ db'.box[Row(t)].status = "needs_review"
                         \/ Row(t) \in waived'
        BY <1>1, <3>1, <3>3 DEF Working, Onward
    <3>7. InFlight(t)' => Sum(Row(t))' = IF sender'[t].posted THEN 1 ELSE 0
        BY <3>1, <3>3, <3>5 DEF Working, Sum
    <3> QED BY <3>1, <3>2, <3>4, <3>5, <3>6, <3>7 DEF Working
  <2>14. Held(q)'
      BY <2>4, <2>7 DEF Held
  <2>15. Known(q)'
      BY <1>1, <1>4, <2>4, <2>5, <2>10 DEF Known
  <2> QED
      BY <1>1, <1>2, <1>3, <2>4, <2>7, <2>8, <2>9, <2>10, <2>12, <2>13, <2>14, <2>15, SenderStep
<1> QED BY <1>7, <1>8

LEMMA PollKeeps == ASSUME IInv, Poll PROVE IInv'
<1> DEFINE d == Recover(db, FALSE)
<1>1. /\ UNCHANGED <<now, lapsed, batch, ticket, wire, posts, made, waived, crashes>>
      /\ \/ db' = d /\ UNCHANGED sender
         \/ \E s \in Sender, o \in Occ :
              /\ sender[s].at = "idle" /\ d.box[o].status = "pending"
              /\ db' = [d EXCEPT !.box[o] = [@ EXCEPT !.status = "claimed", !.holder = s, !.live = TRUE]]
              /\ sender' = [sender EXCEPT ![s] = [NoSend EXCEPT !.at = "preflight", !.occ = o]]
    BY DEF Poll, outside
<1>2. Others /\ Good(db) /\ db.high \in Nat
    BY TypesApart, Bounds DEF IInv, Good, Tables
<1>3. Good(d) /\ (\A p \in Occ : Follows(db, d, p)) /\ d.high = db.high
    BY <1>2, RecoverKeeps
<1> HIDE DEF d
<1>4. CASE db' = d /\ UNCHANGED sender
  <2>1. Others' /\ \A i \in Instance : Handed(i)'
      BY <1>1, <1>2, <1>4, HandedStays DEF Others, IInv
  <2>2. Good(db') /\ (\A p \in Occ : Onward(p)) /\ db'.high >= db.high
      BY <1>2, <1>3, <1>4, Follows2
  <2> QED BY <1>1, <1>4, <2>1, <2>2, TablesStep
<1>5. ASSUME NEW s \in Sender, NEW o \in Occ, sender[s].at = "idle", d.box[o].status = "pending",
             db' = [d EXCEPT !.box[o] = [@ EXCEPT !.status = "claimed", !.holder = s, !.live = TRUE]],
             sender' = [sender EXCEPT ![s] = [NoSend EXCEPT !.at = "preflight", !.occ = o]]
      PROVE  IInv'
  <2> DEFINE row == [NoSend EXCEPT !.at = "preflight", !.occ = o]
  <2>1. Good(db') /\ (\A p \in Occ : Follows(d, db', p)) /\ db'.high = db.high
      BY <1>3, <1>5, TakenKeeps
  <2>2. (\A p \in Occ : Onward(p)) /\ db'.high >= db.high
      BY <1>2, <1>3, <2>1, FollowsFurther, FollowsOnward
  <2>3. /\ row \in [at : {"idle", "preflight", "prepared", "deliver", "refused", "posting"}, occ : 0..Horizon, posted : BOOLEAN]
        /\ row.at = "preflight" /\ row.occ = o /\ row.posted = FALSE /\ sender' = [sender EXCEPT ![s] = row]
    <3>1. o \in 0..Horizon /\ sender' = [sender EXCEPT ![s] = row]
        BY <1>5, Bounds
    <3>2. /\ NoSend \in [at : {"idle", "preflight", "prepared", "deliver", "refused", "posting"}, occ : 0..Horizon, posted : BOOLEAN]
          /\ NoSend.posted = FALSE
        BY Bounds DEF NoSend
    <3> HIDE DEF NoSend
    <3>3. /\ row \in [at : {"idle", "preflight", "prepared", "deliver", "refused", "posting"}, occ : 0..Horizon, posted : BOOLEAN]
          /\ row.at = "preflight" /\ row.occ = o /\ row.posted = FALSE
        BY <3>1, <3>2
    <3> QED BY <3>1, <3>3
  <2> HIDE DEF row
  <2>4. /\ sender' \in [Sender -> [at : {"idle", "preflight", "prepared", "deliver", "refused", "posting"},
                                   occ : 0..Horizon, posted : BOOLEAN]]
        /\ sender'[s] = row /\ Row(s)' = o /\ ~InFlight(s)' /\ ~InFlight(s)
        /\ \A t \in Sender \ {s} : /\ sender'[t] = sender[t] /\ InFlight(t)' = InFlight(t) /\ Row(t)' = Row(t)
    <3>1. InFlight(s)' <=> row.at \in {"deliver", "refused", "posting"}
        BY <2>3, GoesOn
    <3>2. ~InFlight(s)' /\ ~InFlight(s)
        BY <1>5, <2>3, <3>1 DEF InFlight
    <3> QED BY <2>3, <3>2, GoesOn
  <2>5. Others' /\ \A i \in Instance : Handed(i)'
      BY <1>1, <1>2, <2>4, HandedStays DEF Others, IInv
  <2>6. \A p \in Occ : Sum(p)' = Sum(p) /\ made'[p] = made[p]
      BY <1>1 DEF Sum
  <2>7. Working(s)'
    <3>1. db'.run[o].status # "none"
      <4>1. d.run[o].status # "none"
          BY <1>3, <1>5 DEF Good, Numbered
      <4> QED BY <2>1, <4>1 DEF Follows
    <3> QED BY <2>3, <2>4, <3>1 DEF Working
  <2>8. ASSUME NEW t \in Sender, t # s PROVE Working(t)'
    <3>1. Working(t)
        BY DEF IInv
    <3>2. sender[t].at # "idle" => db'.run[Row(t)].status # "none"
        BY <2>2, <3>1 DEF Working, Onward
    <3>3. InFlight(t) => Onward(Row(t)) /\ posts'[Row(t)] + wire'[Row(t)] = Sum(Row(t))
      <4>1. InFlight(t) => Row(t) \in Occ /\ Row(t)' = Row(t)
          BY <2>4, <2>8, <3>1 DEF Working, InFlight
      <4> QED BY <2>2, <2>6, <4>1 DEF Sum
    <3> QED BY <1>1, <2>4, <2>8, <3>2, <3>3, OtherWorks
  <2>9. Held(o)' /\ Known(o)'
    <3>1. Held(o) /\ Known(o) /\ db'.high \in Nat
        BY <1>2, <2>1 DEF IInv
    <3>2. \A t \in Sender : InFlight(t) /\ Row(t) = o => InFlight(t)' /\ Row(t)' = o
        BY <2>4
    <3> QED BY <1>1, <1>2, <2>2, <2>6, <3>1, <3>2, RowStays
  <2> QED BY <1>1, <2>1, <2>2, <2>4, <2>5, <2>6, <2>7, <2>8, <2>9, SenderStep
<1> QED BY <1>1, <1>4, <1>5

LEMMA AnsweredKeeps == ASSUME IInv, NEW s \in Sender, Answered(s) PROVE IInv'
<1>1. /\ Done(s) /\ UNCHANGED <<ticket, posts, now, lapsed, batch, made, waived, crashes>>
    BY DEF Answered, Quiet
<1>2. PICK outcome \in Answers(s) :
          /\ db' = IF HoldsRow(db, s, Row(s), "request_started")
                   THEN FinishWrite(db, Row(s), outcome, FALSE) ELSE db
          /\ wire' = IF outcome = "ambiguous" /\ ~sender[s].posted
                     THEN [wire EXCEPT ![Row(s)] = @ + 1] ELSE wire
    BY DEF Answered
<1>3. InFlight(s) /\ (sender[s].posted => outcome \in {"sent", "ambiguous"})
  <2>1. CASE sender[s].at = "deliver"
      BY <2>1 DEF InFlight, IInv, Working
  <2>2. CASE sender[s].at = "refused"
      BY <2>2 DEF InFlight, IInv, Working
  <2>3. CASE sender[s].at = "posting" /\ sender[s].posted
      BY <2>3 DEF InFlight, Answers, At
  <2>4. CASE sender[s].at = "posting" /\ ~sender[s].posted
      BY <2>4 DEF InFlight
  <2>5. CASE sender[s].at \notin {"deliver", "refused", "posting"}
    <3>1. Answers(s) = {}
        BY <2>5 DEF Answers, At
    <3> QED BY <3>1
  <2> QED BY <2>1, <2>2, <2>3, <2>4, <2>5
<1>4. /\ Others /\ Good(db) /\ Working(s) /\ Row(s) \in Occ /\ db.run[Row(s)].status # "none"
      /\ db \in Tables /\ db.high \in Nat
    BY <1>3, TypesApart, Bounds DEF IInv, Working, InFlight, Good, Tables
<1>5. PICK q \in Occ : q = Row(s)
    BY <1>4
<1>6. /\ \/ db.box[q].status = "request_started" /\ db.box[q].holder = s
         \/ db.box[q].status = "needs_review"
         \/ q \in waived
      /\ Sum(q) = IF sender[s].posted THEN 1 ELSE 0
      /\ \A t \in Sender : InFlight(t) /\ Row(t) = q => t = s
    BY <1>3, <1>4, <1>5 DEF Working
<1>7. Held(q) /\ Known(q)
    BY DEF IInv
<1>8. /\ sender' \in [Sender -> [at : {"idle", "preflight", "prepared", "deliver", "refused", "posting"},
                                      occ : 0..Horizon, posted : BOOLEAN]]
      /\ ~InFlight(s)' /\ Working(s)'
      /\ \A t \in Sender \ {s} : /\ sender'[t] = sender[t] /\ InFlight(t)' = InFlight(t) /\ Row(t)' = Row(t)
    BY <1>1, DoneIs
<1>9. /\ Good(db') /\ (\A p \in Occ \ {q} : Follows(db, db', p)) /\ db'.high = db.high
      /\ db'.run[q].status # "none" /\ db'.box[q].status # "request_started"
      /\ IF db.box[q].status = "request_started"
         THEN /\ outcome = "ambiguous" => db'.box[q].status = "needs_review"
              /\ outcome = "sent" => db'.box[q].status = "sent"
         ELSE UNCHANGED db
  <2>1. CASE HoldsRow(db, s, q, "request_started")
    <3>0. PICK within : within = FALSE
        OBVIOUS
    <3> DEFINE e == FinishWrite(db, q, outcome, within)
    <3>1. db' = e /\ db.box[q].status = "request_started"
        BY <1>2, <1>5, <2>1, <3>0 DEF HoldsRow
    <3>2. /\ Good(e) /\ \A p \in Occ \ {q} : Follows(db, e, p)
          /\ e.high = db.high /\ e.run[q].status # "none"
          /\ e.box[q].status \in {"pending", "sent", "failed", "cancelled", "needs_review"}
          /\ outcome = "ambiguous" => e.box[q].status = "needs_review"
          /\ outcome = "sent" => e.box[q].status = "sent"
        BY <1>4, <3>1, FinishKeeps
    <3> HIDE DEF e
    <3> QED BY <3>1, <3>2
  <2>2. CASE ~HoldsRow(db, s, q, "request_started")
    <3>1. db' = db
        BY <1>2, <1>5, <2>2
    <3>2. db.box[q].status # "request_started"
        BY <1>6, <1>7, <2>2 DEF HoldsRow, Held
    <3> QED BY <1>4, <1>5, <3>1, <3>2, FollowsItself
  <2> QED BY <2>1, <2>2
<1>10. db'.high >= db.high /\ \A p \in Occ \ {q} : Onward(p)
    BY <1>4, <1>9, FollowsOnward
<1>11. wire' \in [Occ -> Nat] /\ \A p \in Occ \ {q} : wire'[p] = wire[p]
    BY <1>2, <1>4, <1>5 DEF Others
<1>12. wire'[q] = (IF outcome = "ambiguous" /\ ~sender[s].posted THEN wire[q] + 1 ELSE wire[q])
    BY <1>2, <1>4, <1>5 DEF Others
<1>13. Others' /\ \A i \in Instance : Handed(i)'
    BY <1>1, <1>4, <1>8, <1>11, HandedStays DEF Others, IInv
<1>14. \A p \in Occ \ {q} : Sum(p)' = Sum(p) /\ made'[p] = made[p]
    BY <1>1, <1>11 DEF Sum
<1>15. ASSUME NEW t \in Sender, t # s PROVE Working(t)'
  <2>1. Working(t)
      BY DEF IInv
  <2>2. sender[t].at # "idle" => db'.run[Row(t)].status # "none"
      BY <1>9, <1>10, <2>1 DEF Working, Onward
  <2>3. InFlight(t) => Onward(Row(t)) /\ posts'[Row(t)] + wire'[Row(t)] = Sum(Row(t))
    <3>1. InFlight(t) => Row(t) \in Occ \ {q} /\ Row(t)' = Row(t)
        BY <1>6, <1>8, <1>15, <2>1 DEF Working, InFlight
    <3> QED BY <1>1, <1>10, <1>11, <3>1 DEF Sum
  <2> QED BY <1>1, <1>8, <1>15, <2>2, <2>3, OtherWorks
<1>16. Held(q)'
    BY <1>9 DEF Held
<1>17. Known(q)'
  <2>1. q <= db'.high /\ q <= db.high
      BY <1>4, <1>5, <1>9 DEF Good, Numbered
  <2>2. posts[q] \in Nat /\ wire[q] \in Nat
      BY <1>4 DEF Others
  <2>3. Sum(q)' = IF outcome = "ambiguous" THEN 1 ELSE Sum(q)
      BY <1>1, <1>6, <1>12, <2>2 DEF Sum
  <2>4. Sum(q)' = 1 => outcome \in {"sent", "ambiguous"}
      BY <1>3, <1>6, <2>3
  <2>5. Sum(q)' <= 1
      BY <1>6, <2>3
  <2>6. Sum(q)' = 1 => db'.box[q].status \in {"request_started", "needs_review", "sent"} \/ q \in waived'
      BY <1>1, <1>6, <1>9, <2>4
  <2>7. q \in waived' => db'.box[q].status \in {"sent", "failed", "none"}
      BY <1>1, <1>7, <1>9 DEF Known
  <2> QED BY <1>1, <1>7, <2>1, <2>5, <2>6, <2>7 DEF Known
<1> QED
    BY <1>1, <1>3, <1>5, <1>8, <1>9, <1>10, <1>13, <1>14, <1>15, <1>16, <1>17, SenderStep

LEMMA RestartKeeps == ASSUME IInv, Restart PROVE IInv'
<1> DEFINE lost(o) == {s \in Sender : At(s, "posting") /\ Row(s) = o /\ ~sender[s].posted}
<1>1. /\ crashes < CrashLimit /\ crashes' = crashes + 1
      /\ sender' = [s \in Sender |-> NoSend]
      /\ wire' = [o \in Occ |-> wire[o] + Cardinality(lost(o))]
      /\ UNCHANGED <<now, lapsed, ticket, posts, made, waived>>
    BY DEF Restart
<1>2. PICK K \in SUBSET Instance, d \in {ReleaseClaim(db), db} :
          /\ batch' = [i \in Instance |-> IF i \in K THEN NoBatch ELSE batch[i]]
          /\ db' = Recover(d, TRUE)
    BY DEF Restart
<1>3. Others /\ Good(db) /\ db \in Tables /\ db.high \in Nat
    BY TypesApart, Bounds DEF IInv, Good, Tables
<1>4. Good(d) /\ (\A p \in Occ : Follows(db, d, p)) /\ d.high = db.high
  <2>1. NoClaim \in Claims
      BY DEF NoClaim, Claims
  <2>2. Narrows(db, d)
      BY <1>3, <2>1, ClaimNarrows, NarrowsItself DEF ReleaseClaim
  <2> QED BY <1>3, <2>2, NarrowsKeeps
<1>5. /\ Good(db') /\ (\A p \in Occ : Follows(d, db', p)) /\ db'.high = db.high
      /\ \A p \in Occ : db'.box[p].status # "request_started"
  <2>0. PICK all \in BOOLEAN : all = TRUE
      OBVIOUS
  <2> DEFINE e == Recover(d, all)
  <2>1. /\ Good(e) /\ (\A p \in Occ : Follows(d, e, p)) /\ e.high = d.high
        /\ \A p \in Occ : e.box[p].status # "request_started"
      BY <1>4, <2>0, RecoverKeeps
  <2>2. db' = e
      BY <1>2, <2>0
  <2> HIDE DEF e
  <2> QED BY <1>4, <2>1, <2>2
<1>6. \A p \in Occ : Onward(p)
    BY <1>4, <1>5, FollowsFurther, FollowsOnward
<1>7. ASSUME NEW o \in Occ
      PROVE  \/ Cardinality(lost(o)) = 0
             \/ /\ Cardinality(lost(o)) = 1 /\ Sum(o) = 0
                /\ db.box[o].status \in {"request_started", "needs_review"} \/ o \in waived
                /\ db.run[o].status # "none"
  <2>1. CASE lost(o) = {}
      BY <2>1, FS_EmptySet
  <2>2. ASSUME NEW s \in lost(o)
        PROVE  /\ Cardinality(lost(o)) = 1 /\ Sum(o) = 0
               /\ db.box[o].status \in {"request_started", "needs_review"} \/ o \in waived
               /\ db.run[o].status # "none"
    <3>1. s \in Sender /\ Working(s) /\ InFlight(s) /\ Row(s) = o /\ ~sender[s].posted
        BY <2>2 DEF At, InFlight, IInv
    <3>2. \A t \in lost(o) : t = s
        BY <3>1 DEF Working, At, InFlight
    <3>3. lost(o) = {s}
        BY <2>2, <3>2
    <3>4. Cardinality({s}) = 1
        BY FS_Singleton
    <3>5. sender[s].at # "idle"
        BY <3>1 DEF InFlight
    <3> QED BY <3>1, <3>3, <3>4, <3>5 DEF Working
  <2> QED BY <2>1, <2>2
<1> DEFINE n(o) == Cardinality(lost(o))
<1>8. \A o \in Occ : wire'[o] = wire[o] + n(o) /\ n(o) \in {0, 1}
    BY <1>1, <1>7
<1>9. wire' = [o \in Occ |-> wire[o] + n(o)]
    BY <1>1
<1>10. ASSUME NEW o \in Occ
       PROVE  \/ n(o) = 0
              \/ /\ n(o) = 1 /\ Sum(o) = 0
                 /\ db.box[o].status \in {"request_started", "needs_review"} \/ o \in waived
                 /\ db.run[o].status # "none"
    BY <1>7
<1> HIDE DEF n, lost
<1>11. wire' \in [Occ -> Nat]
    BY <1>3, <1>8, <1>9 DEF Others
<1>12. NoBatch \in [occ : 0..Horizon, late : BOOLEAN, rev : 0..MaxRevision, usable : BOOLEAN]
    BY Bounds DEF NoBatch
<1>13. /\ NoSend \in [at : {"idle", "preflight", "prepared", "deliver", "refused", "posting"}, occ : 0..Horizon, posted : BOOLEAN]
       /\ NoSend.at = "idle" /\ NoSend.posted = FALSE
    BY Bounds DEF NoSend
<1>14. batch' \in [Instance -> [occ : 0..Horizon, late : BOOLEAN, rev : 0..MaxRevision, usable : BOOLEAN]]
    BY <1>2, <1>3, <1>12 DEF Others
<1>15. sender' \in [Sender -> [at : {"idle", "preflight", "prepared", "deliver", "refused", "posting"},
                               occ : 0..Horizon, posted : BOOLEAN]]
    BY <1>1, <1>13
<1>16. crashes' \in 0..CrashLimit
    BY <1>1, <1>3, Bounds DEF Others
<1>17. Others'
    BY <1>1, <1>3, <1>11, <1>14, <1>15, <1>16 DEF Others
<1>18. \A i \in Instance : Handed(i)'
    BY <1>2 DEF Handed, IInv
<1>19. TypeOK'
    BY <1>5, <1>17, SchedulesAre DEF TypeOK, Others, Good
<1>20. \A s \in Sender : Working(s)'
    BY <1>1, <1>13 DEF Working, InFlight
<1>21. ASSUME NEW o \in Occ PROVE Held(o)' /\ Known(o)'
  <2>1. Known(o) /\ Onward(o) /\ posts[o] \in Nat /\ wire[o] \in Nat /\ n(o) \in {0, 1}
      BY <1>3, <1>6, <1>8 DEF IInv, Others
  <2>2. Sum(o)' = Sum(o) + n(o) /\ Sum(o) \in Nat
      BY <1>1, <1>8, <2>1 DEF Sum
  <2>3. Held(o)'
      BY <1>5 DEF Held
  <2>4. Sum(o)' <= 1
      BY <1>10, <2>1, <2>2 DEF Known
  <2>5. Sum(o)' = 1 => /\ o <= db'.high
                       /\ \/ db'.box[o].status \in {"request_started", "needs_review", "sent"}
                          \/ o \in waived' \/ db'.run[o].status = "none"
    <3>1. CASE n(o) = 0
        BY <1>1, <1>5, <2>1, <2>2, <3>1 DEF Known, Onward
    <3>2. CASE n(o) # 0
      <4>1. /\ db.box[o].status \in {"request_started", "needs_review"} \/ o \in waived
            /\ db.run[o].status # "none"
          BY <1>10, <3>2
      <4>2. o <= db.high
          BY <1>3, <4>1 DEF Good, Numbered
      <4> QED BY <1>1, <1>5, <2>1, <4>1, <4>2 DEF Onward
    <3> QED BY <3>1, <3>2
  <2>6. (o \in waived => o <= db.high /\ db.box[o].status \in {"sent", "failed", "none"})'
      BY <1>1, <1>5, <2>1 DEF Known, Onward
  <2>7. (made[o] <= 1 /\ (made[o] = 1 => o <= db.high))'
      BY <1>1, <1>5, <2>1 DEF Known
  <2> QED BY <2>3, <2>4, <2>5, <2>6, <2>7 DEF Known
<1> QED
    BY <1>5, <1>18, <1>19, <1>20, <1>21 DEF IInv

LEMMA InitKeeps == ASSUME Init PROVE IInv
<1>1. PICK once \in BOOLEAN : db = Created(once)
    BY DEF Init
<1>2. /\ now = 0 /\ lapsed = {}
      /\ batch = [i \in Instance |-> NoBatch]
      /\ sender = [s \in Sender |-> NoSend]
      /\ ticket = NoTicket /\ wire = [o \in Occ |-> 0] /\ posts = [o \in Occ |-> 0]
      /\ made = [o \in Occ |-> 0] /\ waived = {} /\ crashes = 0
    BY DEF Init
<1>3. /\ NoRun \in RunRow /\ NoBox \in BoxRow /\ NoNotice \in NoticeRow /\ NoClaim \in Claims
      /\ NoRun.status = "none" /\ NoBox.status = "none"
    BY Words, Bounds DEF NoRun, RunRow, NoBox, BoxRow, NoNotice, NoticeRow, NoClaim, Claims
<1> DEFINE a == [r \in Rev |-> [id |-> IF r = 1 THEN 1 ELSE 0, retired |-> FALSE]]
<1>4. a \in Auths /\ a[1].id = 1 /\ 1 \in Rev
    BY Bounds DEF Auths, AuthRow
<1> DEFINE run == [o \in Occ |-> NoRun]
           box == [o \in Occ |-> NoBox]
           notice == [o \in Occ |-> NoNotice]
<1>5. run \in Runs /\ box \in Boxes /\ notice \in Notices
    BY <1>3 DEF Runs, Boxes, Notices
<1>6. db = [state |-> "active", rev |-> 1, next |-> 1, high |-> 0, once |-> once, claim |-> NoClaim,
            auth |-> a, run |-> run, box |-> box, notice |-> notice]
    BY <1>1 DEF Created
<1>7. \A o \in Occ : run[o] = NoRun /\ box[o] = NoBox
    OBVIOUS
<1> HIDE DEF a, run, box, notice
<1>8. /\ db \in Tables /\ db.state = "active" /\ db.rev = 1 /\ db.high = 0 /\ db.auth = a
      /\ db.run = run /\ db.box = box
    BY <1>3, <1>4, <1>5, <1>6, Words, Bounds DEF Tables
<1>9. Good(db)
  <2>1. Numbered(db)
      BY <1>3, <1>4, <1>7, <1>8 DEF Numbered
  <2>2. \A o \in Occ : Agreed(db, o)
      BY <1>3, <1>7, <1>8 DEF Agreed, Unsent
  <2>3. Single(db)
      BY <1>3, <1>7, <1>8 DEF Single, Running
  <2> QED BY <1>8, <2>1, <2>2, <2>3 DEF Good
<1>10. /\ NoSend \in [at : {"idle", "preflight", "prepared", "deliver", "refused", "posting"}, occ : 0..Horizon, posted : BOOLEAN]
       /\ NoSend.at = "idle" /\ NoSend.posted = FALSE
    BY Bounds DEF NoSend
<1>11. /\ NoBatch \in [occ : 0..Horizon, late : BOOLEAN, rev : 0..MaxRevision, usable : BOOLEAN]
       /\ NoTicket \in [occ : 0..Horizon, by : Sender \cup {Nobody}]
    BY Bounds DEF NoBatch, NoTicket
<1>12. Others
    BY <1>2, <1>10, <1>11, Bounds DEF Others
<1>13. TypeOK
    BY <1>8, <1>12, TypesApart
<1>14. \A s \in Sender : Working(s)
    BY <1>2, <1>10 DEF Working, InFlight
<1>15. \A o \in Occ : Held(o) /\ Known(o)
    BY <1>2, <1>3, <1>7, <1>8 DEF Held, Known, Sum
<1>16. \A i \in Instance : Handed(i)
    BY <1>2 DEF Handed
<1> QED
    BY <1>9, <1>13, <1>14, <1>15, <1>16 DEF IInv

LEMMA StutterKeeps == ASSUME IInv, UNCHANGED vars PROVE IInv'
<1>1. UNCHANGED <<db, now, lapsed, batch, sender, outside, made, waived, crashes>>
    BY DEF vars
<1>2. Good(db') /\ (\A o \in Occ : Follows(db, db', o)) /\ db'.high >= db.high
    BY <1>1, FollowsItself, Bounds DEF IInv, Good, Tables
<1>3. Others' /\ \A i \in Instance : Handed(i)'
    BY <1>1, OthersStay, HandedStays, TypesApart DEF IInv
<1> QED
    BY <1>1, <1>2, <1>3, Follows2, TablesStep DEF outside

LEMMA Inductive == Spec => []IInv
<1>1. Init => IInv
    BY InitKeeps
<1>2. IInv /\ [Next]_vars => IInv'
  <2> SUFFICES ASSUME IInv, [Next]_vars PROVE IInv'
      OBVIOUS
  <2>1. CASE Poll              BY <2>1, PollKeeps
  <2>2. CASE ExpireDue         BY <2>2, ExpireDueKeeps
  <2>3. CASE LeaseEnds         BY <2>3, LeaseEndsKeeps
  <2>4. CASE Tick              BY <2>4, TickKeeps
  <2>5. CASE AuthorizationEnds BY <2>5, AuthorizationEndsKeeps
  <2>6. CASE Restart           BY <2>6, RestartKeeps
  <2>7. CASE OwnerTransition   BY <2>7, OwnerTransitionKeeps
  <2>8. CASE OwnerUpdates      BY <2>8, OwnerUpdatesKeeps
  <2>9. ASSUME NEW s \in Sender, Publish(s) \/ SlackStores(s) PROVE IInv'
      BY <2>9, PreparedKeeps, RefusedKeeps, BeginKeeps, ArriveKeeps, AnsweredKeeps, SlackStoresKeeps DEF Publish
  <2>10. ASSUME NEW i \in Instance, Serve(i) PROVE IInv'
      BY <2>10, ClaimDueKeeps, MaterializeDueKeeps DEF Serve
  <2>11. ASSUME NEW o \in Occ, SlackStoresLate(o) \/ PurgeRun(o) \/ Reconcile(o) PROVE IInv'
      BY <2>11, SlackStoresLateKeeps, PurgeRunKeeps, ReconcileKeeps
  <2>12. CASE UNCHANGED vars   BY <2>12, StutterKeeps
  <2> QED
      BY <2>1, <2>2, <2>3, <2>4, <2>5, <2>6, <2>7, <2>8, <2>9, <2>10, <2>11, <2>12 DEF Next
<1> QED
    BY <1>1, <1>2, PTL DEF Spec

\* The tables, the services and the senders keep values of their types, and no row
\* is attempted more often than the three times that MayStart allows.
THEOREM TypeCorrect == Spec => []TypeOK
<1>1. IInv => TypeOK
    BY DEF IInv
<1> QED BY <1>1, Inductive, PTL

\* publishClaimed, finishWrite and recover: of the requests made for an occurrence
\* Slack stores at most one, the ones that are still under way included, and the
\* row of a stored message says so unless a person has decided or it was purged.
THEOREM PostedAtMostOnce == Spec => []PostsAccounted
<1>1. IInv => PostsAccounted
  <2> SUFFICES ASSUME IInv, NEW o \in Occ
               PROVE  /\ posts[o] + wire[o] <= 1
                      /\ posts[o] = 1 => \/ db.box[o].status \in {"request_started", "needs_review", "sent"}
                                         \/ o \in waived \/ db.run[o] = NoRun
      BY DEF PostsAccounted
  <2>1. Known(o) /\ posts[o] \in Nat /\ wire[o] \in Nat
      BY DEF IInv, TypeOK
  <2>2. posts[o] = 1 => Sum(o) = 1
      BY <2>1 DEF Known, Sum
  <2>3. db.run[o].status = "none" => db.run[o] = NoRun
      BY DEF IInv, Good, Numbered
  <2> QED BY <2>1, <2>2, <2>3 DEF Known, Sum
<1> QED BY <1>1, Inductive, PTL

\* materialize: an occurrence becomes a run once, whoever claims it and however often
\* the schedule is replaced, and of two occurrences at most one is unresolved.
THEOREM OneRunEach == Spec => []OccurrenceOnce
<1>1. IInv => OccurrenceOnce
    BY DEF IInv, Known, Good, Single, OccurrenceOnce
<1> QED BY <1>1, Inductive, PTL

\* suppress: whatever ends, replaces or stops a revision leaves no row behind that
\* could still be sent for it.
THEOREM CurrentOnly == Spec => []UnsentIsCurrent
<1>1. IInv => UnsentIsCurrent
  <2> SUFFICES ASSUME IInv, NEW o \in Occ, db.box[o].status \in Unsent
               PROVE  db.state = "active" /\ db.rev = db.run[o].rev /\ db.run[o].status = "materialized"
      BY DEF UnsentIsCurrent
  <2>1. Agreed(db, o)
      BY DEF IInv, Good
  <2> QED BY <2>1 DEF Agreed
<1> QED BY <1>1, Inductive, PTL
=============================================================================
