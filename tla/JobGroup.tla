------------------------------ MODULE JobGroup ------------------------------
(* The jobs that one Slack event has delegated, and what the resident agent  *)
(* is told about them.  Every job that stops becomes a notice, an event of    *)
(* the queue; one of them may own the group's attention (the session is       *)
(* suspended until a person has looked), and exactly one, when everything is  *)
(* finished and understood, is the final report.  The operations are single   *)
(* transactions on the database, so each is an operator from the tables d to   *)
(* the set of tables it may leave: the empty set when it throws.               *)
EXTENDS Naturals, FiniteSets

CONSTANTS Job,    \* the jobs of the group; a job's name is what its notices carry
          None    \* no notice, no resolution

VARIABLE db

Final == {"completed", "failed", "cancelled"}
Attention == {"blocked", "failed", "needs_review"}
Stopped == Final \cup Attention
Status == Stopped \cup {"active", "cancelling"}

\* last_error_code of a job in review: a late result is accepted after an unknown
\* prompt or cancellation.  Jobs that never started are not told apart: of what
\* the others may do, they lack the operator's recovery.
Cause == {"none", "prompt", "cancel", "other"}

\* external_event_id of a notice.
Notice == Job \X Stopped \X {"plain", "attention_replacement", "all_terminal"}
JobOf(n) == n[1]

Init == db = [sealed |-> FALSE, attention |-> None, terminal |-> None,
              job |-> [j \in Job |-> [status |-> "active", cause |-> "none", notice |-> None]],
              notice |-> [n \in {} |-> None],
              resolution |-> [j \in Job |-> None],
              claims |-> {}, receipts |-> {}, noPost |-> {}]

(***************************************************************************)
(* What the tables say.                                                     *)
(***************************************************************************)
Queued(d, n) == d.notice[n].state = "queued"
Done(d, n) == d.notice[n].state = "completed"

\* jobAttentionResolved.  A resolution is recorded for a final status, which stays.
JobResolved(d, j) == d.job[j].status = "failed" /\ d.resolution[j] # None
Understood(d, j) == d.job[j].status \in {"completed", "cancelled"} \/ JobResolved(d, j)

\* attentionNotificationSettled: the agent's own result shows the post and the
\* suspended session, or a person has verified that it was or was not posted.
Settled(d, n) ==
    /\ Done(d, n) /\ d.notice[n].outcome # "superseded"
    /\ d.notice[n].transition = "attention"
    /\ IF n \in d.noPost
       THEN n \notin d.receipts \cup d.claims
       ELSE n \in d.receipts \/ d.notice[n].outcome = "posted"

\* lateProgressNotificationSettled.  That its result lists no posts is left open:
\* with posts, what depends on it is refused.
QuietProgress(d, n, j) ==
    /\ Done(d, n) /\ d.notice[n].outcome # "superseded"
    /\ d.notice[n].transition = "progress" /\ JobOf(n) = j

\* Mutant: a failed job needs nobody's review.
ClaimableUnreviewed(d) ==
    /\ d.sealed /\ d.terminal = None /\ d.claims = {}
    /\ d.attention # None => Settled(d, d.attention)
    /\ \A j \in Job : d.job[j].status \in Final

\* groupCanClaimAllTerminal.
Claimable(d) ==
    /\ d.sealed /\ d.terminal = None /\ d.claims = {}
    /\ d.attention # None => Settled(d, d.attention)
    /\ \A j \in Job : Understood(d, j)

\* buildJobGroupSnapshot: what the notice about j tells the agent to do.
Transition(d, j) ==
    IF /\ d.job[j].status \in Attention /\ d.attention = None
       /\ ~JobResolved(d, j) /\ ~Claimable(d)
    THEN "attention"
    ELSE IF Claimable(d) THEN "all_terminal" ELSE "progress"

(***************************************************************************)
(* The steps that the operations share.                                     *)
(***************************************************************************)
Supersede(d, gone) ==
    [d EXCEPT !.notice = [n \in DOMAIN @ |-> IF n \in gone
                             THEN [@[n] EXCEPT !.state = "completed", !.outcome = "superseded"]
                             ELSE @[n]],
              !.attention = IF @ \in gone THEN None ELSE @]

\* Mutant: the next job takes over while the delivery is still unclear.
HandOffEarly(d, n) ==
    IF /\ d.attention = n /\ n \notin d.claims /\ d.terminal = None
       /\ Understood(d, JobOf(n))
       /\ \E j \in Job \ {JobOf(n)} : d.job[j].status \in Attention /\ ~JobResolved(d, j)
    THEN [d EXCEPT !.attention = None]
    ELSE d

\* handoffResolvedAttention: a delivered attention whose cause is resolved makes
\* room for another job that needs one.
HandOff(d, n) ==
    IF /\ d.attention = n /\ Settled(d, n) /\ n \notin d.claims /\ d.terminal = None
       /\ Understood(d, JobOf(n))
       /\ \E j \in Job \ {JobOf(n)} : d.job[j].status \in Attention /\ ~JobResolved(d, j)
    THEN [d EXCEPT !.attention = None]
    ELSE d

\* recordAttentionResolution, for the attention n of j.
Resolve(d, j, n, kind) ==
    IF d.resolution[j] = None THEN {HandOff([d EXCEPT !.resolution[j] = kind], n)}
    ELSE IF d.resolution[j] = kind THEN {d} ELSE {}

\* The attention of the group is about j.
Causes(d, j) == d.attention # None /\ JobOf(d.attention) = j

\* enqueueRegularJobNotification.  enqueue takes an event of the same name for
\* the same event only if every field is equal; here the time differs, it throws.
Enqueue(d0, j) ==
    LET d == IF d0.attention # None /\ d0.job[j].status \in Attention
             THEN HandOff(d0, d0.attention) ELSE d0
        row == d.job[j]
        linked == row.notice # None
        replaces == d.attention = None /\ row.status \in Attention /\ ~JobResolved(d, j)
        transition == Transition(d, j)
        n == <<j, row.status, IF ~linked THEN "plain"
                              ELSE IF transition = "attention" THEN "attention_replacement"
                                                               ELSE "all_terminal">>
        queued == [state |-> "queued", transition |-> transition, outcome |-> "none"]
        told == [d EXCEPT !.notice = [m \in DOMAIN @ \cup {n} |-> IF m = n THEN queued ELSE @[m]],
                          !.job[j].notice = IF linked THEN @ ELSE n]
    IN CASE d.terminal # None -> {[d EXCEPT !.job[j].notice = IF linked THEN @ ELSE d.terminal]}
         [] d.terminal = None /\ linked /\ ~replaces /\ ~Claimable(d) -> {d}
         [] OTHER -> IF row.status \notin Stopped \/ ~d.sealed \/ n \in DOMAIN d.notice THEN {}
                     ELSE CASE transition = "attention" -> {[told EXCEPT !.attention = n]}
                            [] transition = "all_terminal" -> {[told EXCEPT !.terminal = n]}
                            [] OTHER -> {told}

\* Mutant: a job that was announced once is not looked at again.
ListedOnce(d, j) ==
    /\ d.job[j].status \in Stopped /\ d.sealed /\ d.terminal = None /\ d.job[j].notice = None

\* listJobsNeedingNotification.
Listed(d, j) ==
    /\ d.job[j].status \in Stopped /\ d.sealed /\ d.terminal = None
    /\ \/ d.job[j].notice = None
       \/ d.attention # None /\ \A k \in Job : Understood(d, k)
       \/ d.attention = None /\ d.job[j].status \in Attention /\ d.resolution[j] = None

(***************************************************************************)
(* The jobs.  A job is active from its creation until something stops it.    *)
(***************************************************************************)
Stop(d, j, status, cause) == [d EXCEPT !.job[j].status = status, !.job[j].cause = cause]

\* sealJobGroup: the source event has ended, the group gets no more jobs.
Seal == ~db.sealed /\ db' = [db EXCEPT !.sealed = TRUE]

\* markJobBlocked, markJobNeedsReview, and a start that failed for good.
Block(j) == db.job[j].status = "active" /\ db' = Stop(db, j, "blocked", "none")
Review(j) ==
    /\ db.job[j].status \notin Final
    /\ \E cause \in {IF db.job[j].status = "cancelling" THEN "cancel" ELSE "prompt", "other"} :
         db' = Stop(db, j, "needs_review", cause)

\* A task reaches its worker again (reconnect), or the owner's answer does
\* (markJobSteerAccepted).
Resume(j) == db.job[j].status \in {"blocked", "needs_review"} /\ db' = Stop(db, j, "active", "none")

\* saveJobResultInternal; asserted is its operatorLate.
SaveResult(d, j, status, asserted) ==
    LET row == d.job[j]
        recovers == row.status = "needs_review" /\ (asserted \/ row.cause \in {"prompt", "cancel"})
        prior == IF recovers /\ row.notice # None THEN {row.notice} ELSE {}
        freed == IF recovers THEN [Supersede(d, {n \in prior : Queued(d, n)}) EXCEPT !.job[j].notice = None]
                             ELSE d
        saved == Stop(freed, j, status, "none")
    IN IF \/ row.status \notin {"active", "cancelling"} /\ ~recovers
          \/ \E n \in prior : ~Queued(d, n) /\ ~Done(d, n)
          \/ asserted /\ \E n \in prior : Done(d, n) /\ ~Settled(d, n) /\ ~QuietProgress(d, n, j)
       THEN {}
       ELSE IF recovers /\ Causes(d, j) THEN Resolve(saved, j, d.attention, "validated_result")
                                        ELSE {saved}
Finish(j) == \E status \in {"completed", "failed"} : db' \in SaveResult(db, j, status, FALSE)

\* beginJobCancellation: what waits in the queue about the group is withdrawn,
\* what the agent is working on has to be settled first.
BeginCancellation(j) ==
    LET known == {db.job[j].notice, db.attention, db.terminal} \ {None}
        gone == {n \in known : Queued(db, n)}
        d == Supersede(db, gone)
    IN /\ db.job[j].status \in {"active", "blocked", "needs_review"} /\ db.job[j].cause # "cancel"
       /\ \A n \in known : Queued(db, n) \/ Done(db, n)
       /\ db' = [d EXCEPT !.terminal = None,
                          !.job = [k \in Job |-> IF k = j
                              THEN [status |-> "cancelling", cause |-> "none", notice |-> None]
                              ELSE IF @[k].notice \in gone THEN [@[k] EXCEPT !.notice = None] ELSE @[k]]]

\* markJobCancelled.
Cancelled(j) ==
    /\ db.job[j].status = "cancelling"
    /\ LET d == Stop(db, j, "cancelled", "none")
       IN db' \in IF Causes(d, j) THEN Resolve(d, j, d.attention, "operator_reconcile") ELSE {d}

(***************************************************************************)
(* The notices in the queue.  Held is all between queued and completed: in   *)
(* the agent's hands, or put aside until an operator retries it.             *)
(***************************************************************************)
NoticeTo(n, from, to) == db.notice[n].state = from /\ db' = [db EXCEPT !.notice[n].state = to]
Take(n) == NoticeTo(n, "queued", "held")
GiveBack(n) == NoticeTo(n, "held", "queued")

\* saveCompleted: an attention's result confirms the post and the suspension, or
\* it does not.
Complete(n) ==
    /\ db.notice[n].state = "held"
    /\ \E outcome \in {"posted"} \cup IF db.notice[n].transition = "attention" THEN {"unclear"} ELSE {} :
         db' = HandOff([db EXCEPT !.notice[n] = [@ EXCEPT !.state = "completed", !.outcome = outcome]], n)

\* publishNotifications, for one of the jobs it lists.
Announce(j) == Listed(db, j) /\ db' \in Enqueue(db, j) /\ db' # db

(***************************************************************************)
(* The operator.                                                            *)
(***************************************************************************)
\* attentionDeliveryVerificationRequest.
Verifiable(n) ==
    /\ db.attention = n /\ db.terminal = None
    /\ Done(db, n) /\ db.notice[n].outcome # "superseded" /\ n \notin db.noPost

\* claimAttentionDeliveryReconciliation, recordVerifiedAttentionDelivery and
\* releaseRejectedAttentionDeliveryClaim: before the Slack write, after it, and
\* when Slack has certainly refused it.
ClaimDelivery(n) ==
    /\ Verifiable(n) /\ n \notin db.receipts \cup db.claims
    /\ db' = [db EXCEPT !.claims = @ \cup {n}]
RecordDelivery(n) ==
    /\ Verifiable(n) /\ n \in db.claims
    /\ db' = HandOff([db EXCEPT !.receipts = @ \cup {n}, !.claims = @ \ {n}], n)
ReleaseClaim(n) ==
    /\ db.attention = n /\ db.terminal = None /\ n \in db.claims /\ n \notin db.receipts
    /\ db' = [db EXCEPT !.claims = @ \ {n}]

\* Mutant: the claim of a running verification is overlooked.
NotPostedUnchecked(n) ==
    /\ db.attention = n /\ db.terminal = None /\ db.job[JobOf(n)].status = "needs_review"
    /\ Done(db, n) /\ db.notice[n].outcome = "unclear" /\ ~Settled(db, n)
    /\ n \notin db.receipts \cup db.noPost
    /\ db' = [db EXCEPT !.noPost = @ \cup {n}]

\* reconcileAttentionNotPosted: the agent's result lists no post, and there is none.
NotPosted(n) ==
    /\ db.attention = n /\ db.terminal = None /\ db.job[JobOf(n)].status = "needs_review"
    /\ Done(db, n) /\ db.notice[n].outcome = "unclear" /\ ~Settled(db, n)
    /\ n \notin db.receipts \cup db.claims \cup db.noPost
    /\ db' = [db EXCEPT !.noPost = @ \cup {n}]

\* resolveFailedJobAttention.
ResolveFailed(j) ==
    /\ Causes(db, j) /\ db.terminal = None /\ db.job[j].status = "failed"
    /\ Settled(db, db.attention)
    /\ \E d \in Resolve(db, j, db.attention, "operator_reconcile") :
         db' \in Enqueue(d, j) /\ db' # db

\* recoverWithOperatorAssertion: the owner answers for the worker; a valid result
\* is taken, without one the job has failed.
Unaccepted(d, j) ==
    LET gone == {n \in {d.job[j].notice, d.attention} \ {None} : Queued(d, n)}
        failed == Stop([Supersede(d, gone) EXCEPT !.job[j].notice = None], j, "failed", "none")
    IN IF Causes(d, j) THEN Resolve(failed, j, d.attention, "operator_reconcile") ELSE {failed}
Recover(j) ==
    /\ db.job[j].status = "needs_review" /\ db.terminal = None
    /\ \A n \in {db.job[j].notice, db.attention} \ {None} :
         \/ Queued(db, n) \/ Settled(db, n)
         \/ n = db.job[j].notice /\ QuietProgress(db, n, j)
    /\ \E d \in (UNION {SaveResult(db, j, status, TRUE) : status \in {"completed", "failed"}})
                 \cup Unaccepted(db, j) :
         db' \in Enqueue(d, j)

JobStep == \E j \in Job : Block(j) \/ Review(j) \/ Resume(j) \/ Finish(j)
                          \/ BeginCancellation(j) \/ Cancelled(j)
NoticeStep == \E n \in DOMAIN db.notice : Take(n) \/ GiveBack(n) \/ Complete(n)
OperatorStep ==
    \/ \E n \in DOMAIN db.notice : ClaimDelivery(n) \/ RecordDelivery(n) \/ ReleaseClaim(n) \/ NotPosted(n)
    \/ \E j \in Job : ResolveFailed(j) \/ Recover(j)
Next == Seal \/ JobStep \/ NoticeStep \/ OperatorStep \/ \E j \in Job : Announce(j)

Spec == Init /\ [][Next]_db
\* The supervisor's round comes again and again; nothing else is sure to happen.
FairSpec == Spec /\ WF_db(\E j \in Job : Announce(j))

(***************************************************************************)
(* Properties.                                                              *)
(***************************************************************************)
TypeOK ==
    /\ db.sealed \in BOOLEAN /\ {db.attention, db.terminal} \subseteq DOMAIN db.notice \cup {None}
    /\ db.job \in [Job -> [status : Status, cause : Cause, notice : DOMAIN db.notice \cup {None}]]
    /\ DOMAIN db.notice \subseteq Notice
    /\ \A n \in DOMAIN db.notice : db.notice[n] \in
         [state : {"queued", "held", "completed"}, transition : {"attention", "progress", "all_terminal"},
          outcome : {"none", "posted", "unclear", "superseded"}]
    /\ db.resolution \in [Job -> {None, "validated_result", "operator_reconcile"}]
    /\ db.claims \cup db.receipts \cup db.noPost \subseteq DOMAIN db.notice

\* groupCanClaimAllTerminal and beginJobCancellation: the report that says all
\* jobs are done stays true. No job of the group leaves the state it reports, and
\* no Slack write for an earlier notice is still under way.
FinalReportIsFinal == db.terminal # None => db.claims = {} /\ \A j \in Job : Understood(db, j)

\* handoffResolvedAttention and enqueueRegularJobNotification: the group asks for
\* one person's attention at a time. An attention gives way only when it was
\* withdrawn unread, or when its post and the suspended session are verified.
AttentionUntilSettled == \A n \in DOMAIN db.notice :
    db.notice[n].transition = "attention" /\ n # db.attention
    => db.notice[n].outcome = "superseded" \/ Settled(db, n)

\* reconcileAttentionNotPosted and the verified delivery exclude each other:
\* nobody testifies that a message was not posted while it is being posted.
VerdictsAgree == db.noPost \cap (db.receipts \cup db.claims) = {}

\* listJobsNeedingNotification: while the group still has its attention, a final
\* report that can be written is written, or the group gets busy again.  (When a
\* hand-off has cleared the attention the round may list nobody any more.)
ReportDue == db.attention # None /\ \E j \in Job : \E d \in Enqueue(db, j) : d.terminal # None
ReportsWhenDone == ReportDue ~> (db.terminal # None \/ ~Claimable(db))
=============================================================================
