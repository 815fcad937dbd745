---------------------------- MODULE JobProgress ----------------------------
(* The phase of a running job as a status line in its Slack thread.  The      *)
(* Dispatcher keeps one row for each job in a database of its own and reports  *)
(* one row at a time through the Slack Adapter, which asks back where to write *)
(* and then writes.  A notice about the job must come after the last of these  *)
(* writes, and a progress that fails must not hold the notice for ever.        *)
EXTENDS Naturals, FiniteSets

CONSTANTS Job,         \* the jobs of one group
          None,
          MaxPhases,   \* bound: new phases that the workers publish
          FaultLimit,  \* bound: failed calls, adapters that stop or die, stores that fail
          CrashLimit,  \* bound: restarts of the Dispatcher
          ReturnLimit  \* bound: blocked jobs that run again

VARIABLES
    job,       \* status of each job
    hand,      \* jobs whose new phase was read and not yet stored
    row,       \* job_progress
    report,    \* the delivery in progress: deliveryOperations, deliveryClaims
    calls,     \* requests in the Slack Adapter; leaving: it has stopped to listen
    recovery,  \* where recover() is
    pass,      \* the job that a terminal reconciliation works on
    enabled,   \* the supervisor still has its progress coordinator
    group,     \* sealed, attention, final notice, jobs told
    used       \* phases, faults, crashes and returns so far

vars == <<job, hand, row, report, calls, recovery, pass, enabled, group, used>>

NoRow == [status |-> "none", checked |-> FALSE]
Idle == [at |-> "idle", of |-> None]
NoPass == [of |-> None, running |-> {}, closed |-> FALSE]

Init ==
    /\ job = [j \in Job |-> "running"] /\ hand = {}
    /\ row = [j \in Job |-> NoRow]
    /\ report = Idle /\ calls = {} /\ recovery = "done" /\ pass = NoPass /\ enabled = TRUE
    /\ group = [sealed |-> FALSE, attention |-> None, final |-> "none", told |-> {}]
    /\ used = [phases |-> 0, faults |-> 0, crashes |-> 0, returns |-> 0]

Terminal(j) == job[j] # "running"
AllEnded == \A j \in Job : job[j] = "ended"

Spent(what) == [used EXCEPT ![what] = @ + 1]
Faulty == used.faults < FaultLimit /\ used' = Spent("faults")

\* An adapter that stops takes no more requests and ends those it has; the next one
\* is started when it is gone.
Listening == \A c \in calls : ~c.leaving

\* The supervisor starts when recover() has returned or was deferred.
Started == recovery \in {"done", "background"}

(***************************************************************************)
(* The jobs and what their workers publish.                                 *)
(***************************************************************************)
Stop(j) ==
    /\ ~Terminal(j) /\ Started
    /\ \E status \in {"blocked", "ended"} : job' = [job EXCEPT ![j] = status]
    /\ UNCHANGED <<hand, row, report, calls, recovery, pass, enabled, group, used>>

\* The answer ends a blocked job, a reconnected worker goes on with it.
Return(j) ==
    /\ job[j] = "blocked" /\ Started /\ used.returns < ReturnLimit
    /\ \E status \in {"running", "ended"} : job' = [job EXCEPT ![j] = status]
    /\ used' = Spent("returns")
    /\ UNCHANGED <<hand, row, report, calls, recovery, pass, enabled, group>>

Seal ==
    /\ ~group.sealed /\ group' = [group EXCEPT !.sealed = TRUE]
    /\ UNCHANGED <<job, hand, row, report, calls, recovery, pass, enabled, used>>

\* ingest of a job that runs: the file is read, and stored after an await.
Read(j) ==
    /\ enabled /\ Started /\ ~Terminal(j) /\ j \notin hand /\ used.phases < MaxPhases
    /\ hand' = hand \cup {j} /\ used' = Spent("phases")
    /\ UNCHANGED <<job, row, report, calls, recovery, pass, enabled, group>>

\* JobProgressStore.ingest: a row that is being delivered or in doubt stays as it is.
Store(j) ==
    /\ j \in hand /\ hand' = hand \ {j}
    /\ row' = IF enabled /\ row[j].status \notin {"delivering", "unknown"}
              THEN [row EXCEPT ![j] = [status |-> "pending", checked |-> FALSE]] ELSE row
    /\ UNCHANGED <<job, report, calls, recovery, pass, enabled, group, used>>

(***************************************************************************)
(* report: one row at a time.                                               *)
(***************************************************************************)
Settle(status) == row' = IF row[report.of].status # "delivering" THEN row
                         ELSE [row EXCEPT ![report.of].status = status]
EndReport(status) == Settle(status) /\ report' = Idle

\* A row of a job that has ended, or of a group that needs attention, is closed.
CloseRow(j) ==
    /\ enabled /\ Started /\ report = Idle /\ row[j].status = "pending"
    /\ Terminal(j) \/ group.attention # None
    /\ row' = [row EXCEPT ![j].status = "delivered"]
    /\ UNCHANGED <<job, hand, report, calls, recovery, pass, enabled, group, used>>

Begin(j) ==
    /\ enabled /\ Started /\ report = Idle /\ row[j].status = "pending"
    /\ ~Terminal(j) /\ group.attention = None
    /\ row' = [row EXCEPT ![j].status = "delivering"]
    /\ report' = [at |-> "token", of |-> j]
    /\ UNCHANGED <<job, hand, calls, recovery, pass, enabled, group, used>>

\* The request reaches the adapter.
Send ==
    /\ report.at = "token" /\ Listening /\ report' = [report EXCEPT !.at = "wait"]
    /\ calls' = calls \cup {[of |-> report.of, at |-> "asking", token |-> "claimed", leaving |-> FALSE]}
    /\ UNCHANGED <<job, hand, row, recovery, pass, enabled, group, used>>

\* No token, no adapter, or an adapter that drains or stops: nothing was sent.
Unsent ==
    /\ report.at = "token" /\ EndReport("pending")
    /\ IF Listening THEN Faulty ELSE UNCHANGED used
    /\ UNCHANGED <<job, hand, calls, recovery, pass, enabled, group>>

\* The answer to a call that someone still waits for; in doubt, the adapter is
\* asked to drain first.  The claim ends with the answer.
Answered(c, outcome) ==
    /\ calls' = calls \ {c}
    /\ IF c.token # "claimed" THEN UNCHANGED <<row, report>>
       ELSE IF outcome = "doubt" THEN report' = [report EXCEPT !.at = "drain"] /\ UNCHANGED row
       ELSE EndReport(outcome)

\* The request timed out or its connection broke, the adapter goes on.
LoseAnswer ==
    /\ report.at = "wait" /\ Faulty
    /\ report' = [report EXCEPT !.at = "drain"]
    /\ calls' = {[c EXCEPT !.token = IF @ = "claimed" THEN "dropped" ELSE @] : c \in calls}
    /\ UNCHANGED <<job, hand, row, recovery, pass, enabled, group>>

\* Mutant: the row is given up without asking the adapter.
DrainedAtOnce == TRUE

\* The drain endpoint answers when no request is left in the adapter; until
\* then it refuses new ones.  An adapter that cannot be reached counts as drained,
\* and one that stops cannot be reached while its last requests still write.
Drained == calls = {} \/ ~Listening

\* drainAdapterUntilSettled, unknown.
GiveUp ==
    /\ report.at = "drain" /\ Drained /\ EndReport("unknown")
    /\ UNCHANGED <<job, hand, calls, recovery, pass, enabled, group, used>>

(***************************************************************************)
(* The adapter.                                                             *)
(***************************************************************************)
\* resolveDelivery.
Deliverable(c) ==
    /\ c.token = "claimed" /\ row[c.of].status = "delivering" /\ ~Terminal(c.of)
    /\ group.sealed /\ group.attention = None

\* deliveryDeferred.
Deferred(c) ==
    /\ c.token = "claimed" /\ row[c.of].status = "delivering"
    /\ ~group.sealed /\ group.attention = None

\* SlackJobProgressReporter.deliver: where may this be written?
Resolve(c) ==
    /\ c \in calls /\ c.at = "asking"
    /\ IF Deliverable(c)
       THEN calls' = (calls \ {c}) \cup {[c EXCEPT !.at = "writing"]} /\ UNCHANGED <<row, report>>
       ELSE Answered(c, IF Deferred(c) THEN "pending" ELSE "doubt")
    /\ UNCHANGED <<job, hand, recovery, pass, enabled, group, used>>

\* The Dispatcher could not be asked.
ResolveFails(c) ==
    /\ c \in calls /\ c.at = "asking" /\ Faulty /\ Answered(c, "pending")
    /\ UNCHANGED <<job, hand, recovery, pass, enabled, group>>

\* setAssistantThreadProgress.
Write(c) ==
    /\ c \in calls /\ c.at = "writing" /\ Answered(c, "delivered")
    /\ UNCHANGED <<job, hand, recovery, pass, enabled, group, used>>
WriteFails(c) ==
    /\ c \in calls /\ c.at = "writing" /\ Faulty
    /\ \E outcome \in {"pending", "doubt"} : Answered(c, outcome)
    /\ UNCHANGED <<job, hand, recovery, pass, enabled, group>>

AdapterStops ==
    /\ calls # {} /\ Listening /\ Faulty
    /\ calls' = {[c EXCEPT !.leaving = TRUE] : c \in calls}
    /\ UNCHANGED <<job, hand, row, report, recovery, pass, enabled, group>>

AdapterDies ==
    /\ calls # {} /\ Faulty /\ calls' = {}
    /\ report' = IF report.at = "wait" THEN [report EXCEPT !.at = "drain"] ELSE report
    /\ UNCHANGED <<job, hand, row, recovery, pass, enabled, group>>

(***************************************************************************)
(* A job that stops: ingest, reconcileTerminal.                             *)
(***************************************************************************)
\* listJobsNeedingNotification, see JobGroup.
Listed(j) ==
    /\ Terminal(j) /\ group.sealed /\ group.final = "none"
    /\ j \notin group.told \/ AllEnded \/ (job[j] = "blocked" /\ group.attention = None)

\* The siblings are listed before the deliveries are drained.
PassStart(j) ==
    /\ enabled /\ pass = NoPass /\ report = Idle /\ Terminal(j) /\ ~row[j].checked
    /\ \/ Started /\ \E k \in Job : Listed(k)
       \/ recovery = "finish" /\ row[j].status # "none"
    /\ pass' = [of |-> j, running |-> {k \in Job \ {j} : ~Terminal(k)}, closed |-> FALSE]
    /\ UNCHANGED <<job, hand, row, report, calls, recovery, enabled, group, used>>

\* requeueLatestAndMarkTerminal: the line shows a sibling that is still at work.
\* A row that is delivered is sent again, a doubtful one starts anew, and only
\* this one forgets that it was checked.
Requeued(r, running) ==
    IF running = {} \/ \E k \in running : r[k].status = "pending" THEN {r}
    ELSE IF \E k \in running : r[k].status = "delivered"
         THEN {[r EXCEPT ![k].status = "pending"] : k \in {k \in running : r[k].status = "delivered"}}
         ELSE {IF r[k].status \in {"none", "unknown"}
               THEN [r EXCEPT ![k] = [status |-> "pending", checked |-> FALSE]] ELSE r : k \in running}

\* JobProgressStore.terminal.
Closed(status) ==
    CASE status = "delivering" -> "unknown" [] status = "pending" -> "delivered" [] OTHER -> status

PassStep == UNCHANGED <<job, hand, report, calls, recovery, enabled, group, used>>

\* Mutant: whatever becomes of a delivery in progress, the row is closed.
PassCloseUnfenced ==
    /\ pass # NoPass /\ ~pass.closed /\ report = Idle
    /\ pass' = [pass EXCEPT !.closed = TRUE]
    /\ row' = [row EXCEPT ![pass.of].status = "delivered"]
    /\ PassStep

\* The deliveries have ended; a row that an earlier process left behind ends the pass.
PassClose ==
    /\ pass # NoPass /\ ~pass.closed /\ report = Idle
    /\ IF \E k \in Job : row[k].status = "delivering" THEN pass' = NoPass /\ UNCHANGED row
       ELSE /\ pass' = [pass EXCEPT !.closed = TRUE]
            /\ row' = [row EXCEPT ![pass.of].status = Closed(@)]
    /\ PassStep

\* The job's file is removed meanwhile: deliveries may have begun, also of this job
\* when it runs again.
PassEnd ==
    /\ pass # NoPass /\ pass.closed /\ pass' = NoPass
    /\ \E r \in Requeued(row, pass.running) :
         row' = [r EXCEPT ![pass.of] = [status |-> IF @.status = "none" THEN "delivered" ELSE @.status,
                                        checked |-> TRUE]]
    /\ PassStep

\* Mutant: only the job's own row is looked at.
NotificationReadyAlone(j) == row[j].checked

\* notificationReady.
NotificationReady(j) ==
    /\ report = Idle
    /\ IF \A k \in Job : Terminal(k) THEN \A k \in Job : row[k].checked ELSE row[j].checked

\* publishNotifications; what enqueueJobNotification tells is JobGroup's.
Publish(j) ==
    /\ Started /\ Listed(j) /\ (enabled => NotificationReady(j))
    /\ group' = IF AllEnded THEN [group EXCEPT !.final = IF enabled THEN "gated" ELSE "open"]
                ELSE IF /\ job[j] = "blocked"
                        /\ group.attention # None => job[group.attention] # "blocked"
                     THEN [group EXCEPT !.attention = j, !.told = @ \cup {j}]
                     ELSE [group EXCEPT !.told = @ \cup {j}]
    /\ UNCHANGED <<job, hand, row, report, calls, recovery, pass, enabled, used>>

\* disableProgress after an error: the deliveries end first.
Disable ==
    /\ enabled /\ Started /\ report = Idle /\ Faulty
    /\ enabled' = FALSE
    /\ UNCHANGED <<job, hand, row, report, calls, recovery, pass, group>>

(***************************************************************************)
(* Restarts.                                                                *)
(***************************************************************************)
Restart ==
    /\ used.crashes < CrashLimit /\ used' = Spent("crashes")
    /\ hand' = {} /\ report' = Idle /\ pass' = NoPass /\ enabled' = TRUE
    /\ calls' = {[c EXCEPT !.token = "earlier"] : c \in calls}
    /\ recovery' = IF \E j \in Job : row[j].status = "delivering" THEN "drain" ELSE "finish"
    /\ UNCHANGED <<job, row, group>>

\* progressRecoveryDeferred: the drain timed out.
Defer ==
    /\ recovery = "drain" /\ ~Drained /\ recovery' = "background"
    /\ UNCHANGED <<job, hand, row, report, calls, pass, enabled, group, used>>

\* Mutant: a drain that is late is not tried again.
RecoverOnce ==
    /\ recovery = "drain" /\ Drained /\ recovery' = "finish"
    /\ row' = [j \in Job |-> IF row[j].status = "delivering" THEN [row[j] EXCEPT !.status = "unknown"] ELSE row[j]]
    /\ UNCHANGED <<job, hand, report, calls, pass, enabled, group, used>>

\* recoverDeliveries, once the adapter has drained; recoverInBackground marks
\* the rows of this process too.
Recover ==
    /\ recovery \in {"drain", "background"} /\ Drained
    /\ recovery' = IF recovery = "drain" THEN "finish" ELSE "done"
    /\ row' = [j \in Job |-> IF row[j].status = "delivering" THEN [row[j] EXCEPT !.status = "unknown"] ELSE row[j]]
    /\ UNCHANGED <<job, hand, report, calls, pass, enabled, group, used>>

\* finishRecovery has ingested the rows of jobs that stopped.
Recovered ==
    /\ recovery = "finish" /\ pass = NoPass
    /\ \A j \in Job : Terminal(j) => row[j].status = "none" \/ row[j].checked
    /\ recovery' = "done"
    /\ UNCHANGED <<job, hand, row, report, calls, pass, enabled, group, used>>

(***************************************************************************)
(* The specification.                                                       *)
(***************************************************************************)
Adapter == \E c \in calls : Resolve(c) \/ Write(c)
Reporting == Send \/ GiveUp \/ \E j \in Job : CloseRow(j) \/ Begin(j) \/ Store(j)
Recovering == Recover \/ Recovered \/ Defer
Announcing == PassClose \/ PassEnd \/ \E j \in Job : PassStart(j) \/ Publish(j)

Next ==
    \/ Adapter \/ Reporting \/ Recovering \/ Announcing
    \/ Seal \/ Unsent \/ LoseAnswer \/ AdapterStops \/ AdapterDies \/ Disable \/ Restart
    \/ \E j \in Job : Stop(j) \/ Return(j) \/ Read(j)
    \/ \E c \in calls : ResolveFails(c) \/ WriteFails(c)

Spec == Init /\ [][Next]_vars

\* The adapter's process, the progress loop, the recovery and the supervisor's
\* loop each go on by themselves.
FairSpec == Spec /\ WF_vars(Adapter) /\ WF_vars(Reporting) /\ WF_vars(Recovering) /\ WF_vars(Announcing)

(***************************************************************************)
(* Properties.                                                              *)
(***************************************************************************)
TypeOK ==
    /\ job \in [Job -> {"running", "blocked", "ended"}] /\ hand \subseteq Job
    /\ row \in [Job -> [status : {"none", "pending", "delivering", "delivered", "unknown"}, checked : BOOLEAN]]
    /\ report \in [at : {"idle", "token", "wait", "drain"}, of : Job \cup {None}]
    /\ calls \subseteq [of : Job, at : {"asking", "writing"}, token : {"claimed", "dropped", "earlier"},
                       leaving : BOOLEAN]
    /\ recovery \in {"done", "drain", "finish", "background"} /\ enabled \in BOOLEAN
    /\ pass \in [of : Job \cup {None}, running : SUBSET Job, closed : BOOLEAN]
    /\ group.attention \in Job \cup {None} /\ group.final \in {"none", "gated", "open"}
    /\ group.told \subseteq Job

\* Once the group's final notice is queued, or somebody is asked for, no status
\* line is still on its way that would hide it.  Two things the code does not keep
\* back: the last request of an adapter that stops, which cannot be asked whether it
\* has drained, and a request of an earlier process whose drain timed out: a job
\* that was already checked is announced without a look at it.
NoProgressAfterNotice ==
    \A c \in calls : c.at = "writing" /\ (group.final # "none" \/ group.attention # None) =>
        \/ c.leaving /\ c.token # "claimed"
        \/ /\ c.token = "earlier"
           /\ group.final = "none" \/ row[c.of].checked \/ group.final = "open"

\* A status line whose outcome is unknown is not sent again while the first
\* request may still write: README「blind retryしません」.  A request that asks
\* with a token nobody holds any more is told no, and writes nothing.
MayWrite(c) == c.at = "writing" \/ c.token = "claimed"
OneWriter == \A c, d \in {c \in calls : MayWrite(c)} : c.of = d.of => c = d

\* When all jobs have ended, the final notice is not held back for ever by the
\* progress: neither by a lost answer, nor by a restart, nor by a failed store.
NoticeDue == group.sealed /\ AllEnded
NoticeIsReleased == NoticeDue ~> (group.final # "none")
=============================================================================
