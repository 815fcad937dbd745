---------------------------- MODULE TaskExecution ----------------------------
(* A task and the attempts that carry it out.  The task is the owner's: it may  *)
(* be paused, resumed, cancelled, steered and given more attempts while the     *)
(* supervisor starts a job, waits for it and, on its own rounds, reconciles it:  *)
(* reconcileTask reads the result, observes the worker, stops it and replaces    *)
(* the attempt, with an await before every one of these.  An attempt is a job;   *)
(* how a single job runs in detail is JobSupervisor.                             *)
EXTENDS Naturals, FiniteSets

CONSTANTS MaxAttempts,   \* bound: attempts that the owner can ask for (10 in the code)
          Disturbances   \* bound: requests of the owner, commands that fail or prove
                         \* nothing, and restarts of the Dispatcher
ASSUME BoundAssumption == MaxAttempts \in Nat \ {0} /\ Disturbances \in Nat

VARIABLES
    task,     \* the row of tasks
    job,      \* attempts: the rows of jobs, worker observations, checkpoints
    worker,   \* of each attempt: the agent, its pane and its processes; "ready" until
              \* its prompt is sent
    file,     \* of each attempt: the result file
    op,       \* of each attempt: the await of startJob and monitor
    visit,    \* reconcileTask: its await and what it has read
    steer,    \* the await of the API's steer
    used      \* disturbances so far; closes sent to the pane, of each attempt

vars == <<task, job, worker, file, op, visit, steer, used>>

Attempt == 1..MaxAttempts
Terminal == {"completed", "failed", "cancelled"}
Status == {"none", "queued", "retryable_failed", "preparing", "dispatching",
           "running", "blocked", "needs_review"} \cup Terminal

\* wait_reason of a task about which its owner is notified (mayNotify).
ForHuman == {"human_input", "retry_exhausted", "result_conflict", "external_effect_unknown",
             "worker_unknown", "steer_acceptance_unknown"}
Requested == {"cancel_requested", "pause_requested", "resume_requested"}
Reason == ForHuman \cup Requested \cup
          {"none", "paused", "capacity_wait", "observation_unknown", "worker_stop_pending"}

\* last_error_code: automaticReasons, a stop that was claimed, an invalid result,
\* or anything else, which is for a person.
Code == {"none", "auto", "stop_pending", "invalid", "human"}

NoJob == [status |-> "none", code |-> "none", pane |-> FALSE, sent |-> FALSE,
          steer |-> "none", asks |-> "none", answer |-> "unread"]
Queued == [NoJob EXCEPT !.status = "queued"]
NoVisit == [at |-> "none", of |-> 1, stale |-> FALSE, moved |-> FALSE, desired |-> "running",
            stop |-> "none", reason |-> "none", why |-> "human_input", capacity |-> FALSE]
NoSteer == [at |-> "none", of |-> 1, read |-> FALSE]

Init ==
    /\ \E max \in Attempt :
          task = [no |-> 1, max |-> max, state |-> "active", desired |-> "running",
                  reason |-> "none", stop |-> "none", fails |-> 0, steer |-> FALSE]
    /\ job = [a \in Attempt |-> IF a = 1 THEN Queued ELSE NoJob]
    /\ worker = [a \in Attempt |-> "none"]
    /\ file = [a \in Attempt |-> "none"]
    /\ op = [a \in Attempt |-> "none"]
    /\ visit = NoVisit /\ steer = NoSteer
    /\ used = [disturbed |-> 0, closes |-> [a \in Attempt |-> 0]]

Current == task.no
Row == job[Current]

\* What disturbs is counted: a lost command, a request of the owner, a restart.
Disturbed == used.disturbed < Disturbances /\ used' = [used EXCEPT !.disturbed = @ + 1]
Smooth == used' = used

\* A running reconcileTask notices later: the revision that its writes compare,
\* and updated_at of the attempt, which it reads again before it stops a worker.
Noted(revised) ==
    visit' = IF visit.at = "none" THEN visit
             ELSE [visit EXCEPT !.stale = @ \/ revised, !.moved = @ \/ job'[visit.of] # job[visit.of]]

(***************************************************************************)
(* The tables.                                                              *)
(***************************************************************************)
\* task_attempt_completion: the end of the current attempt is the end of the task.
Ends(status) == [task EXCEPT !.state = status, !.reason = "none"]

CanRun(a) == a = Current /\ task.state = "active" /\ task.desired = "running"

\* taskMayAcceptLateResult.
MayBeLate(j) == j.sent /\ j.code \in {"auto", "stop_pending"}

\* saveJobResult throws unless the job may end this way.  What the result says,
\* completed or failed, makes no difference here.
MaySave(a) ==
    /\ a = Current
    /\ job[a].status = "running" \/ (job[a].status = "needs_review" /\ MayBeLate(job[a]))
Done(j) == [j EXCEPT !.status = "completed", !.code = "none"]
Reviewed(j, code) ==
    IF j.status \in Terminal THEN j
    ELSE [j EXCEPT !.status = "needs_review", !.code = code, !.steer = "none"]

\* tryComplete, when there is a file: what cannot be saved is put to review.
Completes(a) ==
    IF file[a] = "valid" /\ MaySave(a)
    THEN job' = [job EXCEPT ![a] = Done(@)] /\ task' = Ends("completed") /\ Noted(TRUE)
    ELSE /\ job' = [job EXCEPT ![a] = IF @.status = "cancelled" THEN @ ELSE Reviewed(@, "invalid")]
         /\ UNCHANGED task /\ Noted(FALSE)

\* Mutant: one more than the count ever reaches.
LastsLonger(fails) == fails > 3

Lasts(fails) == fails >= 3

\* wait: a doubt about the worker that lasts becomes the owner's.  The row is
\* written only when its revision is the one that was read.
WaitsAt(reason, stale) ==
    LET doubt == reason \in {"observation_unknown", "worker_stop_pending"}
        fails == IF doubt /\ task.fails < 3 THEN task.fails + 1 ELSE task.fails
        told == IF doubt /\ Lasts(fails) THEN "worker_unknown" ELSE reason
    IN  IF task.no # visit.of THEN task
        ELSE IF stale \/ task.state \in Terminal THEN [task EXCEPT !.fails = fails]
        ELSE [task EXCEPT !.fails = fails, !.reason = told,
                          !.state = IF @ = "paused" THEN @ ELSE "waiting"]
Waits(reason) == WaitsAt(reason, visit.stale)

(***************************************************************************)
(* The agents in Herdr (external).                                          *)
(***************************************************************************)
\* A turn writes the result, asks for something in its checkpoint, waits for a
\* person, stops or exits; a closed pane takes its processes with it in the end.
Closed(a) == job[a].status \in {"completed", "failed"}

WorkerWrites(a) ==
    /\ worker[a] \in {"working", "leaving"} /\ job[a].sent /\ file[a] = "none" /\ ~Closed(a)
    /\ \E f \in {"valid", "invalid"} : file' = [file EXCEPT ![a] = f]
    /\ UNCHANGED <<task, job, worker, op, visit, steer, used>>

TurnEnds(a) ==
    /\ worker[a] = "working" /\ ~Closed(a)
    /\ \E w \in {"idle", "waiting", "shell"}, asks \in {"none", "human", "limit"} :
          /\ worker' = [worker EXCEPT ![a] = w]
          /\ asks # "none" => job[a].asks = "none" /\ file[a] = "none"
          /\ job' = IF asks = "none" THEN job ELSE [job EXCEPT ![a].asks = asks]
    /\ UNCHANGED <<task, file, op, visit, steer, used>>

WorkerGoes(a) ==
    /\ worker[a] = "leaving" /\ worker' = [worker EXCEPT ![a] = "gone"]
    /\ UNCHANGED <<task, job, file, op, visit, steer, used>>

LimitLifts(a) ==
    /\ job[a].asks = "limit" /\ ~Closed(a) /\ job' = [job EXCEPT ![a].asks = "lifted"]
    /\ UNCHANGED <<task, worker, file, op, visit, steer, used>>

\* A person at the pane answers the agent, or an idle agent takes up work again.
WorkerResumes(a) ==
    /\ worker[a] \in {"idle", "waiting"} /\ job[a].sent /\ op[a] # "prompt" /\ ~Closed(a) /\ Disturbed
    /\ worker' = [worker EXCEPT ![a] = "working"]
    /\ UNCHANGED <<task, job, file, op, visit, steer>>

(***************************************************************************)
(* startJob and monitor.                                                    *)
(***************************************************************************)
OpAt(a, at) == op' = [op EXCEPT ![a] = at]

Promote ==
    /\ \E a \in Attempt : job[a].status = "retryable_failed" /\ job' = [job EXCEPT ![a].status = "queued"]
    /\ visit.at = "none"
    /\ UNCHANGED <<task, worker, file, op, visit, steer, used>>

\* scheduleRunnableJobs runs in the loop, never during a reconcileTask.
Launch(a) ==
    /\ visit.at = "none" /\ op[a] = "none" /\ CanRun(a)
    /\ \/ job[a].status = "queued" /\ OpAt(a, "access")
       \/ job[a].status = "running" /\ OpAt(a, "ingest")
    /\ UNCHANGED <<task, job, worker, file, visit, steer, used>>

\* The result path must be free; beginJobPreparation throws when the job waits no
\* longer.  task_attempt_started raises the revision.
StartChecked(a) ==
    /\ op[a] = "access"
    /\ IF file[a] # "none" THEN job' = [job EXCEPT ![a] = Reviewed(@, "human")] /\ OpAt(a, "none")
       ELSE IF job[a].status \notin {"queued", "retryable_failed"} THEN UNCHANGED job /\ OpAt(a, "none")
       ELSE /\ job' = [job EXCEPT ![a].status = "preparing", ![a].code = "none", ![a].steer = "none"]
            /\ OpAt(a, "prepare")
    /\ Noted(job'[a].status = "preparing")
    /\ UNCHANGED <<task, worker, file, steer, used>>

\* runtime.prepare starts the agent or finds the one of an earlier preparation;
\* the dispatcher may go down between that and setJobRuntime.
PrepareStarts(a) ==
    /\ op[a] = "prepare" /\ worker[a] \in {"none", "shell", "gone"}
    /\ worker' = [worker EXCEPT ![a] = "ready"]
    /\ UNCHANGED <<task, job, file, op, visit, steer, used>>

\* setJobRuntime throws when the attempt was stopped meanwhile: an agent that was
\* started after its predecessor was seen gone is left behind, without a prompt.
Prepared(a) ==
    /\ op[a] = "prepare" /\ worker[a] = "ready"
    /\ IF job[a].status = "preparing"
       THEN job' = [job EXCEPT ![a].pane = TRUE] /\ OpAt(a, "observe")
       ELSE UNCHANGED job /\ OpAt(a, "none")
    /\ Noted(FALSE) /\ UNCHANGED <<task, worker, file, steer, used>>

\* A start that left nothing behind is retried or given up.
StartFails(a, code) ==
    \E status \in {"retryable_failed", "failed"} :
        /\ job' = [job EXCEPT ![a].status = status, ![a].code = code]
        /\ task' = IF status = "failed" THEN Ends(status) ELSE task
        /\ Noted(status = "failed")

\* One that may have left an agent, of this preparation or of an earlier one, is
\* reviewed; its workspace is recorded when it could not be closed.
LeftBehind(j, left) == [Reviewed(j, "human") EXCEPT !.pane = @ \/ left]
PrepareFails(a) ==
    /\ op[a] = "prepare" /\ Disturbed /\ OpAt(a, "none")
    /\ \/ /\ job[a].status # "preparing"
          /\ UNCHANGED <<task, job, worker, visit>>
       \/ /\ job[a].status = "preparing" /\ worker[a] \in {"none", "shell"}
          /\ StartFails(a, "human") /\ UNCHANGED worker
       \/ /\ job[a].status = "preparing"
          /\ \E left \in BOOLEAN :
                /\ job' = [job EXCEPT ![a] = LeftBehind(@, left)]
                /\ worker' = [worker EXCEPT ![a] = IF left /\ @ = "none" THEN "shell" ELSE @]
          /\ Noted(FALSE) /\ UNCHANGED task
    /\ UNCHANGED <<file, steer>>

\* Mutant: the task is not looked at again before the prompt.
StartsUnasked(a) == job[a].status = "preparing"

\* Last thing before the prompt: the owner has not changed the task meanwhile.
StartAllowed(a) == CanRun(a)

\* The worker's processes are recorded, then the prompt is sent.
StartObserved(a) ==
    /\ op[a] = "observe"
    /\ \/ /\ IF worker[a] \in {"leaving", "gone"} THEN Smooth ELSE Disturbed
          /\ job' = [job EXCEPT ![a] = Reviewed(@, "human")] /\ OpAt(a, "none")
       \/ /\ worker[a] # "leaving" /\ Smooth
          /\ job' = [job EXCEPT ![a] =
                IF @.status # "preparing" THEN @
                ELSE IF ~StartAllowed(a) THEN Reviewed(@, "human")
                ELSE [@ EXCEPT !.status = "dispatching", !.sent = TRUE]]
          /\ OpAt(a, IF job'[a].status = "dispatching" THEN "prompt" ELSE "none")
    /\ worker' = [worker EXCEPT ![a] = IF op'[a] = "prompt" THEN "idle" ELSE @]
    /\ Noted(FALSE) /\ UNCHANGED <<task, file, steer>>

PromptRead(a) ==
    /\ op[a] = "prompt" /\ worker[a] = "idle"
    /\ worker' = [worker EXCEPT ![a] = "working"] /\ op' = [op EXCEPT ![a] = "read"]
    /\ UNCHANGED <<task, job, file, visit, steer, used>>

\* Without an answer the prompt is never sent again: JobSupervisor reconciles it,
\* here it ends in review.  An agent that has left has not read it.
Prompted(a) ==
    /\ op[a] \in {"prompt", "read"}
    /\ IF job[a].status # "dispatching"
       THEN UNCHANGED <<task, job, worker, visit>> /\ Smooth /\ OpAt(a, "none")
       ELSE \/ /\ op[a] = "read" /\ Smooth
               /\ job' = [job EXCEPT ![a].status = "running", ![a].code = "none"]
               /\ OpAt(a, "ingest") /\ Noted(FALSE) /\ UNCHANGED <<task, worker>>
            \/ /\ Disturbed
               /\ \E code \in {"auto", "human"} : job' = [job EXCEPT ![a] = Reviewed(@, code)]
               /\ OpAt(a, "none") /\ Noted(FALSE) /\ UNCHANGED <<task, worker>>
            \/ /\ op[a] = "prompt" /\ worker[a] = "idle" /\ Disturbed
               /\ worker' = [worker EXCEPT ![a] = "shell"]
               /\ StartFails(a, "auto") /\ OpAt(a, "none")
    /\ UNCHANGED <<file, steer>>

\* monitor: progress is ingested, then the file is read.
MonitorReads(a) ==
    /\ op[a] = "ingest"
    /\ IF file[a] # "none" THEN Completes(a) /\ OpAt(a, "none")
       ELSE UNCHANGED <<task, job, visit>> /\ OpAt(a, "wait")
    /\ UNCHANGED <<worker, file, steer, used>>

\* A long poll until the agent is idle or waits for a person.
MonitorWaited(a) ==
    /\ op[a] = "wait" /\ job[a].status = "running"
    /\ \/ /\ worker[a] = "idle" /\ Smooth
          /\ IF file[a] # "none" THEN Completes(a)
             ELSE job' = [job EXCEPT ![a] = Reviewed(@, "auto")] /\ UNCHANGED task /\ Noted(FALSE)
       \/ /\ worker[a] = "waiting" /\ Smooth
          /\ job' = [job EXCEPT ![a].status = "blocked", ![a].code = "human"]
          /\ UNCHANGED task /\ Noted(FALSE)
       \/ /\ IF worker[a] \in {"shell", "leaving", "gone"} THEN Smooth ELSE Disturbed
          /\ job' = [job EXCEPT ![a] = Reviewed(@, "auto")]
          /\ UNCHANGED task /\ Noted(FALSE)
    /\ OpAt(a, "none") /\ UNCHANGED <<worker, file, steer>>

\* A poll that ends with nothing is taken up again while the job may run.
MonitorEnds(a) ==
    /\ op[a] = "wait" /\ ~(job[a].status = "running" /\ CanRun(a))
    /\ OpAt(a, "none") /\ UNCHANGED <<task, job, worker, file, visit, steer, used>>

(***************************************************************************)
(* reconcileTask.                                                           *)
(***************************************************************************)
VisitAt(at) == visit' = [visit EXCEPT !.at = at]
VisitEnds == visit' = NoVisit
VisitWaits(reason) == task' = Waits(reason) /\ VisitEnds /\ UNCHANGED job

Candidate ==
    /\ task.state \notin Terminal /\ ~(task.state = "paused" /\ task.reason = "paused")
    /\ \/ Row.status \in {"needs_review", "blocked"}
       \/ task.desired # "running"
       \/ task.reason \in Requested \cup {"worker_stop_pending", "steer_acceptance_unknown"}

\* taskRecoveryReason: only a lost observation is recovered without a person.
Recovery(j) ==
    IF j.status = "blocked" \/ j.steer = "dispatching" THEN "human_input"
    ELSE IF j.code = "invalid" THEN "result_conflict"
    ELSE IF j.code = "auto" THEN "observation_unknown" ELSE "human_input"

\* finishSteer: the answer counts for the checkpoint the owner had before him.
FinishSteer(j) ==
    /\ job' = [job EXCEPT ![Current] = [j EXCEPT !.answer = IF @ = "asked" THEN "answered" ELSE @]]
    /\ task' = IF task.desired = "running" /\ task.reason = "steer_acceptance_unknown"
               THEN [task EXCEPT !.state = "active", !.reason = "none", !.steer = FALSE]
               ELSE task

\* One reconciliation, cancellation or steering of an attempt at a time.
VisitBegins ==
    /\ visit.at = "none" /\ steer.at # "sent" /\ Candidate
    /\ IF task.reason = "steer_acceptance_unknown" /\ Row.steer = "accepted" /\ task.steer
       THEN FinishSteer(Row) /\ UNCHANGED visit
       ELSE /\ visit' = [NoVisit EXCEPT !.at = "read", !.of = Current, !.desired = task.desired,
                            !.stop = task.stop, !.reason = task.reason, !.why = Recovery(Row)]
            /\ UNCHANGED <<task, job>>
    /\ UNCHANGED <<worker, file, op, steer, used>>

\* Mutant: a question that was passed on counts as dealt with.
UnansweredUnread(a) == job[a].answer = "unread"

\* checkpointAnswered.
Unanswered(a) == job[a].answer # "answered"

\* What the old attempt asked for goes to its successor as text only.
Interrupted(j) == [j EXCEPT !.status = "cancelled", !.code = "human", !.steer = "none",
                            !.asks = "none", !.answer = "unread"]

\* Mutant: a result written since the round's read is not seen.
HasResultRead(a) == FALSE

\* The file is looked at again before the stop and before the replacement.
HasResult(a) == file[a] # "none"

\* Mutant: off by one at the owner's budget of attempts.
ExhaustedLate(no) == no > task.max

Exhausted(no) == no >= task.max

\* replaceStopped, in one transaction: the owner's wish comes first, then the
\* budget.  A notice that is being delivered makes beginJobCancellation throw.
Replaces ==
    LET old == task.no
    IN  IF task.stop # "stopped" \/ task.state \in Terminal \/ HasResult(old)
        THEN VisitWaits("external_effect_unknown") /\ Smooth
        ELSE \/ /\ task.desired = "paused" /\ Smooth
                /\ task' = [task EXCEPT !.reason = "paused"] /\ VisitEnds /\ UNCHANGED job
             \/ /\ task.desired # "paused" /\ Disturbed
                /\ VisitWaits("external_effect_unknown")
             \/ /\ task.desired = "cancelled" /\ Smooth
                /\ job' = [job EXCEPT ![old].status = "cancelled"]
                /\ task' = Ends("cancelled") /\ VisitEnds
             \/ /\ task.desired = "running" /\ Smooth /\ Exhausted(old)
                /\ task' = WaitsAt("retry_exhausted", FALSE) /\ VisitEnds /\ UNCHANGED job
             \/ /\ task.desired = "running" /\ Smooth /\ ~Exhausted(old)
                /\ job' = [job EXCEPT ![old] = Interrupted(@), ![old + 1] = Queued]
                /\ task' = [task EXCEPT !.no = old + 1, !.state = "active", !.reason = "none",
                                        !.stop = "none", !.fails = 0]
                /\ VisitEnds

\* The result is evidence of this attempt; then the checkpoint, which may ask for
\* a person; then what was stopped before, or the reason of the last failure.
VisitReads ==
    LET a == visit.of
        capacity == job[a].asks \in {"limit", "lifted"} /\ Unanswered(a)
        stored == [job EXCEPT ![a].answer = IF job[a].asks # "none" /\ @ = "unread" THEN "stored" ELSE @]
        Gated(reason) == job' = stored /\ task' = Waits(reason) /\ VisitEnds /\ Smooth
    IN  /\ visit.at = "read"
        /\ IF file[a] = "invalid" THEN VisitWaits("result_conflict") /\ Smooth
           ELSE IF file[a] = "valid"
           THEN /\ Smooth /\ VisitEnds
                /\ IF MaySave(a)
                   THEN job' = [job EXCEPT ![a] = Done(@)] /\ task' = Ends("completed")
                   ELSE task' = Waits("external_effect_unknown") /\ UNCHANGED job
           ELSE IF visit.reason = "steer_acceptance_unknown"
           THEN VisitWaits("steer_acceptance_unknown") /\ Smooth
           ELSE IF visit.desired = "running" /\ job[a].asks = "human" /\ Unanswered(a)
           THEN Gated("human_input")
           ELSE IF visit.desired = "running" /\ job[a].asks = "limit" /\ Unanswered(a)
           THEN Gated("capacity_wait")
           ELSE IF visit.stop = "stopped" THEN Replaces
           ELSE IF /\ visit.desired = "running" /\ visit.stop = "none"
                   /\ visit.why # "observation_unknown" /\ visit.reason # "resume_requested" /\ ~capacity
           THEN Gated(visit.why)
           ELSE /\ job' = stored /\ Smooth /\ UNCHANGED task
                /\ visit' = [visit EXCEPT !.capacity = capacity,
                                !.at = IF visit.stop = "attempting" THEN "probe" ELSE "observe"]
        /\ UNCHANGED <<worker, file, op, steer>>

\* observeWorker: what the worker is, or unknown; a worker whose recorded processes
\* and pane are all gone is stopped.
Observed(a) ==
    IF ~job[a].pane \/ worker[a] \in {"none", "leaving"} THEN "unknown"
    ELSE IF worker[a] \in {"working", "waiting"} THEN worker[a]
    ELSE IF worker[a] = "gone" THEN "stopped" ELSE "inactive"

\* reconnect: the same attempt goes on.
Reconnects ==
    LET stays == visit.stale \/ task.desired # "running" \/ task.stop \notin {"none", "not_sent"}
    IN  /\ VisitEnds
        /\ IF stays THEN UNCHANGED <<task, job>>
           ELSE /\ task' = [task EXCEPT !.state = "active", !.reason = "none", !.stop = "none", !.fails = 0]
                /\ job' = [job EXCEPT ![visit.of] =
                              IF @.status \in {"needs_review", "blocked"}
                              THEN [@ EXCEPT !.status = "running", !.code = "none"] ELSE @]

\* beginStop, the compare-and-set before the only write to the worker.
Begins(stop) == stop = "not_sent" /\ ~visit.stale

\* Mutant: the close is sent before its intent is on the row.
IntentAfter(closes, claimed) == claimed

Intent(closes, claimed) == IF closes THEN "attempting" ELSE claimed

\* claimStop, and beginStop right after it: nothing comes between.  It throws
\* when the row has moved, or a result or a steering is there to be looked at.
Stops(seen) ==
    LET a == visit.of
        claimed == IF task.stop = "none" THEN "not_sent" ELSE task.stop
        closes == seen # "stopped" /\ Begins(claimed)
    IN  IF visit.stop = "none" /\ (visit.stale \/ HasResult(a) \/ job[a].steer = "dispatching")
        THEN VisitWaits("external_effect_unknown")
        ELSE /\ job' = IF visit.stop = "none"
                       THEN [job EXCEPT ![a].status = "needs_review", ![a].code = "stop_pending"] ELSE job
             /\ task' = [task EXCEPT !.stop = Intent(closes, claimed),
                                     !.reason = IF visit.stop = "none" THEN "worker_stop_pending" ELSE @]
             /\ VisitAt(IF closes THEN "close" ELSE "probe")

\* Several reads of Herdr, any of which may fail.
Looks(seen) == IF seen = Observed(visit.of) THEN Smooth ELSE seen = "unknown" /\ Disturbed

\* A worker at work is kept while the task runs; an idle one is looked at twice.
VisitObserves ==
    /\ visit.at = "observe"
    /\ \E seen \in {"unknown", "working", "waiting", "inactive", "stopped"} :
          /\ Looks(seen)
          /\ IF seen = "working" /\ visit.desired = "running" THEN Reconnects
             ELSE IF seen = "waiting" /\ visit.desired = "running"
             THEN VisitWaits(IF visit.capacity THEN "capacity_wait" ELSE "human_input")
             ELSE IF seen = "unknown" THEN VisitWaits("observation_unknown")
             ELSE IF visit.moved THEN VisitEnds /\ UNCHANGED <<task, job>>
             ELSE IF visit.stop = "none" /\ visit.desired = "running"
             THEN VisitAt("again") /\ UNCHANGED <<task, job>>
             ELSE Stops(seen)
    /\ UNCHANGED <<worker, file, op, steer>>

VisitObservesAgain ==
    /\ visit.at = "again"
    /\ \E seen \in {"unknown", "working", "waiting", "inactive", "stopped"} :
          /\ Looks(seen)
          /\ IF seen \in {"inactive", "stopped"} THEN Stops(seen) ELSE VisitWaits("observation_unknown")
    /\ UNCHANGED <<worker, file, op, steer>>

\* retireWorker closes the recorded pane; whether it was closed is only observed.
VisitCloses ==
    /\ visit.at = "close" /\ VisitAt("probe")
    /\ \/ /\ worker' = [worker EXCEPT ![visit.of] = "leaving"]
          /\ used' = [used EXCEPT !.closes[visit.of] = @ + 1]
       \/ /\ used.disturbed < Disturbances /\ UNCHANGED worker
          /\ used' = [used EXCEPT !.closes[visit.of] = @ + 1, !.disturbed = @ + 1]
    /\ UNCHANGED <<task, job, file, op, steer>>

\* Mutant: the pane alone is looked for.
RetiredPane(a) == worker[a] \in {"leaving", "gone"}

\* workerRetired: every recorded process, the agent and the pane are gone.
Retired(a) == worker[a] = "gone"

VisitProbes ==
    LET gone == Retired(visit.of)
    IN  /\ visit.at = "probe"
        /\ \/ /\ IF gone THEN Disturbed ELSE Smooth
              /\ VisitWaits("worker_stop_pending")
           \/ /\ gone /\ Smooth /\ UNCHANGED job
              /\ IF task.stop \in {"not_sent", "attempting"}
                 THEN task' = [task EXCEPT !.stop = "stopped"] /\ VisitAt("replace")
                 ELSE task' = Waits("external_effect_unknown") /\ VisitEnds
        /\ UNCHANGED <<worker, file, op, steer>>

\* No await lies between the two transactions, but the process may end.
VisitReplaces ==
    /\ visit.at = "replace" /\ Replaces
    /\ UNCHANGED <<worker, file, op, steer>>

(***************************************************************************)
(* The owner: control, steer and retry with the revision just read.        *)
(***************************************************************************)
Unstarted == ~Row.sent /\ ~Row.pane /\ Row.status \in {"queued", "blocked"}

Control(action) ==
    /\ Disturbed /\ task.state \notin Terminal
    /\ action = "resume" => task.state = "paused"
    /\ action = "pause" => Row.status # "blocked"
    /\ LET desired == [pause |-> "paused", resume |-> "running", cancel |-> "cancelled"][action]
           reason == [pause |-> "pause_requested", resume |-> "resume_requested",
                      cancel |-> "cancel_requested"][action]
           status == [pause |-> "blocked", resume |-> "queued", cancel |-> "cancelled"][action]
           state == [pause |-> "paused", resume |-> "active", cancel |-> "cancelled"][action]
       IN  IF Unstarted
           THEN /\ job' = [job EXCEPT ![Current].status = status,
                                      ![Current].code = IF action = "resume" THEN "none" ELSE "human"]
                /\ task' = [task EXCEPT !.desired = desired, !.state = state,
                                        !.reason = IF action = "pause" THEN "paused" ELSE "none"]
           ELSE /\ UNCHANGED job
                /\ task' = [task EXCEPT !.desired = desired, !.reason = reason,
                                        !.state = IF action = "pause" THEN "paused" ELSE "waiting"]
    /\ Noted(TRUE) /\ UNCHANGED <<worker, file, op, steer>>

\* retry: more attempts, only for one that was stopped at the end of its budget.
Retry(max) ==
    /\ Disturbed /\ max > task.no
    /\ task.reason = "retry_exhausted" /\ task.stop = "stopped" /\ task.desired = "running"
    /\ task' = [task EXCEPT !.max = max, !.state = "waiting", !.reason = "resume_requested"]
    /\ UNCHANGED job /\ Noted(TRUE) /\ UNCHANGED <<worker, file, op, steer>>

\* prepareSteer keeps the instruction before anything is sent.  An acceptance of
\* an earlier instruction does not speak for this one.
SteerPrepares ==
    /\ Disturbed /\ steer.at = "none"
    /\ task.state = "active" \/ (task.state = "waiting" /\ task.reason = "human_input")
    /\ task.desired = "running" /\ task.stop = "none"
    /\ task' = [task EXCEPT !.state = "waiting", !.reason = "steer_acceptance_unknown", !.steer = TRUE]
    /\ job' = [job EXCEPT ![Current].steer = IF @ = "accepted" THEN "none" ELSE @,
                          ![Current].answer = IF @ = "stored" THEN "asked" ELSE @]
    /\ steer' = [NoSteer EXCEPT !.at = "begin", !.of = Current]
    /\ Noted(TRUE) /\ UNCHANGED <<worker, file, op>>

PendingSteer(a) ==
    a = Current /\ task.steer /\ task.reason = "steer_acceptance_unknown" /\ task.stop = "none"

\* steer, in its turn: a job that waits takes the instruction into its prompt, a
\* running one, or one that waits for this very answer, is sent it.
SteerBegins ==
    /\ steer.at = "begin" /\ visit.at = "none"
    /\ LET a == steer.of
           waits == job[a].status \in {"queued", "retryable_failed"}
           sends == \/ job[a].status = "running"
                    \/ PendingSteer(a) /\ job[a].status \in {"blocked", "needs_review"}
       IN  IF waits /\ a = Current
           THEN FinishSteer([Row EXCEPT !.steer = "accepted"]) /\ steer' = NoSteer
           ELSE /\ UNCHANGED task
                /\ IF sends THEN /\ job' = [job EXCEPT ![a].steer = "dispatching"]
                                 /\ steer' = [steer EXCEPT !.at = "sent"]
                   ELSE UNCHANGED job /\ steer' = NoSteer
    /\ UNCHANGED <<worker, file, op, visit, used>>

SteerRead ==
    /\ steer.at = "sent" /\ ~steer.read /\ worker[steer.of] \in {"ready", "idle", "working", "waiting"}
    /\ steer' = [steer EXCEPT !.read = TRUE]
    /\ worker' = [worker EXCEPT ![steer.of] = "working"]
    /\ UNCHANGED <<task, job, file, op, visit, used>>

\* The answer: accepted; refused, because the agent waits or is gone; or unknown.
SteerAnswered ==
    LET a == steer.of
        j == job[a]
        cleared == [j EXCEPT !.steer = IF @ = "dispatching" THEN "none" ELSE @]
        accepted == [j EXCEPT !.steer = "accepted",
                       !.status = IF PendingSteer(a) /\ @ \in {"blocked", "needs_review"} THEN "running" ELSE @,
                       !.code = IF PendingSteer(a) /\ j.status \in {"blocked", "needs_review"} THEN "none" ELSE @]
    IN  /\ steer.at = "sent" /\ steer' = NoSteer
        /\ \/ /\ steer.read /\ Smooth
              /\ IF j.steer # "dispatching" THEN UNCHANGED <<task, job>>
                 ELSE IF a = Current THEN FinishSteer(accepted)
                 ELSE job' = [job EXCEPT ![a] = accepted] /\ UNCHANGED task
           \/ /\ Disturbed /\ job' = [job EXCEPT ![a] = Reviewed(@, "human")] /\ UNCHANGED task
           \/ /\ ~steer.read /\ worker[a] = "waiting" /\ Smooth /\ UNCHANGED task
              /\ job' = [job EXCEPT ![a] = IF @.status = "running"
                                          THEN [cleared EXCEPT !.status = "blocked", !.code = "human"]
                                          ELSE cleared]
           \/ /\ ~steer.read /\ worker[a] \in {"none", "shell", "leaving", "gone"} /\ Smooth /\ UNCHANGED task
              /\ job' = [job EXCEPT ![a] = Reviewed(cleared, "auto")]
        /\ Noted(FALSE) /\ UNCHANGED <<worker, file, op>>

(***************************************************************************)
(* The process: recoverStaleJobs on its way up.                             *)
(***************************************************************************)
Crash ==
    /\ Disturbed
    /\ job' = [a \in Attempt |->
          IF job[a].status = "preparing" THEN [job[a] EXCEPT !.status = "retryable_failed", !.code = "human"]
          ELSE IF job[a].status = "dispatching" \/ job[a].steer = "dispatching"
          THEN [job[a] EXCEPT !.status = "needs_review", !.steer = "none",
                              !.code = IF job[a].status = "dispatching" THEN "auto" ELSE "human"]
          ELSE job[a]]
    /\ op' = [a \in Attempt |-> "none"] /\ visit' = NoVisit /\ steer' = NoSteer
    /\ UNCHANGED <<task, worker, file>>

Starting(a) == \/ Launch(a) \/ StartChecked(a) \/ PrepareStarts(a) \/ Prepared(a) \/ PrepareFails(a)
               \/ StartObserved(a) \/ PromptRead(a) \/ Prompted(a)
               \/ MonitorReads(a) \/ MonitorWaited(a) \/ MonitorEnds(a)
Visiting == \/ VisitBegins \/ VisitReads \/ VisitObserves \/ VisitObservesAgain
            \/ VisitCloses \/ VisitProbes
Owner == \/ \E action \in {"pause", "resume", "cancel"} : Control(action)
         \/ \E max \in Attempt : Retry(max)
         \/ SteerPrepares
Steering == SteerBegins \/ SteerRead \/ SteerAnswered
Workers(a) == WorkerWrites(a) \/ TurnEnds(a) \/ WorkerGoes(a) \/ LimitLifts(a) \/ WorkerResumes(a)

\* What follows stopped in the same turn of the event loop is let through alone.
Next == \/ VisitReplaces \/ Crash \/ \E a \in Attempt : Workers(a)
        \/ visit.at # "replace" /\ (Promote \/ Visiting \/ Owner \/ Steering \/ \E a \in Attempt : Starting(a))

Spec == Init /\ [][Next]_vars

\* The loop goes on, commands come back, turns end, limits are lifted.  Nothing is
\* assumed of the owner, nor of what a command brings.
Work(a) == \/ visit.at # "replace" /\ (Starting(a) \/ Promote)
           \/ TurnEnds(a) \/ WorkerGoes(a) \/ LimitLifts(a)
Rounds == VisitReplaces \/ Visiting
FairSpec == Spec /\ \A a \in Attempt : WF_vars(Work(a)) /\ WF_vars(Rounds) /\ WF_vars(Steering)

(***************************************************************************)
(* Properties.                                                              *)
(***************************************************************************)
TypeOK ==
    /\ task \in [no : Attempt, max : Attempt, state : {"active", "waiting", "paused"} \cup Terminal,
                 desired : {"running", "paused", "cancelled"}, reason : Reason,
                 stop : {"none", "not_sent", "attempting", "stopped"}, fails : 0..3, steer : BOOLEAN]
    /\ job \in [Attempt -> [status : Status, code : Code, pane : BOOLEAN, sent : BOOLEAN,
                            steer : {"none", "dispatching", "accepted"},
                            asks : {"none", "human", "limit", "lifted"},
                            answer : {"unread", "stored", "asked", "answered"}]]
    /\ worker \in [Attempt -> {"none", "ready", "idle", "working", "waiting", "shell", "leaving", "gone"}]
    /\ file \in [Attempt -> {"none", "valid", "invalid"}]
    /\ op \in [Attempt -> {"none", "access", "prepare", "observe", "prompt", "read", "ingest", "wait"}]
    /\ visit \in [at : {"none", "read", "observe", "again", "close", "probe", "replace"}, of : Attempt,
                  stale : BOOLEAN, moved : BOOLEAN, capacity : BOOLEAN,
                  desired : {"running", "paused", "cancelled"}, reason : Reason, why : ForHuman \cup {"observation_unknown"},
                  stop : {"none", "not_sent", "attempting", "stopped"}]
    /\ steer \in [at : {"none", "begin", "sent"}, of : Attempt, read : BOOLEAN]
    /\ used \in [disturbed : 0..Disturbances, closes : [Attempt -> Nat]]

\* Two attempts of a task never have workers with a prompt at the same time, whatever
\* was paused, resumed, retried or lost: the next attempt is created by replaceStopped
\* after workerRetired has seen the processes and the pane of the last one gone, and
\* a preparation that outlives that cannot send a prompt any more.  The pane
\* of an attempt is closed at most once (beginStop): a close whose outcome was lost,
\* also in a crash, is only observed afterwards.  And an attempt that was interrupted
\* or cancelled had written no result: stopping, replacing and the late result are
\* settled one way only.
WorkersAccounted ==
    /\ Cardinality({a \in Attempt : worker[a] \in {"idle", "working", "waiting", "leaving"}}) <= 1
    /\ \A a \in Attempt : used.closes[a] <= 1 /\ (job[a].status = "cancelled" => file[a] = "none")

\* Nothing is started against the owner's latest wish: a prompt is sent, and an
\* attempt is added, only while the task is to run, though both were decided
\* before an await during which it may have been paused or cancelled.  Nor is a
\* question to a person got round: an attempt whose checkpoint asks for one is
\* replaced only when the answer was accepted, also over pause and resume.  The
\* exception is a resume while the paused attempt is being stopped: replaceStopped
\* sees the new wish and the question is not read again.
Replaced == task'.no > task.no
Dispatched == \E a \in Attempt : job'[a].status = "dispatching" /\ job[a].status # "dispatching"
Asking == Row.asks = "human" /\ Row.answer \in {"stored", "asked"}
OwnerDecides ==
    [][/\ Replaced \/ Dispatched => task.desired = "running" /\ task.state \notin Terminal
       /\ Replaced => ~Asking \/ visit.stale]_vars

\* Where the code leaves a task with no reason for its owner: one paused or
\* cancelled between two attempts to prepare; an agent that still waits when its
\* usage limit was lifted; and one resumed before it was stopped, whose first
\* observation failed: its job starts or runs on, or waits to be started again,
\* but is not monitored and no candidate.
LeftAlone == \/ Row.status \in {"queued", "retryable_failed"} /\ task.desired # "running"
             \/ task.reason = "capacity_wait" /\ worker[Current] = "waiting"
             \/ /\ Row.status \in {"queued", "retryable_failed", "running"}
                /\ task.reason \in {"capacity_wait", "observation_unknown"}

\* A task ends, rests paused, or says what it needs its owner for, in spite of every
\* lost command, crash and request: it is never observed for ever.
EveryTaskSettles ==
    task.state \notin Terminal
      ~> \/ task.state \in Terminal \/ task.reason \in ForHuman \/ LeftAlone
         \/ task.state = "paused" /\ task.reason = "paused"
=============================================================================
