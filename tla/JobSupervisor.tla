--------------------------- MODULE JobSupervisor ---------------------------
(* The life of one background job: its row in the database, the Herdr agent *)
(* that works on it, the result file the agent writes, and the supervisor   *)
(* operations that start it, watch it, steer it, cancel it and clean up      *)
(* after it.  An action ends where the code awaits: everything up to the     *)
(* next await happens in one step, and what another actor does during the    *)
(* await is an action of its own.  Jobs meet only in the choice of the next  *)
(* one to start, which is left out.                                        *)
EXTENDS Naturals, FiniteSets

CONSTANTS MaxAttempts,  \* config.maxAttempts
          CrashLimit,   \* bound: crashes and shutdowns of the Dispatcher
          SteerLimit    \* bound: instructions sent to the running job

ASSUME Limits == /\ MaxAttempts \in Nat \ {0}
                 /\ CrashLimit \in Nat
                 /\ SteerLimit \in Nat

VARIABLES kind,     \* whose job it is: a Slack thread's or a schedule's
          job,      \* the jobs row
          notice,   \* the row's completion event: how far it is, what it tells
          cleanup,  \* the job_terminal_worker_cleanups row
          file,     \* the result file
          agent,    \* the Herdr agent with the job's name
          pressed,  \* schedule: withdrawn, or past its execution deadline
          process,  \* the Dispatcher
          op,       \* the operation in `active`: startJob or monitor
          ctl,      \* the control that `serialized` runs: steer or cancel
          rec,      \* where the main loop waits for a scheduled job
          clean,    \* terminalCleanupOperation
          prompts,  \* how often the agent read the job's prompt
          keys,     \* how often the terminal cleanup sent its ctrl+c
          steers, crashes

row == <<job, notice, cleanup>>
memory == <<op, ctl, rec, clean>>
outside == <<file, agent, pressed>>
counts == <<prompts, keys, steers, crashes>>
vars == <<kind, row, outside, process, memory, counts>>

Terminal == {"completed", "failed", "cancelled"}
Waiting == {"queued", "retryable_failed"}
Status == Terminal \cup Waiting \cup
          {"preparing", "dispatching", "running", "blocked", "cancelling", "needs_review"}
Valid == {"completed", "failed"}

\* last_error_code, as far as a decision of the code reads it.
Unprompted == {"stale_preparing", "stale_preparing_agent_unverified"}
CancelUnknown == {"cancel_acceptance_unknown", "cancel_exit_unknown", "ambiguous_cancel_acceptance"}
PromptUnknown == {"ambiguous_prompt_acceptance", "prompt_acceptance_unknown", "prompt_interrupted",
                  "agent_wait_observation_unknown"}
Recoverable == PromptUnknown \cup CancelUnknown \cup {"invalid_result_agent_stopped"}
Code == Unprompted \cup Recoverable \cup
        {"none", "invalid_result", "invalid_result_agent_stop_unknown", "workspace_cleanup_failed",
         "cancel_worker_unverified", "terminal_steer_worker_unverified", "cancelled", "other"}

NoOp == [at |-> "none", stale |-> FALSE, made |-> FALSE, known |-> FALSE, read |-> FALSE]
NoCtl == [at |-> "none", unprompted |-> FALSE, read |-> FALSE]
NoNotice == [at |-> "none", of |-> "none"]

Init == /\ kind \in {"slack", "schedule"}
        /\ job = [status |-> "queued", code |-> "none", attempts |-> 0, steer |-> "none",
                  result |-> "none", sent |-> FALSE, workspace |-> FALSE, told |-> {}]
        /\ notice = NoNotice
        /\ cleanup = "pending"
        /\ file = "none"
        /\ agent = "absent"
        /\ pressed = "none"
        /\ process = "up"
        /\ op = NoOp
        /\ ctl = NoCtl
        /\ rec = "none"
        /\ clean = "none"
        /\ prompts = 0 /\ keys = 0 /\ steers = 0 /\ crashes = 0

(***************************************************************************)
(* What Herdr answers.  A read may always fail; during a shutdown it is      *)
(* aborted, which reads as a failure.  "agent_not_found" is an answer only   *)
(* when no agent has the name: the code takes it for proof.                  *)
(***************************************************************************)
Looks(answer) == \/ answer = "unknown"
                 \/ answer = agent /\ process = "up"
Quiet == {"idle", "absent"}

\* What ctrl+c does: it interrupts a turn, and may end a shell that waits.
Interrupted == IF agent \in {"working", "blocked"} THEN {"idle"} ELSE {agent, "absent"}

(***************************************************************************)
(* Writes of the row.                                                       *)
(***************************************************************************)
Unfinished(status, code) == [job EXCEPT !.status = status, !.code = code]

\* Mutant: a late observation rewrites a finished job.
NeedsReviewAlways(code) == [job EXCEPT !.status = "needs_review", !.code = code, !.steer = "none"]

\* markJobNeedsReview: a finished job stays what it is.
NeedsReview(code) ==
    IF job.status \in Terminal THEN job
    ELSE [job EXCEPT !.status = "needs_review", !.code = code, !.steer = "none"]

\* markJobBlocked: only from the status the caller names.
Blocked(from) == IF job.status = from THEN Unfinished("blocked", "other") ELSE job

\* markJobCancelled: throws, and leaves the row, unless it is cancelling.
Cancelled == IF job.status = "cancelling" THEN Unfinished("cancelled", "cancelled") ELSE job

\* Mutant: off by one at the attempt limit.
RetriedLate(code) ==
    Unfinished(IF job.attempts > MaxAttempts THEN "failed" ELSE "retryable_failed", code)

Retried(code) ==
    Unfinished(IF job.attempts >= MaxAttempts THEN "failed" ELSE "retryable_failed", code)

\* saveJobResult: the statuses it accepts, the deadline of a schedule's run,
\* and the notice of an ambiguous outcome that must not have gone too far.
Superseding == job.status = "needs_review" /\ notice.at # "none"
MaySave == /\ \/ job.status \in {"running", "cancelling"}
              \/ job.status = "needs_review" /\ job.code \in Recoverable
           /\ kind = "schedule" => ~(job.sent /\ pressed = "overdue")
           /\ Superseding => notice.at # (IF kind = "slack" THEN "held" ELSE "done")
Saved == [job EXCEPT !.status = file, !.result = file,
             !.told = IF kind = "schedule" THEN @ \cup {file} ELSE @,
             !.code = IF job.status = "cancelling" THEN "cancel_worker_unverified"
                      ELSE IF job.steer # "none" THEN "terminal_steer_worker_unverified"
                      ELSE IF file = "failed" THEN "other" ELSE "none"]
\* The run of a schedule is told in the same transaction.
SavedNotice == IF kind = "schedule" THEN [at |-> "queued", of |-> file] ELSE NoNotice

AlreadySaved == file \in Valid /\ job.result = file /\ job.status = file

\* tryComplete: read the file; save it, or send the job to review.
Completes(terminalAgent) == file # "none" \/ terminalAgent
TryComplete ==
    IF AlreadySaved THEN UNCHANGED <<job, notice>>
    ELSE IF file \in Valid /\ MaySave
         THEN job' = Saved /\ notice' = SavedNotice
         ELSE /\ job' = NeedsReview(IF file = "none" THEN "other" ELSE "invalid_result")
              /\ UNCHANGED notice

(***************************************************************************)
(* The agent, and the people around it.                                     *)
(***************************************************************************)
AgentReports ==
    /\ agent = "working" /\ file \notin Valid
    /\ \E f \in Valid \cup {"invalid"} : file' = f
    /\ UNCHANGED <<kind, row, agent, pressed, process, memory, counts>>

AgentTurns ==
    /\ \/ agent = "working" /\ agent' \in {"idle", "blocked"}
       \/ agent = "blocked" /\ agent' = "working"
    /\ UNCHANGED <<kind, row, file, pressed, process, memory, counts>>

AgentVanishes ==
    /\ agent # "absent" /\ agent' = "absent"
    /\ UNCHANGED <<kind, row, file, pressed, process, memory, counts>>

\* The schedule is cancelled or expires; or an hour passes after the prompt.
Press ==
    /\ kind = "schedule" /\ pressed = "none"
    /\ \/ pressed' = "withdrawn"
       \/ pressed' = "overdue" /\ job.sent
    /\ UNCHANGED <<kind, row, file, agent, process, memory, counts>>

\* The event queue hands the notice to the resident agent, which settles it.
NoticeTaken ==
    /\ notice.at = "queued" /\ notice' = [notice EXCEPT !.at = "held"]
    /\ UNCHANGED <<kind, job, cleanup, outside, process, memory, counts>>

NoticeSettled ==
    /\ notice.at = "held" /\ notice' = [notice EXCEPT !.at = "done"]
    /\ UNCHANGED <<kind, job, cleanup, outside, process, memory, counts>>

(***************************************************************************)
(* startJob.                                                                *)
(***************************************************************************)
OpEnds == op' = NoOp
OpAt(at) == op' = [op EXCEPT !.at = at]
Stopping == process = "stopping"
Alive == process # "down"

\* beginRunnableCycle: a retry that is due is queued again; the code of the
\* failure stays on the row.
Promote ==
    /\ process = "up" /\ rec = "none" /\ job.status = "retryable_failed"
    /\ job' = [job EXCEPT !.status = "queued"]
    /\ UNCHANGED <<kind, notice, cleanup, outside, process, memory, counts>>

\* scheduleRunnableJobs and launch, up to the first await of the operation.
Launch ==
    /\ process = "up" /\ rec = "none" /\ op.at = "none"
    /\ \/ job.status = "queued"
          /\ op' = [NoOp EXCEPT !.at = "access", !.stale = (job.code = "stale_preparing")]
       \/ job.status = "running" /\ op' = [NoOp EXCEPT !.at = "ingest"]
    /\ UNCHANGED <<kind, row, outside, process, ctl, rec, clean, counts>>

\* The result path must be free; then beginJobPreparation, which throws when
\* the row stopped waiting, and the call of runtime.prepare.
StartChecked ==
    /\ Alive /\ op.at = "access"
    /\ IF file # "none" THEN job' = NeedsReview("other") /\ OpEnds
       ELSE IF Stopping \/ job.status \notin Waiting THEN UNCHANGED job /\ OpEnds
       ELSE /\ job' = [job EXCEPT !.status = "preparing", !.code = "none", !.steer = "none",
                                  !.attempts = @ + 1]
            /\ OpAt("prepare")
    /\ UNCHANGED <<kind, notice, cleanup, outside, process, ctl, rec, clean, counts>>

\* runtime.prepare starts the agent; one that is there already is reused for a
\* Slack job and refused for a scheduled one.
PrepareStarts ==
    /\ Alive /\ op.at = "prepare" /\ agent = "absent" /\ ~op.made
    /\ agent' = "idle" /\ op' = [op EXCEPT !.made = TRUE]
    /\ UNCHANGED <<kind, row, file, pressed, process, ctl, rec, clean, counts>>

\* setJobRuntime records the workspace while the job prepares or is being
\* cancelled, and throws otherwise; the worker is observed next.
Prepared ==
    /\ Alive /\ op.at = "prepare" /\ ~Stopping
    /\ op.made \/ (kind = "slack" /\ agent # "absent")
    /\ IF job.status \in {"preparing", "cancelling"}
       THEN job' = [job EXCEPT !.workspace = TRUE] /\ OpAt("baseline")
       ELSE UNCHANGED job /\ OpEnds
    /\ UNCHANGED <<kind, notice, cleanup, outside, process, ctl, rec, clean, counts>>

\* A failed preparation closes the workspace it opened.
PrepareFails ==
    /\ Alive /\ op.at = "prepare"
    /\ agent' = IF op.made THEN "absent" ELSE agent
    /\ OpEnds
    /\ IF Stopping \/ job.status # "preparing" THEN UNCHANGED job
       ELSE job' = IF op.stale THEN NeedsReview("stale_preparing_agent_unverified")
                   ELSE Retried("other")
    /\ UNCHANGED <<kind, notice, cleanup, file, pressed, process, ctl, rec, clean, counts>>

\* PreparedWorkspaceCleanupError: the workspace could not be closed either.
PrepareLeaks ==
    /\ Alive /\ op.at = "prepare" /\ op.made
    /\ OpEnds
    /\ job' = IF job.status \in {"preparing", "cancelling"}
              THEN [NeedsReview("workspace_cleanup_failed") EXCEPT !.workspace = TRUE]
              ELSE job
    /\ UNCHANGED <<kind, notice, cleanup, outside, process, ctl, rec, clean, counts>>

\* The worker and the agent are read before the prompt: with that baseline a
\* later read can prove progress.  beginJobDispatch precedes the prompt.
BaselineRead ==
    /\ Alive /\ op.at = "baseline"
    /\ \E known \in BOOLEAN :
          /\ known => agent # "absent"
          /\ IF Stopping \/ job.status # "preparing" THEN UNCHANGED job /\ OpEnds
             ELSE /\ job' = [job EXCEPT !.status = "dispatching", !.sent = TRUE]
                  /\ op' = [op EXCEPT !.at = "prompt", !.known = known]
    /\ UNCHANGED <<kind, notice, cleanup, outside, process, ctl, rec, clean, counts>>

\* A stalled prompt may be read while it is reconciled; one whose command
\* ended with an answer, or with the process, is not read later.
PromptRead ==
    /\ op.at \in {"prompt", "reconcile"} /\ ~op.read /\ agent \in {"idle", "working"}
    /\ agent' = "working" /\ op' = [op EXCEPT !.read = TRUE]
    /\ prompts' = prompts + 1
    /\ UNCHANGED <<kind, row, file, pressed, process, ctl, rec, clean, keys, steers, crashes>>

\* A definite absence is retried, a blocked agent waits for a person, and an
\* answer that proves nothing is reconciled by reading only; a scheduled job
\* goes to review instead.
PromptAnswered ==
    /\ Alive /\ op.at = "prompt"
    /\ IF job.status # "dispatching" THEN UNCHANGED job /\ OpEnds
       ELSE IF Stopping THEN job' = NeedsReview("prompt_interrupted") /\ OpEnds
       ELSE \/ op.read /\ job' = Unfinished("running", "none") /\ OpAt("ingest")
            \/ kind = "slack" /\ UNCHANGED job /\ OpAt("reconcile")
            \/ /\ job' = NeedsReview(IF kind = "slack" THEN "other" ELSE "prompt_acceptance_unknown")
               /\ OpEnds
            \/ ~op.read /\ agent = "absent" /\ job' = Retried("other") /\ OpEnds
            \/ ~op.read /\ agent = "blocked" /\ job' = Blocked("dispatching") /\ OpEnds
    /\ UNCHANGED <<kind, notice, cleanup, outside, process, ctl, rec, clean, counts>>

\* tryCompleteAfterUnknownAcceptance: markJobRunning and saveJobResult, each of
\* which throws unless the row is in the status it expects.
AcceptLate ==
    job' = IF file \in Valid /\ job.status = "dispatching" THEN Saved
           ELSE NeedsReview("invalid_result")

\* reconcileStalledPrompt: every tick reads the file, then the agent.  Only a
\* progress of the same agent beyond the baseline proves that it read.
StalledPrompt ==
    /\ Alive /\ op.at = "reconcile"
    /\ IF file # "none" THEN AcceptLate /\ OpEnds
       ELSE \/ /\ op.known /\ op.read /\ agent # "absent" /\ ~Stopping
               /\ IF job.status # "dispatching" THEN UNCHANGED job /\ OpEnds
                  ELSE IF agent = "blocked" THEN job' = Unfinished("blocked", "other") /\ OpEnds
                  ELSE job' = Unfinished("running", "none") /\ OpAt("ingest")
            \/ /\ job' = NeedsReview(IF Stopping THEN "prompt_interrupted" ELSE "other")
               /\ OpEnds
    /\ UNCHANGED <<kind, notice, cleanup, outside, process, ctl, rec, clean, counts>>

(***************************************************************************)
(* monitor.                                                                 *)
(***************************************************************************)
\* Progress is ingested first, so the row may have moved since the launch.
MonitorReads ==
    /\ Alive /\ op.at = "ingest"
    /\ IF Completes(FALSE) THEN TryComplete /\ OpEnds
       ELSE UNCHANGED <<job, notice>> /\ OpAt("wait")
    /\ UNCHANGED <<kind, cleanup, outside, process, ctl, rec, clean, counts>>

MonitorWaited ==
    /\ Alive /\ op.at = "wait" /\ OpEnds
    /\ IF Stopping \/ job.status # "running" THEN UNCHANGED <<job, notice>>
       ELSE \/ agent = "idle" /\ TryComplete
            \/ agent = "blocked" /\ job' = Blocked("running") /\ UNCHANGED notice
            \/ /\ job' = NeedsReview(IF kind = "slack" THEN "other" ELSE "agent_wait_observation_unknown")
               /\ UNCHANGED notice
            \/ UNCHANGED <<job, notice>>                         \* timed out: stays running
    /\ UNCHANGED <<kind, cleanup, outside, process, ctl, rec, clean, counts>>

(***************************************************************************)
(* steer and cancel, one at a time (`serialized`).                          *)
(***************************************************************************)
CtlAt(at) == ctl' = [ctl EXCEPT !.at = at]
\* The main loop waits for the cancellations it asks for.
CtlEnds == ctl' = NoCtl /\ rec' = IF rec = "cancel" THEN "none" ELSE rec

\* A job that has not started takes the instruction into its objective.
SteerQueued ==
    /\ process = "up" /\ kind = "slack" /\ ctl.at = "none"
    /\ job.status \in Waiting /\ steers < SteerLimit
    /\ steers' = steers + 1
    /\ job' = [job EXCEPT !.steer = "accepted"]
    /\ UNCHANGED <<kind, notice, cleanup, outside, process, memory, prompts, keys, crashes>>

SteerBegin ==
    /\ process = "up" /\ kind = "slack" /\ ctl.at = "none"
    /\ job.status = "running" /\ steers < SteerLimit
    /\ steers' = steers + 1
    /\ job' = [job EXCEPT !.steer = "dispatching"]
    /\ CtlAt("steer")
    /\ UNCHANGED <<kind, notice, cleanup, outside, process, op, rec, clean, prompts, keys, crashes>>

SteerRead ==
    /\ ctl.at = "steer" /\ ~ctl.read /\ agent \in {"idle", "working"}
    /\ agent' = "working" /\ ctl' = [ctl EXCEPT !.read = TRUE]
    /\ UNCHANGED <<kind, row, file, pressed, process, op, rec, clean, counts>>

\* clearJobSteer, then the review: a name that answers "absent" may have been
\* rebound, so the fence of a finished job stays.
ClearSteer(j) == IF j.steer = "dispatching" THEN [j EXCEPT !.steer = "none"] ELSE j

\* The answers: submitted; blocked; no such agent; unknown.  The job may have
\* finished, or gone to review, since the steer began.
SteerAnswered ==
    /\ Alive /\ ctl.at = "steer" /\ CtlEnds
    /\ \/ /\ ctl.read /\ ~Stopping
          /\ job' = IF job.steer # "dispatching" THEN job
                    ELSE [job EXCEPT !.steer = "accepted",
                             !.code = IF job.status \in Terminal
                                      THEN "terminal_steer_worker_unverified" ELSE @]
       \/ /\ ~ctl.read /\ agent = "blocked" /\ ~Stopping
          /\ job' = ClearSteer(Blocked("running"))
       \/ /\ ~ctl.read /\ agent = "absent" /\ ~Stopping
          /\ job' = ClearSteer(NeedsReview("other"))
       \/ job' = NeedsReview("other")
    /\ UNCHANGED <<kind, notice, cleanup, outside, process, op, clean, counts>>

\* beginJobCancellation: a notice in the agent's hands has to be settled first,
\* one that still waits is superseded.
Cancellable == /\ job.status \in Status \ (Terminal \cup {"cancelling"})
               /\ ~(job.status = "needs_review" /\ job.code \in CancelUnknown)
               /\ notice.at # "held"

\* Mutant: the notice that still waits is kept as the job's notice.
KeptNotice == notice

SupersededNotice == NoNotice

\* A job that never reached the agent is cancelled at once.  A preparation cut
\* short by a crash may have left an agent, which is looked for first.
CancelBegin ==
    /\ Cancellable
    /\ notice' = SupersededNotice
    /\ LET stale == job.status = "retryable_failed" /\ job.code = "stale_preparing"
       IN IF job.status \in Waiting /\ ~stale
          THEN job' = Unfinished("cancelled", "cancelled") /\ ctl' = NoCtl
          ELSE /\ job' = Unfinished("cancelling", "cancel_worker_unverified")
               /\ ctl' = [at |-> IF stale THEN "stale"
                                 ELSE IF job.status \in {"preparing", "dispatching"} THEN "join"
                                 ELSE "send",
                          unprompted |-> job.status = "preparing" \/ job.code \in Unprompted,
                          read |-> FALSE]

CancelRequested ==
    /\ process = "up" /\ ctl.at = "none"
    /\ CancelBegin
    /\ UNCHANGED <<kind, cleanup, outside, process, op, rec, clean, counts>>

CancelStale ==
    /\ Alive /\ ctl.at = "stale"
    /\ \/ /\ Looks("absent") /\ agent = "absent"
          /\ job' = Cancelled /\ CtlEnds
       \/ /\ agent # "absent" /\ ~Stopping /\ job.workspace
          /\ UNCHANGED <<job, rec>> /\ CtlAt("send")
       \/ /\ job' = NeedsReview("stale_preparing_agent_unverified") /\ CtlEnds
    /\ UNCHANGED <<kind, notice, cleanup, outside, process, op, clean, counts>>

\* Mutant: the interrupt is sent while the start still runs.
CancelBarges ==
    /\ Alive /\ ctl.at = "join" /\ CtlAt("send")
    /\ UNCHANGED <<kind, row, outside, process, op, rec, clean, counts>>

\* The start still runs: it finds the job cancelling at its next check.
CancelJoins ==
    /\ Alive /\ ctl.at = "join" /\ op.at = "none"
    /\ CtlAt("send")
    /\ UNCHANGED <<kind, row, outside, process, op, rec, clean, counts>>

CancelKeys ==
    /\ ctl.at = "send" /\ agent # "absent"
    /\ agent' \in Interrupted /\ CtlAt("sent")
    /\ UNCHANGED <<kind, row, file, pressed, process, op, rec, clean, counts>>

\* No such agent: a job whose prompt was never sent is cancelled, another one
\* may have left a result.
CancelAbsent ==
    /\ Alive /\ ~Stopping /\ ctl.at = "send" /\ agent = "absent"
    /\ CtlEnds
    /\ IF Completes(FALSE) /\ ~ctl.unprompted THEN TryComplete
       ELSE job' = Cancelled /\ UNCHANGED notice
    /\ UNCHANGED <<kind, cleanup, outside, process, op, clean, counts>>

CancelAnswered ==
    /\ Alive /\ ctl.at \in {"send", "sent"}
    /\ \/ /\ ctl.at = "sent" /\ ~Stopping /\ CtlAt("watch") /\ UNCHANGED <<job, rec>>
       \/ job' = NeedsReview("cancel_acceptance_unknown") /\ CtlEnds
    /\ UNCHANGED <<kind, notice, cleanup, outside, process, op, clean, counts>>

\* Mutant: the cancellation wins without a look at the result file.
CancelWins ==
    /\ Alive /\ ctl.at = "watch" /\ CtlEnds
    /\ \/ agent \in Quiet /\ ~Stopping /\ job' = Cancelled
       \/ job' = NeedsReview("cancel_exit_unknown")
    /\ UNCHANGED <<kind, notice, cleanup, outside, process, op, clean, counts>>

\* The agent has to be seen idle or gone; then a result outweighs the
\* cancellation.
CancelWatched ==
    /\ Alive /\ ctl.at = "watch" /\ CtlEnds
    /\ \/ /\ agent \in Quiet /\ ~Stopping
          /\ IF Completes(FALSE) THEN TryComplete ELSE job' = Cancelled /\ UNCHANGED notice
       \/ job' = NeedsReview("cancel_exit_unknown") /\ UNCHANGED notice
    /\ UNCHANGED <<kind, cleanup, outside, process, op, clean, counts>>

(***************************************************************************)
(* The main loop's care for a scheduled job: nobody answers its review.      *)
(***************************************************************************)
RecAt(at) == rec' = at

\* listAmbiguousScheduledJobs: an outcome nobody knows is looked up again.
Ambiguous == /\ kind = "schedule" /\ job.status = "needs_review"
             /\ job.code \in (Recoverable \ {"invalid_result_agent_stopped"}) \cup
                             {"invalid_result", "invalid_result_agent_stop_unknown"}

Reconcile ==
    /\ process = "up" /\ rec = "none" /\ Ambiguous
    /\ CASE job.code = "invalid_result" -> RecAt("stop") /\ UNCHANGED <<job, notice>>
         [] job.code = "invalid_result_agent_stop_unknown" -> RecAt("probe") /\ UNCHANGED <<job, notice>>
         [] OTHER -> IF Completes(FALSE) THEN TryComplete /\ UNCHANGED rec
                     ELSE job.code \in CancelUnknown /\ RecAt("look") /\ UNCHANGED <<job, notice>>
    /\ UNCHANGED <<kind, cleanup, outside, process, op, ctl, clean, counts>>

\* settleAmbiguousCancellation: once the agent is idle or gone.
Settled ==
    IF job.status = "needs_review" /\ notice.at # "held"
    THEN job' = Unfinished("cancelled", "cancelled") /\ notice' = NoNotice
    ELSE UNCHANGED <<job, notice>>

RecLooked ==
    /\ Alive /\ rec = "look" /\ RecAt("none")
    /\ \/ /\ agent \in Quiet /\ ~Stopping
          /\ IF Completes(FALSE) THEN TryComplete ELSE Settled
       \/ UNCHANGED <<job, notice>>
    /\ UNCHANGED <<kind, cleanup, outside, process, op, ctl, clean, counts>>

\* stopInvalidResultAgent: an agent that wrote a wrong result is stopped, and
\* a result that is right by then is accepted.
StopNoted(stopped) ==
    LET noted == [job EXCEPT !.code = IF stopped THEN "invalid_result_agent_stopped"
                                      ELSE "invalid_result_agent_stop_unknown"]
        late == kind = "schedule" /\ job.sent /\ pressed = "overdue"
    IN IF job.status # "needs_review" THEN UNCHANGED <<job, notice>>
       ELSE IF stopped /\ file \in Valid /\ ~late /\ notice.at # "done"
            THEN /\ job' = [Saved EXCEPT !.code = IF file = "failed" THEN "other" ELSE "none"]
                 /\ notice' = SavedNotice
            ELSE job' = noted /\ UNCHANGED notice

RecStops ==
    /\ Alive /\ rec = "stop"
    /\ \/ agent # "absent" /\ agent' \in Interrupted /\ RecAt("stopWatch") /\ UNCHANGED <<job, notice>>
       \/ agent = "absent" /\ ~Stopping /\ StopNoted(TRUE) /\ RecAt("none") /\ UNCHANGED agent
       \/ StopNoted(FALSE) /\ RecAt("none") /\ UNCHANGED agent
    /\ UNCHANGED <<kind, cleanup, file, pressed, process, op, ctl, clean, counts>>

RecStopWatched ==
    /\ Alive /\ rec = "stopWatch" /\ RecAt("none")
    /\ \/ agent = "absent" /\ ~Stopping /\ StopNoted(TRUE) /\ UNCHANGED agent
       \/ agent = "idle" /\ ~Stopping /\ agent' = "absent" /\ StopNoted(TRUE)   \* closed, read back
       \/ StopNoted(FALSE) /\ UNCHANGED agent
    /\ UNCHANGED <<kind, cleanup, file, pressed, process, op, ctl, clean, counts>>

RecProbed ==
    /\ Alive /\ rec = "probe" /\ RecAt("none")
    /\ \/ agent \in Quiet /\ ~Stopping /\ agent' = "absent" /\ StopNoted(TRUE)
       \/ UNCHANGED <<job, notice, agent>>
    /\ UNCHANGED <<kind, cleanup, file, pressed, process, op, ctl, clean, counts>>

\* A withdrawn schedule, or an hour after the prompt: take the result that is
\* there, stop an agent whose result was wrong, or cancel.
Pressing ==
    /\ kind = "schedule"
    /\ \/ pressed = "withdrawn" /\ job.status \in Waiting \cup {"preparing", "dispatching", "running", "blocked"}
       \/ pressed = "overdue" /\ job.status \in {"running", "blocked"}
       \/ /\ pressed # "none" /\ job.status = "needs_review"
          /\ job.code \in PromptUnknown \cup {"invalid_result"}

PressedOn ==
    /\ process = "up" /\ rec = "none" /\ Pressing
    /\ IF Completes(FALSE) THEN TryComplete ELSE UNCHANGED <<job, notice>>
    /\ rec' = IF job'.status \in Valid THEN "none"
              ELSE IF job'.status = "needs_review" /\ job'.code = "invalid_result" THEN "stop"
              ELSE "press"
    /\ UNCHANGED <<kind, cleanup, outside, process, op, ctl, clean, counts>>

PressCancels ==
    /\ process = "up" /\ rec = "press" /\ ctl.at = "none"
    /\ IF Cancellable
       THEN CancelBegin /\ rec' = IF ctl'.at = "none" THEN "none" ELSE "cancel"
       ELSE RecAt("none") /\ UNCHANGED <<job, notice, ctl>>
    /\ UNCHANGED <<kind, cleanup, outside, process, op, clean, counts>>

\* The workspace of a finished scheduled job is closed, and its agent with it.
RuntimeCleaned ==
    /\ process = "up" /\ rec = "none" /\ kind = "schedule" /\ job.workspace
    /\ \/ job.status \in Terminal
       \/ job.status = "needs_review" /\ job.code = "workspace_cleanup_failed"
    /\ agent' = "absent"
    /\ job' = [job EXCEPT !.workspace = FALSE,
                   !.code = CASE job.code = "workspace_cleanup_failed" -> "other"
                              [] job.code \in {"terminal_steer_worker_unverified", "cancel_worker_unverified"} -> "none"
                              [] OTHER -> @]
    /\ UNCHANGED <<kind, notice, cleanup, file, pressed, process, memory, counts>>

\* publishNotifications: the outcome becomes an event of the queue, once for a
\* status.  A scheduled job's completion row remembers the status; for a Slack
\* job the event of that name exists, enqueue finds it different, and the throw
\* repeats in every round.
Publish ==
    /\ process = "up" /\ rec = "none" /\ notice.at = "none"
    /\ job.status \in Terminal \cup {"blocked", "needs_review"}
    /\ job.status \notin job.told
    /\ notice' = [at |-> "queued", of |-> job.status]
    /\ job' = [job EXCEPT !.told = @ \cup {job.status}]
    /\ UNCHANGED <<kind, cleanup, outside, process, memory, counts>>

(***************************************************************************)
(* reconcileTerminalCleanup: after a result, one ctrl+c to the idle agent.   *)
(***************************************************************************)
CleanAt(at) == clean' = at
CleanupCandidate == /\ job.status \in Valid /\ job.result # "none"
                    /\ job.steer # "dispatching"

\* Mutant: an attempt of before the restart starts over.
CleanStartsOver ==
    /\ process = "up" /\ clean = "none" /\ CleanupCandidate
    /\ cleanup \in {"pending", "attempting"} /\ CleanAt("look")
    /\ UNCHANGED <<kind, row, outside, process, op, ctl, rec, counts>>

CleanStart ==
    /\ process = "up" /\ clean = "none" /\ CleanupCandidate
    /\ \/ cleanup = "pending" /\ CleanAt("look")
       \/ cleanup = "attempting" /\ CleanAt("observe")
    /\ UNCHANGED <<kind, row, outside, process, op, ctl, rec, counts>>

\* Only an idle agent is interrupted, and the claim is durable before that.
CleanLooked ==
    /\ Alive /\ clean = "look"
    /\ \/ CleanAt("none") /\ UNCHANGED cleanup
       \/ agent = "absent" /\ ~Stopping /\ CleanAt("none") /\ cleanup' = "stopped"
       \/ /\ agent = "idle" /\ ~Stopping /\ CleanupCandidate
          /\ cleanup' = "attempting" /\ CleanAt("send")
    /\ UNCHANGED <<kind, job, notice, outside, process, op, ctl, rec, counts>>

CleanSends ==
    /\ Alive /\ clean = "send" /\ CleanAt("observe")
    /\ \/ agent' \in Interrupted /\ keys' = keys + 1
       \/ UNCHANGED <<agent, keys>>                       \* it never arrived
    /\ UNCHANGED <<kind, row, file, pressed, process, op, ctl, rec, prompts, steers, crashes>>

\* An attempt of before a restart is observed only, never sent again.
CleanObserved ==
    /\ Alive /\ clean = "observe" /\ CleanAt("none")
    /\ cleanup' \in IF agent = "absent" /\ ~Stopping THEN {"stopped", "unknown"} ELSE {"unknown"}
    /\ UNCHANGED <<kind, job, notice, outside, process, op, ctl, rec, counts>>

(***************************************************************************)
(* Shutdown, crash and restart.                                             *)
(***************************************************************************)
Stop ==
    /\ process = "up" /\ crashes < CrashLimit
    /\ process' = "stopping" /\ crashes' = crashes + 1
    /\ UNCHANGED <<kind, row, outside, memory, prompts, keys, steers>>

Forgotten == op' = NoOp /\ ctl' = NoCtl /\ rec' = "none" /\ clean' = "none"

Stopped ==
    /\ process = "stopping" /\ process' = "down"
    /\ op.at = "none" /\ ctl.at = "none" /\ rec \in {"none", "press"} /\ clean = "none"
    /\ Forgotten
    /\ UNCHANGED <<kind, row, outside, counts>>

Crash ==
    /\ process = "up" /\ crashes < CrashLimit
    /\ process' = "down" /\ crashes' = crashes + 1
    /\ Forgotten
    /\ UNCHANGED <<kind, row, outside, prompts, keys, steers>>

\* Mutant: a prompt whose answer was lost is taken for one never sent.
RecoveredResend ==
    IF job.status \in {"preparing", "dispatching"}
    THEN Unfinished("retryable_failed", "stale_preparing") ELSE job

\* Mutant: the row of a cut operation is left as it is.
RecoveredNothing == job

\* recoverStaleJobs.
Recovered ==
    IF job.status = "preparing"
    THEN Unfinished("retryable_failed", "stale_preparing")
    ELSE IF job.status \in {"dispatching", "cancelling"} \/ job.steer = "dispatching"
    THEN [job EXCEPT !.status = "needs_review", !.steer = "none",
             !.code = CASE job.status = "cancelling" -> "ambiguous_cancel_acceptance"
                        [] job.status = "dispatching" -> "ambiguous_prompt_acceptance"
                        [] OTHER -> "other"]
    ELSE job

Restart ==
    /\ process = "down" /\ process' = "up"
    /\ job' = Recovered
    /\ UNCHANGED <<kind, notice, cleanup, outside, memory, counts>>

Agents == AgentReports \/ AgentTurns \/ AgentVanishes
Starting == \/ Promote \/ Launch \/ StartChecked \/ PrepareStarts \/ Prepared \/ PrepareFails
            \/ PrepareLeaks \/ BaselineRead \/ PromptRead \/ PromptAnswered \/ StalledPrompt
Watching == MonitorReads \/ MonitorWaited
Steering == SteerQueued \/ SteerBegin \/ SteerRead \/ SteerAnswered
Cancelling == \/ CancelRequested \/ CancelStale \/ CancelJoins \/ CancelKeys \/ CancelAbsent
              \/ CancelAnswered \/ CancelWatched
Caring == \/ Reconcile \/ RecLooked \/ RecStops \/ RecStopWatched \/ RecProbed
          \/ PressedOn \/ PressCancels \/ RuntimeCleaned
Telling == Publish \/ NoticeTaken \/ NoticeSettled
Cleaning == CleanStart \/ CleanLooked \/ CleanSends \/ CleanObserved
Running == Stop \/ Stopped \/ Crash \/ Restart

Next == \/ Agents \/ Press \/ Starting \/ Watching \/ Steering \/ Cancelling
        \/ Caring \/ Telling \/ Cleaning \/ Running

Spec == Init /\ [][Next]_vars

\* What may be counted on: the supervisor takes its next step and the process
\* comes back; a turn ends; a wait is a long poll, so one of them at last ends
\* with what the agent is; the event queue delivers (EventQueue).  Nothing is
\* assumed of a person, of a schedule's owner, or of a Herdr read.
Fairness == /\ WF_vars(Promote) /\ WF_vars(Launch) /\ WF_vars(StartChecked)
            /\ WF_vars(Prepared \/ PrepareFails) /\ WF_vars(BaselineRead)
            /\ WF_vars(PromptAnswered) /\ WF_vars(StalledPrompt) /\ WF_vars(MonitorReads)
            /\ SF_vars(MonitorWaited /\ job'.status # "running") /\ WF_vars(MonitorWaited)
            /\ WF_vars(SteerAnswered) /\ WF_vars(CancelStale) /\ WF_vars(CancelJoins)
            /\ WF_vars(CancelAnswered) /\ WF_vars(CancelWatched)
            /\ WF_vars(RecLooked) /\ WF_vars(RecStops) /\ WF_vars(RecStopWatched) /\ WF_vars(RecProbed)
            /\ WF_vars(PressCancels) /\ WF_vars(Publish) /\ WF_vars(NoticeTaken) /\ WF_vars(NoticeSettled)
            /\ WF_vars(CleanLooked) /\ WF_vars(CleanSends) /\ WF_vars(CleanObserved)
            /\ WF_vars(AgentTurns) /\ WF_vars(Stopped) /\ WF_vars(Restart)
FairSpec == Spec /\ Fairness

(***************************************************************************)
(* Properties.                                                              *)
(***************************************************************************)
\* Rows and locals have the values that columns and code allow.  A job is given no
\* more attempts than the limit and one for each restart (prepareFailed,
\* recoverStaleJobs): what a shutdown cuts short is tried once more.
TypeOK ==
    /\ kind \in {"slack", "schedule"}
    /\ job \in [status : Status, code : Code, attempts : 0..(MaxAttempts + CrashLimit),
                steer : {"none", "dispatching", "accepted"}, result : Valid \cup {"none"},
                sent : BOOLEAN, workspace : BOOLEAN, told : SUBSET Status]
    /\ notice \in [at : {"none", "queued", "held", "done"}, of : Status \cup {"none"}]
    /\ cleanup \in {"pending", "attempting", "stopped", "unknown"}
    /\ file \in Valid \cup {"none", "invalid"}
    /\ agent \in {"absent", "idle", "working", "blocked"}
    /\ pressed \in {"none", "withdrawn", "overdue"}
    /\ process \in {"up", "stopping", "down"}
    /\ op \in [at : {"none", "access", "prepare", "baseline", "prompt", "reconcile", "ingest", "wait"},
               stale : BOOLEAN, made : BOOLEAN, known : BOOLEAN, read : BOOLEAN]
    /\ ctl \in [at : {"none", "steer", "stale", "join", "send", "sent", "watch"},
                unprompted : BOOLEAN, read : BOOLEAN]
    /\ rec \in {"none", "look", "stop", "stopWatch", "probe", "press", "cancel"}
    /\ clean \in {"none", "look", "send", "observe"}
    /\ prompts \in 0..(MaxAttempts + CrashLimit) /\ keys \in Nat
    /\ steers \in 0..SteerLimit /\ crashes \in 0..CrashLimit
    /\ job.attempts <= MaxAttempts + crashes

\* No command that may have been taken is given again.  A job's prompt is read at
\* most once, whatever answer, crash, retry or stale preparation lies between:
\* startJob, reconcileStalledPrompt and recoverStaleJobs never send again a prompt
\* that may have been read.  The terminal cleanup sends its ctrl+c at most once in
\* a job's life: the claim (claimTerminalWorkerCleanup) is durable first, and an
\* attempt whose outcome is unknown, before or after a restart, is only observed.
CommandedOnce == prompts <= 1 /\ keys <= 1

\* A cancelled job has no agent at work: every path to cancelled waited for the
\* start that was under way and saw the agent idle or gone.  And a cancellation
\* never throws away a result that the agent has written, however the writing, the
\* monitor and the cancellation interleave (tryComplete).
CancelledIsQuiet == job.status = "cancelled" =>
    agent \notin {"working", "blocked"} /\ file \notin Valid

\* A finished job keeps its status against every late answer; the one exception
\* the code makes is recoverStaleJobs with a steer whose answer was lost.
TerminalStays ==
    [][job.status \in Terminal => job'.status = job.status \/ job.steer = "dispatching"]_vars

\* The outcome of a finished job is told: superseded and earlier notices do not
\* stand in for it, and no restart loses it (publishNotifications).  The exception
\* is an outcome that was told before and withdrawn: its event's name is taken.
OutcomeTold ==
    job.status \in Terminal
      ~> \/ job.status \notin Terminal \/ notice = [at |-> "done", of |-> job.status]
         \/ notice.at = "none" /\ job.status \in job.told

\* A job does not hang: it ends, or waits for a person who was told.
EventuallySettled ==
    job.status \notin Terminal \cup {"blocked", "needs_review"}
      ~> job.status \in Terminal \cup {"blocked", "needs_review"}
=============================================================================
