----------------------------- MODULE EventQueue -----------------------------
(***************************************************************************)
(* The durable event queue of the Dispatcher and the serial worker that    *)
(* hands its events to the one resident agent, dona-main.                  *)
(*                                                                         *)
(* The rows live in SQLite and survive a crash.  The worker (worker.ts)    *)
(* is a single asynchronous loop: what it does between two awaits is one   *)
(* step here, and every await (Herdr get, result access, Herdr prompt,     *)
(* result read, Herdr wait) is a value of pc at which the other actors may *)
(* act: the HTTP API on behalf of the agent, the operator's command line   *)
(* (another process on the same database), a signal, a crash.              *)
(*                                                                         *)
(* Every write of the worker re-reads the status inside its transaction    *)
(* and throws when it changed; a throw leaves the loop as an unhandled     *)
(* rejection and ends the process, so a command that slips between a check *)
(* and its write is the interleaving in which it came first, or a Crash.   *)
(***************************************************************************)
EXTENDS Integers

CONSTANTS
    Event,        \* the (source, external_event_id) pairs that may be enqueued
    Threaded,     \* source "slack": may own a job group
    Scheduled,    \* source "dona_schedule": owns a schedule run
    NoEvent,      \* the worker holds no row
    Replies,      \* bound: the kinds of result file dona-main may write
    MaxAttempts,  \* DispatcherConfig.maxAttempts
    RetryLimit,   \* bound: operator retries of one event
    OutageLimit   \* bound: crashes and shutdowns of the process

ASSUME EventAssumption == /\ Threaded \subseteq Event
                          /\ Scheduled \subseteq Event
                          /\ Threaded \cap Scheduled = {}
                          /\ NoEvent \notin Event
ASSUME LimitAssumption == /\ MaxAttempts \in Nat \ {0}
                          /\ RetryLimit \in Nat
                          /\ OutageLimit \in Nat

VARIABLES
    \* the events table
    nextSequence, \* AUTOINCREMENT: the sequence the next row gets
    sequence,     \* 0 while the event has no row
    status,
    attempts,     \* attempt_count
    due,          \* available_at has passed
    error,        \* last_error_code, where a later step tells codes apart
    \* what a row owns in other tables
    group,        \* its job group
    run,          \* its schedule run
    access,       \* schedule_access_checked_at / schedule_access_consumed_at
    \* the agent, its result file, and the history of the prompt
    file,         \* what is at result_path
    sent,         \* prompts that reached dona-main, or still may
    heard,        \* prompts dona-main has read
    retried,      \* operator retries
    \* the process
    mode,
    outages,
    pc,           \* the await the worker is at
    cur,          \* the row it holds
    rowStatus,    \* row.status as it was read
    rowGone       \* row.last_error_code, as it was read, said the agent was gone

rowVars    == <<nextSequence, sequence, status, attempts, due, error>>
ownedVars  == <<group, run, access>>
agentVars  == <<file, sent, heard>>
workerVars == <<pc, cur, rowStatus, rowGone>>
vars == <<rowVars, ownedVars, agentVars, retried, mode, outages, workerVars>>

Status == {"none", "queued", "dispatching", "waiting_agent", "completed",
           "retryable_failed", "blocked", "needs_review", "dead_letter"}

Dispatchable == {"queued", "retryable_failed"}
AgentOwned   == {"dispatching", "waiting_agent"}
Closed       == {"completed", "blocked", "needs_review", "dead_letter"}

\* A result envelope reports completed or failed; "posted" ones list a
\* post_message action that succeeded or is ambiguous.  "invalid" is any file
\* readResultEnvelope refuses, or whose completed_at lies in the future.
Results == {"completed", "completed_posted", "failed", "failed_posted", "invalid"}
ASSUME RepliesAssumption == Replies \subseteq Results

\* Codes a later step tells apart: the agent is gone, the delegation was refused,
\* the schedule withdrew the event.
ErrorCode == {"none", "gone", "refused", "suppressed"}

RunState == {"none", "materialized", "started", "failed", "needs_review", "cancelled", "skipped"}

Reports == Results \ {"invalid"}
Succeeded(r) == r \in {"completed", "completed_posted"}
Posted(r) == r \in {"completed_posted", "failed_posted"}

Init ==
    /\ nextSequence = 1
    /\ sequence = [e \in Event |-> 0]
    /\ status = [e \in Event |-> "none"]
    /\ attempts = [e \in Event |-> 0]
    /\ due = [e \in Event |-> FALSE]
    /\ error = [e \in Event |-> "none"]
    /\ group = [e \in Event |-> "none"]
    /\ run = [e \in Event |-> "none"]
    /\ access = [e \in Event |-> "none"]
    /\ file = [e \in Event |-> "none"]
    /\ sent = [e \in Event |-> 0]
    /\ heard = [e \in Event |-> 0]
    /\ retried = [e \in Event |-> 0]
    /\ mode = "down" /\ outages = 0
    /\ pc = "idle" /\ cur = NoEvent /\ rowStatus = "none" /\ rowGone = FALSE

-----------------------------------------------------------------------------
(***************************************************************************)
(* Writes shared by the handlers                                           *)
(***************************************************************************)

\* sealJobGroupIfPresent
Sealed(g) == IF g = "open" THEN "sealed" ELSE g
SealGroup(e) == group' = [group EXCEPT ![e] = Sealed(@)]

\* Every status change out of the agent's hands, and every closing one, seals
\* the group in the same transaction.
Leaves(e, to) == status[e] \in AgentOwned /\ to \notin AgentOwned
Transition(e, to) ==
    /\ status' = [status EXCEPT ![e] = to]
    /\ IF Leaves(e, to) \/ to \in Closed THEN SealGroup(e) ELSE UNCHANGED group

\* A run still materialized has no job: its event decides it.
SettleUndelegated(e, outcome) ==
    run' = [run EXCEPT ![e] = IF @ = "materialized" THEN outcome ELSE @]

\* The handler returns to the loop.
Return == pc' = "idle" /\ cur' = NoEvent /\ rowStatus' = "none" /\ rowGone' = FALSE

MarkNeedsReview(e) ==
    /\ status[e] \in AgentOwned
    /\ Transition(e, "needs_review")
    /\ SettleUndelegated(e, "needs_review")
    /\ error' = [error EXCEPT ![e] = "none"]
    /\ UNCHANGED <<nextSequence, sequence, attempts, due, access>>

MarkBlocked(e) ==
    /\ status[e] \in Dispatchable \cup AgentOwned
    /\ Transition(e, IF e \in Scheduled THEN "needs_review" ELSE "blocked")
    /\ SettleUndelegated(e, "needs_review")
    /\ error' = [error EXCEPT ![e] = "none"]
    /\ UNCHANGED <<nextSequence, sequence, attempts, due, access>>

\* Mutant: off by one at the attempt limit.
LastAttemptLate(n) == n > MaxAttempts

LastAttempt(n) == n >= MaxAttempts

\* Nothing was sent: the attempt counts, and the last one is a dead letter.
RecordPreDispatchFailure(e) ==
    LET last == LastAttempt(attempts[e] + 1) IN
    /\ status[e] \in Dispatchable
    /\ attempts' = [attempts EXCEPT ![e] = @ + 1]
    /\ status' = [status EXCEPT ![e] = IF last THEN "dead_letter" ELSE "retryable_failed"]
    /\ due' = [due EXCEPT ![e] = last]
    /\ error' = [error EXCEPT ![e] = "none"]
    /\ IF last THEN SealGroup(e) /\ SettleUndelegated(e, "failed")
               ELSE UNCHANGED <<group, run>>
    /\ UNCHANGED <<nextSequence, sequence, access>>

\* Mutant: the row may have advanced while the prompt was out.
ProvablyUnsentOrAdvanced(e) == status[e] \in AgentOwned

\* Only a row nobody advanced can have a prompt nobody read.
ProvablyUnsent(e) == status[e] = "dispatching"

\* Herdr says there is no agent, so the prompt was not accepted.
RecordSafePromptFailure(e) ==
    LET last == LastAttempt(attempts[e]) IN
    /\ ProvablyUnsent(e)
    /\ status' = [status EXCEPT ![e] = IF last THEN "dead_letter" ELSE "retryable_failed"]
    /\ due' = [due EXCEPT ![e] = last]
    /\ error' = [error EXCEPT ![e] = "none"]
    /\ SealGroup(e)
    /\ IF last THEN SettleUndelegated(e, "failed") ELSE UNCHANGED run
    /\ UNCHANGED <<nextSequence, sequence, attempts, access>>

RecordWaitingError(e, code) ==
    /\ error' = [error EXCEPT ![e] = IF status[e] = "waiting_agent" THEN code ELSE @]
    /\ UNCHANGED <<nextSequence, sequence, status, attempts, due, ownedVars>>

\* Bookkeeping of a worker step that touches rows only.
WorkerStep == UNCHANGED <<agentVars, retried, mode, outages>>
NoRowChange == UNCHANGED <<rowVars, ownedVars>>

-----------------------------------------------------------------------------
(***************************************************************************)
(* The API: events come in, and time passes                                *)
(***************************************************************************)

\* The API tests shuttingDown before it awaits the request body, so a request
\* admitted in time still lands while the worker quiesces.  worker.stop runs
\* only after the API has stopped.
Serving == mode \in {"up", "quiescing"}

\* A duplicate finds its row and changes nothing.  The scheduler and the job
\* supervisor write their events straight to the table.
Enqueue(e) ==
    /\ Serving
    /\ sequence[e] = 0
    /\ nextSequence' = nextSequence + 1
    /\ sequence' = [sequence EXCEPT ![e] = nextSequence]
    /\ status' = [status EXCEPT ![e] = "queued"]
    /\ due' = [due EXCEPT ![e] = TRUE]
    /\ run' = [run EXCEPT ![e] = IF e \in Scheduled THEN "materialized" ELSE @]
    /\ UNCHANGED <<attempts, error, group, access, agentVars, retried, mode, outages, workerVars>>

\* The schedule is cancelled, replaced or expired, by the API or the scheduler:
\* its undelegated run ends, and with it the event, wherever it is.
SuppressSchedule(e) ==
    /\ Serving
    /\ run[e] \in {"materialized", "cancelled"}
    /\ run' = [run EXCEPT ![e] = "cancelled"]
    /\ IF status[e] \in Dispatchable \cup AgentOwned \cup {"blocked"}
         THEN /\ status' = [status EXCEPT ![e] = "completed"]
              /\ error' = [error EXCEPT ![e] = "suppressed"]
         ELSE UNCHANGED <<status, error>>
    /\ UNCHANGED <<nextSequence, sequence, attempts, due, group, access, agentVars, retried, mode,
                   outages, workerVars>>

\* available_at passes.
BecomeDue(e) ==
    /\ status[e] = "retryable_failed" /\ ~due[e]
    /\ due' = [due EXCEPT ![e] = TRUE]
    /\ UNCHANGED <<nextSequence, sequence, status, attempts, error, ownedVars, agentVars,
                   retried, mode, outages, workerVars>>

-----------------------------------------------------------------------------
(***************************************************************************)
(* The worker loop: what to take up next                                   *)
(***************************************************************************)

First(e, S) == status[e] \in S /\ \A x \in Event : status[x] \in S => sequence[e] <= sequence[x]

\* Mutant: a blocked event no longer stops the queue.
ignoreBlockedEvent == FALSE

hasBlockedEvent == \E e \in Event : status[e] = "blocked"

\* Mutant: an event in backoff is overtaken.
nextDue(e) == /\ status[e] \in Dispatchable /\ due[e]
              /\ \A x \in Event : status[x] \in Dispatchable /\ due[x] => sequence[e] <= sequence[x]

\* nextAvailable looks at the head of the line only, due or not.
nextAvailable(e) == First(e, Dispatchable) /\ due[e]
nextWaiting(e)   == First(e, {"waiting_agent"})

PickWaiting(e) ==
    /\ mode = "up" /\ pc = "idle"
    /\ ~hasBlockedEvent
    /\ nextWaiting(e)
    /\ pc' = "read" /\ cur' = e /\ rowStatus' = status[e] /\ rowGone' = (error[e] = "gone")
    /\ NoRowChange /\ WorkerStep

PickQueued(e) ==
    /\ mode = "up" /\ pc = "idle"
    /\ ~hasBlockedEvent
    /\ \A x \in Event : status[x] # "waiting_agent"
    /\ nextAvailable(e)
    /\ pc' = "preflight" /\ cur' = e /\ rowStatus' = status[e] /\ rowGone' = FALSE
    /\ NoRowChange /\ WorkerStep

-----------------------------------------------------------------------------
(***************************************************************************)
(* dispatch: Herdr get, result access, Herdr prompt                        *)
(***************************************************************************)

Fresh == status[cur] = rowStatus

\* Stopping, aborted, the row changed meanwhile, or the agent is working.
PreflightDropped ==
    /\ pc = "preflight"
    /\ Return /\ NoRowChange /\ WorkerStep

PreflightFailed ==
    /\ pc = "preflight" /\ mode # "stopping" /\ Fresh
    /\ RecordPreDispatchFailure(cur)
    /\ Return /\ WorkerStep

PreflightBlocked ==
    /\ pc = "preflight" /\ mode # "stopping" /\ Fresh
    /\ MarkBlocked(cur)
    /\ Return /\ WorkerStep

PreflightReady ==
    /\ pc = "preflight" /\ mode # "stopping" /\ Fresh
    /\ pc' = "access" /\ UNCHANGED <<cur, rowStatus, rowGone>>
    /\ NoRowChange /\ WorkerStep

AccessDropped ==
    /\ pc = "access" /\ ~Fresh
    /\ Return /\ NoRowChange /\ WorkerStep

AccessFailed ==
    /\ pc = "access" /\ Fresh
    /\ RecordPreDispatchFailure(cur)
    /\ Return /\ WorkerStep

\* beginDispatch and markNeedsReview("result_path_exists") with no await
\* between them; no prompt is sent.
AccessFound ==
    /\ pc = "access" /\ Fresh
    /\ file[cur] # "none"
    /\ status[cur] \in Dispatchable
    /\ attempts' = [attempts EXCEPT ![cur] = @ + 1]
    /\ status' = [status EXCEPT ![cur] = "needs_review"]
    /\ error' = [error EXCEPT ![cur] = "none"]
    /\ SealGroup(cur)
    /\ SettleUndelegated(cur, "needs_review")
    /\ UNCHANGED <<nextSequence, sequence, due, access>>
    /\ Return /\ WorkerStep

\* The dispatching row commits before the prompt goes out.  stopping is not
\* looked at again until the prompt is back.
BeginDispatch ==
    /\ pc = "access" /\ Fresh
    /\ file[cur] = "none"
    /\ status[cur] \in Dispatchable
    /\ attempts' = [attempts EXCEPT ![cur] = @ + 1]
    /\ status' = [status EXCEPT ![cur] = "dispatching"]
    /\ error' = [error EXCEPT ![cur] = "none"]
    /\ sent' = [sent EXCEPT ![cur] = @ + 1]
    /\ pc' = "prompt" /\ rowStatus' = "dispatching"
    /\ UNCHANGED <<nextSequence, sequence, due, ownedVars, file, heard, retried, mode, outages,
                   cur, rowGone>>

\* Mutant: the status is not read again after the prompt.
AssumeHeld == TRUE

Held == status[cur] \in AgentOwned

PromptDropped ==
    /\ pc = "prompt" /\ ~Held
    /\ Return /\ NoRowChange /\ WorkerStep

\* Aborted by shutdown, timed out, or failed with a code that proves nothing.
PromptUnknown ==
    /\ pc = "prompt" /\ Held
    /\ MarkNeedsReview(cur)
    /\ Return /\ WorkerStep

PromptBlocked ==
    /\ pc = "prompt" /\ Held /\ mode # "stopping"
    /\ MarkBlocked(cur)
    /\ Return /\ WorkerStep

\* agent_not_found / agent_not_running.  Herdr answers so when the prompt it
\* just got will reach nobody, or when the agent went away after it read the
\* prompt and advanced the row; the latter is PromptUnknown.
HerdrFindsNoAgent == heard[cur] < sent[cur] \/ status[cur] = "waiting_agent"

PromptRefused ==
    /\ pc = "prompt" /\ mode # "stopping"
    /\ HerdrFindsNoAgent
    /\ RecordSafePromptFailure(cur)
    /\ sent' = [sent EXCEPT ![cur] = @ - 1]
    /\ Return
    /\ UNCHANGED <<file, heard, retried, mode, outages>>

\* markWaiting, unless the access receipt got there first; the same segment
\* goes on into resumeWaiting with the row as it is now.
PromptAccepted ==
    /\ pc = "prompt" /\ Held /\ mode # "stopping"
    /\ status' = [status EXCEPT ![cur] = "waiting_agent"]
    /\ error' = [error EXCEPT ![cur] = IF status[cur] = "dispatching" THEN "none" ELSE @]
    /\ heard' = [heard EXCEPT ![cur] = IF @ < sent[cur] THEN @ + 1 ELSE @]
    /\ pc' = "read" /\ rowStatus' = "waiting_agent" /\ rowGone' = FALSE
    /\ UNCHANGED <<nextSequence, sequence, attempts, due, ownedVars, file, sent, retried, mode,
                   outages, cur>>

-----------------------------------------------------------------------------
(***************************************************************************)
(* resumeWaiting and tryComplete                                           *)
(***************************************************************************)

\* tryComplete runs twice: before the wait ("read"), where a missing file is
\* no answer, and after the agent is idle or done ("final"), where it is one.
Reading == pc \in {"read", "final"}

ReadMissing ==
    /\ pc = "read" /\ file[cur] = "none"
    /\ pc' = "wait" /\ UNCHANGED <<cur, rowStatus, rowGone>>
    /\ NoRowChange /\ WorkerStep

ReadUnusable ==
    /\ Reading /\ Held
    /\ file[cur] = "invalid" \/ (pc = "final" /\ file[cur] = "none")
    /\ MarkNeedsReview(cur)
    /\ Return /\ WorkerStep

\* Scheduled work whose turn ended without a job bound to its run.
Undelegated(e) == e \in Scheduled /\ run[e] # "started"
Refused(e) == error[e] = "refused"

\* What a readable report makes of the event and of an undelegated run.
Verdict(e, r) ==
    IF Undelegated(e) /\ (Succeeded(r) \/ Refused(e))
      THEN IF Refused(e) /\ ~Posted(r) THEN [to |-> "dead_letter", run |-> "failed"]
                                       ELSE [to |-> "needs_review", run |-> "needs_review"]
    ELSE IF Succeeded(r) THEN [to |-> "completed", run |-> "materialized"]
    ELSE [to |-> IF Posted(r) THEN "needs_review" ELSE "dead_letter", run |-> "needs_review"]

\* saveCompleted and saveFailedResult
ReadReport ==
    /\ Reading /\ status[cur] = "waiting_agent"
    /\ file[cur] \in Reports
    /\ LET v == Verdict(cur, file[cur]) IN
         /\ Transition(cur, v.to)
         /\ SettleUndelegated(cur, v.run)
         /\ error' = [error EXCEPT ![cur] = IF Undelegated(cur) /\ Refused(cur) THEN @ ELSE "none"]
    /\ UNCHANGED <<nextSequence, sequence, attempts, due, access>>
    /\ Return /\ WorkerStep

\* Its schedule withdrew the event while the file was being read: the report,
\* good or bad, is dropped.
Suppressed(e) == status[e] = "completed" /\ error[e] = "suppressed"
ReadSuppressed ==
    /\ Reading /\ Suppressed(cur)
    /\ file[cur] # "none" \/ pc = "final"
    /\ Return /\ NoRowChange /\ WorkerStep

\* The operator settled the row while the file was being read.  The save
\* throws, markNeedsReview in the catch block throws again, and the rejection of
\* the loop ends the process.
ReadOvertaken ==
    /\ Reading /\ ~Held /\ ~Suppressed(cur)
    /\ file[cur] # "none" \/ pc = "final"
    /\ mode' = "down"
    /\ Return /\ NoRowChange
    /\ UNCHANGED <<agentVars, retried, outages>>

WaitDropped ==
    /\ pc = "wait" /\ (status[cur] # "waiting_agent" \/ mode = "stopping")
    /\ Return /\ NoRowChange /\ WorkerStep

Waiting == pc = "wait" /\ status[cur] = "waiting_agent" /\ mode # "stopping"

\* The first agent_not_found starts the grace period; later ones find it
\* running, and once it is over the event is reviewed, never resent.
WaitGone ==
    /\ Waiting
    /\ IF rowGone THEN NoRowChange ELSE RecordWaitingError(cur, "gone")
    /\ Return /\ WorkerStep

WaitGoneTooLong ==
    /\ Waiting /\ rowGone
    /\ MarkNeedsReview(cur)
    /\ Return /\ WorkerStep

\* A wait that timed out, failed otherwise, or met an unknown agent state.
WaitFailed ==
    /\ Waiting
    /\ RecordWaitingError(cur, "none")
    /\ Return /\ WorkerStep

WaitBlocked ==
    /\ Waiting
    /\ MarkBlocked(cur)
    /\ Return /\ WorkerStep

WaitIdle ==
    /\ Waiting
    /\ pc' = "final" /\ UNCHANGED <<cur, rowStatus, rowGone>>
    /\ NoRowChange /\ WorkerStep

-----------------------------------------------------------------------------
(***************************************************************************)
(* The process                                                             *)
(***************************************************************************)

\* Mutants: the prompt is taken for lost, or the row is left as it is.
RecoveredResend(s)  == IF s = "dispatching" THEN "queued" ELSE s
RecoveredNothing(s) == s

Recovered(s) == IF s = "dispatching" THEN "needs_review" ELSE s

\* worker.start: a row still dispatching is from a process that died.  The API
\* answers a moment earlier; what it does to such a row before the recovery is
\* what it could have done before the crash.
Start ==
    /\ mode = "down"
    /\ mode' = "up"
    /\ status' = [e \in Event |-> Recovered(status[e])]
    /\ error' = [e \in Event |-> IF status[e] = "dispatching" THEN "none" ELSE error[e]]
    /\ group' = [e \in Event |-> IF status[e] = "dispatching" THEN Sealed(group[e]) ELSE group[e]]
    /\ run' = [e \in Event |-> IF status[e] = "dispatching" /\ run[e] = "materialized"
                                 THEN "needs_review" ELSE run[e]]
    /\ UNCHANGED <<nextSequence, sequence, attempts, due, access, agentVars, retried, outages, workerVars>>

\* The updater's quiesce request: the loop ends after the row it holds.
QuiesceAfterCurrent ==
    /\ mode = "up" /\ outages < OutageLimit
    /\ mode' = "quiescing" /\ outages' = outages + 1
    /\ NoRowChange /\ UNCHANGED <<agentVars, retried, workerVars>>

\* SIGTERM or SIGINT, after the API, the scheduler and the supervisor stopped.
Stop ==
    /\ mode = "quiescing" \/ (mode = "up" /\ outages < OutageLimit)
    /\ mode' = "stopping"
    /\ outages' = IF mode = "up" THEN outages + 1 ELSE outages
    /\ NoRowChange /\ UNCHANGED <<agentVars, retried, workerVars>>

Exit ==
    /\ mode = "stopping" /\ pc = "idle"
    /\ mode' = "down"
    /\ NoRowChange /\ UNCHANGED <<agentVars, retried, outages, workerVars>>

Crash ==
    /\ mode # "down" /\ outages < OutageLimit
    /\ mode' = "down" /\ outages' = outages + 1
    /\ Return /\ NoRowChange /\ UNCHANGED <<agentVars, retried>>

-----------------------------------------------------------------------------
(***************************************************************************)
(* dona-main, and what it asks of the API on behalf of its event           *)
(***************************************************************************)

AgentStep == UNCHANGED <<nextSequence, sequence, attempts, due, retried, mode, outages, workerVars>>

\* A prompt lands late or early: Herdr's answer to the worker is another step.
Hear(e) ==
    /\ heard[e] < sent[e]
    /\ heard' = [heard EXCEPT ![e] = @ + 1]
    /\ UNCHANGED <<status, error, ownedVars, file, sent>> /\ AgentStep

\* Written to a temporary file and renamed, at any time after the prompt was
\* read, whatever has become of the event since.
WriteResult(e, r) ==
    /\ heard[e] > 0 /\ file[e] = "none"
    /\ file' = [file EXCEPT ![e] = r]
    /\ UNCHANGED <<status, error, ownedVars, sent, heard>> /\ AgentStep

\* recordScheduleJobAccess proves the agent reads the event: it advances a
\* dispatching row itself.
RecordScheduleJobAccess(e) ==
    /\ Serving /\ heard[e] > 0
    /\ e \in Scheduled /\ status[e] \in AgentOwned /\ access[e] = "none"
    /\ status' = [status EXCEPT ![e] = "waiting_agent"]
    /\ error' = [error EXCEPT ![e] = IF status[e] = "dispatching" THEN "none" ELSE @]
    /\ access' = [access EXCEPT ![e] = "checked"]
    /\ UNCHANGED <<group, run, agentVars>> /\ AgentStep

\* createScheduledJob consumes the receipt and starts the run in one
\* transaction.
CreateScheduledJob(e) ==
    /\ Serving /\ heard[e] > 0
    /\ e \in Scheduled /\ status[e] \in AgentOwned
    /\ access[e] = "checked" /\ run[e] = "materialized"
    /\ access' = [access EXCEPT ![e] = "consumed"]
    /\ run' = [run EXCEPT ![e] = "started"]
    /\ UNCHANGED <<status, error, group, agentVars>> /\ AgentStep

\* The occurrence is too late, or its schedule is no longer the active one: the
\* run ends, the receipt is spent, and the API records the refusal.
CreateScheduledJobUnauthorized(e) ==
    /\ Serving /\ heard[e] > 0
    /\ e \in Scheduled /\ status[e] \in AgentOwned
    /\ access[e] = "checked" /\ run[e] = "materialized"
    /\ access' = [access EXCEPT ![e] = "consumed"]
    /\ \E outcome \in {"skipped", "cancelled"} : run' = [run EXCEPT ![e] = outcome]
    /\ error' = [error EXCEPT ![e] = "refused"]
    /\ UNCHANGED <<status, group, agentVars>> /\ AgentStep

\* The authorization expired: the schedule expires on the spot and withdraws
\* the event, which leaves no row to record the refusal in.
CreateScheduledJobExpired(e) ==
    /\ Serving /\ heard[e] > 0
    /\ e \in Scheduled /\ status[e] \in AgentOwned
    /\ access[e] = "checked" /\ run[e] = "materialized"
    /\ access' = [access EXCEPT ![e] = "consumed"]
    /\ run' = [run EXCEPT ![e] = "cancelled"]
    /\ status' = [status EXCEPT ![e] = "completed"]
    /\ error' = [error EXCEPT ![e] = "suppressed"]
    /\ UNCHANGED <<group, agentVars>> /\ AgentStep

\* Any definite refusal: shutting down, a bad request, no receipt.
RecordScheduledDelegationRejection(e) ==
    /\ Serving /\ heard[e] > 0
    /\ e \in Scheduled /\ status[e] \in AgentOwned /\ run[e] # "started"
    /\ error' = [error EXCEPT ![e] = "refused"]
    /\ UNCHANGED <<status, ownedVars, agentVars>> /\ AgentStep

\* Mutant: only the seal is looked at.
AdmitsUnlessSealed(e) == group[e] # "sealed"

AdmitsJob(e) == status[e] \notin Closed /\ group[e] # "sealed"

\* createJob for a Slack event, as far as its group is concerned: a closed
\* source or a sealed group refuses, anything else admits.
CreateJob(e) ==
    /\ Serving /\ heard[e] > 0
    /\ e \in Threaded /\ sequence[e] > 0 /\ AdmitsJob(e)
    /\ group' = [group EXCEPT ![e] = "open"]
    /\ UNCHANGED <<status, error, run, access, agentVars>> /\ AgentStep

-----------------------------------------------------------------------------
(***************************************************************************)
(* The operator's command line                                             *)
(***************************************************************************)

\* Mutants: a settled run does not stand in the way; an event may be retried
\* while the agent has it.
RetryAlways(e) == FALSE
RetryableAnyTime == {"blocked", "needs_review", "dead_letter", "retryable_failed", "waiting_agent"}

Retryable == {"blocked", "needs_review", "dead_letter", "retryable_failed"}

\* Undelegated and already settled: the run decides, not a retry.
RetryNeedsReconciliation(e) == e \in Scheduled /\ run[e] \notin {"materialized", "started"}

\* What a retry writes, whatever the row says by then.  The old result file is
\* taken out of the way with it: no other actor looks at the backup.
Requeue(e) ==
    /\ retried' = [retried EXCEPT ![e] = @ + 1]
    /\ status' = [status EXCEPT ![e] = "queued"]
    /\ attempts' = [attempts EXCEPT ![e] = 0]
    /\ due' = [due EXCEPT ![e] = TRUE]
    /\ error' = [error EXCEPT ![e] = "none"]
    /\ access' = [access EXCEPT ![e] = "none"]
    /\ file' = [file EXCEPT ![e] = "none"]
    /\ UNCHANGED <<nextSequence, sequence, group, run, sent, heard, mode, outages, workerVars>>

\* manualRetry, as if no other process wrote to the row between its check and
\* its write (EventQueueRetry takes the two apart).
ManualRetry(e) ==
    /\ status[e] \in Retryable
    /\ ~RetryNeedsReconciliation(e)
    /\ retried[e] < RetryLimit
    /\ Requeue(e)

ManualComplete(e) ==
    /\ e \notin Scheduled /\ sequence[e] > 0
    /\ status' = [status EXCEPT ![e] = "completed"]
    /\ error' = [error EXCEPT ![e] = IF status[e] = "completed" THEN @ ELSE "none"]
    /\ SealGroup(e)
    /\ UNCHANGED <<nextSequence, sequence, attempts, due, run, access, agentVars, retried, mode,
                   outages, workerVars>>

\* No status is refused, not even completed.
ManualDeadLetter(e) ==
    /\ sequence[e] > 0
    /\ status' = [status EXCEPT ![e] = "dead_letter"]
    /\ error' = [error EXCEPT ![e] = "none"]
    /\ SealGroup(e)
    /\ SettleUndelegated(e, "failed")
    /\ UNCHANGED <<nextSequence, sequence, attempts, due, access, agentVars, retried, mode,
                   outages, workerVars>>

-----------------------------------------------------------------------------
DispatchSteps ==
    \/ PreflightDropped \/ PreflightFailed \/ PreflightBlocked \/ PreflightReady
    \/ AccessDropped \/ AccessFailed \/ AccessFound \/ BeginDispatch
    \/ PromptDropped \/ PromptUnknown \/ PromptBlocked \/ PromptRefused \/ PromptAccepted

ResumeSteps ==
    \/ ReadMissing \/ ReadUnusable \/ ReadReport \/ ReadSuppressed \/ ReadOvertaken
    \/ WaitDropped \/ WaitGone \/ WaitGoneTooLong \/ WaitFailed \/ WaitBlocked \/ WaitIdle

Worker == DispatchSteps \/ ResumeSteps \/ \E e \in Event : PickWaiting(e) \/ PickQueued(e)

Process == Start \/ QuiesceAfterCurrent \/ Stop \/ Exit \/ Crash

Agent == \E e \in Event :
    \/ Hear(e) \/ \E r \in Replies : WriteResult(e, r)
    \/ RecordScheduleJobAccess(e) \/ CreateScheduledJob(e) \/ CreateScheduledJobUnauthorized(e)
    \/ CreateScheduledJobExpired(e) \/ RecordScheduledDelegationRejection(e) \/ CreateJob(e)

Operator == \E e \in Event : ManualRetry(e) \/ ManualComplete(e) \/ ManualDeadLetter(e)

Next == (\E e \in Event : Enqueue(e) \/ BecomeDue(e) \/ SuppressSchedule(e)) \/ Worker \/ Process \/ Agent \/ Operator

Spec == Init /\ [][Next]_vars

\* The loop runs while the process does.  Herdr answers every call or is timed
\* out (herdr.ts), so each await ends; the agent is now and then found free
\* before a prompt, and its turn ends at last.  launchd restarts the process,
\* the updater ends one it quiesced, and a backoff runs out.
Fairness ==
    /\ WF_vars(Worker)
    /\ SF_vars(PreflightReady) /\ SF_vars(WaitIdle)
    /\ WF_vars(Start) /\ WF_vars(Exit) /\ WF_vars(mode = "quiescing" /\ Stop)
    /\ \A e \in Event : WF_vars(BecomeDue(e))

FairSpec == Spec /\ Fairness

-----------------------------------------------------------------------------
(***************************************************************************)
(* What must hold                                                          *)
(***************************************************************************)

\* Every variable has the values the columns and locals can hold; attempts
\* never pass the limit.
TypeOK ==
    /\ nextSequence \in Nat \ {0}
    /\ sequence \in [Event -> Nat]
    /\ status \in [Event -> Status]
    /\ attempts \in [Event -> 0..MaxAttempts]
    /\ due \in [Event -> BOOLEAN]
    /\ error \in [Event -> ErrorCode]
    /\ group \in [Event -> {"none", "open", "sealed"}]
    /\ run \in [Event -> RunState]
    /\ access \in [Event -> {"none", "checked", "consumed"}]
    /\ file \in [Event -> Results \cup {"none"}]
    /\ sent \in [Event -> Nat] /\ heard \in [Event -> Nat] /\ retried \in [Event -> Nat]
    /\ mode \in {"down", "up", "quiescing", "stopping"}
    /\ outages \in Nat
    /\ pc \in {"idle", "preflight", "access", "prompt", "read", "wait", "final"}
    /\ cur \in Event \cup {NoEvent}
    /\ rowStatus \in Status
    /\ rowGone \in BOOLEAN

\* dona-main is given one event at a time, and none while a blocked one waits
\* for a human (the loop of worker.ts), across crashes, operator commands and
\* rows the API advances on its own.
Engaged == AgentOwned \cup {"blocked"}
SingleFlight == \A e, x \in Event : status[e] \in Engaged /\ status[x] \in Engaged => e = x

\* A prompt is read at most once, and once more for each retry the operator
\* ordered: timeouts, shutdowns, crashes and vanished agents never resend it
\* (dispatch and recoverStaleDispatching).
AtMostOnce == \A e \in Event : heard[e] <= sent[e] /\ sent[e] <= 1 + retried[e]

\* While the process runs, a dispatching row is the one whose prompt the worker
\* awaits: the loop looks for queued and waiting rows only, so any other would
\* be stranded until the next restart.
DispatchingIsHeld ==
    mode # "down" => \A e \in Event : status[e] = "dispatching" => pc = "prompt" /\ cur = e

\* What hangs on an event follows it.  No closed event has a job group that still
\* admits jobs: every path out of the agent's hands seals it (transition,
\* sealJobGroupIfPresent), and createJob opens none afterwards.  A run that nobody
\* delegated is decided together with its event, and an event whose run is decided
\* stays out of the queue (settleUndelegatedWorkEvent at every exit, and the guard
\* of manualRetry).
OwnedFollowsEvent ==
    /\ \A e \in Event : group[e] = "open" => status[e] \notin Closed
    /\ \A e \in Scheduled :
          /\ run[e] = "materialized" => status[e] \notin Closed
          /\ run[e] \in {"failed", "needs_review"} => status[e] \in Closed

\* Events are prompted in the order of their sequence: one in backoff is not
\* overtaken.  Only what the operator put back may be passed by an event the
\* worker had already picked.
OrderedDispatch ==
    [][\A e, x \in Event :
          /\ status[e] # "dispatching" /\ status'[e] = "dispatching"
          /\ status[x] \in Dispatchable /\ sequence[x] < sequence[e]
          => retried[x] > 0]_vars

\* An event is settled in the end, unless a blocked one stops the queue until
\* somebody looks at it.
EventuallySettled ==
    \A e \in Event : status[e] = "queued" ~> status[e] \in Closed \/ hasBlockedEvent

\* The queue implements serial delivery.
StageOf(s) == CASE s = "none" -> "absent"
                [] s \in Dispatchable -> "pending"
                [] s \in AgentOwned -> "held"
                [] s = "blocked" -> "parked"
                [] OTHER -> "closed"

Delivery == INSTANCE SerialDelivery WITH
    stage   <- [e \in Event |-> StageOf(status[e])],
    handed  <- sent,
    allowed <- [e \in Event |-> 1 + retried[e]]

\* Every step of the queue is a step of SerialDelivery or invisible to it; among
\* others only a retry by the operator brings a closed event back: a late answer
\* of Herdr, a late result or a restart does not (README: needs_review, completed
\* and dead_letter are never changed automatically).
DeliversSerially == Delivery!Spec
=============================================================================
