# dona: a verification development

dona runs one resident coding agent ("dona-main") behind Slack and a scheduler.
The system is four long-running pieces around SQLite files: a **Dispatcher**
(event queue, worker, job supervisor, scheduler), a **Slack adapter** (ingress,
posting), an **updater** (self-update with rollback) and launchd, which restarts
them. The specifications here model the parts whose correctness depends on the
order of steps of several actors, on crashes and on answers that never came.

`src/` paths below are relative to the repository.

## 1. Inventory

| Component | State it keeps | Operations | What is hard |
|---|---|---|---|
| Event queue and worker (`dispatcher/src/worker.ts`, `database.ts`) | `events` rows: status, attempts, `available_at`, error code; one held row | enqueue, dispatch, resume a waiting row, read the result, recover, quiesce, stop; operator retry / complete / dead-letter | every call to Herdr may time out after it worked; the operator's CLI is another process; the API advances rows on its own |
| Job supervisor and runtime (`job-supervisor.ts`, `job-runtime.ts`) | `jobs` rows, live worker processes, result files | create, start, prompt, monitor, cancel, clean up | prompt acceptance unknown, stalled prompts, cancel against completion, at-most-once cleanup |
| Job groups (`database.ts`) | group state, members, aggregate notice | open, add, seal, aggregate | last member and seal race to one notice |
| Steering, handoff, tasks (`job-handoff.ts`, `live-session.ts`, `task-execution.ts`) | steer receipts, handoff records, task attempts and checkpoints | steer, resume, retire, replace | one successor per instruction, the old worker proved stopped first |
| Scheduler (`scheduler/*`) | schedules and revisions, claims, runs, outbox | create / replace / cancel / expire, claim due, materialize, claim / preflight / start / finish a delivery | leases and fences, misfire and overlap, revocation between claim and write, ambiguous posts |
| Recurrence (`scheduler/calculator.ts` ...) | none | next occurrence, preview | clock changes, month ends, horizon |
| Job progress, update notification | revisions, claims, receipts | claim, post, settle | order of revisions, exactly-once posts with lookups |
| Slack ingress (`sources/slack/src/socket-adapter.ts`) | per-workspace connection, in-flight envelopes | receive, store, acknowledge, reconnect, quiesce | acknowledge only what is stored |
| Updater (`updater/src/controller.ts`, `database.ts`, `release-store.ts`) | plans with lease and fence, runtime intents, two release pointers and a receipt, a report outbox | plan, approve, cancel, claim, quiesce, activate, restart, verify, roll back, reconcile, deliver | a crash between any two writes; commands whose effect is unknown; two requests in one process |
| Schema rollout, maintenance fence, offline scripts | phase files, fence | expand, contract, fence | old and new readers of one database |

Interactions: the Slack adapter posts an envelope to the Dispatcher's HTTP API,
which inserts an event; the worker prompts dona-main through Herdr; dona-main
calls back through MCP and the API (jobs, schedules, access receipts), writes a
result file and posts to Slack; supervisor, scheduler and updater insert further
events; the updater stops, switches and restarts the other two services.

What makes each component correct:

* *queue*: one event in the agent's hands at a time, in order, each prompted at
  most once per order of a human, nothing left behind in silence;
* *supervisor*: a job is started and prompted at most once, ends exactly once,
  and its source hears of it exactly once;
* *scheduler*: an occurrence is materialised at most once, under the revision in
  force, and posted at most once;
* *updater*: the known-good release stays reachable through every crash, a plan
  reported succeeded / rolled back / failed is true of what runs, no runtime
  command is issued twice, every open plan ends;
* *notifications*: never lost, never twice, in order.

The full list of components with their status, and the hazards at their lines,
is in `PROJECT.json`.

## 2. Modules

| Module | What it is |
|---|---|
| `EventQueue` | the events table, the worker loop with each await, the agent's API calls, the operator, the process |
| `SerialDelivery` | the abstract specification `EventQueue` implements: events are delivered one at a time |
| `EventQueueProofs` | theorems about `EventQueue` for every value of the constants |
| `EventQueueRetry` | `EventQueue` with the operator's retry split into its check and its write |
| `EventQueueMC` | the instance of `EventQueue` for its run |
| `UpdateLedger` | the updater's requests with lease and fence, the loop and the API that work on them, the report outbox |
| `UpdateLedgerMC` | symmetry for the runs with two plans, and the bounds of its runs |
| `UpdateLedgerProofs` | theorems about `UpdateLedger` for every value of the constants |
| `UpdateController` | what the ledger leaves open: one plan, its runtime commands, the release pointers, recovery and rollback |
| `UpdateControllerMC` | the plans of its runs |
| `UpdateControllerProofs` | theorems about `UpdateController` for every value of the constants |
| `JobSupervisor` | the life of one background job, from queued to told |
| `JobSupervisorMC` | the instance for its run |
| `JobSupervisorProofs` | its theorems, for every value of the constants |
| `TaskExecution` | a task and the attempts (jobs) that carry it out, with its owner |
| `TaskExecutionProofs` | its theorems, for any number of attempts and disturbances |
| `JobGroup` | the jobs of one event and the notices about them |
| `JobProgress` | the status lines of a group's jobs and the notices that wait for them |
| `UpdateNotification` | the end of an update, told in its thread |
| `SlackIngress` | from a Slack envelope to an event of the queue |
| `SlackIngressProofs` | its theorems, for every value of the constants |
| `ServicesMC` | the instance in which groups, progress, update notification and ingress are checked |
| `ServicesProofs` | theorems about these four, for every value of its constants |
| `SchedulerStore`, `Scheduler` | the tables of one schedule and their writes; services, publisher, Slack and owner on them |
| `SchedulerMC` | the instance of `Scheduler` for its run |
| `SchedulerProofs` | theorems about `Scheduler`, for every value of its constants |

### EventQueue

*State.* `sequence`, `status`, `attempts`, `due`, `error` are columns of
`events`; `group`, `run`, `access` are what a row owns in other tables; `file` is
what lies at `result_path`; `sent` and `heard` count prompts that went out and
prompts dona-main read (history: the system cannot see `heard`). `mode` is the
process, `pc` the await the worker is at, `cur` the row it holds, `rowStatus`
and `rowGone` the fields of the row object it read before the await.

*Steps.* Node runs one thing at a time and SQLite calls are synchronous, so the
code between two awaits is one step. The awaits are the values of `pc`:
`preflight` (Herdr get), `access` (result path), `prompt` (Herdr prompt), `read`
and `final` (result read before and after the wait), `wait` (Herdr wait). Each
branch after an await is an action named after its outcome.

*Writes.* Each write of the worker re-reads the status in its transaction and
throws when it changed. A command of the operator that slips between check and
write is therefore either the interleaving in which it came first, or a throw,
which ends the worker loop as an unhandled rejection: `Crash`.

*Abstractions.* Payloads, wording and clocks are left out: `due` says whether
`available_at` has passed, the grace period of a vanished agent is one repeated
observation, error codes are kept where a later step tells them apart.
`Start` joins the start of the API and of the worker. A request that passed the
`shuttingDown` test before its body arrived still lands, so the API serves while
`quiescing`. A withdrawn schedule, an expired authorization and each refusal of
a delegation are actions; completion notices of scheduled jobs (source
`dona_job` with a run) and payloads are not modelled.

*Assumption on Herdr.* When Herdr answers `agent_not_found` to a prompt and
nobody advanced the row, the prompt was not read. The code relies on it
(`worker.ts:194`) and it is the guard of `PromptRefused`.

### EventQueueRetry

`EventQueue` with the operator's retry in two steps; see section 5.

### UpdateLedger

*State.* `state`, `fence`, `lease`, `deferred`, `deadline` and `why` are columns of
`update_requests` (`lease` also says whose process holds it and whether it has
expired; `why` keeps the error code of a request in review as far as a later step
asks for it: reconcilable or not). `active` is the row of `controller_state`,
`notice` the table `update_outbox`, by request and fence. `approval` and `event`
are what the Dispatcher holds, `wire` what was posted and may still arrive.

*Runners.* The service loop (`processNext`, then `deliverOutbox`) and one request to
the API (reconcile or operator rollback) run interleaved in one process and have the
same lease owner. `pc` is the await a runner is at; `req`, `fen` and `hand` are the
request, the fence and the state of the row object it holds. `claim` is one step,
and so is each later write with the assertions before it; the writes that also come after
an await with no `assertLease` in between (activating, restarting, a review) ask for the
fence only (`MayEnter`). `Throw` is an error out of
`processNext`, which also skips `deliverOutbox` on that tick.

*What is left open.* What a claimed request does to the running release, and what it
finds: between claim and decision a runner may take each step that some outcome of
its calls allows (`Advance`, `Decide`, `DeferOrReview`, `Unexpected`,
`ReconcileObserves`). The model therefore shows what lease, fence and transactions
guarantee whatever the runtime does. Other abstractions: of several candidates any
is taken, where the code takes the oldest; the operator's command-line process is
not a runner of its own; legacy confirmation and the lookup answer `conflict` are
left out. `MaxFence` bounds the claims and reopenings of all requests together, as
counted by `claims`; the guard is `CountClaim`.

### UpdateController

*State.* `row` has of `update_requests` what the steps read: the state, whether a review
waits for evidence (`why`), the reconcile window (`deadline`), the activation
generation and the restart attempts. `op` is the table `runtime_operations`: the phase
of each kind, `none` without a row. `recovery` is the scope and the cause a recovery
writes into the evidence of its operations, `held` the session that
`stop_target_main_agent` was prepared for. `current`, `previous` and `receipt` are
what the release store keeps on disk. The world is `svc` (the release each registered
service runs, or `off`), `draining`, the session of the main agent, `worker` (what
`workerSafety` reads in the durable job state) and the `schema` of the Dispatcher's
database. `plan` says what a plan may be: with or without a migration, read by the
release before or not, and, what nobody knows yet, built wrong.

*Runner.* One runner at a time: `UpdateLedger` shows what keeps a second one from
writing. `run.at` is the await it is at; `run.cmd` is the command in flight, so a
command has a step before it (`Issue`: the intent is persisted) and one after
(`...Answered`: accepted, rejected, unknown). `run.seen`, `run.broken` and `run.known`
are locals that survive an await: services found live before a drain, a failure kept
for the end of a recovery, and the pane known to `rollback`. The kinds
`restart_target_*_after_drain` are called `restart_target_*`. `Interrupted` ends the
runner anywhere, with the command in flight done or not; `Reconcile` is the next one.

*Observations.* Each may fail: a health answer may always be `down`, a registration, a
drain status or the job state unreadable, a Herdr that does not answer looks like no
agent. What is not allowed is an observation of something that is not so. One step may
hold several observations between which nothing of the world the code could notice is
decided on; where the code looks twice because the world moves (the workers after the
stops, the Dispatcher before the switch), they are two steps.

*World.* launchd restarts a registered service (`KeepAlive`: it runs the current
release and has lost its drain), somebody registers a stopped one (`Register`), an
operator orders a rollback, workers start under a Dispatcher that is not draining and
end under any. The first three share the bound `EventLimit`.

*Left out.* Leases, cancellation and reports (`UpdateLedger`), the identity checks of a
policy transition and of a manifest (they end in review), legacy confirmation, the
pause between two polls, and a command that takes effect only after its runner ended
and the next one looked. Two branches of the code cannot be reached in this world: that
a service found live before the activation runs another release than the current one
(controller.ts:581 and :643, the causes `..._wrong_sha_during_quiesce`). The migration of the schema
is no entry of `op`, as the code keeps no intent for it in `runtime_operations`:
`OneCommand` does not speak of it.

### JobSupervisor

*State.* `job` and `cleanup` are rows (`code` is `last_error_code` as far as a later step
reads it, `told` the notices whose event names are taken), `notice` the completion
event, `file` and `agent` the result file and the Herdr agent, `pressed` what a
schedule wants of its job. Five controls share them, each with its own await: `op`
(`startJob` or `monitor`), `ctl` (a steer or a cancellation inside `serialized`), `rec`
(the main loop with a scheduled job), `clean` (the terminal cleanup), and the API, whose
requests take effect at once. `prompts` and `keys` count what the agent read.

*Left out.* The choice among several jobs, handoff to a successor, live sessions, the
`legacy_agent_sandbox_unknown` path, a prompt or steer that is read after its command
ended. Attempts may exceed `maxAttempts` by crashes: a crash before the prompt returns
the job without asking for the limit, and `TypeOK` says so.

### TaskExecution

*State.* `task` is the row of `tasks`, `job` the rows of its attempts (with the checkpoint:
`asks`, `answer`), `worker` and `file` the world. `op` is the await of `startJob` and
`monitor`, `steer` that of the API's steer, `visit` that of `reconcileTask` with what it
has read: its wish, stop state and reason, `stale` (the revision has changed since) and
`moved` (so has the job's `updated_at`). `used` counts the disturbances and, for each
attempt, the closes sent to its pane.

*Steps.* `reconcileTask` is `VisitBegins`, `VisitReads`, `VisitObserves`,
`VisitObservesAgain`, `VisitCloses`, `VisitProbes`, `VisitReplaces`: a step ends where the
code awaits. Two reads of files in one go and consecutive awaits of `startJob` that nobody
can tell apart are one step. The owner's requests compare the revision just read.

*Workers.* A worker without a prompt (`ready`) is told from the others: a preparation that
is under way when its earlier pane is retired can leave one behind, which nobody closes. It
is not prompted any more, and `WorkersAccounted` counts the workers that were.

*Abstractions.* `next_check_at` and backoff are "some time"; a completed and a failed
result are one; a checkpoint asks once per attempt; one steering at a time. A notice in an
agent's hands, which makes a cancellation throw, and a worker that goes on by itself are
counted disturbances. How one job is prompted in detail is `JobSupervisor`.

### JobGroup

One variable, `db`: the jobs, the notices by `external_event_id` (job, status, variant),
the group's `attention` and `terminal`, the operator's resolutions, and the delivery
receipts, claims and testimonies about notices. The code's operations are single
transactions, so they are operators from tables to the set of tables they may leave,
empty when the code throws; `Enqueue` is `enqueueJobNotification` with
`buildJobGroupSnapshot`, which decides what a notice tells the agent to do. The queue's
steps on a notice (`Take`, `GiveBack`, `Complete`) are `EventQueue`'s. Jobs are fixed at
`Init`; legacy groups and migrations of saved results are left out, and so is
`claimJobGroupTransition`, which has `Enqueue`'s guard.

### JobProgress

`row` is `job_progress`, `hand` a phase that was read and not stored, `report` the one
delivery with its token, `calls` the requests in the adapter, which go on when nobody
waits for them, `recovery` and `pass` the restart and the terminal reconciliation at their
awaits: `pass` keeps the list of siblings it read, and `PassClose`, which closes the row
(`JobProgressStore.terminal`), and `PassEnd`, which queues it again and marks it checked,
are two steps with the removal of the job's files between them. An adapter that stops
(`AdapterStops`) refuses new requests, cannot be asked any more and ends those it has;
`drainAdapter` takes that for drained (`Drained`), as it does a 404 or a 503, which only an
adapter without a reporter, and so without requests, gives. Notices are summarised from
`JobGroup`. The sequence number is left out, because it does not change while a row is
delivered; so are `available_at` and the throttle. A request that asks with a token nobody
holds any more is refused and writes nothing, so `OneWriter` speaks of the requests that
may still write.

### UpdateNotification

Events and rows are in two databases, the result is a file and the post is in Slack: one
write after the other, with a crash between any two. `call` has the request the worker
waits for and one it gave up; `slack` counts posts that are there and posts on their way.
`crossed` marks events that two requests worked on at a time. The operator's command line is
another process and changes the event alone, at any await of the worker: `Retry`,
`Complete` and `DeadLetter`. An event completed by hand has a status of its own, because
its result is not the worker's; `filed` says whether the event names its result file, which
decides whether a retry puts it aside.

### SlackIngress

One workspace. `handler` holds two envelopes at the awaits of `handleEnvelope`, `stray`
posts that timed out and are still read by the Dispatcher, `socket` the client, the state
we keep of it, the promise of `start()` and the reconnect timers. Backoff is "some time".
`nature` is what `normalizeSlackEvent` makes of an event. Slack's own retries outlast the
faults. What the library does is external.

### SchedulerStore, Scheduler

`SchedulerStore` has the tables of one schedule (`db`), with each write of the repository
as an operator; `Scheduler` turns them into transactions and adds the services with a
claimed batch, the publisher with rows in flight, the preflight ticket, Slack and the
owner. Occurrences are numbers and `now` runs past them. A claim's fence is folded into its
owner, because a service claims again only when its batch is done; retention of content is
folded into `lapsed`; `materializedAt` is the claim's `now`; retry backoff, listing,
quotas, audit and `rejectClaimBeforeWrite`, which no call reaches, are left out.

### ServicesMC

Four closed specifications in one instance: a behaviour is one of one of them, chosen in
`Init` by `service`, and the others stay as they begin. They share nothing but the queue and
the job table, of which each has its own abstraction, so nothing is lost by not
interleaving them. Each property is a conjunction of those the modules state. The bounds of
the parts are its constants, so that the theorems hold for all of them; `NoneAssumption`
says that the mark for "no notice" is not the name of one, `LimitAssumption` that the
numbers of events, failures and crashes are numbers.

## 3. Runs

| Run | Instance | Shows |
|---|---|---|
| `event_queue` | scheduled work alone (retry, two outages, all replies); or a Slack event and a notice with one thing out of the ordinary (another reply, a second attempt, an outage, a retry) | type, single flight, at most once, no stranded row, groups and runs follow their event, order, refinement of `SerialDelivery`, settling |
| `event_queue_retry` | one event | a disagreement of section 5 |
| `update_ledger_main` | one plan, 2 claims, one operator rollback or one crash, fairness | type, one writer per fence, a decision changes only under a new fence, the newest report tells the decision, every report settles |
| `update_ledger_pair` | two plans, 3 claims, a Dispatcher that answers, symmetry | never two runners that may touch the runtime |
| `update_ledger_rollback` | two plans | a disagreement of section 5 |
| `update_controller_main` | four plans, one end of the runner or one event of the world | type, known-good release within reach, decisions true of what runs, no worker across a switch, no command twice |
| `update_controller_live` | two plans, one event of the world, fairness | an activating, restarting or verifying plan is decided or handed to the rollback |
| `update_controller_schema` | four plans, one end of the runner | a disagreement of section 5 |
| `job_supervisor` | a Slack job or a scheduled one, 2 attempts, a steer, a cancellation, one crash or shutdown in the first attempt | prompted and interrupted once, cancelled is quiet and loses no result, finished stays, the outcome is told, the job does not hang |
| `task_execution` | 2 attempts, 2 disturbances | one worker, closed once, no result lost; nothing against the owner's wish or past a question; the task settles |
| `services` | 2 jobs in a group, 2 with progress, 2 update notices, 2 Slack events | what was told stays true and is the last word, nothing is taken twice, everything due comes |
| `scheduler` | 2 occurrences, 2 revisions, 2 services, 2 senders, one crash; one disturbance at a time | posts accounted for, an occurrence once, what waits is current, everything due is decided |

*Bounds of the queue.* `MaxAttempts = 2` gives a first failure with backoff, a last one and
the dead letter. One retry per event is enough for a second prompt, a stale
result and a late answer of the first. One outage gives a crash at every await
followed by recovery; scheduled work alone takes two, so that a recovery is itself
interrupted. The two events take their disturbances one at a time: two of them at
once are for the work alone. Two events are the least that can be overtaken or be held together; order
and mutual exclusion are properties of pairs. Deadlock is checked: a process that is up
can always tick.

*Bounds of the ledger.* Two claims let a first runner be overtaken by a second, or the
request be reopened; the pair takes three. One operator rollback, or one crash, comes at
every await. The pair leaves out what a lost answer of the Dispatcher does to a report:
that is for the run with one plan. Two plans are the least that can compete for the controller.
`update_ledger_pair` orders no operator rollback: with one the property fails, and
that is `update_ledger_rollback`.

*Bounds of the controller.* The four plans are: a migration with no way back, built
right and wrong; one that the release before reads; a wrong build without a migration.
Compatible or not decides whether a rollback exists, migrated or not whether the
recovery has to look at the schema, misbuilt whether the target is verified. One end
of the runner puts a crash between any two writes, and the runner after it meets every
pair of pointers, receipt and intents. One event of the world is a restart, a
registration or an order at every await; two of them need not be told apart by any of
the properties, which speak of one of them; and the two do not meet. For liveness two
plans are enough, one that cannot go back and fails its verification and one that
succeeds. Without ends of the runner the live run is
small enough for liveness; a crash would only start the same observations again.
Deadlock is not checked: a decided plan has no further step.

*Bounds of jobs and tasks.* `job_supervisor`: a failed first attempt and a last one, one
steer, one crash or shutdown at every await of the first attempt; the attempt after it is the
second one. What comes from outside comes before the crash, all but a cancellation; a
failed result, which the code treats as a completed one, does not meet it. (Without these
restrictions, 700 000 states, the same properties hold.) `task_execution`: two attempts are
a replacement and, with the owner's retry, a budget that is raised; two disturbances are a
request of the owner meeting another one, a lost command or a crash at any await. (With
three attempts, or with three disturbances, the same properties hold.) Deadlock is not
checked: a finished job or task rests.

*Bounds of `services`.* A group of two jobs has a sibling for every hand-off of the
attention; three notices are one for each job and a replacement; the queue hands out one
at a time, and of two jobs that are alike the first one is told of first. As long as there
are two notices, one may be unusual (superseded, unclear, verified, claimed), or one job
cancelled. The progress of jobs meets a fault, a restart or a blocked job that runs again,
with two phases, and two of these when one is that its adapter stops. Of two faults, an outage
and two operations by hand, two update notices meet any three; a fault and a shutdown fall
on two Slack events. The bounds cut off only what nothing makes
happen, or a behaviour that would need more notices. (With one unusual among three notices,
any two mishaps of the progress, and all five of the update notices, 990 000 states, the same
properties hold.)

*Bounds of the scheduler.* Two occurrences can overlap and miss; two revisions are one
replacement. `Disturbances = 1` lets a second service or sender (at the first occurrence), a
crash, a new revision and an ended authorization meet every step of the others, one of
them at a time. (A second service together with a new revision, 530 000 states, changes nothing.)

*Fairness of jobs and tasks.* The supervisor's loop goes on while the process runs, each
command to Herdr comes back (`jobCommandTimeoutMs`), a turn ends at last, the process is
restarted, the queue delivers a notice (`EventQueue`). `SF` of a monitoring poll that
ends with something is what a long poll amounts to. Nothing is assumed of the owner or of
what a command brings.

*Fairness of `services`.* Group: the announcing round comes again. Progress: the adapter, the
progress loop, the recovery and the supervisor's loop each go on. Update: the worker and
the adapter go on, and a delay ends whatever they do (`Waiting`). Ingress: the adapter's callbacks run, launchd restarts it, a post to the
Dispatcher ends, and Slack sends an unacknowledged event again (`SF` of `Receive`).

*Fairness of the scheduler.* The publisher and a service poll every second, leases end, time
passes; who claims again and again once keeps its lease for a batch (`SF` of `InTime`).

*Fairness of the controller (`FairSpec`).* `WF(Updater)`: the service loop calls
`processNext` again after every return, and every call has a timeout. `WF(Expire)`: a
deadline that was written passes. The world owes nothing.

*Fairness of the ledger.* `WF(LoopNext)`: the loop ticks while the process runs.
`WF(Start)`: launchd. `SF` of an answered question (evidence, delivery, lookup):
every call has a timeout and is repeated, and one of them is answered some day. `WF`
of `SettleEvent`: the Dispatcher's notification worker ends each event. Nothing is
assumed of the API, the operator, clocks or crashes.

*Fairness of the queue (`FairSpec`).* `WF(Worker)`: the loop runs while the process does, and
every call to Herdr has a timeout (`herdr.ts`). `SF(PreflightReady)` and
`SF(WaitIdle)`: the agent is free again and again, and a turn ends at last; the
code cannot make this true, a human or the agent does. `WF(Start)`: launchd's
KeepAlive. `WF(Exit)`, `WF` of `Stop` once quiescing: the updater ends a
Dispatcher it quiesced. `WF(BecomeDue)`: time passes. Nothing is assumed of
crashes, the operator, the agent's calls or its result.

## 4. Proofs

Every theorem holds for every value of the constants: any set of events, plans or jobs, any
limit, any number of crashes, faults and requests. The proof modules rest only on the named
assumptions of the modules they extend, which TLC evaluates in the runs. Hardly a property
is inductive; for each module the invariant that carries it says what every actor knows at
each of its awaits. Where a module has
dozens of actions, they are first shown to have one of a few shapes (the lemmas `...Shaped`,
`...Fits`, `...Kept`), and the invariant is proved about the shapes.

**EventQueueProofs**: `TypeCorrect` (`TypeOK`, with `attempts <= MaxAttempts`), `OneAtATime`
(`SingleFlight`), `NeverResent` (`AtMostOnce`), `NoneStranded` (`DispatchingIsHeld`),
`OwnedSettled` (`OwnedFollowsEvent`), `PromptedInOrder` (`OrderedDispatch`) and
`QueueDeliversSerially` (the refinement of `SerialDelivery`).

`IInv` adds what the worker knows at each await: it holds a row exactly when it is at one; at
`preflight` and `access` no other row is engaged, because `PickQueued` looked and only the
worker engages rows; the row it holds was in the status it remembers when it read it; and a
row that may be prompted has `sent <= retried`. `Owned` ties the group and the run of an event
to its status: each is settled in the transaction that closes the row. `Picked` says that what
stands before the row about to be prompted was put back by the operator after the worker had
picked, the one exception of the order. For the refinement `stage` and `allowed` are what
`SerialDelivery` sees of a row; each action is a step of it or a stutter, and `OneAtATime`
gives the guard of its hand-over.

**UpdateLedgerProofs**: `TypeCorrect`, `FencedWriter` (`OneWriter`), `LatestDecisionReported`
(`DecisionReported`), `NeverReopened` (`ReopenedByNewFence`) and `SingleFlightUntilRollback`:
`Spec => [](rollbacks = 0 => RuntimeSingleFlight)`.

The invariant adds to the type that a fence in a runner's hand was once that of its request
(`FencesPast`); that no notice is ahead of the fence, and none stands at the fence of an
undecided request (`NoticesPast`), without which the decision could find its row taken by an
older one; and that the notice in delivery has a row (`NoteWritten`). Some forty actions do
only three things to a request: `Kept` (left alone or moved on undecided), `Raised` (a higher
fence) and `Decided`; a runner either rests or has just claimed. For the single flight,
`createPlan` refuses a plan while another is open, so at most one request is open
(`OneOpen`) until the operator's rollback reopens one; the runners at work are then at work on
the same request, and the fence leaves one of them. With a rollback the property is false:
that is `update_ledger_rollback`, which is why `update_ledger_pair` orders none.

**UpdateControllerProofs**: `KnownGoodAlways` (`KnownGood`), `WorkersStayBehindAlways`
(`WorkersStayBehind`), `OneCommandAlways` (`OneCommand`), `DecisionTrueAlways`
(`DecisionTrue`) and `TypeCorrect` (`TypeOK`, with the ranges of the counters).

That `previous` may be overwritten by `current` needs that the old release is current then,
which needs that it is wherever the runner may still come to the switch (`PointersPast`), and
that a plan that switches is activating (`SwitchActivates`). Two more parts say that a command
in flight is the one the runner awaits (`CommandHere`) and that since the last look no
Dispatcher runs that could start a worker (`LookedAt`). Of some sixty actions most lead the
runner `Away` from the places the invariant speaks of, it `Stays` where it gives or awaits a
command, or it `Advances` to the switch. For the decisions, most steps are `Calm`: they decide
nothing but a review. What remains is what each place that decides has seen: nothing was
touched yet (`FreshInv`), a plan is rolled back only while `rolling_back` (`UndoInv`), a
plan that activates has its schema (`SchemaInv`), and each service whose restart was verified
runs the old release when the next one is looked at (`RestoreInv`).

For the ranges of the counters: the row's generation is 0 until the receipt of an activation
was read back, and at most 1 until a rollback has written its own (`GenerationInv`), so it
never passes 2, whatever is read twice. The launches of a target are at most one more than
the ends of the runner, and as many only once the target was launched or is about to be
(`AttemptsInv`): an attempt is counted again only when the runner ended between the count and
the command.

**JobSupervisorProofs**: `TypeCorrect`, `NeverCommandedTwice` (`CommandedOnce`),
`NothingWorksForTheCancelled` (`CancelledIsQuiet`) and `FinishedForGood` (`TerminalStays`).

`PromptInv`: a job that will be started, or is, has no prompt read; an operation at its
prompt belongs to a row that is past that, and one whose prompt was not read finds none read.
`CleanInv`: before the durable claim nothing was sent, and the operation that sends is the one
that claimed. `Attempted`: a row that waits, or that a restart may return to waiting, has an
attempt left but for those that crashes took. For the cancelled job, `ReadInv` says what the
row and the control know of a prompt that was not read, and `JoinInv` that a cancellation
waits for the start under way: a prompt that may still be read belongs to a job that is
dispatching or whose cancellation is at the join.

**TaskExecutionProofs**: `TypeCorrect`, `OneWorker` (`WorkersAccounted`) and
`OwnerHasTheLastWord` (`OwnerDecides`).

An attempt that was replaced rests and has no worker but one without a prompt (`Earlier`), and
one that does not exist yet left no trace (`Later`). From the claim of the stop on nothing
starts, steers or resumes the attempt (`Stopping`), the pane is closed under the intent on the
row (`ClosedOnce`), only a prompt brings a result (`Evidence`). A round knows the owner's wish
unless the row has moved since it was read, and that nobody is asked anything (`Visited`);
that is what carries `OwnerDecides` over its awaits.

**SchedulerProofs**: `TypeCorrect`, `PostedAtMostOnce` (`PostsAccounted`), `OneRunEach`
(`OccurrenceOnce`) and `CurrentOnly` (`UnsentIsCurrent`).

`Good` is the invariant of the tables alone: what is numbered exists (`Numbered`), the run and
the outbox row of an occurrence agree (`Agreed`), at most one run is unresolved (`Single`). Every
write of the repository is shown to keep it, and `Narrows`, `Follows` and `Onward` say what a
write leaves of the other rows. `Working`: a sender with a request under way has its row
started in its own name, or in review, and the message counts once. `Handed` says what a
service has in its batch. `recover` sweeps the occurrences with recursive functions; that they
are defined and keep `Good` is shown by the least occurrence at which they would not (`Least`).

**SlackIngressProofs**: `AckedAlwaysStored`, `OneSocketAlways`, `DrainedStaysQuiet` and
`TypesAlways` (`TypeOK` of the module, for any number of events). The
envelopes add what each await knows of its event; the socket that a timer is scheduled, and
only one, while the client is idle.

**ServicesProofs**: `NoticeLastAlways` (`NoticeIsLastWord`), `TakenOnceAlways` (`TakenOnce`),
`ToldTrueAlways` (`ToldStaysTrue`) and `TypesAlways` (`TypesOK`).

*Progress.* `LineInv`: a report is under way only while nobody was told anything, and its
request is the one it waits for or drains, unless that was left to an adapter that stops
(`Reported`, `Requested`); a request of an earlier process that is writing has its row, and
another one than the report.

*Update notices.* `ThreadInv`: what each request found of its event's thread is still so unless
two requests crossed (`Served`, `Unposted`, `Seen`). `StoreInv`: the row, the result and the
event are at most one write apart (`Noted`, `InHand`), and an event in the worker's hands is
in one of the states that the operator can leave an open one in (`Loose`).

*How often a notice is posted.* `PostsPaid`, a part of `TakenOnce`: with f failures and c
crashes so far the posts of a notice, those still on their way included, are at most
(3 + f + c) / 2; the TLC run meets this limit, 3. `TypesAlways` needs it, because the types
bound the posts (`MostPosts`). `Counts` carries it. What was sent, the requests that have
still to look or to post and the request that the row still leads to (`Hope`) are together
at most one more than the failures and crashes. A post on its way has cost one failure more;
and since a request looks at the thread before it posts, and at most two requests are under
way, all but two of the posts came late.

*Ingress.* The theorems of `SlackIngressProofs`, of an instance of it.

*Groups.* `Sound`, about any tables: those that are named exist and what was withdrawn is closed
(`Sane`), and the three promises (`Finished`, `Attended`, `Agreed`). The operations are
operators from tables to tables, so each part of one (`HandOff`, `Supersede`, `Resolve`,
`Enqueue`, `SaveResult`) has a lemma of its own and the transactions compose them. Most leave
the queue and the verdicts alone (`Calm`); a notice that changes in the queue is not closed
yet, so nobody has counted on it; and while a job has not ended there is no final report to
contradict (`NoReportYet`).

*Only model-checked.* Liveness, everywhere (`EventuallySettled`, `NoticeSettles`,
`ActivationSettles`, `OutcomeTold`, `EveryTaskSettles`, `EventuallyDecided`,
`EverythingComes`): it is out of the prover's reach. Every invariant and every action property
that a run checks is proved, and so is the refinement of `SerialDelivery`.

## 5. Disagreements found

Each of the first three has a run that expects its violation:

* `event_queue_retry`: `manualRetry` checks the status outside its transaction and
  its UPDATE is unconditional; the CLI is another process, so a row the agent
  already holds can be put back to `queued`.
* `update_ledger_rollback`: `beginOperatorRollback` reopens a plan although another
  one is open; when its lease runs out the loop claims the other plan, and
  `renewLease`, which asks neither for the expiry nor for the active request,
  revives the first lease. Both runners then pass `assertLease`.
* `update_controller_schema`: when the updater ends between a successful migration and
  the write that the plan is activating, the plan is still `quiescing`; a registration
  that cannot be read then leads to `restoreQuiescedServices`, which looks at the
  schema only for an activating plan, and the Dispatcher that reads v2 only is started
  on the migrated database, which the comment at `controller.ts:814-820` calls unsafe.

The others were seen while modelling. They have no run of their own; where a property
would meet one, its comment names the case it leaves out.

**Queue.** A definite refusal of a delegation, recorded in `last_error_code`, is
overwritten when the worker writes its own code while it waits; the run then becomes
`needs_review` as if the write were ambiguous, which the test
`scheduler-repository.test.ts:1264` says it must not.

**Ledger.** A reconcile of the API claims an approved plan past the approval barrier
(`docs/self-update-architecture.md:43`); it also claims while a report is still out
(line 23), and so does the loop when the report appears during the barrier; a report
superseded after `deliverOutbox` read its rows is sent all the same, which `Deliver`
models. `claim` does not ask whether the approved plan was cancelled during the question
to the Dispatcher (`controller.ts:300`): the controller stays with a decided plan, and
every correction of another one is refused.

**Controller.** A reconcile of `quiescing` whose service state cannot be proved throws
on every tick (`controller.ts:617`, `684`), and so does a rollback whose target does not
answer a drain (`controller.ts:1073`, `1081`), so no deadline bounds them, as
`docs/self-update-architecture.md:37` has it; therefore `ActivationSettles` ends at
`rolling_back`. A Herdr that does not answer counts as evidence that an agent stopped.
The comment at `controller.ts:1250`, "Rollback has not switched the pointer", does not
hold of a rollback resumed half way. A crash between the write of the current pointer
and the receipt leaves a plan that only a person can decide.

**Supervisor.** `recoverStaleJobs` reopens a finished job whose `steer_state` is still
`dispatching` (the exception of `TerminalStays`).

**Tasks.** A checkpoint asks for a person's decision; the owner pauses, and resumes while
the stop is under way: `replaceStopped` then replaces the worker without the answer
(`job-supervisor.ts:239-240`, `269-273`; `task-execution.ts:331-342`), although
`docs/operations/task-execution.md:19` has it that an approval is not bypassed by a pause
and a resume (the exception of `OwnerDecides`). After the same pause the question can
only be cancelled. A pause or cancel while the job is `retryable_failed` and has no pane
waits for a pane that never comes; a queued job that may not run makes
`scheduleRunnableJobs` leave its loop (`job-supervisor.ts:843`) and holds up the jobs
behind it. The resume of a paused task whose first observation fails, a steer cut off by
a restart between `prepareSteer` and `beginJobSteer`, and a worker whose usage limit does
not lift are left without a word (`LeftAlone` names what `EveryTaskSettles` excepts). A
blocked job answered in its pane, which finishes before the next look, is refused its
result by `saveJobResult` and stays `external_effect_unknown`.

**Groups.** The cancellation of a sibling withdraws a failed job's queued attention; when
it is announced again it carries the same `external_event_id`, `enqueue` throws
`payloadMismatch` on every round, and it is never told (`dispatcher/README.md:123`;
`database.ts:2478-2526`, `851-905`). The same happens to a single job told
`needs_review`, cancelled, and again in `needs_review` (the exception of `OutcomeTold`).
When `handoffResolvedAttention` has cleared the attention for a sibling already told,
which then resumes and completes before the round, `listJobsNeedingNotification` lists
nobody and the final report is never written (`ReportDue` asks for an attention
therefore). `acceptLateJobResult`, `resolveInvalidJobResult` and
`resolveNeedsReviewAttention` always throw (`database.ts:1677-1681`).

**Progress.** After a crash of the Dispatcher with a request still writing in the adapter
and a drain that timed out (`service.ts:108`), a notice may precede that old write: an
attention for a job already checked, or, because `requeueLatest` leaves
`terminal_checked` set, even the final notice; `disableProgress` releases the notices
regardless, and `recoverDeliveries` of a background recovery marks rows of the new
process unknown. An adapter that is stopping no longer answers the drain while its last
request still writes, and counts as drained (`job-progress.ts:255`): a notice may precede
that request, too (the exceptions of `NoProgressAfterNotice`, a part of `NoticeIsLastWord`).

**Update notification.** `jobCommandTimeoutMs` is 10 s by default, the timeout of the
Slack client 15 s for each call: the caller gives up and retries while the adapter goes
on, and two posts are possible, although `dispatcher/README.md:119` and
`docs/self-update-architecture.md:55` exclude them (the exception `crossed`). An
operator's retry of a refused report requeues the event, whose row stays
`needs_review` and is never delivered again; the same happens to an event that was reported,
put in the dead letters and retried. An event put in the dead letters by hand
(`database.ts:3380`) while its row is open is posted all the same; then its save is refused
on every round (`database.ts:2935`, `2947`), and because `nextAvailable` takes the oldest row
and a posted row is not put back, no later notice is delivered until the operator has the
event queued again, although the comment at `update-notification.ts:487` has it that an
invalid event must not starve the later ones (`Stuck`, the exception of
`EveryEventCloses`). When that retry falls between the write of the result and the save, an
event may be completed whose result was put aside. The adapter's drain does not count these
requests (`health-server.ts:138-160`).

**Scheduler.** `expireSchedule` is unconditional: a cancelled schedule becomes `expired`
when a work notification is settled later (`docs/adr/0001-scheduler-policy.md:61` counts it out of the open ones for good).

## 6. Plan

Done: every component of section 2 is model-checked, and every safety property that a
passing run checks is proved.

Left, in this order:

1. `DecisionTrue` without the assumption of one runner, by putting the controller's steps
   under the ledger's fence;
2. the successor of a handoff, several Slack workspaces, jobs added to a group after it
   began;
3. the publication of a job's result, once it is connected.

### Not modelled

* *Job result publication*: not connected at this commit. Nothing constructs
  `JobResultPublishServer` or its capabilities, and `job-result-publish.md` leaves the
  durable writer and the switch from result files to later work. Most of its lines
  are a filter of regular expressions over text.
* *Recurrence calculator*: what it computes is what the Temporal library computes of time
  zones and calendars. A model would replace the library by a small calendar and check
  that calendar; the scheduler takes an occurrence as a number that grows.
* *Schema rollout, maintenance fence, offline scripts*: run by a person with the services
  stopped. The schema step of an update is in `UpdateController`.
* *Updater adapters, policy, API and bootstrap*: git, npm, launchctl and health calls,
  represented by the outcomes the controller tells apart; validation without state.
* *Slack API and MCP servers*: translate calls; no state of their own. What they answer is
  an outcome in the modules that call them.
* *Configuration, logging, command line, installation*: parsing, wording, spawning.

Within the modelled parts, each component's note in `PROJECT.json` says what is out.
