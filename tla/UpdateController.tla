------------------------- MODULE UpdateController -------------------------
(***************************************************************************)
(* One approved plan in the hands of the stable updater: it quiesces and   *)
(* stops the running release, migrates the schema of the Dispatcher's      *)
(* database, switches the release pointers, starts the target, verifies    *)
(* it, and restores or rolls back when something does not hold.            *)
(*                                                                         *)
(* UpdateLedger leaves these steps open and shows which runner may write;  *)
(* here one runner at a time works on the plan.  It may stop at every      *)
(* await, with the command in flight done or not, and is resumed from what *)
(* the database, the pointers and the receipt say and what it can observe. *)
(* Every observation may fail.                                             *)
(***************************************************************************)
EXTENDS Integers

CONSTANTS
    Plans,        \* the plans that may be approved
    CrashLimit,   \* bound: runners that end half way
    EventLimit    \* bound: services restarted by launchd or registered by somebody,
                  \* and rollbacks ordered by the operator, together

ASSUME BoundAssumption == CrashLimit \in Nat /\ EventLimit \in Nat

\* What a plan says of the target: whether it migrates the schema, whether the
\* release before it reads the result (rollback_compatible), and, which nobody
\* knows yet, whether it will report another build than its own.
ASSUME PlansAssumption ==
    Plans \subseteq {p \in [migrates : BOOLEAN, compatible : BOOLEAN, misbuilt : BOOLEAN] :
                        p.migrates \/ p.compatible}

VARIABLES
    plan,       \* what was approved
    row,        \* update_requests
    op,         \* runtime_operations: the phase of each kind
    recovery,   \* the scope and the cause a recovery writes as evidence of its operations
    held,       \* the session of the main agent stop_target_main_agent was prepared for
    current, previous, receipt,   \* the release pointers and the activation receipt
    svc,        \* launchd: the release each registered service runs
    draining,   \* services that took a quiesce and refuse work
    main,       \* the session of the main agent
    worker,     \* an external worker is active in the durable job state
    schema,     \* of the Dispatcher's database
    run,        \* the runner: where it awaits, and its locals
    used        \* of the bounds

rowVars     == <<row, op, recovery, held>>
pointerVars == <<current, previous, receipt>>
worldVars   == <<svc, draining, main, worker, schema>>
vars == <<plan, rowVars, pointerVars, worldVars, run, used>>

Service == {"dispatcher", "slack"}

\* The plan's current_sha and target_sha.
Release == {"old", "new"}

Mutating == {"quiescing", "activating", "restarting", "verifying", "rolling_back"}
Final    == {"succeeded", "failed", "rolled_back"}
Terminal == Final \cup {"needs_review"}
State    == {"preparing", "staged"} \cup Mutating \cup Terminal

Stops     == {"stop_slack", "stop_dispatcher", "stop_target_slack", "stop_target_dispatcher"}
Starts    == {"start_target_dispatcher", "start_target_slack",
              "start_previous_dispatcher", "start_previous_slack"}
Restarts  == {"restart_current_dispatcher", "restart_current_slack",
              "restart_target_dispatcher", "restart_target_slack"}
MainStops == {"stop_main_agent", "stop_target_main_agent"}
Resumes   == {"start_previous_main_agent", "restart_target_main_agent"}
Kind == Stops \cup Starts \cup Restarts \cup MainStops \cup Resumes \cup {"start_target_main_agent"}

Phase == {"none", "prepared", "accepted", "observed", "rejected", "unknown"}

ServiceOf(k) ==
    IF k \in {"stop_dispatcher", "stop_target_dispatcher", "start_target_dispatcher",
              "start_previous_dispatcher", "restart_current_dispatcher", "restart_target_dispatcher"}
    THEN "dispatcher" ELSE "slack"

\* The release an operation expects to run after it.
ReleaseOf(k) ==
    IF k \in {"start_target_main_agent", "start_target_dispatcher", "start_target_slack",
              "restart_target_main_agent", "restart_target_dispatcher", "restart_target_slack"}
    THEN "new" ELSE "old"

\* A session of the main agent per launch: the one of the old release found at
\* the start, the target's, and the ones a recovery or a rollback launches.
Session == {"none", "old", "new", "back", "again"}
Runs(session) == CASE session \in {"old", "back"} -> "old"
                   [] session \in {"new", "again"} -> "new"
                   [] OTHER -> "none"

Places ==
    {"idle", "prepare", "barrier", "quiesce", "observe_dispatcher", "drain_slack", "slack_drained",
     "drain_dispatcher", "dispatcher_drained", "worker_after_stop", "migrate", "activate",
     "switch_previous", "switch_current", "write_receipt", "activated", "activation_evidence",
     "count_restart", "verify", "rollback", "rollback_observe", "drain_target_slack",
     "target_slack_drained", "drain_target_dispatcher", "target_dispatcher_drained",
     "target_worker_after_stop", "operator_rollback", "rollback_worker", "switch_back", "switch_previous_back",
     "write_rollback_receipt", "switched_back", "verify_rollback",
     "restore", "restore_check", "restore_target", "restore_target_check"} \cup Kind

Rest == [at |-> "idle", by |-> "none", cmd |-> "none",
         seen |-> {}, broken |-> FALSE, known |-> FALSE]

Nothing == [scope |-> {}, cause |-> "other"]

Init ==
    /\ plan \in Plans
    /\ row = [state |-> "preparing", why |-> "none", deadline |-> "none",
              generation |-> 0, attempts |-> 0]
    /\ op = [k \in Kind |-> "none"]
    /\ recovery = Nothing /\ held = "none"
    /\ current = "old" /\ previous = "older" /\ receipt = [to |-> "none", generation |-> 0]
    /\ svc = [s \in Service |-> "old"] /\ draining = {}
    /\ main = "old" /\ worker = FALSE /\ schema = "old"
    /\ run = Rest
    /\ used = [crashes |-> 0, restarts |-> 0, registered |-> 0, rollbacks |-> 0]

-----------------------------------------------------------------------------
(***************************************************************************)
(* Observations                                                            *)
(***************************************************************************)

Readable(release) == release = "new" \/ schema = "old" \/ plan.compatible

\* What a service reports as its build.
Sha(release) == IF release = "new" /\ plan.misbuilt THEN "other" ELSE release

\* Health of a service that should run release r.  A draining service answers
\* not_ready; every request may fail.
Health(s, r) ==
    {"down"} \cup
    IF svc[s] = "off" THEN {}
    ELSE IF Sha(svc[s]) # r THEN {"wrong"}
    ELSE {"unready"} \cup IF s \notin draining /\ Readable(svc[s]) THEN {"ready"} ELSE {}

Live(s) == svc[s] # "off"

Healthy(s, r) == "ready" \in Health(s, r)

\* launchctl print tells it or fails; so does the query of the job state.
Registered(s) == svc[s] # "off"
WorkerTrusted == TRUE      \* mutant: the job state is not read
WorkerSafe == ~worker

\* mainAgentStatus(release): Herdr not answering looks like no agent.
Agent(r) ==
    {"absent"} \cup
    IF main = "none" THEN {}
    ELSE IF Runs(main) = r THEN {"ready", "unready"} ELSE {"other"}

AgentReady(r) == "ready" \in Agent(r)

\* recoveryServiceQuiesced; every failed read makes it FALSE.
Quiesced(s, persistedStop) ==
    {FALSE} \cup
    IF svc[s] = "off" THEN {persistedStop}
    ELSE {svc[s] = "old" /\ s \in draining /\ (s = "dispatcher" => ~worker)}

\* The scopes a recovery may find, given the stops that are persisted.
Scopes(dispatcherStop, slackStop) ==
    {{s \in Service : IF s = "dispatcher" THEN d ELSE a} :
        d \in Quiesced("dispatcher", dispatcherStop), a \in Quiesced("slack", slackStop)}

Issued(k) == op[k] # "none"

\* rollbackQuiescedScope: a stop that was observed, or a drain status that says so.
RollbackScopes ==
    LET stopped == {s \in Service : op[IF s = "slack" THEN "stop_target_slack"
                                       ELSE "stop_target_dispatcher"] = "observed"}
    IN {stopped \cup d : d \in SUBSET {s \in Service : s \in draining /\ Live(s)}}

-----------------------------------------------------------------------------
(***************************************************************************)
(* What a step of the runner comes to                                      *)
(***************************************************************************)

Goes(to) == run' = [run EXCEPT !.at = to, !.cmd = "none"] /\ UNCHANGED row

Enters(state, to) ==
    /\ row' = [row EXCEPT !.state = state]
    /\ run' = [run EXCEPT !.at = to, !.cmd = "none"]

\* terminal: completeInternal clears the reconcile window.
Decides(state, code) ==
    /\ row' = [row EXCEPT !.state = state, !.why = code, !.deadline = "none"]
    /\ run' = Rest

\* needsReview: a code of reconcilableNeedsReviewCodes is "evidence".
Review(code) == Decides("needs_review", code)

\* Mutant: the deadline is not persisted.
DeferAgain == UNCHANGED row /\ run' = Rest

\* deferOrReview: its codes are all reconcilable.
Defer ==
    \/ row.deadline = "expired" /\ Review("evidence")
    \/ row.deadline # "expired" /\ row' = [row EXCEPT !.deadline = "open"] /\ run' = Rest

\* An error leaves reconcile as it is; handleUnexpected decides an attempt.
CurrentVerified == current = "old" /\ (\A s \in Service : Healthy(s, "old")) /\ AgentReady("old")

Throw ==
    \/ run.by # "attempt" /\ run' = Rest /\ UNCHANGED row
    \/ run.by = "attempt" /\ Review("other")
    \/ run.by = "attempt" /\ row.state \notin Mutating /\ CurrentVerified /\ Decides("failed", "none")

Records(k, phase) == op' = [op EXCEPT ![k] = phase]

SameEvidence == UNCHANGED <<recovery, held>>

Still  == UNCHANGED <<plan, pointerVars, used>>
Unmoved == UNCHANGED worldVars

\* A step that only reads.
Reads == UNCHANGED <<op, recovery, held>> /\ Still /\ Unmoved

\* restoreQuiescedServices and restoreTargetAfterDrain, with their scope.
Recover(scope) ==
    /\ recovery' = [scope |-> scope, cause |-> "other"]
    /\ Goes("restore")

FirstOf(dispatcherKind, slackKind, mainStop, mainKind, check) ==
    IF "dispatcher" \in recovery.scope THEN dispatcherKind
    ELSE IF "slack" \in recovery.scope THEN slackKind
    ELSE IF op[mainStop] = "observed" THEN mainKind ELSE check

RestoreTarget(scope, cause) ==
    /\ recovery' = [scope |-> scope, cause |-> cause]
    /\ Goes("restore_target")

\* rollback: only a compatible previous release, and automatically only once.
MayRollBack == plan.compatible /\ row.attempts <= 1

RollBack(known) ==
    \/ ~MayRollBack /\ Review("other")
    \/ /\ MayRollBack
       /\ row' = [row EXCEPT !.state = "rolling_back"]
       /\ run' = [run EXCEPT !.at = "rollback", !.cmd = "none", !.known = known]

-----------------------------------------------------------------------------
(***************************************************************************)
(* Commands.  The intent is persisted, then the command is given; it may   *)
(* be carried out although its answer is lost.                             *)
(***************************************************************************)

LaunchedSession(k) == CASE k = "start_target_main_agent" -> "new"
                        [] k = "start_previous_main_agent" -> "back"
                        [] k = "restart_target_main_agent" -> "again"

\* bootout, and bootstrap or kickstart -k: what launchd starts runs the current
\* release and has no drain.  A main agent is started only in a free pane.
Done(k) ==
    /\ svc' = IF k \in Stops THEN [svc EXCEPT ![ServiceOf(k)] = "off"]
              ELSE IF k \in Starts \cup Restarts THEN [svc EXCEPT ![ServiceOf(k)] = current]
              ELSE svc
    /\ draining' = IF k \in Stops \cup Starts \cup Restarts THEN draining \ {ServiceOf(k)}
                   ELSE draining
    /\ main' = IF k \in MainStops THEN "none"
               ELSE IF k \in Resumes \cup {"start_target_main_agent"} /\ main = "none"
               THEN LaunchedSession(k)
               ELSE main
    /\ schema' = IF k = "migrate_schema" THEN "new" ELSE schema
    /\ UNCHANGED worker

DoneOrNot(k) == Done(k) \/ Unmoved

\* prepareRuntimeOperation, and the command in the same breath.
Issue(k) ==
    /\ Records(k, "prepared")
    /\ run' = [run EXCEPT !.at = k, !.cmd = k]
    /\ UNCHANGED <<row, recovery>> /\ Still /\ Unmoved

At(k) == run.at = k /\ run.cmd = "none"
Answered(k) == run.cmd = k

Succeeds(k, to) == Records(k, "observed") /\ Goes(to)

\* Mutant: a command whose answer was lost is given again.
PersistedUnlessLost(k) == op[k] \notin {"none", "rejected", "unknown"}

\* An operation that is already persisted is only observed.
Persisted(k) == op[k] \notin {"none", "rejected"}

-----------------------------------------------------------------------------
(***************************************************************************)
(* ensureServiceStopped                                                    *)
(***************************************************************************)

NextStop(k) ==
    CASE k = "stop_slack" -> "stop_dispatcher"
      [] k = "stop_dispatcher" -> "worker_after_stop"
      [] k = "stop_target_slack" -> "stop_target_dispatcher"
      [] k = "stop_target_dispatcher" -> "target_worker_after_stop"

\* Its callers catch a registration that cannot be read.
StopUnverified(k) ==
    /\ UNCHANGED op
    /\ \/ k \in {"stop_slack", "stop_dispatcher"} /\ Recover(Service)
       \/ k \notin {"stop_slack", "stop_dispatcher"} /\ RestoreTarget(Service, "other")

StopService(k) ==
    /\ At(k)
    /\ \/ /\ op[k] = "none" /\ Registered(ServiceOf(k))
          /\ Issue(k) /\ UNCHANGED held
       \/ /\ op[k] # "rejected" /\ ~Registered(ServiceOf(k))
          /\ Succeeds(k, NextStop(k))
          /\ SameEvidence /\ Still /\ Unmoved
       \/ /\ op[k] # "rejected"
          /\ StopUnverified(k) /\ UNCHANGED held /\ Still /\ Unmoved
       \/ /\ Persisted(k) /\ Registered(ServiceOf(k))
          /\ Defer /\ Reads
       \/ /\ op[k] = "rejected"
          /\ Review("other") /\ Reads

StopAnswered(k) ==
    /\ Answered(k)
    /\ \/ Done(k) /\ Records(k, "accepted") /\ Goes(k) /\ SameEvidence
       \/ Unmoved /\ Records(k, "rejected") /\ Review("other") /\ SameEvidence
       \/ DoneOrNot(k) /\ Records(k, "unknown") /\ Defer /\ SameEvidence
       \/ Unmoved /\ StopUnverified(k) /\ UNCHANGED held
    /\ Still

-----------------------------------------------------------------------------
(***************************************************************************)
(* ensureServiceStarted                                                    *)
(***************************************************************************)

\* Where a started service leads, and the wrong build.
Started(k) ==
    CASE k = "start_target_dispatcher" -> Goes("start_target_slack")
      [] k = "start_target_slack" -> Enters("verifying", "verify")
      [] k = "start_previous_dispatcher" -> Goes("start_previous_slack")
      [] k = "start_previous_slack" -> Goes("verify_rollback")

WrongBuild(k) ==
    \/ k \in {"start_target_dispatcher", "start_target_slack"} /\ RollBack(FALSE)
    \/ k \in {"start_previous_dispatcher", "start_previous_slack"} /\ Review("other")

StartService(k) ==
    LET s == ServiceOf(k) r == ReleaseOf(k) IN
    /\ At(k)
    /\ \/ /\ op[k] # "rejected" /\ "wrong" \in Health(s, r)
          /\ WrongBuild(k) /\ Reads
       \/ /\ op[k] # "rejected" /\ Healthy(s, r)
          /\ Records(k, "observed") /\ Started(k)
          /\ SameEvidence /\ Still /\ Unmoved
       \/ /\ ~Persisted(k) /\ op[k] # "rejected"
          /\ Issue(k) /\ UNCHANGED held
       \/ /\ Persisted(k)
          /\ Defer /\ Reads
       \/ /\ op[k] = "rejected"
          /\ Review("other") /\ Reads

\* The last disjunct: the command could not be given, the service is up all the same.
StartAnswered(k) ==
    /\ Answered(k)
    /\ \/ Done(k) /\ Records(k, "accepted") /\ Goes(k)
       \/ Unmoved /\ Records(k, "rejected") /\ Review("other")
       \/ DoneOrNot(k) /\ Records(k, "unknown") /\ Defer
       \/ /\ Healthy(ServiceOf(k), ReleaseOf(k))
          /\ Unmoved /\ Records(k, "observed") /\ Started(k)
    /\ SameEvidence /\ Still

-----------------------------------------------------------------------------
(***************************************************************************)
(* restartQuiescedService, and the recoveries that use it                  *)
(***************************************************************************)

NextRestart(k) ==
    LET current_ == k \in {"restart_current_dispatcher", "restart_current_slack"}
        slackKind == IF current_ THEN "restart_current_slack" ELSE "restart_target_slack"
        stop == IF current_ THEN "stop_main_agent" ELSE "stop_target_main_agent"
        resume == IF current_ THEN "start_previous_main_agent" ELSE "restart_target_main_agent"
    IN IF ServiceOf(k) = "dispatcher" /\ "slack" \in recovery.scope THEN slackKind
       ELSE IF op[stop] = "observed" THEN resume
       ELSE IF current_ THEN "restore_check" ELSE "restore_target_check"

\* A failure is kept for the end: the other service is restored first.
Breaks(k) == run' = [run EXCEPT !.at = NextRestart(k), !.cmd = "none", !.broken = TRUE] /\ UNCHANGED row

RestartService(k) ==
    /\ At(k)
    /\ \/ op[k] = "none" /\ Issue(k) /\ UNCHANGED held
       \/ /\ Persisted(k) /\ Healthy(ServiceOf(k), ReleaseOf(k))
          /\ Succeeds(k, NextRestart(k))
          /\ SameEvidence /\ Still /\ Unmoved
       \/ op[k] # "none" /\ Breaks(k) /\ Reads

RestartAnswered(k) ==
    /\ Answered(k)
    /\ \/ Done(k) /\ Records(k, "accepted") /\ Goes(k)
       \/ Unmoved /\ Records(k, "rejected") /\ Breaks(k)
       \/ DoneOrNot(k) /\ Records(k, "unknown") /\ Goes(k)
    /\ SameEvidence /\ Still

\* restoreQuiescedServices reads the schema only once the plan is activating.
SchemaChecked == row.state = "activating"

Restore ==
    /\ At("restore")
    /\ \/ /\ current = "old"
          /\ SchemaChecked => Readable("old")
          /\ Goes(FirstOf("restart_current_dispatcher", "restart_current_slack",
                          "stop_main_agent", "start_previous_main_agent", "restore_check"))
       \/ (current # "old" \/ SchemaChecked) /\ Review("other")
    /\ Reads

\* Mutant: what was not restarted is not looked at.
UntouchedNone == {}

\* Only a runtime that is whole again makes the plan a failed one.
Untouched == Service \ recovery.scope

RestoreCheck ==
    /\ At("restore_check")
    /\ \/ /\ ~run.broken
          /\ current = "old" /\ (\A s \in Untouched : Healthy(s, "old")) /\ AgentReady("old")
          /\ Decides("failed", "none")
       \/ Review("other")
    /\ Reads

RestoreTargetServices ==
    /\ At("restore_target")
    /\ Goes(FirstOf("restart_target_dispatcher", "restart_target_slack",
                    "stop_target_main_agent", "restart_target_main_agent", "restore_target_check"))
    /\ Reads

\* A rollback that was given up always ends in review.
RestoreTargetCheck ==
    /\ At("restore_target_check")
    /\ \/ /\ ~run.broken
          /\ current = "new" /\ \A s \in Untouched : Healthy(s, "new")
          /\ Review(recovery.cause)
       \/ Review("other")
    /\ Reads

-----------------------------------------------------------------------------
(***************************************************************************)
(* The main agent                                                          *)
(***************************************************************************)

StopMainAgent ==
    /\ At("stop_main_agent")
    /\ \/ op["stop_main_agent"] = "none" /\ main = "old" /\ Issue("stop_main_agent") /\ UNCHANGED held
       \/ /\ op["stop_main_agent"] = "none"
          /\ Recover(Service) /\ UNCHANGED <<op, held>> /\ Still /\ Unmoved
       \/ op["stop_main_agent"] = "observed" /\ Goes("stop_slack") /\ Reads
       \/ /\ op["stop_main_agent"] \in {"prepared", "unknown"}
          /\ "absent" \in Agent("old")
          /\ Succeeds("stop_main_agent", "stop_slack")
          /\ SameEvidence /\ Still /\ Unmoved
       \/ /\ op["stop_main_agent"] \in {"prepared", "unknown"} /\ main # "none"
          /\ Defer /\ Reads

StopMainAnswered ==
    /\ Answered("stop_main_agent")
    /\ \/ Done("stop_main_agent") /\ Succeeds("stop_main_agent", "stop_slack") /\ UNCHANGED recovery
       \/ Unmoved /\ Records("stop_main_agent", "rejected") /\ Recover(Service)
       \/ DoneOrNot("stop_main_agent") /\ Records("stop_main_agent", "unknown") /\ Defer /\ UNCHANGED recovery
    /\ UNCHANGED held /\ Still

\* ensureRollbackMainAgentStopped: what does not succeed gives the rollback up.
StopTargetMain ==
    LET k == "stop_target_main_agent"
        GivesUp(cause) == RestoreTarget(Service, cause) /\ UNCHANGED <<op, held>>
    IN
    /\ At(k)
    /\ \/ /\ op[k] = "none" /\ run.known
          /\ Succeeds(k, "rollback_worker") /\ held' = "none" /\ UNCHANGED recovery
          /\ Still /\ Unmoved
       \/ /\ op[k] = "none" /\ (~run.known \/ main # "none")
          /\ GivesUp("other") /\ Still /\ Unmoved
       \/ /\ op[k] = "none" /\ AgentReady("new")
          /\ held' = main /\ Issue(k)
       \/ /\ op[k] \in {"unknown", "observed"}
          /\ Succeeds(k, "rollback_worker") /\ SameEvidence
          /\ Still /\ Unmoved
       \/ /\ op[k] \in {"unknown", "observed"} /\ main # "none"
          /\ GivesUp(IF main = held THEN "evidence" ELSE "other") /\ Still /\ Unmoved
       \/ /\ op[k] \in {"prepared", "rejected"}
          /\ GivesUp("other") /\ Still /\ Unmoved

StopTargetMainAnswered ==
    LET k == "stop_target_main_agent" IN
    /\ Answered(k)
    /\ \/ Done(k) /\ Succeeds(k, "rollback_worker") /\ UNCHANGED recovery
       \/ Unmoved /\ Records(k, "rejected") /\ RestoreTarget(Service, "other")
       \/ DoneOrNot(k) /\ Records(k, "unknown") /\ RestoreTarget(Service, "evidence")
    /\ UNCHANGED held /\ Still

\* ensureTargetMainAgent
StartTargetMain ==
    LET k == "start_target_main_agent" IN
    /\ At(k)
    /\ \/ op[k] = "none" /\ Issue(k) /\ UNCHANGED held
       \/ op[k] = "rejected" /\ RollBack(TRUE) /\ Reads
       \/ /\ Persisted(k) /\ AgentReady("new")
          /\ Succeeds(k, "start_target_dispatcher")
          /\ SameEvidence /\ Still /\ Unmoved
       \/ Persisted(k) /\ Defer /\ Reads

StartTargetMainAnswered ==
    LET k == "start_target_main_agent" IN
    /\ Answered(k)
    /\ \/ main = "none" /\ Done(k) /\ Succeeds(k, "start_target_dispatcher")
       \/ Unmoved /\ Records(k, "rejected") /\ RollBack(TRUE)
       \/ DoneOrNot(k) /\ Records(k, "unknown") /\ Defer
    /\ SameEvidence /\ Still

\* The session that a launch must differ from.
SessionBefore(k) ==
    IF k = "restart_target_main_agent" THEN held
    ELSE IF row.state # "rolling_back" THEN "old"
    ELSE IF held # "none" THEN held
    ELSE IF op["start_target_main_agent"] = "observed" THEN "new" ELSE "old"

NextResume(k) ==
    IF k = "restart_target_main_agent" THEN "restore_target_check"
    ELSE IF row.state = "rolling_back" THEN "start_previous_dispatcher" ELSE "restore_check"

\* ensureMainAgentRestarted
ResumeMain(k) ==
    /\ At(k)
    /\ \/ op[k] = "rejected" /\ Review("other") /\ Reads
       \/ /\ op[k] # "rejected" /\ AgentReady(ReleaseOf(k)) /\ main # SessionBefore(k)
          /\ Succeeds(k, NextResume(k))
          /\ SameEvidence /\ Still /\ Unmoved
       \/ op[k] = "none" /\ main # "none" /\ Review("other") /\ Reads
       \/ op[k] = "none" /\ Issue(k) /\ UNCHANGED held
       \/ Persisted(k) /\ Runs(main) \notin {"none", ReleaseOf(k)} /\ Review("other") /\ Reads
       \/ Persisted(k) /\ Defer /\ Reads

ResumeMainAnswered(k) ==
    /\ Answered(k)
    /\ \/ main = "none" /\ Done(k) /\ Succeeds(k, NextResume(k))
       \/ Unmoved /\ Records(k, "rejected") /\ Review("other")
       \/ DoneOrNot(k) /\ Records(k, "unknown") /\ Defer
    /\ SameEvidence /\ Still

-----------------------------------------------------------------------------
(***************************************************************************)
(* From the claim to the stopped runtime                                   *)
(***************************************************************************)

\* The release is staged, or an error ends the attempt.
Stage ==
    /\ At("prepare")
    /\ Enters("staged", "barrier") \/ Throw
    /\ Reads

\* No worker may be active, or nothing is stopped.
Barrier ==
    /\ At("barrier")
    /\ \/ WorkerSafe /\ Enters("quiescing", "quiesce")
       \/ Decides("failed", "none")
       \/ Throw
    /\ Reads

CurrentRestarts == {"restart_current_dispatcher", "restart_current_slack"}
PersistedRecovery == \E k \in CurrentRestarts \cup {"start_previous_main_agent"} : Issued(k)

\* A recovery that was begun goes on, with the scope it persisted: the launch
\* of the main agent alone carries none.
Quiesce ==
    /\ At("quiesce") /\ (PersistedRecovery \/ op["stop_main_agent"] = "rejected")
    /\ \/ /\ PersistedRecovery /\ \A k \in CurrentRestarts : ~Issued(k)
          /\ Review("other") /\ UNCHANGED recovery
       \/ /\ \E k \in CurrentRestarts : Issued(k)
          /\ Recover(recovery.scope)
       \/ /\ ~PersistedRecovery
          /\ Recover(Service)
    /\ UNCHANGED <<op, held>> /\ Still /\ Unmoved

\* A service must answer and be drained anew, unless its stop is persisted and
\* it is gone: one that is back, or cannot be told, ends the update.
Observe(s, stop, drain, next, scopes) ==
    \/ /\ Live(s) /\ ~Issued(stop)
       /\ Goes(drain) /\ Reads
    \/ /\ ~Issued(stop)
       /\ Throw /\ Reads
    \/ /\ Live(s) /\ Issued(stop) /\ op[stop] \notin {"observed", "rejected"} /\ row.deadline # "expired"
       /\ Defer /\ Reads
    \/ /\ Issued(stop) /\ ~Registered(s) /\ op[stop] # "rejected"
       /\ Goes(next) /\ Reads
    \/ /\ Issued(stop)
       /\ \E scope \in scopes :
             \/ (Registered(s) \/ op[stop] = "rejected") /\ Recover(scope)
             \/ Recover(scope \ {s})
       /\ UNCHANGED <<op, held>> /\ Still /\ Unmoved

ObserveSlack ==
    /\ At("quiesce") /\ ~PersistedRecovery /\ op["stop_main_agent"] # "rejected"
    /\ Observe("slack", "stop_slack", "drain_slack", "observe_dispatcher",
               Scopes(Issued("stop_dispatcher") \/ Issued("stop_main_agent"), TRUE))

ObserveDispatcher ==
    /\ At("observe_dispatcher")
    /\ Observe("dispatcher", "stop_dispatcher", "drain_dispatcher", "stop_main_agent",
               Scopes(TRUE, Issued("stop_slack")))

\* quiesceSlack and quiesceDispatcher: the request, then its status until drained.
Drained(s) == Live(s) /\ s \in draining /\ (s = "dispatcher" => WorkerSafe)

Drain(from, s, to) ==
    /\ At(from)
    /\ \/ Live(s) /\ draining' = draining \cup {s}
       \/ UNCHANGED draining
    /\ Goes(to)
    /\ UNCHANGED <<op, recovery, held, svc, main, worker, schema>> /\ Still

DrainSlack      == Drain("drain_slack", "slack", "slack_drained")
DrainDispatcher == Drain("drain_dispatcher", "dispatcher", "dispatcher_drained")

AwaitDrain(from, s, next, scopes) ==
    /\ At(from)
    /\ \/ Drained(s) /\ Goes(next) /\ UNCHANGED recovery
       \/ \E scope \in scopes : Recover(scope)
    /\ UNCHANGED <<op, held>> /\ Still /\ Unmoved

AwaitSlackDrain == AwaitDrain("slack_drained", "slack", "observe_dispatcher",
    {scope \ {"dispatcher"} : scope \in Scopes(FALSE, FALSE)})

AwaitDispatcherDrain == AwaitDrain("dispatcher_drained", "dispatcher", "stop_main_agent",
    Scopes(FALSE, Issued("stop_slack")))

\* No worker was left behind; then the schema, or the activation.
WorkerAfterStop ==
    /\ At("worker_after_stop")
    /\ \/ WorkerSafe /\ plan.migrates /\ Goes("migrate") /\ UNCHANGED recovery
       \/ WorkerSafe /\ ~plan.migrates /\ Enters("activating", "activate") /\ UNCHANGED recovery
       \/ Recover(Service)
    /\ UNCHANGED <<op, held>> /\ Still /\ Unmoved

\* The stable updater must be able to migrate.
Migrate ==
    /\ At("migrate")
    /\ \/ run' = [run EXCEPT !.cmd = "migrate_schema"] /\ UNCHANGED <<row, recovery>>
       \/ Recover(Service)
    /\ UNCHANGED <<op, held>> /\ Still /\ Unmoved

\* The old runtime is restored only when the schema was read back as the old one.
MigrateAnswered ==
    /\ Answered("migrate_schema")
    /\ \/ Done("migrate_schema") /\ Enters("activating", "activate") /\ UNCHANGED recovery
       \/ Unmoved /\ schema = "old" /\ Recover(Service)
       \/ DoneOrNot("migrate_schema") /\ Review("other") /\ UNCHANGED recovery
    /\ UNCHANGED <<op, held>> /\ Still

-----------------------------------------------------------------------------
(***************************************************************************)
(* Activation                                                              *)
(***************************************************************************)

\* The last look at the Dispatcher and its workers before the pointers change.
Activate ==
    /\ At("activate")
    /\ \/ PersistedRecovery /\ Recover(recovery.scope)
       \/ ~PersistedRecovery /\ Recover(Service)
       \/ ~PersistedRecovery /\ Registered("dispatcher") /\ Recover({"slack"})
       \/ /\ ~PersistedRecovery /\ ~Registered("dispatcher") /\ WorkerSafe
          /\ Goes("switch_previous") /\ UNCHANGED recovery
    /\ UNCHANGED <<op, held>> /\ Still /\ Unmoved

Writes == UNCHANGED <<plan, op, recovery, held, used>> /\ Unmoved

\* Mutant: the current pointer is written first.
SwitchPreviousLast ==
    /\ At("switch_previous")
    /\ current' = "new" /\ Goes("switch_current")
    /\ UNCHANGED <<previous, receipt>> /\ Writes

\* activate of the release store: previous, then current, then the receipt.
SwitchPrevious ==
    /\ At("switch_previous")
    /\ previous' = current /\ Goes("switch_current")
    /\ UNCHANGED <<current, receipt>> /\ Writes

SwitchCurrent ==
    /\ At("switch_current")
    /\ current' = "new" /\ Goes("write_receipt")
    /\ UNCHANGED <<previous, receipt>> /\ Writes

WriteReceipt ==
    /\ At("write_receipt")
    /\ receipt' = [to |-> "new", generation |-> row.generation + 1]
    /\ Goes("activated")
    /\ UNCHANGED <<current, previous>> /\ Writes

Restarting(generation) ==
    /\ row' = [row EXCEPT !.state = "restarting", !.generation = generation]
    /\ run' = [run EXCEPT !.at = "count_restart"]

Activated ==
    /\ At("activated")
    /\ Restarting(receipt.generation)
    /\ Reads

\* Mutant: every resumption counts.
LaunchedNever == FALSE

Launched == Issued("start_target_main_agent")

\* incrementRestartAttempts: not once the launch of the target is persisted.
CountRestart ==
    /\ At("count_restart")
    /\ row' = IF Launched THEN row ELSE [row EXCEPT !.attempts = @ + 1]
    /\ run' = [run EXCEPT !.at = "start_target_main_agent"]
    /\ Reads

Receipt(to, generations) == receipt.to = to /\ receipt.generation \in generations

\* What proves the target, or the release before it.
TargetVerified ==
    /\ current = "new" /\ previous = "old" /\ Receipt("new", {row.generation})
    /\ \A s \in Service : Healthy(s, "new")
    /\ op["start_target_main_agent"] = "observed" /\ main = "new"

PreviousVerified ==
    /\ current = "old" /\ previous = "new" /\ Receipt("old", {row.generation})
    /\ \A s \in Service : Healthy(s, "old")
    /\ AgentReady("old")

Verify ==
    /\ At("verify")
    /\ \/ TargetVerified /\ Decides("succeeded", "none")
       \/ (\E s \in Service : "wrong" \in Health(s, "new")) /\ RollBack(FALSE)
       \/ Defer
    /\ Reads

-----------------------------------------------------------------------------
(***************************************************************************)
(* Rollback                                                                *)
(***************************************************************************)

TargetRecovery == \E k \in {"restart_target_dispatcher", "restart_target_slack",
                            "restart_target_main_agent"} : Issued(k)
TargetStopped  == \A k \in {"stop_target_main_agent", "stop_target_slack",
                            "stop_target_dispatcher"} : op[k] = "observed"
Activation     == Receipt("new", {row.generation})

\* The three states of a rollback that the pointers and the receipt tell apart.
Forward   == current = "new" /\ previous = "old" /\ Activation
HalfWay   == current = "old" /\ previous \in Release /\ Activation
Completed == current = "old" /\ previous = "new" /\ Receipt("old", {row.generation, row.generation + 1})

\* Where resumeRollback starts.
ResumeRollback ==
    /\ At("rollback")
    /\ \/ /\ Completed
          /\ row' = [row EXCEPT !.generation = receipt.generation]
          /\ run' = [run EXCEPT !.at = "start_previous_main_agent"]
          /\ UNCHANGED recovery
       \/ HalfWay /\ TargetStopped /\ Goes("rollback_worker") /\ UNCHANGED recovery
       \/ Forward /\ TargetRecovery /\ RestoreTarget(recovery.scope, recovery.cause)
       \/ Forward /\ ~TargetRecovery /\ Goes("rollback_observe") /\ UNCHANGED recovery
       \/ /\ ~Completed /\ ~(HalfWay /\ TargetStopped) /\ ~Forward
          /\ Defer /\ UNCHANGED recovery
    /\ UNCHANGED <<op, held>> /\ Still /\ Unmoved

\* A Dispatcher that is down without a stop cannot be fenced.
NeverStarted == op["stop_dispatcher"] = "observed" /\ op["start_target_dispatcher"] = "none"

TargetDrain(seen) == IF "dispatcher" \in seen THEN "drain_target_dispatcher" ELSE "stop_target_slack"

\* Health and worker state before anything of the target is stopped.  What was
\* seen live may be gone when it is asked to drain.
RollbackObserve ==
    /\ At("rollback_observe")
    /\ \/ \E scope \in RollbackScopes : RestoreTarget(scope, "other")
       \/ /\ WorkerSafe
          /\ \E seen \in SUBSET {s \in Service : Live(s)} :
                /\ "dispatcher" \in seen \/ NeverStarted \/ op["stop_target_dispatcher"] = "observed"
                /\ run' = [run EXCEPT !.seen = seen,
                              !.at = IF "slack" \in seen THEN "drain_target_slack" ELSE TargetDrain(seen)]
          /\ UNCHANGED <<row, recovery>>
    /\ UNCHANGED <<op, held>> /\ Still /\ Unmoved

DrainTargetSlack      == Drain("drain_target_slack", "slack", "target_slack_drained")
DrainTargetDispatcher == Drain("drain_target_dispatcher", "dispatcher", "target_dispatcher_drained")

\* An answer that says incomplete gives the rollback up; no answer is an error.
AwaitTargetDrain(from, s, next, quiesced) ==
    /\ At(from)
    /\ \/ Drained(s) /\ Goes(next) /\ UNCHANGED recovery
       \/ Live(s) /\ RestoreTarget(quiesced, "other")
       \/ Throw /\ UNCHANGED recovery
    /\ UNCHANGED <<op, held>> /\ Still /\ Unmoved

AwaitTargetSlackDrain ==
    AwaitTargetDrain("target_slack_drained", "slack", TargetDrain(run.seen), draining \cap {"slack"})

AwaitTargetDispatcherDrain ==
    AwaitTargetDrain("target_dispatcher_drained", "dispatcher", "stop_target_slack",
        (draining \cap {"dispatcher"})
            \cup IF "slack" \in run.seen \/ op["stop_target_slack"] = "observed" THEN {"slack"} ELSE {})

TargetWorkerAfterStop ==
    /\ At("target_worker_after_stop")
    /\ \/ WorkerSafe /\ Goes("stop_target_main_agent") /\ UNCHANGED recovery
       \/ RestoreTarget(Service, "other")
    /\ UNCHANGED <<op, held>> /\ Still /\ Unmoved

\* The last look before the pointers go back.
RollbackWorker ==
    /\ At("rollback_worker")
    /\ \/ \E scope \in RollbackScopes \cup {Service} : RestoreTarget(scope, "other")
       \/ Registered("dispatcher") /\ RestoreTarget({"slack"}, "other")
       \/ ~Registered("dispatcher") /\ WorkerSafe /\ Goes("switch_back") /\ UNCHANGED recovery
    /\ UNCHANGED <<op, held>> /\ Still /\ Unmoved

\* rollback of the release store: current, then previous, then the receipt;
\* what a runner before this one did is left alone.
SwitchBack ==
    /\ At("switch_back")
    /\ current' = "old" /\ Goes("switch_previous_back")
    /\ UNCHANGED <<previous, receipt>> /\ Writes

SwitchPreviousBack ==
    /\ At("switch_previous_back")
    /\ previous' = "new" /\ Goes("write_rollback_receipt")
    /\ UNCHANGED <<current, receipt>> /\ Writes

WriteRollbackReceipt ==
    /\ At("write_rollback_receipt")
    /\ receipt' = [to |-> "old", generation |-> row.generation + 1]
    /\ Goes("switched_back")
    /\ UNCHANGED <<current, previous>> /\ Writes

SwitchedBack ==
    /\ At("switched_back")
    /\ row' = [row EXCEPT !.generation = receipt.generation]
    /\ run' = [run EXCEPT !.at = "start_previous_main_agent"]
    /\ Reads

VerifyRollback ==
    /\ At("verify_rollback")
    /\ \/ PreviousVerified /\ main # SessionBefore("start_previous_main_agent")
          /\ Decides("rolled_back", "none")
       \/ Defer
    /\ Reads

-----------------------------------------------------------------------------
(***************************************************************************)
(* Who takes the plan up                                                   *)
(***************************************************************************)

Idle == run.at = "idle"

MayHappen == used.restarts + used.registered + used.rollbacks < EventLimit

\* processNext and reconcile claim the plan and go on by its state.
Claim(at, by) ==
    /\ run' = [run EXCEPT !.at = at, !.by = by]
    /\ UNCHANGED row /\ Reads

ClaimAttempt ==
    /\ Idle
    /\ \/ row.state = "preparing" /\ Claim("prepare", "attempt")
       \/ row.state = "staged" /\ Claim("barrier", "attempt")

Reconcile ==
    /\ Idle
    /\ \/ row.state = "quiescing"    /\ Claim("quiesce", "reconcile")
       \/ row.state = "activating"   /\ Claim("activation_evidence", "reconcile")
       \/ row.state = "restarting"   /\ Claim("count_restart", "reconcile")
       \/ row.state = "verifying"    /\ Claim("verify", "reconcile")
       \/ row.state = "rolling_back" /\ Claim("rollback", "reconcile")

\* What an interrupted activation left behind.  The pointers without their
\* receipt prove nothing.
ActivationEvidence ==
    LET switched == /\ current = "new" /\ previous = "old"
                    /\ Receipt("new", {row.generation, row.generation + 1})
    IN
    /\ At("activation_evidence")
    /\ \/ current = "old" /\ PersistedRecovery /\ Goes("activate") /\ UNCHANGED recovery
       \/ current = "old" /\ ~PersistedRecovery /\ Recover(Service)
       \/ switched /\ Restarting(receipt.generation) /\ UNCHANGED recovery
       \/ current # "old" /\ ~switched /\ Defer /\ UNCHANGED recovery
    /\ UNCHANGED <<op, held>> /\ Still /\ Unmoved

\* operatorRollback: by hand, any number of attempts may have gone before.
OperatorRollback ==
    /\ Idle /\ row.state = "needs_review" /\ plan.compatible
    /\ MayHappen
    /\ used' = [used EXCEPT !.rollbacks = @ + 1]
    /\ row' = [row EXCEPT !.state = "rolling_back"]
    /\ run' = [Rest EXCEPT !.at = "operator_rollback", !.by = "reconcile"]
    /\ UNCHANGED <<plan, op, recovery, held, pointerVars>> /\ Unmoved

OperatorLooks ==
    /\ At("operator_rollback")
    /\ \/ current = "new" /\ previous = "old" /\ Goes("rollback")
       \/ ~(current = "new" /\ previous = "old") /\ Review("other")
    /\ Reads

\* A review that waits for evidence is decided by it.
EvidenceReconcile ==
    /\ Idle /\ row.state = "needs_review" /\ row.why = "evidence"
    /\ \/ TargetVerified /\ Decides("succeeded", "none")
       \/ PreviousVerified /\ Decides("rolled_back", "none")
    /\ Reads

-----------------------------------------------------------------------------
(***************************************************************************)
(* The world                                                               *)
(***************************************************************************)

Elsewhere == UNCHANGED <<plan, rowVars, pointerVars, run>>

\* reconcile_deadline
Expire ==
    /\ row.deadline = "open"
    /\ row' = [row EXCEPT !.deadline = "expired"]
    /\ UNCHANGED <<plan, op, recovery, held, pointerVars, worldVars, run, used>>

\* launchd restarts a registered service: it runs the current release, without its drain.
KeepAlive(s) ==
    /\ Live(s) /\ MayHappen
    /\ svc' = [svc EXCEPT ![s] = current] /\ draining' = draining \ {s}
    /\ used' = [used EXCEPT !.restarts = @ + 1]
    /\ UNCHANGED <<plan, rowVars, pointerVars, main, worker, schema, run>>

\* Somebody registers a stopped service.
Register(s) ==
    /\ ~Live(s) /\ MayHappen
    /\ svc' = [svc EXCEPT ![s] = current]
    /\ used' = [used EXCEPT !.registered = @ + 1]
    /\ UNCHANGED <<plan, rowVars, pointerVars, draining, main, worker, schema, run>>

\* A Dispatcher that was not asked to quiesce starts workers, any collects them.
WorkerStarts ==
    /\ Live("dispatcher") /\ "dispatcher" \notin draining /\ Readable(svc["dispatcher"])
    /\ ~worker /\ worker' = TRUE
    /\ UNCHANGED <<svc, draining, main, schema, used>> /\ Elsewhere

WorkerEnds ==
    /\ Live("dispatcher") /\ worker /\ worker' = FALSE
    /\ UNCHANGED <<svc, draining, main, schema, used>> /\ Elsewhere

\* The process ends half way; what its command was about to do is done or not.
Interrupted ==
    /\ ~Idle /\ used.crashes < CrashLimit
    /\ IF run.cmd = "none" THEN Unmoved ELSE DoneOrNot(run.cmd)
    /\ run' = Rest
    /\ used' = [used EXCEPT !.crashes = @ + 1]
    /\ UNCHANGED <<plan, rowVars, pointerVars>>

-----------------------------------------------------------------------------
Updater ==
    \/ ClaimAttempt \/ Reconcile \/ EvidenceReconcile \/ OperatorLooks
    \/ Stage \/ Barrier
    \/ Quiesce \/ ObserveSlack \/ ObserveDispatcher
    \/ DrainSlack \/ AwaitSlackDrain \/ DrainDispatcher \/ AwaitDispatcherDrain
    \/ StopMainAgent \/ StopMainAnswered
    \/ \E k \in Stops : StopService(k) \/ StopAnswered(k)
    \/ WorkerAfterStop \/ Migrate \/ MigrateAnswered
    \/ Activate \/ SwitchPrevious \/ SwitchCurrent \/ WriteReceipt \/ Activated
    \/ ActivationEvidence
    \/ CountRestart \/ StartTargetMain \/ StartTargetMainAnswered
    \/ \E k \in Starts : StartService(k) \/ StartAnswered(k)
    \/ Verify
    \/ ResumeRollback \/ RollbackObserve
    \/ DrainTargetSlack \/ AwaitTargetSlackDrain
    \/ DrainTargetDispatcher \/ AwaitTargetDispatcherDrain
    \/ TargetWorkerAfterStop \/ StopTargetMain \/ StopTargetMainAnswered
    \/ RollbackWorker \/ SwitchBack \/ SwitchPreviousBack \/ WriteRollbackReceipt \/ SwitchedBack
    \/ VerifyRollback
    \/ Restore \/ RestoreCheck \/ RestoreTargetServices \/ RestoreTargetCheck
    \/ \E k \in Restarts : RestartService(k) \/ RestartAnswered(k)
    \/ \E k \in Resumes : ResumeMain(k) \/ ResumeMainAnswered(k)

World ==
    \/ \E s \in Service : KeepAlive(s) \/ Register(s)
    \/ WorkerStarts \/ WorkerEnds
    \/ Interrupted \/ OperatorRollback

Next == Updater \/ Expire \/ World

Spec == Init /\ [][Next]_vars

\* The service loop goes on, and time passes.
FairSpec == Spec /\ WF_vars(Updater) /\ WF_vars(Expire)

-----------------------------------------------------------------------------
(***************************************************************************)
(* Properties                                                              *)
(***************************************************************************)

\* Every column, pointer and local of the runner keeps to its values.
TypeOK ==
    /\ plan \in Plans
    /\ row \in [state : State, why : {"none", "other", "evidence"},
                deadline : {"none", "open", "expired"}, generation : 0..2,
                attempts : 0..1 + CrashLimit]
    /\ op \in [Kind -> Phase]
    /\ recovery \in [scope : SUBSET Service, cause : {"other", "evidence"}]
    /\ held \in Session
    /\ current \in Release /\ previous \in Release \cup {"older"}
    /\ receipt \in [to : Release \cup {"none"}, generation : 0..2]
    /\ svc \in [Service -> Release \cup {"off"}] /\ draining \in SUBSET Service
    /\ main \in Session /\ worker \in BOOLEAN /\ schema \in Release
    /\ run \in [at : Places, by : {"none", "attempt", "reconcile"},
                cmd : Kind \cup {"none", "migrate_schema"}, seen : SUBSET Service,
                broken : BOOLEAN, known : BOOLEAN]
    /\ used \in [crashes : 0..CrashLimit, restarts : 0..EventLimit,
                 registered : 0..EventLimit, rollbacks : 0..EventLimit]

\* The release that is known to work stays within reach of the two pointers,
\* whenever the updater ends between two writes: the pointer that is not
\* written names it (activate and rollback of the release store).
KnownGood == current = "new" => previous = "old"

\* The runtime as a decision reports it.
Runtime(release, sessions) ==
    /\ current = release
    /\ \A s \in Service : svc[s] = release /\ s \notin draining
    /\ Readable(release)
    /\ main \in sessions

\* What a decided plan reports is true of what runs, whatever happened on the
\* way: commands whose answer was lost, drains that stuck, restarts by launchd,
\* runners that ended half way (completeInternal from every caller).
DecisionTrue ==
    /\ row.state = "failed" => Runtime("old", {"old", "back"})
    /\ row.state = "rolled_back" => Runtime("old", {"old", "back"}) /\ previous = "new"
    /\ row.state = "succeeded" =>
          Runtime("new", {"new"}) /\ previous = "old" /\ ~plan.misbuilt
            /\ (plan.migrates => schema = "new")

\* No external worker is carried across a switch of the pointers, even when
\* launchd restarted the Dispatcher meanwhile; only somebody who registers it
\* again after the last look can break this.
WorkersStayBehind == [][current' # current => ~worker \/ used.registered > 0]_vars

\* No command is given a second time, by no runner: an answer that was lost
\* leaves an intent that is only observed.
OneCommand == [][\A k \in Kind : run'.cmd = k /\ run.cmd # k => op[k] = "none"]_vars

\* The old Dispatcher never runs on a schema it cannot read.
OldReadsSchema == svc["dispatcher"] = "old" => Readable("old")

\* A plan whose pointers may have moved is decided, or handed to the rollback:
\* its observations have a deadline.
ActivationSettles ==
    row.state \in {"activating", "restarting", "verifying"} ~>
        row.state \in Terminal \cup {"rolling_back"}

=============================================================================
