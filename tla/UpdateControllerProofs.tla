----------------------- MODULE UpdateControllerProofs -----------------------
(***************************************************************************)
(* Proofs about the updater at work on a plan, for any set of plans and    *)
(* any number of ends of the runner, restarts, registrations and rollbacks *)
(* by hand.                                                                *)
(*                                                                         *)
(* Most of the sixty actions only lead the runner away from the places the *)
(* pointers depend on, or on towards the switch.  The theorems on the      *)
(* pointers, the workers and the commands are proved about these shapes of *)
(* a step, and each action is shown to have one.  A further part does the  *)
(* same for the decisions: all but a few steps decide nothing.  The last   *)
(* part bounds the counters, with which all the types are proved.          *)
(***************************************************************************)
EXTENDS UpdateController, TLAPS

(***************************************************************************)
(* The inductive invariant                                                 *)
(***************************************************************************)

\* Until the current pointer is written, the runner is in one of these places.
Ahead == {"prepare", "barrier", "quiesce", "observe_dispatcher", "drain_slack", "slack_drained",
          "drain_dispatcher", "dispatcher_drained", "stop_main_agent", "stop_slack",
          "stop_dispatcher", "worker_after_stop", "migrate", "activate",
          "switch_previous", "switch_current"}

Early == {"preparing", "staged", "quiescing"}

\* The receipt of the activation has not been read back.
Unproven == Early \cup {"activating"}

\* From the evidence of a rollback to its receipt.
Back == {"rollback_observe", "drain_target_slack", "target_slack_drained",
         "drain_target_dispatcher", "target_dispatcher_drained", "stop_target_slack",
         "stop_target_dispatcher", "target_worker_after_stop", "stop_target_main_agent",
         "rollback_worker", "switch_back", "switch_previous_back", "write_rollback_receipt"}

\* Between the last look at the Dispatcher and the write of the current pointer.
Switching == {"switch_previous", "switch_current", "switch_back"}

\* The places the invariant speaks of.
Marked == Ahead \cup Switching \cup {"activation_evidence", "write_receipt", "switch_previous_back"}

RunType == [at : Places, by : {"none", "attempt", "reconcile"},
            cmd : Kind \cup {"none", "migrate_schema"}, seen : SUBSET Service,
            broken : BOOLEAN, known : BOOLEAN]

\* TypeOK without its bounds: they need the invariant first.
RowType == [state : State, why : {"none", "other", "evidence"},
            deadline : {"none", "open", "expired"}, generation : Nat, attempts : Nat]

RecoveryType == [scope : SUBSET Service, cause : {"other", "evidence"}]

SvcType == [Service -> Release \cup {"off"}]

WorldType ==
    /\ receipt \in [to : Release \cup {"none"}, generation : Nat]
    /\ used \in [crashes : Nat, restarts : Nat, registered : Nat, rollbacks : Nat]
    /\ svc \in SvcType

Typed == run \in RunType /\ row \in RowType /\ recovery \in RecoveryType /\ WorldType

\* The old release is current before the switch, and what stands between two
\* writes of a switch is known.
PointersPast ==
    /\ current \in Release
    /\ run.at \in Ahead => current = "old"
    /\ row.state \in Early => current = "old"
    /\ run.at = "switch_current" => previous = "old"
    /\ run.at = "switch_previous_back" => current = "old"

\* A switch forward belongs to an activating plan, which was early before it.
SwitchActivates ==
    /\ run.at \in {"activation_evidence", "activate", "switch_previous", "switch_current",
                  "write_receipt"} => row.state = "activating"
    /\ run.at \in Ahead => row.state \in Unproven

\* A command is in flight where the runner awaits it.
CommandHere == run.cmd # "none" =>
    run.at = run.cmd \/ (run.cmd = "migrate_schema" /\ run.at = "migrate")

\* After the last look no Dispatcher runs that could start a worker.
LookedAt == run.at \in Switching =>
    used.registered > 0 \/ (svc["dispatcher"] = "off" /\ ~worker)

IInv == Typed /\ KnownGood /\ PointersPast /\ SwitchActivates /\ CommandHere /\ LookedAt

USE DEF Service, Release, Mutating, Final, Terminal, State, Ahead, Early, Unproven, Switching, Marked

-----------------------------------------------------------------------------
(***************************************************************************)
(* The shapes of a step                                                    *)
(***************************************************************************)

\* The generation is kept, or taken from the receipt; the attempts are kept, or
\* the first launch is counted; a rollback starts from the receipt it undoes.
Counted ==
    /\ \/ row'.generation = row.generation
       \/ /\ row'.generation = receipt.generation
          /\ row'.state \notin Unproven \/ run.at \in {"rollback", "switched_back"}
    /\ \/ row'.attempts = row.attempts
       \/ /\ run.at = "count_restart" /\ ~Launched
          /\ row'.attempts = row.attempts + 1 /\ run'.at = "start_target_main_agent"
    /\ run'.at \in Back => row' = row /\ (run.at \in Back \/ Activation)

\* The runner is led to a place no part of the invariant speaks of.
Away ==
    /\ run' \in RunType /\ row' \in RowType
    /\ run'.at \notin Marked /\ run'.cmd = "none"
    /\ row'.state = row.state \/ row'.state \notin Unproven
    /\ Counted

\* It stays where it is: a command that was never given is given, or answered.
Stays ==
    /\ run' \in RunType /\ row' = row
    /\ run'.at = run.at /\ run.at \notin Switching
    /\ \/ run'.cmd = "none"
       \/ run'.cmd = "migrate_schema" /\ run.at = "migrate"
       \/ run'.cmd = run.at /\ op[run.at] = "none"

\* It comes nearer to the switch.
Advances ==
    /\ run' \in RunType /\ row' \in RowType
    /\ run.at \in Ahead /\ run'.at \in Ahead \ {"switch_previous", "switch_current"}
    /\ run'.cmd = "none"
    /\ row'.state \in Unproven \cup {row.state}
    /\ row'.generation = row.generation /\ row'.attempts = row.attempts
    /\ run'.at = "activate" => row'.state = "activating"

\* What a step of one of these shapes leaves: the pointers and the counts.
Quiet ==
    /\ pointerVars' = pointerVars /\ used' = used
    /\ recovery' \in RecoveryType /\ svc' \in SvcType

Shaped == Quiet /\ (Away \/ Stays \/ Advances)

\* The parts of the invariant the shapes rest on.
Premise == Typed /\ current \in Release /\ CommandHere

(***************************************************************************)
(* A place to go to, a decision, and a recovery: what they come to.        *)
(***************************************************************************)

LEMMA GoesOn ==
    ASSUME Typed, NEW to \in Places, Goes(to)
    PROVE  /\ run' \in RunType /\ row' = row /\ row' \in RowType
           /\ run'.at = to /\ run'.cmd = "none"
BY DEF Goes, Typed, RunType

LEMMA EntersOn ==
    ASSUME Typed, NEW to \in Places, NEW state \in State, Enters(state, to)
    PROVE  /\ run' \in RunType /\ row' \in RowType
           /\ run'.at = to /\ run'.cmd = "none" /\ row'.state = state
           /\ row'.generation = row.generation /\ row'.attempts = row.attempts
BY DEF Enters, Typed, RunType, RowType

\* Where a rollback does not lead, a step that keeps the counts is counted.
LEMMA CountedElsewhere ==
    ASSUME row'.generation = row.generation, row'.attempts = row.attempts, run'.at \notin Back
    PROVE  Counted
BY DEF Counted

LEMMA RestAway == Rest \in RunType /\ Rest.at = "idle" /\ Rest.cmd = "none" /\ Rest.at \notin Back
BY DEF Rest, RunType, Places, Back

LEMMA DecidesAway ==
    ASSUME Typed, NEW state \in Terminal, NEW code \in {"none", "other", "evidence"},
           Decides(state, code)
    PROVE  Away
<1>1. /\ row' \in RowType /\ row'.state = state
      /\ row'.generation = row.generation /\ row'.attempts = row.attempts
  BY DEF Decides, Typed, RowType
<1> QED
  BY <1>1, RestAway, CountedElsewhere DEF Decides, Away

LEMMA ReviewAway ==
    ASSUME Typed, NEW code \in {"none", "other", "evidence"}, Review(code)
    PROVE  Away
BY DecidesAway DEF Review

LEMMA DeferAway ==
    ASSUME Typed, Defer
    PROVE  Away
<1>1. CASE row.deadline = "expired" /\ Review("evidence")
  BY <1>1, ReviewAway
<1>2. CASE row.deadline # "expired" /\ row' = [row EXCEPT !.deadline = "open"] /\ run' = Rest
  <2>1. /\ row' \in RowType /\ row'.state = row.state
        /\ row'.generation = row.generation /\ row'.attempts = row.attempts
    BY <1>2 DEF Typed, RowType
  <2> QED
    BY <1>2, <2>1, RestAway, CountedElsewhere DEF Away
<1> QED
  BY <1>1, <1>2 DEF Defer

LEMMA ThrowAway ==
    ASSUME Typed, Throw
    PROVE  Away
<1>1. CASE run' = Rest /\ UNCHANGED row
  BY <1>1, RestAway, CountedElsewhere DEF Away, Typed
<1>2. CASE Review("other")
  BY <1>2, ReviewAway
<1>3. CASE Decides("failed", "none")
  BY <1>3, DecidesAway
<1> QED
  BY <1>1, <1>2, <1>3 DEF Throw

LEMMA RollBackAway ==
    ASSUME Typed, NEW known \in BOOLEAN, RollBack(known)
    PROVE  Away
<1>1. CASE Review("other")
  BY <1>1, ReviewAway
<1>2. CASE /\ row' = [row EXCEPT !.state = "rolling_back"]
           /\ run' = [run EXCEPT !.at = "rollback", !.cmd = "none", !.known = known]
  <2>1. /\ row' \in RowType /\ row'.state = "rolling_back"
        /\ row'.generation = row.generation /\ row'.attempts = row.attempts
    BY <1>2 DEF Typed, RowType
  <2>2. run' \in RunType /\ run'.at = "rollback" /\ run'.cmd = "none" /\ run'.at \notin Back
    BY <1>2 DEF Typed, RunType, Places, Back
  <2> QED
    BY <2>1, <2>2, CountedElsewhere DEF Away
<1> QED
  BY <1>1, <1>2 DEF RollBack

LEMMA GoesAway ==
    ASSUME Typed, NEW to \in Places \ Marked, Goes(to),
           to \in Back => run.at \in Back \/ Activation
    PROVE  Away
BY GoesOn DEF Away, Counted

LEMMA RecoverAway ==
    ASSUME Typed, NEW scope \in SUBSET Service, Recover(scope)
    PROVE  Away /\ recovery' \in RecoveryType
<1>1. "restore" \in Places \ Marked /\ "restore" \notin Back
  BY DEF Places, Back
<1> QED
  BY <1>1, GoesAway DEF Recover, RecoveryType

LEMMA RestoreTargetAway ==
    ASSUME Typed, NEW scope \in SUBSET Service, NEW cause \in {"other", "evidence"},
           RestoreTarget(scope, cause)
    PROVE  Away /\ recovery' \in RecoveryType
<1>1. "restore_target" \in Places \ Marked /\ "restore_target" \notin Back
  BY DEF Places, Back
<1> QED
  BY <1>1, GoesAway DEF RestoreTarget, RecoveryType

(***************************************************************************)
(* The commands                                                            *)
(***************************************************************************)

LEMMA KindFacts ==
    /\ "none" \notin Kind /\ "migrate_schema" \notin Kind
    /\ Kind \subseteq Places /\ Kind \cap Switching = {}
    /\ Stops \subseteq Kind /\ Starts \subseteq Kind /\ Restarts \subseteq Kind
    /\ Resumes \subseteq Kind /\ MainStops \subseteq Kind
    /\ "start_target_main_agent" \in Kind
BY DEF Kind, Places, Stops, Starts, Restarts, MainStops, Resumes

LEMMA AnsweredHere ==
    ASSUME Premise, NEW k \in Kind, Answered(k)
    PROVE  run.at = k
BY KindFacts DEF Premise, CommandHere, Answered

LEMMA IssueStays ==
    ASSUME Typed, NEW k \in Kind, At(k), op[k] = "none", Issue(k)
    PROVE  Stays
<1>1. run' \in RunType /\ run'.at = k /\ run'.cmd = k
  BY KindFacts DEF Issue, Typed, RunType
<1>2. row' = row /\ run.at = k /\ k \notin Switching
  BY KindFacts DEF Issue, At
<1> QED
  BY <1>1, <1>2 DEF Stays

LEMMA GoesBack ==
    ASSUME Typed, NEW k \in Kind, run.at = k, Goes(k)
    PROVE  Stays
<1>1. run' \in RunType /\ run'.at = k /\ run'.cmd = "none" /\ row' = row
  BY GoesOn, KindFacts
<1> QED
  BY <1>1, KindFacts DEF Stays

LEMMA GoesAhead ==
    ASSUME Typed, run.at \in Ahead, NEW to \in Ahead \ {"activate", "switch_previous", "switch_current"},
           Goes(to)
    PROVE  Advances
<1>1. to \in Places
  BY DEF Places, Kind, Stops, MainStops
<1> QED
  BY <1>1, GoesOn DEF Advances

\* Whatever the command did, launchd knows the services by a release or not at all.
LEMMA DoneTyped ==
    ASSUME Premise, NEW k, DoneOrNot(k)
    PROVE  svc' \in SvcType
<1>1. ServiceOf(k) \in Service
  BY DEF ServiceOf
<1>2. svc \in SvcType /\ current \in Release
  BY DEF Premise, Typed, WorldType
<1>3. CASE Done(k)
  BY <1>1, <1>2, <1>3 DEF Done, SvcType
<1>4. CASE Unmoved
  BY <1>2, <1>4 DEF Unmoved, worldVars
<1> QED
  BY <1>3, <1>4 DEF DoneOrNot

LEMMA StillQuiet ==
    ASSUME Typed, Still, recovery' \in RecoveryType, svc' \in SvcType
    PROVE  Quiet
BY DEF Still, Quiet

LEMMA StillUnmovedQuiet ==
    ASSUME Typed, Still, Unmoved, recovery' \in RecoveryType
    PROVE  Quiet
BY StillQuiet DEF Unmoved, worldVars, Typed, WorldType

LEMMA ReadsQuiet ==
    ASSUME Typed, Reads
    PROVE  Quiet
BY StillUnmovedQuiet DEF Reads, Typed

LEMMA StopUnverifiedShaped ==
    ASSUME Typed, NEW k, StopUnverified(k)
    PROVE  Away /\ recovery' \in RecoveryType
BY RecoverAway, RestoreTargetAway DEF StopUnverified

\* From one stop to the next, or to the look at the workers.
LEMMA NextStopShaped ==
    ASSUME Typed, NEW k \in Stops, run.at = k, Goes(NextStop(k))
    PROVE  Away \/ Advances
<1>1. CASE k \in {"stop_slack", "stop_dispatcher"}
  <2>1. NextStop(k) \in {"stop_dispatcher", "worker_after_stop"}
    BY <1>1 DEF NextStop
  <2> QED
    BY <1>1, <2>1, GoesAhead
<1>2. CASE k \in {"stop_target_slack", "stop_target_dispatcher"}
  <2>1. NextStop(k) \in {"stop_target_dispatcher", "target_worker_after_stop"}
    BY <1>2 DEF NextStop
  <2>2. NextStop(k) \in Places \ Marked /\ run.at \in Back
    BY <1>2, <2>1 DEF Places, Kind, Stops, Back
  <2> QED
    BY <2>2, GoesAway
<1> QED
  BY <1>1, <1>2 DEF Stops

LEMMA StopServiceShaped ==
    ASSUME Premise, NEW k \in Stops, StopService(k)
    PROVE  Shaped
<1>1. Typed /\ k \in Kind /\ run.at = k
  BY KindFacts DEF Premise, StopService, At
<1>2. CASE op[k] = "none" /\ Issue(k)
  BY <1>1, <1>2, IssueStays, StillUnmovedQuiet DEF StopService, Issue, Typed, Shaped
<1>3. CASE Succeeds(k, NextStop(k)) /\ SameEvidence /\ Still /\ Unmoved
  BY <1>1, <1>3, NextStopShaped, StillUnmovedQuiet DEF Succeeds, SameEvidence, Typed, Shaped
<1>4. CASE StopUnverified(k) /\ Still /\ Unmoved
  BY <1>1, <1>4, StopUnverifiedShaped, StillUnmovedQuiet DEF Shaped
<1>5. CASE Defer /\ Reads
  BY <1>1, <1>5, DeferAway, ReadsQuiet DEF Shaped
<1>6. CASE Review("other") /\ Reads
  BY <1>1, <1>6, ReviewAway, ReadsQuiet DEF Shaped
<1> QED
  BY <1>2, <1>3, <1>4, <1>5, <1>6 DEF StopService

LEMMA StopAnsweredShaped ==
    ASSUME Premise, NEW k \in Stops, StopAnswered(k)
    PROVE  Shaped
<1>1. Typed /\ k \in Kind /\ run.at = k /\ Still
  BY KindFacts, AnsweredHere DEF Premise, StopAnswered
<1>2. svc' \in SvcType
  BY DoneTyped DEF StopAnswered, DoneOrNot
<1>3. CASE Goes(k) /\ SameEvidence
  BY <1>1, <1>2, <1>3, GoesBack, StillQuiet DEF SameEvidence, Typed, Shaped
<1>4. CASE Review("other") /\ SameEvidence
  BY <1>1, <1>2, <1>4, ReviewAway, StillQuiet DEF SameEvidence, Typed, Shaped
<1>5. CASE Defer /\ SameEvidence
  BY <1>1, <1>2, <1>5, DeferAway, StillQuiet DEF SameEvidence, Typed, Shaped
<1>6. CASE StopUnverified(k)
  BY <1>1, <1>2, <1>6, StopUnverifiedShaped, StillQuiet DEF Shaped
<1> QED
  BY <1>3, <1>4, <1>5, <1>6 DEF StopAnswered

LEMMA StartedAway ==
    ASSUME Typed, NEW k \in Starts, Started(k)
    PROVE  Away
<1>1. CASE k = "start_target_dispatcher"
  <2>1. Goes("start_target_slack") /\ "start_target_slack" \in Places \ (Marked \cup Back)
    BY <1>1 DEF Started, Places, Kind, Starts, Back
  <2> QED
    BY <2>1, GoesAway
<1>2. CASE k = "start_target_slack"
  <2>1. Enters("verifying", "verify") /\ "verify" \in Places \ (Marked \cup Back)
    BY <1>2 DEF Started, Places, Back
  <2> QED
    BY <2>1, EntersOn, CountedElsewhere DEF Away
<1>3. CASE k = "start_previous_dispatcher"
  <2>1. Goes("start_previous_slack") /\ "start_previous_slack" \in Places \ (Marked \cup Back)
    BY <1>3 DEF Started, Places, Kind, Starts, Back
  <2> QED
    BY <2>1, GoesAway
<1>4. CASE k = "start_previous_slack"
  <2>1. Goes("verify_rollback") /\ "verify_rollback" \in Places \ (Marked \cup Back)
    BY <1>4 DEF Started, Places, Back
  <2> QED
    BY <2>1, GoesAway
<1> QED
  BY <1>1, <1>2, <1>3, <1>4 DEF Starts

LEMMA StartServiceShaped ==
    ASSUME Premise, NEW k \in Starts, StartService(k)
    PROVE  Shaped
<1>1. Typed /\ k \in Kind /\ At(k)
  BY KindFacts DEF Premise, StartService
<1>2. CASE WrongBuild(k) /\ Reads
  <2>1. Away
    BY <1>1, <1>2, RollBackAway, ReviewAway DEF WrongBuild
  <2> QED
    BY <1>1, <1>2, <2>1, ReadsQuiet DEF Shaped
<1>3. CASE Started(k) /\ SameEvidence /\ Still /\ Unmoved
  BY <1>1, <1>3, StartedAway, StillUnmovedQuiet DEF SameEvidence, Typed, Shaped
<1>4. CASE ~Persisted(k) /\ op[k] # "rejected" /\ Issue(k)
  <2>1. op[k] = "none"
    BY <1>4 DEF Persisted
  <2> QED
    BY <1>1, <1>4, <2>1, IssueStays, StillUnmovedQuiet DEF Issue, Typed, Shaped
<1>5. CASE Defer /\ Reads
  BY <1>1, <1>5, DeferAway, ReadsQuiet DEF Shaped
<1>6. CASE Review("other") /\ Reads
  BY <1>1, <1>6, ReviewAway, ReadsQuiet DEF Shaped
<1> QED
  BY <1>2, <1>3, <1>4, <1>5, <1>6 DEF StartService

LEMMA StartAnsweredShaped ==
    ASSUME Premise, NEW k \in Starts, StartAnswered(k)
    PROVE  Shaped
<1>1. Typed /\ k \in Kind /\ run.at = k
  BY KindFacts, AnsweredHere DEF Premise, StartAnswered
<1>2. svc' \in SvcType
  BY DoneTyped DEF StartAnswered, DoneOrNot
<1>3. Quiet
  BY <1>1, <1>2, StillQuiet DEF StartAnswered, SameEvidence, Typed
<1>4. CASE Goes(k)
  BY <1>1, <1>3, <1>4, GoesBack DEF Shaped
<1>5. CASE Review("other")
  BY <1>1, <1>3, <1>5, ReviewAway DEF Shaped
<1>6. CASE Defer
  BY <1>1, <1>3, <1>6, DeferAway DEF Shaped
<1>7. CASE Started(k)
  BY <1>1, <1>3, <1>7, StartedAway DEF Shaped
<1> QED
  BY <1>4, <1>5, <1>6, <1>7 DEF StartAnswered

LEMMA RestorePlaces ==
    /\ \A k : NextRestart(k) \in Places \ (Marked \cup Back)
    /\ FirstOf("restart_current_dispatcher", "restart_current_slack",
               "stop_main_agent", "start_previous_main_agent", "restore_check") \in Places \ (Marked \cup Back)
    /\ FirstOf("restart_target_dispatcher", "restart_target_slack",
               "stop_target_main_agent", "restart_target_main_agent", "restore_target_check")
         \in Places \ (Marked \cup Back)
<1>1. {"restart_current_dispatcher", "restart_current_slack", "start_previous_main_agent",
       "restore_check", "restart_target_dispatcher", "restart_target_slack",
       "restart_target_main_agent", "restore_target_check"} \subseteq Places \ (Marked \cup Back)
  BY DEF Places, Kind, Restarts, Resumes, Back
<1> QED
  BY <1>1 DEF NextRestart, FirstOf

LEMMA BreaksAway ==
    ASSUME Typed, NEW k, Breaks(k)
    PROVE  Away
<1>1. NextRestart(k) \in Places \ (Marked \cup Back)
  BY RestorePlaces
<1>2. /\ run' \in RunType /\ run'.at = NextRestart(k) /\ run'.cmd = "none"
      /\ row' = row /\ row' \in RowType
  BY <1>1 DEF Breaks, Typed, RunType
<1> QED
  BY <1>1, <1>2, CountedElsewhere DEF Away

LEMMA RestartServiceShaped ==
    ASSUME Premise, NEW k \in Restarts, RestartService(k)
    PROVE  Shaped
<1>1. Typed /\ k \in Kind /\ At(k)
  BY KindFacts DEF Premise, RestartService
<1>2. CASE op[k] = "none" /\ Issue(k)
  BY <1>1, <1>2, IssueStays, StillUnmovedQuiet DEF Issue, Typed, Shaped
<1>3. CASE Succeeds(k, NextRestart(k)) /\ SameEvidence /\ Still /\ Unmoved
  BY <1>1, <1>3, RestorePlaces, GoesAway, StillUnmovedQuiet DEF Succeeds, SameEvidence, Typed, Shaped
<1>4. CASE Breaks(k) /\ Reads
  BY <1>1, <1>4, BreaksAway, ReadsQuiet DEF Shaped
<1> QED
  BY <1>2, <1>3, <1>4 DEF RestartService

LEMMA RestartAnsweredShaped ==
    ASSUME Premise, NEW k \in Restarts, RestartAnswered(k)
    PROVE  Shaped
<1>1. Typed /\ k \in Kind /\ run.at = k
  BY KindFacts, AnsweredHere DEF Premise, RestartAnswered
<1>2. svc' \in SvcType
  BY DoneTyped DEF RestartAnswered, DoneOrNot
<1>3. Quiet
  BY <1>1, <1>2, StillQuiet DEF RestartAnswered, SameEvidence, Typed
<1>4. CASE Goes(k)
  BY <1>1, <1>3, <1>4, GoesBack DEF Shaped
<1>5. CASE Breaks(k)
  BY <1>1, <1>3, <1>5, BreaksAway DEF Shaped
<1>6. CASE Defer
  BY <1>1, <1>3, <1>6, DeferAway DEF Shaped
<1> QED
  BY <1>4, <1>5, <1>6 DEF RestartAnswered

LEMMA RestoresShaped ==
    ASSUME Premise, Restore \/ RestoreCheck \/ RestoreTargetServices \/ RestoreTargetCheck
    PROVE  Shaped
<1>1. Typed /\ recovery.cause \in {"other", "evidence"}
  BY DEF Premise, Typed, RecoveryType
<1>2. Quiet
  BY <1>1, ReadsQuiet DEF Restore, RestoreCheck, RestoreTargetServices, RestoreTargetCheck
<1>3. CASE Restore
  BY <1>1, <1>2, <1>3, RestorePlaces, GoesAway, ReviewAway DEF Restore, Shaped
<1>4. CASE RestoreCheck
  BY <1>1, <1>2, <1>4, DecidesAway, ReviewAway DEF RestoreCheck, Shaped
<1>5. CASE RestoreTargetServices
  BY <1>1, <1>2, <1>5, RestorePlaces, GoesAway DEF RestoreTargetServices, Shaped
<1>6. CASE RestoreTargetCheck
  BY <1>1, <1>2, <1>6, ReviewAway DEF RestoreTargetCheck, Shaped
<1> QED
  BY <1>3, <1>4, <1>5, <1>6

(***************************************************************************)
(* The main agent                                                          *)
(***************************************************************************)

LEMMA MainPlaces ==
    /\ {"start_target_dispatcher", "start_previous_dispatcher", "restore_check",
        "restore_target_check"} \subseteq Places \ (Marked \cup Back)
    /\ "rollback_worker" \in Places \ Marked /\ "stop_target_main_agent" \in Back
    /\ {"stop_main_agent", "stop_target_main_agent"} \subseteq Kind
BY DEF Places, Kind, Starts, MainStops, Back

LEMMA StopMainShaped ==
    ASSUME Premise, StopMainAgent
    PROVE  Shaped
<1>1. Typed /\ At("stop_main_agent") /\ "stop_main_agent" \in Kind /\ run.at \in Ahead
  BY MainPlaces DEF Premise, StopMainAgent, At
<1>2. CASE op["stop_main_agent"] = "none" /\ Issue("stop_main_agent")
  BY <1>1, <1>2, IssueStays, StillUnmovedQuiet DEF Issue, Typed, Shaped
<1>3. CASE Recover(Service) /\ Still /\ Unmoved
  BY <1>1, <1>3, RecoverAway, StillUnmovedQuiet DEF Shaped
<1>4. CASE Goes("stop_slack") /\ Reads
  BY <1>1, <1>4, GoesAhead, ReadsQuiet DEF Shaped
<1>5. CASE Succeeds("stop_main_agent", "stop_slack") /\ SameEvidence /\ Still /\ Unmoved
  BY <1>1, <1>5, GoesAhead, StillUnmovedQuiet DEF Succeeds, SameEvidence, Typed, Shaped
<1>6. CASE Defer /\ Reads
  BY <1>1, <1>6, DeferAway, ReadsQuiet DEF Shaped
<1> QED
  BY <1>2, <1>3, <1>4, <1>5, <1>6 DEF StopMainAgent

LEMMA StopMainAnsweredShaped ==
    ASSUME Premise, StopMainAnswered
    PROVE  Shaped
<1>1. Typed /\ run.at = "stop_main_agent" /\ Still
  BY MainPlaces, AnsweredHere DEF Premise, StopMainAnswered
<1>2. svc' \in SvcType
  BY DoneTyped DEF StopMainAnswered, DoneOrNot
<1>3. CASE Succeeds("stop_main_agent", "stop_slack") /\ UNCHANGED recovery
  BY <1>1, <1>2, <1>3, GoesAhead, StillQuiet DEF Succeeds, Typed, Shaped
<1>4. CASE Recover(Service)
  BY <1>1, <1>2, <1>4, RecoverAway, StillQuiet DEF Shaped
<1>5. CASE Defer /\ UNCHANGED recovery
  BY <1>1, <1>2, <1>5, DeferAway, StillQuiet DEF Typed, Shaped
<1> QED
  BY <1>3, <1>4, <1>5 DEF StopMainAnswered

LEMMA StopTargetMainShaped ==
    ASSUME Premise, StopTargetMain
    PROVE  Shaped
<1> DEFINE k == "stop_target_main_agent"
<1>1. Typed /\ At(k) /\ k \in Kind
  BY MainPlaces DEF Premise, StopTargetMain
<1>2. CASE Succeeds(k, "rollback_worker") /\ UNCHANGED recovery /\ Still /\ Unmoved
  BY <1>1, <1>2, MainPlaces, GoesAway, StillUnmovedQuiet DEF At, Succeeds, Typed, Shaped
<1>3. CASE RestoreTarget(Service, "other") /\ Still /\ Unmoved
  BY <1>1, <1>3, RestoreTargetAway, StillUnmovedQuiet DEF Shaped
<1>4. CASE RestoreTarget(Service, "evidence") /\ Still /\ Unmoved
  BY <1>1, <1>4, RestoreTargetAway, StillUnmovedQuiet DEF Shaped
<1>5. CASE op[k] = "none" /\ Issue(k)
  BY <1>1, <1>5, IssueStays, StillUnmovedQuiet DEF Issue, Typed, Shaped
<1> QED
  BY <1>2, <1>3, <1>4, <1>5 DEF StopTargetMain, SameEvidence

LEMMA StopTargetMainAnsweredShaped ==
    ASSUME Premise, StopTargetMainAnswered
    PROVE  Shaped
<1> DEFINE k == "stop_target_main_agent"
<1>1. Typed /\ Still /\ run.at = k
  BY MainPlaces, AnsweredHere DEF Premise, StopTargetMainAnswered
<1>2. svc' \in SvcType
  BY DoneTyped DEF StopTargetMainAnswered, DoneOrNot
<1>3. CASE Succeeds(k, "rollback_worker") /\ UNCHANGED recovery
  BY <1>1, <1>2, <1>3, MainPlaces, GoesAway, StillQuiet DEF Succeeds, Typed, Shaped
<1>4. CASE RestoreTarget(Service, "other")
  BY <1>1, <1>2, <1>4, RestoreTargetAway, StillQuiet DEF Shaped
<1>5. CASE RestoreTarget(Service, "evidence")
  BY <1>1, <1>2, <1>5, RestoreTargetAway, StillQuiet DEF Shaped
<1> QED
  BY <1>3, <1>4, <1>5 DEF StopTargetMainAnswered

LEMMA StartTargetMainShaped ==
    ASSUME Premise, StartTargetMain
    PROVE  Shaped
<1> DEFINE k == "start_target_main_agent"
<1>1. Typed /\ At(k) /\ k \in Kind
  BY KindFacts DEF Premise, StartTargetMain
<1>2. CASE op[k] = "none" /\ Issue(k)
  BY <1>1, <1>2, IssueStays, StillUnmovedQuiet DEF Issue, Typed, Shaped
<1>3. CASE RollBack(TRUE) /\ Reads
  BY <1>1, <1>3, RollBackAway, ReadsQuiet DEF Shaped
<1>4. CASE Succeeds(k, "start_target_dispatcher") /\ SameEvidence /\ Still /\ Unmoved
  BY <1>1, <1>4, MainPlaces, GoesAway, StillUnmovedQuiet DEF Succeeds, SameEvidence, Typed, Shaped
<1>5. CASE Defer /\ Reads
  BY <1>1, <1>5, DeferAway, ReadsQuiet DEF Shaped
<1> QED
  BY <1>2, <1>3, <1>4, <1>5 DEF StartTargetMain

LEMMA StartTargetMainAnsweredShaped ==
    ASSUME Premise, StartTargetMainAnswered
    PROVE  Shaped
<1> DEFINE k == "start_target_main_agent"
<1>1. Typed
  BY DEF Premise
<1>2. svc' \in SvcType
  BY DoneTyped DEF StartTargetMainAnswered, DoneOrNot
<1>3. Quiet
  BY <1>1, <1>2, StillQuiet DEF StartTargetMainAnswered, SameEvidence, Typed
<1>4. CASE Succeeds(k, "start_target_dispatcher")
  BY <1>1, <1>3, <1>4, MainPlaces, GoesAway DEF Succeeds, Shaped
<1>5. CASE RollBack(TRUE)
  BY <1>1, <1>3, <1>5, RollBackAway DEF Shaped
<1>6. CASE Defer
  BY <1>1, <1>3, <1>6, DeferAway DEF Shaped
<1> QED
  BY <1>4, <1>5, <1>6 DEF StartTargetMainAnswered

LEMMA ResumeMainShaped ==
    ASSUME Premise, NEW k \in Resumes, ResumeMain(k)
    PROVE  Shaped
<1>1. Typed /\ k \in Kind /\ At(k) /\ NextResume(k) \in Places \ (Marked \cup Back)
  BY KindFacts, MainPlaces DEF Premise, ResumeMain, NextResume
<1>2. CASE Review("other") /\ Reads
  BY <1>1, <1>2, ReviewAway, ReadsQuiet DEF Shaped
<1>3. CASE Succeeds(k, NextResume(k)) /\ SameEvidence /\ Still /\ Unmoved
  BY <1>1, <1>3, GoesAway, StillUnmovedQuiet DEF Succeeds, SameEvidence, Typed, Shaped
<1>4. CASE op[k] = "none" /\ Issue(k)
  BY <1>1, <1>4, IssueStays, StillUnmovedQuiet DEF Issue, Typed, Shaped
<1>5. CASE Defer /\ Reads
  BY <1>1, <1>5, DeferAway, ReadsQuiet DEF Shaped
<1> QED
  BY <1>2, <1>3, <1>4, <1>5 DEF ResumeMain

LEMMA ResumeMainAnsweredShaped ==
    ASSUME Premise, NEW k \in Resumes, ResumeMainAnswered(k)
    PROVE  Shaped
<1>1. Typed /\ NextResume(k) \in Places \ (Marked \cup Back)
  BY MainPlaces DEF Premise, NextResume
<1>2. svc' \in SvcType
  BY DoneTyped DEF ResumeMainAnswered, DoneOrNot
<1>3. Quiet
  BY <1>1, <1>2, StillQuiet DEF ResumeMainAnswered, SameEvidence, Typed
<1>4. CASE Succeeds(k, NextResume(k))
  BY <1>1, <1>3, <1>4, GoesAway DEF Succeeds, Shaped
<1>5. CASE Review("other")
  BY <1>1, <1>3, <1>5, ReviewAway DEF Shaped
<1>6. CASE Defer
  BY <1>1, <1>3, <1>6, DeferAway DEF Shaped
<1> QED
  BY <1>4, <1>5, <1>6 DEF ResumeMainAnswered

(***************************************************************************)
(* From the claim to the stopped runtime                                   *)
(***************************************************************************)

LEMMA ScopesSmall ==
    /\ \A d, a : Scopes(d, a) \subseteq SUBSET Service
    /\ RollbackScopes \subseteq SUBSET Service
<1>1. ASSUME NEW d, NEW a, NEW scope \in Scopes(d, a)
      PROVE  scope \in SUBSET Service
  <2>1. PICK x, y : scope = {s \in Service : IF s = "dispatcher" THEN x ELSE y}
    BY <1>1 DEF Scopes
  <2> QED
    BY <2>1
<1>2. ASSUME NEW scope \in RollbackScopes
      PROVE  scope \in SUBSET Service
  BY <1>2 DEF RollbackScopes
<1> QED
  BY <1>1, <1>2

LEMMA EntersAhead ==
    ASSUME Typed, run.at \in Ahead, NEW state \in Unproven,
           NEW to \in Ahead \ {"switch_previous", "switch_current"},
           to = "activate" => state = "activating", Enters(state, to)
    PROVE  Advances
<1>1. to \in Places
  BY DEF Places, Kind, Stops, MainStops
<1> QED
  BY <1>1, EntersOn DEF Advances

LEMMA StageShaped ==
    ASSUME Premise, Stage \/ Barrier
    PROVE  Shaped
<1>1. Typed /\ run.at \in Ahead
  BY DEF Premise, Stage, Barrier, At
<1>2. Quiet
  BY <1>1, ReadsQuiet DEF Stage, Barrier
<1>3. CASE Enters("staged", "barrier")
  BY <1>1, <1>2, <1>3, EntersAhead DEF Shaped
<1>4. CASE Enters("quiescing", "quiesce")
  BY <1>1, <1>2, <1>4, EntersAhead DEF Shaped
<1>5. CASE Decides("failed", "none")
  BY <1>1, <1>2, <1>5, DecidesAway DEF Shaped
<1>6. CASE Throw
  BY <1>1, <1>2, <1>6, ThrowAway DEF Shaped
<1> QED
  BY <1>3, <1>4, <1>5, <1>6 DEF Stage, Barrier

LEMMA QuiesceShaped ==
    ASSUME Premise, Quiesce
    PROVE  Shaped
<1>1. Typed /\ recovery.scope \in SUBSET Service /\ Still /\ Unmoved
  BY DEF Premise, Typed, RecoveryType, Quiesce
<1>2. CASE Review("other") /\ UNCHANGED recovery
  BY <1>1, <1>2, ReviewAway, StillUnmovedQuiet DEF Typed, Shaped
<1>3. CASE \E scope \in SUBSET Service : Recover(scope)
  BY <1>1, <1>3, RecoverAway, StillUnmovedQuiet DEF Shaped
<1> QED
  BY <1>1, <1>2, <1>3 DEF Quiesce

LEMMA ObserveShaped ==
    ASSUME Premise, run.at \in Ahead, NEW s, NEW stop,
           NEW drain \in Ahead \ {"activate", "switch_previous", "switch_current"},
           NEW next \in Ahead \ {"activate", "switch_previous", "switch_current"},
           NEW scopes \in SUBSET SUBSET Service, Observe(s, stop, drain, next, scopes)
    PROVE  Shaped
<1>1. Typed
  BY DEF Premise
<1>2. CASE (Goes(drain) \/ Goes(next)) /\ Reads
  BY <1>1, <1>2, GoesAhead, ReadsQuiet DEF Shaped
<1>3. CASE (Throw \/ Defer) /\ Reads
  BY <1>1, <1>3, ThrowAway, DeferAway, ReadsQuiet DEF Shaped
<1>4. CASE (\E scope \in SUBSET Service : Recover(scope)) /\ Still /\ Unmoved
  BY <1>1, <1>4, RecoverAway, StillUnmovedQuiet DEF Shaped
<1> QED
  BY <1>2, <1>3, <1>4 DEF Observe

LEMMA ObservesShaped ==
    ASSUME Premise, ObserveSlack \/ ObserveDispatcher
    PROVE  Shaped
<1>1. CASE ObserveSlack
  <2> DEFINE scopes == Scopes(Issued("stop_dispatcher") \/ Issued("stop_main_agent"), TRUE)
  <2>1. scopes \in SUBSET SUBSET Service
    BY ScopesSmall
  <2>2. run.at \in Ahead /\ Observe("slack", "stop_slack", "drain_slack", "observe_dispatcher", scopes)
    BY <1>1 DEF ObserveSlack, At
  <2> HIDE DEF scopes
  <2> QED
    BY <2>1, <2>2, ObserveShaped
<1>2. CASE ObserveDispatcher
  <2> DEFINE scopes == Scopes(TRUE, Issued("stop_slack"))
  <2>1. scopes \in SUBSET SUBSET Service
    BY ScopesSmall
  <2>2. /\ run.at \in Ahead
        /\ Observe("dispatcher", "stop_dispatcher", "drain_dispatcher", "stop_main_agent", scopes)
    BY <1>2 DEF ObserveDispatcher, At
  <2> HIDE DEF scopes
  <2> QED
    BY <2>1, <2>2, ObserveShaped
<1> QED
  BY <1>1, <1>2

LEMMA DrainsShaped ==
    ASSUME Premise, DrainSlack \/ DrainDispatcher \/ DrainTargetSlack \/ DrainTargetDispatcher
    PROVE  Shaped
<1>1. Typed
  BY DEF Premise
<1>2. Quiet
  BY <1>1, StillQuiet DEF DrainSlack, DrainDispatcher, DrainTargetSlack, DrainTargetDispatcher,
                          Drain, Typed, WorldType
<1>3. CASE DrainSlack \/ DrainDispatcher
  BY <1>1, <1>2, <1>3, GoesAhead DEF DrainSlack, DrainDispatcher, Drain, At, Shaped
<1>4. CASE DrainTargetSlack \/ DrainTargetDispatcher
  <2>1. /\ {"target_slack_drained", "target_dispatcher_drained"} \subseteq Places \ Marked
        /\ {"drain_target_slack", "drain_target_dispatcher"} \subseteq Back
    BY DEF Places, Back
  <2> QED
    BY <1>1, <1>2, <1>4, <2>1, GoesAway DEF At, DrainTargetSlack, DrainTargetDispatcher, Drain, Shaped
<1> QED
  BY <1>3, <1>4

LEMMA AwaitDrainShaped ==
    ASSUME Premise, AwaitSlackDrain \/ AwaitDispatcherDrain
    PROVE  Shaped
<1>1. Typed /\ run.at \in Ahead /\ Still /\ Unmoved
  BY DEF Premise, AwaitSlackDrain, AwaitDispatcherDrain, AwaitDrain, At
<1>2. CASE (Goes("observe_dispatcher") \/ Goes("stop_main_agent")) /\ UNCHANGED recovery
  BY <1>1, <1>2, GoesAhead, StillUnmovedQuiet DEF Typed, Shaped
<1>3. CASE \E scope \in SUBSET Service : Recover(scope)
  BY <1>1, <1>3, RecoverAway, StillUnmovedQuiet DEF Shaped
<1> QED
  BY <1>2, <1>3, ScopesSmall DEF AwaitSlackDrain, AwaitDispatcherDrain, AwaitDrain

LEMMA WorkerAfterStopShaped ==
    ASSUME Premise, WorkerAfterStop
    PROVE  Shaped
<1>1. Typed /\ run.at \in Ahead /\ Still /\ Unmoved
  BY DEF Premise, WorkerAfterStop, At
<1>2. CASE Goes("migrate") /\ UNCHANGED recovery
  BY <1>1, <1>2, GoesAhead, StillUnmovedQuiet DEF Typed, Shaped
<1>3. CASE Enters("activating", "activate") /\ UNCHANGED recovery
  BY <1>1, <1>3, EntersAhead, StillUnmovedQuiet DEF Typed, Shaped
<1>4. CASE Recover(Service)
  BY <1>1, <1>4, RecoverAway, StillUnmovedQuiet DEF Shaped
<1> QED
  BY <1>2, <1>3, <1>4 DEF WorkerAfterStop

LEMMA MigrateShaped ==
    ASSUME Premise, Migrate
    PROVE  Shaped
<1>1. Typed /\ run.at = "migrate" /\ Still /\ Unmoved
  BY DEF Premise, Migrate, At
<1>2. CASE run' = [run EXCEPT !.cmd = "migrate_schema"] /\ UNCHANGED <<row, recovery>>
  <2>1. run' \in RunType /\ run'.at = "migrate" /\ run'.cmd = "migrate_schema"
    BY <1>1, <1>2 DEF Typed, RunType
  <2> QED
    BY <1>1, <1>2, <2>1, StillUnmovedQuiet DEF Stays, Typed, Shaped
<1>3. CASE Recover(Service)
  BY <1>1, <1>3, RecoverAway, StillUnmovedQuiet DEF Shaped
<1> QED
  BY <1>2, <1>3 DEF Migrate

LEMMA MigrateAnsweredShaped ==
    ASSUME Premise, MigrateAnswered
    PROVE  Shaped
<1>1. Typed /\ run.at = "migrate" /\ Still
  <2>1. run.cmd = "migrate_schema" /\ "migrate_schema" \notin Places
    BY DEF MigrateAnswered, Answered, Places, Kind, Stops, Starts, Restarts, MainStops, Resumes
  <2> QED
    BY <2>1 DEF Premise, CommandHere, Typed, RunType, MigrateAnswered
<1>2. svc' \in SvcType
  BY DoneTyped DEF MigrateAnswered, DoneOrNot
<1>3. CASE Enters("activating", "activate") /\ UNCHANGED recovery
  BY <1>1, <1>2, <1>3, EntersAhead, StillQuiet DEF Typed, Shaped
<1>4. CASE Recover(Service)
  BY <1>1, <1>2, <1>4, RecoverAway, StillQuiet DEF Shaped
<1>5. CASE Review("other") /\ UNCHANGED recovery
  BY <1>1, <1>2, <1>5, ReviewAway, StillQuiet DEF Typed, Shaped
<1> QED
  BY <1>3, <1>4, <1>5 DEF MigrateAnswered

(***************************************************************************)
(* Activation and rollback, but for the looks and writes of a switch       *)
(***************************************************************************)

LEMMA RestartingAway ==
    ASSUME Typed, NEW generation, generation = receipt.generation, Restarting(generation),
           run.cmd = "none"
    PROVE  Away
<1>1. /\ row' \in RowType /\ row'.state = "restarting"
      /\ row'.generation = generation /\ row'.attempts = row.attempts
  BY DEF Restarting, Typed, RowType, WorldType
<1>2. run' \in RunType /\ run'.at = "count_restart" /\ run'.cmd = "none" /\ run'.at \notin Back
  BY DEF Restarting, Typed, RunType, Places, Back
<1> QED
  BY <1>1, <1>2 DEF Away, Counted

LEMMA ActivatedShaped ==
    ASSUME Premise, Activated \/ CountRestart
    PROVE  Shaped
<1>1. Typed /\ receipt.generation \in Nat /\ run.cmd = "none"
  BY DEF Premise, Typed, WorldType, Activated, CountRestart, At
<1>2. Quiet
  BY <1>1, ReadsQuiet DEF Activated, CountRestart
<1>3. CASE Activated
  BY <1>1, <1>2, <1>3, RestartingAway DEF Activated, Shaped
<1>4. CASE CountRestart
  <2>1. /\ row' \in RowType /\ row'.state = row.state /\ row'.generation = row.generation
        /\ row'.attempts = row.attempts \/ (~Launched /\ row'.attempts = row.attempts + 1)
    <3>1. CASE Launched
      BY <1>1, <1>4, <3>1 DEF CountRestart, Typed
    <3>2. CASE ~Launched
      BY <1>1, <1>4, <3>2 DEF CountRestart, Typed, RowType
    <3> QED
      BY <3>1, <3>2
  <2>2. /\ run' \in RunType /\ run'.at = "start_target_main_agent" /\ run'.cmd = "none"
        /\ run'.at \notin Back
    BY <1>1, <1>4, KindFacts DEF CountRestart, Typed, RunType, Back
  <2>3. Counted
    BY <1>4, <2>1, <2>2 DEF Counted, CountRestart, At
  <2> QED
    BY <1>2, <2>1, <2>2, <2>3 DEF Away, Shaped
<1> QED
  BY <1>3, <1>4

LEMMA VerifiesShaped ==
    ASSUME Premise, Verify \/ VerifyRollback \/ EvidenceReconcile \/ OperatorLooks
    PROVE  Shaped
<1>1. Typed
  BY DEF Premise
<1>2. Quiet
  BY <1>1, ReadsQuiet DEF Verify, VerifyRollback, EvidenceReconcile, OperatorLooks
<1>3. CASE \E state \in Terminal : Decides(state, "none")
  BY <1>1, <1>2, <1>3, DecidesAway DEF Shaped
<1>4. CASE RollBack(FALSE) \/ Defer
  BY <1>1, <1>2, <1>4, RollBackAway, DeferAway DEF Shaped
<1>5. CASE OperatorLooks
  <2>1. "rollback" \in Places \ (Marked \cup Back)
    BY DEF Places, Back
  <2> QED
    BY <1>1, <1>2, <1>5, <2>1, GoesAway, ReviewAway DEF OperatorLooks, Shaped
<1> QED
  BY <1>3, <1>4, <1>5 DEF Verify, VerifyRollback, EvidenceReconcile

LEMMA BackAway ==
    ASSUME Typed, run.cmd = "none", run.at \in {"rollback", "switched_back"},
           row' = [row EXCEPT !.generation = receipt.generation],
           run' = [run EXCEPT !.at = "start_previous_main_agent"]
    PROVE  Away
<1>1. /\ row' \in RowType /\ row'.state = row.state
      /\ row'.generation = receipt.generation /\ row'.attempts = row.attempts
  BY DEF Typed, RowType, WorldType
<1>2. "start_previous_main_agent" \in Places \ (Marked \cup Back)
  BY DEF Places, Kind, Resumes, Back
<1>3. run' \in RunType /\ run'.at = "start_previous_main_agent" /\ run'.cmd = "none"
  BY <1>2 DEF Typed, RunType
<1> QED
  BY <1>1, <1>2, <1>3 DEF Away, Counted

LEMMA SwitchedBackShaped ==
    ASSUME Premise, SwitchedBack
    PROVE  Shaped
BY BackAway, ReadsQuiet DEF Premise, SwitchedBack, At, Shaped

LEMMA RollbackPlaces ==
    {"rollback_worker", "rollback_observe", "drain_target_slack", "drain_target_dispatcher",
     "stop_target_slack", "stop_target_main_agent", "target_worker_after_stop"}
        \subseteq Places \ Marked
BY DEF Places, Kind, Stops, MainStops

LEMMA ResumeRollbackShaped ==
    ASSUME Premise, ResumeRollback
    PROVE  Shaped
<1>1. /\ Typed /\ run.cmd = "none" /\ Still /\ Unmoved
      /\ recovery.scope \in SUBSET Service /\ recovery.cause \in {"other", "evidence"}
      /\ run.at = "rollback"
  BY DEF Premise, Typed, RecoveryType, ResumeRollback, At
<1>2. CASE /\ row' = [row EXCEPT !.generation = receipt.generation]
           /\ run' = [run EXCEPT !.at = "start_previous_main_agent"]
           /\ UNCHANGED recovery
  BY <1>1, <1>2, BackAway, StillUnmovedQuiet DEF Typed, Shaped
<1>3. CASE (Goes("rollback_worker") \/ Goes("rollback_observe")) /\ UNCHANGED recovery /\ Activation
  BY <1>1, <1>3, RollbackPlaces, GoesAway, StillUnmovedQuiet DEF Typed, Shaped
<1>4. CASE Defer /\ UNCHANGED recovery
  BY <1>1, <1>4, DeferAway, StillUnmovedQuiet DEF Typed, Shaped
<1>5. CASE RestoreTarget(recovery.scope, recovery.cause)
  BY <1>1, <1>5, RestoreTargetAway, StillUnmovedQuiet DEF Shaped
<1> QED
  BY <1>2, <1>3, <1>4, <1>5 DEF ResumeRollback, HalfWay, Forward

LEMMA RollbackObserveShaped ==
    ASSUME Premise, RollbackObserve
    PROVE  Shaped
<1>1. Typed /\ run.cmd = "none" /\ Still /\ Unmoved /\ run.at \in Back
  BY DEF Premise, RollbackObserve, At, Back
<1>2. CASE \E scope \in SUBSET Service : RestoreTarget(scope, "other")
  BY <1>1, <1>2, RestoreTargetAway, StillUnmovedQuiet DEF Shaped
<1>3. ASSUME NEW seen \in SUBSET Service, UNCHANGED <<row, recovery>>,
             run' = [run EXCEPT !.seen = seen,
                        !.at = IF "slack" \in seen THEN "drain_target_slack" ELSE TargetDrain(seen)]
      PROVE  Shaped
  <2> DEFINE to == IF "slack" \in seen THEN "drain_target_slack" ELSE TargetDrain(seen)
  <2>1. to \in Places \ Marked
    BY RollbackPlaces DEF TargetDrain
  <2> HIDE DEF to
  <2>2. run' \in RunType /\ run'.at = to /\ run'.cmd = "none"
    BY <1>1, <1>3, <2>1 DEF Typed, RunType, to
  <2> QED
    BY <1>1, <1>3, <2>1, <2>2, StillUnmovedQuiet DEF Away, Counted, Typed, Shaped
<1> QED
  BY <1>2, <1>3, ScopesSmall DEF RollbackObserve

LEMMA AwaitTargetDrainShaped ==
    ASSUME Premise, NEW from \in Back, NEW s, NEW next \in Places \ Marked,
           NEW quiesced \in SUBSET Service,
           AwaitTargetDrain(from, s, next, quiesced)
    PROVE  Shaped
<1>1. Typed /\ Still /\ Unmoved /\ run.at \in Back
  BY DEF Premise, AwaitTargetDrain, At
<1>2. CASE Goes(next) /\ UNCHANGED recovery
  BY <1>1, <1>2, GoesAway, StillUnmovedQuiet DEF Typed, Shaped
<1>3. CASE RestoreTarget(quiesced, "other")
  BY <1>1, <1>3, RestoreTargetAway, StillUnmovedQuiet DEF Shaped
<1>4. CASE Throw /\ UNCHANGED recovery
  BY <1>1, <1>4, ThrowAway, StillUnmovedQuiet DEF Typed, Shaped
<1> QED
  BY <1>2, <1>3, <1>4 DEF AwaitTargetDrain

LEMMA AwaitTargetDrainsShaped ==
    ASSUME Premise, AwaitTargetSlackDrain \/ AwaitTargetDispatcherDrain
    PROVE  Shaped
<1>1. /\ TargetDrain(run.seen) \in Places \ Marked /\ "stop_target_slack" \in Places \ Marked
      /\ {"target_slack_drained", "target_dispatcher_drained"} \subseteq Back
  BY RollbackPlaces DEF TargetDrain, Back
<1>2. CASE AwaitTargetSlackDrain
  <2>1. draining \cap {"slack"} \in SUBSET Service
    OBVIOUS
  <2> QED
    BY <1>1, <1>2, <2>1, AwaitTargetDrainShaped DEF AwaitTargetSlackDrain
<1>3. CASE AwaitTargetDispatcherDrain
  <2> DEFINE quiesced == (draining \cap {"dispatcher"})
          \cup IF "slack" \in run.seen \/ op["stop_target_slack"] = "observed" THEN {"slack"} ELSE {}
  <2>1. quiesced \in SUBSET Service
    OBVIOUS
  <2> QED
    BY <1>1, <1>3, <2>1, AwaitTargetDrainShaped DEF AwaitTargetDispatcherDrain
<1> QED
  BY <1>2, <1>3

LEMMA TargetWorkerShaped ==
    ASSUME Premise, TargetWorkerAfterStop
    PROVE  Shaped
<1>1. Typed /\ Still /\ Unmoved /\ run.at \in Back
  BY DEF Premise, TargetWorkerAfterStop, At, Back
<1>2. CASE Goes("stop_target_main_agent") /\ UNCHANGED recovery
  BY <1>1, <1>2, RollbackPlaces, GoesAway, StillUnmovedQuiet DEF Typed, Shaped
<1>3. CASE RestoreTarget(Service, "other")
  BY <1>1, <1>3, RestoreTargetAway, StillUnmovedQuiet DEF Shaped
<1> QED
  BY <1>2, <1>3 DEF TargetWorkerAfterStop

-----------------------------------------------------------------------------
(***************************************************************************)
(* The invariant is inductive                                              *)
(***************************************************************************)

LEMMA IInvPremise ==
    ASSUME IInv
    PROVE  Premise
BY DEF IInv, Premise, PointersPast

LEMMA ShapedKeeps ==
    ASSUME IInv, Shaped
    PROVE  IInv'
<1>1. /\ Typed /\ current' = current /\ previous' = previous /\ receipt' = receipt
      /\ used' = used /\ recovery' \in RecoveryType /\ svc' \in SvcType
  BY DEF IInv, Shaped, Quiet, pointerVars
<1>2. WorldType' /\ recovery' \in RecoveryType
  BY <1>1 DEF Typed, WorldType
<1>3. KnownGood'
  BY <1>1 DEF IInv, KnownGood
<1>4. CASE Away
  BY <1>1, <1>2, <1>3, <1>4 DEF Away, IInv, Typed, PointersPast, SwitchActivates, CommandHere, LookedAt
<1>5. CASE Stays
  <2>1. run'.at \notin Switching /\ row' = row /\ run'.at = run.at /\ run' \in RunType
    BY <1>5 DEF Stays
  <2>2. CommandHere'
    BY <1>5 DEF Stays, CommandHere
  <2> QED
    BY <1>1, <1>2, <1>3, <2>1, <2>2 DEF IInv, Typed, PointersPast, SwitchActivates, LookedAt
<1>6. CASE Advances
  BY <1>1, <1>2, <1>3, <1>6 DEF Advances, IInv, Typed, PointersPast, SwitchActivates, CommandHere, LookedAt
<1> QED
  BY <1>4, <1>5, <1>6 DEF Shaped

\* The actions that are nothing more than their shape.
ShapedStep ==
    \/ EvidenceReconcile \/ OperatorLooks \/ Stage \/ Barrier
    \/ Quiesce \/ ObserveSlack \/ ObserveDispatcher
    \/ DrainSlack \/ AwaitSlackDrain \/ DrainDispatcher \/ AwaitDispatcherDrain
    \/ StopMainAgent \/ StopMainAnswered
    \/ \E k \in Stops : StopService(k) \/ StopAnswered(k)
    \/ WorkerAfterStop \/ Migrate \/ MigrateAnswered \/ Activated
    \/ CountRestart \/ StartTargetMain \/ StartTargetMainAnswered
    \/ \E k \in Starts : StartService(k) \/ StartAnswered(k)
    \/ Verify
    \/ ResumeRollback \/ RollbackObserve
    \/ DrainTargetSlack \/ AwaitTargetSlackDrain
    \/ DrainTargetDispatcher \/ AwaitTargetDispatcherDrain
    \/ TargetWorkerAfterStop \/ StopTargetMain \/ StopTargetMainAnswered
    \/ SwitchedBack \/ VerifyRollback
    \/ Restore \/ RestoreCheck \/ RestoreTargetServices \/ RestoreTargetCheck
    \/ \E k \in Restarts : RestartService(k) \/ RestartAnswered(k)
    \/ \E k \in Resumes : ResumeMain(k) \/ ResumeMainAnswered(k)

LEMMA ShapedStepShaped ==
    ASSUME Premise, ShapedStep
    PROVE  Shaped
BY StopServiceShaped, StopAnsweredShaped, StartServiceShaped, StartAnsweredShaped,
   RestartServiceShaped, RestartAnsweredShaped, RestoresShaped, StopMainShaped,
   StopMainAnsweredShaped, StopTargetMainShaped, StopTargetMainAnsweredShaped,
   StartTargetMainShaped, StartTargetMainAnsweredShaped, ResumeMainShaped,
   ResumeMainAnsweredShaped, StageShaped, QuiesceShaped, ObservesShaped, DrainsShaped,
   AwaitDrainShaped, WorkerAfterStopShaped, MigrateShaped, MigrateAnsweredShaped,
   ActivatedShaped, VerifiesShaped, SwitchedBackShaped, ResumeRollbackShaped,
   RollbackObserveShaped, AwaitTargetDrainsShaped, TargetWorkerShaped
   DEF ShapedStep

\* An idle runner has no command in flight.
LEMMA IdleRests ==
    ASSUME IInv, Idle
    PROVE  run.cmd = "none"
<1>1. "idle" \notin Kind
  BY DEF Kind, Stops, Starts, Restarts, MainStops, Resumes
<1>2. run.cmd \in Kind \cup {"none", "migrate_schema"}
  BY DEF IInv, Typed, RunType
<1> QED
  BY <1>1, <1>2 DEF IInv, CommandHere, Idle

LEMMA ClaimsKeep ==
    ASSUME IInv, ClaimAttempt \/ Reconcile
    PROVE  IInv'
<1> DEFINE At1 == {"prepare", "barrier", "quiesce", "activation_evidence", "count_restart",
                   "verify", "rollback"}
<1>1. /\ Idle /\ Reads /\ row' = row
      /\ \E at \in At1, by \in {"attempt", "reconcile"} : run' = [run EXCEPT !.at = at, !.by = by]
      /\ run'.at \in Ahead => row.state \in Early
      /\ run'.at = "activation_evidence" => row.state = "activating"
  BY DEF ClaimAttempt, Reconcile, Claim, IInv, Typed, RunType
<1>2. run.cmd = "none"
  BY <1>1, IdleRests
<1>3. run' \in RunType /\ run'.at \in At1 /\ run'.cmd = "none"
  <2>1. At1 \subseteq Places
    BY DEF Places
  <2> HIDE DEF At1
  <2> QED
    BY <1>1, <1>2, <2>1 DEF IInv, Typed, RunType
<1>4. /\ current' = current /\ previous' = previous /\ receipt' = receipt /\ used' = used
      /\ recovery' = recovery /\ svc' = svc
  BY <1>1 DEF Reads, Still, Unmoved, pointerVars, worldVars
<1>5. Typed' /\ KnownGood'
  BY <1>1, <1>3, <1>4 DEF IInv, Typed, WorldType, KnownGood
<1>6. PointersPast'
  BY <1>1, <1>3, <1>4 DEF IInv, PointersPast
<1>7. SwitchActivates' /\ CommandHere' /\ LookedAt'
  BY <1>1, <1>3 DEF SwitchActivates, CommandHere, LookedAt
<1> QED
  BY <1>5, <1>6, <1>7 DEF IInv

\* An interrupted activation goes on from the evidence, or is begun again.
LEMMA EvidenceKeeps ==
    ASSUME IInv, ActivationEvidence
    PROVE  IInv'
<1>1. /\ Premise /\ Typed /\ run.cmd = "none" /\ Still /\ Unmoved
      /\ receipt.generation \in Nat /\ run.at = "activation_evidence"
  BY IInvPremise DEF IInv, Typed, WorldType, ActivationEvidence, At
<1>2. CASE current = "old" /\ Goes("activate") /\ UNCHANGED recovery
  <2>1. /\ run' \in RunType /\ row' = row /\ run'.at = "activate" /\ run'.cmd = "none"
    BY <1>1, <1>2, GoesOn DEF Places
  <2>2. /\ current' = "old" /\ current = "old" /\ previous' = previous /\ receipt' = receipt
        /\ used' = used /\ recovery' = recovery /\ svc' = svc
    BY <1>1, <1>2 DEF Still, Unmoved, pointerVars, worldVars
  <2>3. Typed' /\ KnownGood'
    BY <2>1, <2>2 DEF IInv, Typed, WorldType, KnownGood
  <2>4. PointersPast' /\ CommandHere' /\ LookedAt'
    BY <2>1, <2>2 DEF PointersPast, CommandHere, LookedAt
  <2>5. SwitchActivates'
    BY <1>1, <2>1 DEF IInv, SwitchActivates
  <2> QED
    BY <2>3, <2>4, <2>5 DEF IInv
<1>3. CASE Recover(Service)
  BY <1>1, <1>3, RecoverAway, StillUnmovedQuiet, ShapedKeeps DEF Shaped
<1>4. CASE Restarting(receipt.generation) /\ UNCHANGED recovery
  BY <1>1, <1>4, RestartingAway, StillUnmovedQuiet, ShapedKeeps DEF Typed, Shaped
<1>5. CASE Defer /\ UNCHANGED recovery
  BY <1>1, <1>5, DeferAway, StillUnmovedQuiet, ShapedKeeps DEF Typed, Shaped
<1> QED
  BY <1>2, <1>3, <1>4, <1>5 DEF ActivationEvidence

\* The last look, before the pointers change either way.
LEMMA LooksKeep ==
    ASSUME IInv, Activate \/ RollbackWorker
    PROVE  IInv'
<1>1. Premise /\ Typed /\ run.cmd = "none" /\ Still /\ Unmoved /\ recovery.scope \in SUBSET Service
  BY IInvPremise DEF IInv, Typed, RecoveryType, Activate, RollbackWorker, At
<1>2. CASE \E scope \in SUBSET Service : Recover(scope) \/ RestoreTarget(scope, "other")
  BY <1>1, <1>2, RecoverAway, RestoreTargetAway, StillUnmovedQuiet, ShapedKeeps DEF Shaped
<1>3. ASSUME NEW to \in {"switch_previous", "switch_back"}, Goes(to), UNCHANGED recovery,
             ~Registered("dispatcher"), WorkerSafe,
             to = "switch_previous" => run.at = "activate"
      PROVE  IInv'
  <2>1. /\ run' \in RunType /\ row' = row /\ run'.at = to /\ run'.cmd = "none"
    BY <1>1, <1>3, GoesOn DEF Places
  <2>2. /\ current' = current /\ previous' = previous /\ receipt' = receipt
        /\ used' = used /\ recovery' = recovery /\ svc' = svc
    BY <1>1, <1>3 DEF Still, Unmoved, pointerVars, worldVars
  <2>3. Typed' /\ KnownGood'
    BY <2>1, <2>2 DEF IInv, Typed, WorldType, KnownGood
  <2>4. PointersPast'
    BY <1>3, <2>1, <2>2 DEF IInv, PointersPast
  <2>5. SwitchActivates' /\ CommandHere'
    BY <1>3, <2>1 DEF IInv, SwitchActivates, CommandHere
  <2>6. LookedAt'
    <3>1. svc["dispatcher"] = "off" /\ ~worker
      BY <1>3 DEF Registered, WorkerSafe
    <3>2. svc'["dispatcher"] = "off" /\ ~worker'
      BY <1>1, <2>2, <3>1 DEF Unmoved, worldVars
    <3> QED
      BY <3>2 DEF LookedAt
  <2> QED
    BY <2>3, <2>4, <2>5, <2>6 DEF IInv
<1>4. CASE Activate
  BY <1>1, <1>2, <1>3, <1>4 DEF Activate, At
<1>5. CASE RollbackWorker
  BY <1>1, <1>2, <1>3, <1>5, ScopesSmall DEF RollbackWorker
<1> QED
  BY <1>4, <1>5

\* One pointer or the receipt is written; the other two stay.
LEMMA WritesKeep ==
    ASSUME IInv,
           SwitchPrevious \/ SwitchCurrent \/ WriteReceipt
             \/ SwitchBack \/ SwitchPreviousBack \/ WriteRollbackReceipt
    PROVE  IInv'
<1>1. /\ Typed /\ run.cmd = "none" /\ recovery' = recovery /\ used' = used
      /\ svc' = svc /\ worker' = worker
  BY DEF IInv, SwitchPrevious, SwitchCurrent, WriteReceipt, SwitchBack, SwitchPreviousBack,
         WriteRollbackReceipt, At, Writes, Unmoved, worldVars
<1>2. ASSUME NEW to \in Places, Goes(to)
      PROVE  run' \in RunType /\ row' = row /\ run'.at = to /\ run'.cmd = "none"
  BY <1>1, <1>2, GoesOn
<1>3. /\ {"switch_current", "write_receipt", "activated", "switch_previous_back",
          "write_rollback_receipt", "switched_back"} \subseteq Places
  BY DEF Places
<1>4. receipt' \in [to : Release \cup {"none"}, generation : Nat]
  BY <1>1 DEF Typed, RowType, WorldType, SwitchPrevious, SwitchCurrent, WriteReceipt, SwitchBack,
              SwitchPreviousBack, WriteRollbackReceipt
<1>5. WorldType' /\ recovery' \in RecoveryType
  BY <1>1, <1>4 DEF Typed, WorldType
<1>6. CASE SwitchPrevious
  <2>1. /\ run.at = "switch_previous" /\ current' = current /\ previous' = current
        /\ current = "old" /\ row.state = "activating"
        /\ run' \in RunType /\ row' = row /\ run'.at = "switch_current" /\ run'.cmd = "none"
    BY <1>2, <1>3, <1>6 DEF SwitchPrevious, At, IInv, PointersPast, SwitchActivates
  <2>2. LookedAt'
    BY <1>1, <2>1 DEF IInv, LookedAt
  <2> QED
    BY <1>1, <1>5, <2>1, <2>2 DEF IInv, Typed, KnownGood, PointersPast, SwitchActivates, CommandHere
<1>7. CASE SwitchCurrent
  <2>1. /\ run.at = "switch_current" /\ current' = "new" /\ previous' = previous
        /\ previous = "old" /\ row.state = "activating"
        /\ run' \in RunType /\ row' = row /\ run'.at = "write_receipt" /\ run'.cmd = "none"
    BY <1>2, <1>3, <1>7 DEF SwitchCurrent, At, IInv, PointersPast, SwitchActivates
  <2> QED
    BY <1>1, <1>5, <2>1 DEF IInv, Typed, KnownGood, PointersPast, SwitchActivates, CommandHere, LookedAt
<1>8. CASE WriteReceipt \/ WriteRollbackReceipt
  <2>1. /\ current' = current /\ previous' = previous
        /\ run' \in RunType /\ row' = row /\ run'.at \in {"activated", "switched_back"} /\ run'.cmd = "none"
    BY <1>2, <1>3, <1>8 DEF WriteReceipt, WriteRollbackReceipt
  <2> QED
    BY <1>1, <1>5, <2>1 DEF IInv, Typed, KnownGood, PointersPast, SwitchActivates, CommandHere, LookedAt
<1>9. CASE SwitchBack
  <2>1. /\ current' = "old" /\ previous' = previous
        /\ run' \in RunType /\ row' = row /\ run'.at = "switch_previous_back" /\ run'.cmd = "none"
    BY <1>2, <1>3, <1>9 DEF SwitchBack
  <2> QED
    BY <1>1, <1>5, <2>1 DEF IInv, Typed, KnownGood, PointersPast, SwitchActivates, CommandHere, LookedAt
<1>10. CASE SwitchPreviousBack
  <2>1. /\ current' = "old" /\ previous' = "new"
        /\ run' \in RunType /\ row' = row /\ run'.at = "write_rollback_receipt" /\ run'.cmd = "none"
    BY <1>2, <1>3, <1>10 DEF SwitchPreviousBack, At, IInv, PointersPast
  <2> QED
    BY <1>1, <1>5, <2>1 DEF IInv, Typed, KnownGood, PointersPast, SwitchActivates, CommandHere, LookedAt
<1> QED
  BY <1>6, <1>7, <1>8, <1>9, <1>10

\* A step outside the runner that leaves it, its row and the pointers.
LEMMA WorldKeeps ==
    ASSUME IInv, \E s \in Service : KeepAlive(s) \/ Register(s)
    PROVE  IInv'
<1>1. PICK s \in Service : KeepAlive(s) \/ Register(s)
  OBVIOUS
<1>2. /\ run' = run /\ row' = row /\ recovery' = recovery /\ worker' = worker
      /\ current' = current /\ previous' = previous /\ receipt' = receipt
  BY <1>1 DEF KeepAlive, Register, rowVars, pointerVars
<1>3. svc' = [svc EXCEPT ![s] = current] /\ svc' \in SvcType /\ svc \in SvcType
  BY <1>1 DEF KeepAlive, Register, IInv, Typed, WorldType, SvcType, PointersPast
<1>4. /\ used' \in [crashes : Nat, restarts : Nat, registered : Nat, rollbacks : Nat]
      /\ used'.registered >= used.registered
      /\ used'.registered > 0 \/ Live(s)
  BY <1>1 DEF KeepAlive, Register, IInv, Typed, WorldType
<1>5. Typed'
  BY <1>2, <1>3, <1>4 DEF IInv, Typed, WorldType
<1>6. LookedAt'
  <2> SUFFICES ASSUME run.at \in Switching, ~(used'.registered > 0)
               PROVE  svc'["dispatcher"] = "off" /\ ~worker'
    BY <1>2 DEF LookedAt
  <2>1. ~(used.registered > 0) /\ Live(s)
    BY <1>4 DEF IInv, Typed, WorldType
  <2>2. svc["dispatcher"] = "off" /\ ~worker
    BY <2>1 DEF IInv, LookedAt
  <2>3. s # "dispatcher"
    BY <2>1, <2>2 DEF Live
  <2> QED
    BY <1>2, <1>3, <2>2, <2>3 DEF SvcType
<1> QED
  BY <1>2, <1>5, <1>6 DEF IInv, KnownGood, PointersPast, SwitchActivates, CommandHere

\* Workers start only under a Dispatcher, and where one is looked at none runs.
LEMMA WorkersKeep ==
    ASSUME IInv, WorkerStarts \/ WorkerEnds
    PROVE  IInv'
<1>1. /\ run' = run /\ row' = row /\ recovery' = recovery /\ used' = used /\ svc' = svc
      /\ current' = current /\ previous' = previous /\ receipt' = receipt
      /\ Live("dispatcher")
  BY DEF WorkerStarts, WorkerEnds, Elsewhere, rowVars, pointerVars
<1>2. LookedAt'
  BY <1>1 DEF IInv, LookedAt, Live
<1> QED
  BY <1>1, <1>2 DEF IInv, Typed, WorldType, KnownGood, PointersPast, SwitchActivates, CommandHere

LEMMA InterruptedKeeps ==
    ASSUME IInv, Interrupted
    PROVE  IInv'
<1>1. Premise /\ Typed
  BY IInvPremise DEF Premise
<1>2. /\ row' = row /\ recovery' = recovery /\ run' = Rest
      /\ current' = current /\ previous' = previous /\ receipt' = receipt
      /\ used' = [used EXCEPT !.crashes = @ + 1]
  BY DEF Interrupted, rowVars, pointerVars
<1>3. svc' \in SvcType
  BY <1>1, DoneTyped DEF Interrupted, DoneOrNot
<1>4. used' \in [crashes : Nat, restarts : Nat, registered : Nat, rollbacks : Nat]
  BY <1>1, <1>2 DEF Typed, WorldType
<1> QED
  BY <1>2, <1>3, <1>4, RestAway DEF IInv, Typed, WorldType, KnownGood, PointersPast, SwitchActivates,
                                    CommandHere, LookedAt

LEMMA OperatorKeeps ==
    ASSUME IInv, OperatorRollback
    PROVE  IInv'
<1>1. /\ Typed /\ recovery' = recovery /\ svc' = svc
      /\ current' = current /\ previous' = previous /\ receipt' = receipt
      /\ used' = [used EXCEPT !.rollbacks = @ + 1]
  BY DEF IInv, OperatorRollback, Unmoved, worldVars, pointerVars
<1>2. used' \in [crashes : Nat, restarts : Nat, registered : Nat, rollbacks : Nat]
  BY <1>1 DEF Typed, WorldType
<1>3. Away
  <2>1. /\ row' \in RowType /\ row'.state = "rolling_back"
        /\ row'.generation = row.generation /\ row'.attempts = row.attempts
    BY <1>1 DEF OperatorRollback, Typed, RowType
  <2>2. /\ run' \in RunType /\ run'.at = "operator_rollback" /\ run'.cmd = "none"
        /\ run'.at \notin Back
    BY RestAway DEF OperatorRollback, RunType, Places, Back
  <2> QED
    BY <2>1, <2>2, CountedElsewhere DEF Away
<1> QED
  BY <1>1, <1>2, <1>3 DEF Away, IInv, Typed, WorldType, KnownGood, PointersPast, SwitchActivates,
                          CommandHere, LookedAt

LEMMA ExpireKeeps ==
    ASSUME IInv, Expire \/ UNCHANGED vars
    PROVE  IInv'
<1>1. /\ recovery' = recovery /\ svc' = svc /\ run' = run /\ used' = used /\ worker' = worker
      /\ current' = current /\ previous' = previous /\ receipt' = receipt
  BY DEF Expire, vars, rowVars, pointerVars, worldVars
<1>2. row' \in RowType /\ row'.state = row.state
  BY DEF Expire, vars, rowVars, IInv, Typed, RowType
<1>3. LookedAt'
  BY <1>1 DEF IInv, LookedAt
<1> QED
  BY <1>1, <1>2, <1>3 DEF IInv, Typed, WorldType, KnownGood, PointersPast, SwitchActivates, CommandHere

\* Every step is one of these.
LEMMA Steps ==
    ASSUME [Next]_vars
    PROVE  \/ ShapedStep
           \/ ClaimAttempt \/ Reconcile
           \/ ActivationEvidence
           \/ Activate \/ RollbackWorker
           \/ SwitchPrevious \/ SwitchCurrent \/ WriteReceipt
           \/ SwitchBack \/ SwitchPreviousBack \/ WriteRollbackReceipt
           \/ \E s \in Service : KeepAlive(s) \/ Register(s)
           \/ WorkerStarts \/ WorkerEnds
           \/ Interrupted \/ OperatorRollback
           \/ Expire \/ UNCHANGED vars
BY DEF Next, Updater, World, ShapedStep

LEMMA InitIInv == Init => IInv
<1> SUFFICES ASSUME Init PROVE IInv
  OBVIOUS
<1>1. Typed
  BY RestAway DEF Init, Typed, RowType, RecoveryType, WorldType, SvcType, Nothing
<1>2. KnownGood /\ PointersPast /\ SwitchActivates /\ CommandHere /\ LookedAt
  BY RestAway DEF Init, KnownGood, PointersPast, SwitchActivates, CommandHere, LookedAt
<1> QED
  BY <1>1, <1>2 DEF IInv

LEMMA NextIInv == IInv /\ [Next]_vars => IInv'
<1> SUFFICES ASSUME IInv, [Next]_vars PROVE IInv'
  OBVIOUS
<1>1. CASE ShapedStep
  BY <1>1, IInvPremise, ShapedStepShaped, ShapedKeeps
<1>2. CASE ClaimAttempt \/ Reconcile
  BY <1>2, ClaimsKeep
<1>3. CASE ActivationEvidence
  BY <1>3, EvidenceKeeps
<1>4. CASE Activate \/ RollbackWorker
  BY <1>4, LooksKeep
<1>5. CASE \/ SwitchPrevious \/ SwitchCurrent \/ WriteReceipt
           \/ SwitchBack \/ SwitchPreviousBack \/ WriteRollbackReceipt
  BY <1>5, WritesKeep
<1>6. CASE \E s \in Service : KeepAlive(s) \/ Register(s)
  BY <1>6, WorldKeeps
<1>7. CASE WorkerStarts \/ WorkerEnds
  BY <1>7, WorkersKeep
<1>8. CASE Interrupted
  BY <1>8, InterruptedKeeps
<1>9. CASE OperatorRollback
  BY <1>9, OperatorKeeps
<1>10. CASE Expire \/ UNCHANGED vars
  BY <1>10, ExpireKeeps
<1> QED
  BY <1>1, <1>2, <1>3, <1>4, <1>5, <1>6, <1>7, <1>8, <1>9, <1>10, Steps

LEMMA AlwaysIInv == Spec => []IInv
BY InitIInv, NextIInv, PTL DEF Spec

-----------------------------------------------------------------------------
(***************************************************************************)
(* The theorems                                                            *)
(***************************************************************************)

\* At any end of the runner, between any two writes of activate and rollback of
\* the release store, one of the two pointers names the release known to work.
THEOREM KnownGoodAlways == Spec => []KnownGood
<1>1. IInv => KnownGood
  BY DEF IInv
<1> QED
  BY <1>1, AlwaysIInv, PTL

\* Only the two writes of the current pointer change it.
LEMMA CurrentStays ==
    ASSUME IInv, [Next]_vars, current' # current
    PROVE  SwitchCurrent \/ SwitchBack
<1>1. ~ShapedStep
  BY IInvPremise, ShapedStepShaped DEF Shaped, Quiet, pointerVars
<1>2. ~(ClaimAttempt \/ Reconcile)
  BY DEF ClaimAttempt, Reconcile, Claim, Reads, Still, pointerVars
<1>3. ~(ActivationEvidence \/ Activate \/ RollbackWorker)
  BY DEF ActivationEvidence, Activate, RollbackWorker, Still, pointerVars
<1>4. ~(SwitchPrevious \/ WriteReceipt \/ SwitchPreviousBack \/ WriteRollbackReceipt)
  BY DEF SwitchPrevious, WriteReceipt, SwitchPreviousBack, WriteRollbackReceipt
<1>5. ~(WorkerStarts \/ WorkerEnds \/ Interrupted \/ OperatorRollback \/ Expire \/ UNCHANGED vars)
  BY DEF WorkerStarts, WorkerEnds, Elsewhere, Interrupted, OperatorRollback, Expire, vars, pointerVars
<1>6. ~(\E s \in Service : KeepAlive(s) \/ Register(s))
  BY DEF KeepAlive, Register, pointerVars
<1> QED
  BY <1>1, <1>2, <1>3, <1>4, <1>5, <1>6, Steps

\* The look at the job state after the stop of the Dispatcher still holds when
\* the current pointer is written, unless somebody registered a service since
\* (assertWorkerSafe before store.activate and store.rollback).
THEOREM WorkersStayBehindAlways == Spec => WorkersStayBehind
<1>1. ASSUME IInv, [Next]_vars
      PROVE  [current' # current => ~worker \/ used.registered > 0]_vars
  <2>1. CASE current' # current
    <3>1. run.at \in Switching
      BY <1>1, <2>1, CurrentStays DEF SwitchCurrent, SwitchBack, At
    <3> QED
      BY <1>1, <3>1 DEF IInv, LookedAt
  <2> QED
    BY <2>1
<1> QED
  BY <1>1, AlwaysIInv, PTL DEF Spec, WorkersStayBehind

\* A command is given at most once, by however many runners
\* (prepareRuntimeOperation before every launchctl and Herdr command).
THEOREM OneCommandAlways == Spec => OneCommand
<1> DEFINE Fresh == \A k \in Kind : run'.cmd = k /\ run.cmd # k => op[k] = "none"
<1>1. ASSUME IInv, [Next]_vars
      PROVE  Fresh
  <2>1. CASE ShapedStep
    <3>1. Away \/ Stays \/ Advances
      BY <1>1, <2>1, IInvPremise, ShapedStepShaped DEF Shaped
    <3> QED
      BY <3>1, KindFacts DEF Away, Stays, Advances
  <2>2. CASE ClaimAttempt \/ Reconcile
    BY <1>1, <2>2 DEF ClaimAttempt, Reconcile, Claim, IInv, Typed, RunType
  <2>3. CASE ActivationEvidence
    <3>1. Typed /\ run.cmd = "none" /\ receipt.generation \in Nat
      BY <1>1, <2>3 DEF IInv, Typed, WorldType, ActivationEvidence, At
    <3>2. run'.cmd = "none"
      BY <2>3, <3>1, GoesOn, RecoverAway, RestartingAway, DeferAway
         DEF ActivationEvidence, Away, Places
    <3> QED
      BY <3>2, KindFacts
  <2>4. CASE Activate \/ RollbackWorker
    <3>1. Typed /\ recovery.scope \in SUBSET Service
      BY <1>1 DEF IInv, Typed, RecoveryType
    <3>2. run'.cmd = "none"
      BY <2>4, <3>1, GoesOn, RecoverAway, RestoreTargetAway, ScopesSmall
         DEF Activate, RollbackWorker, Away, Places
    <3> QED
      BY <3>2, KindFacts
  <2>5. CASE \/ SwitchPrevious \/ SwitchCurrent \/ WriteReceipt
             \/ SwitchBack \/ SwitchPreviousBack \/ WriteRollbackReceipt
    <3>1. run'.cmd = "none"
      BY <1>1, <2>5, GoesOn DEF IInv, SwitchPrevious, SwitchCurrent, WriteReceipt, SwitchBack,
                            SwitchPreviousBack, WriteRollbackReceipt, Places
    <3> QED
      BY <3>1, KindFacts
  <2>6. CASE (\E s \in Service : KeepAlive(s) \/ Register(s)) \/ WorkerStarts \/ WorkerEnds
               \/ Expire \/ UNCHANGED vars
    BY <2>6 DEF KeepAlive, Register, WorkerStarts, WorkerEnds, Elsewhere, Expire, vars
  <2>7. CASE Interrupted
    BY <2>7, RestAway, KindFacts DEF Interrupted
  <2>8. CASE OperatorRollback
    <3>1. run'.cmd = "none"
      BY <2>8, RestAway DEF OperatorRollback, RunType
    <3> QED
      BY <3>1, KindFacts
  <2> QED
    BY <1>1, <2>1, <2>2, <2>3, <2>4, <2>5, <2>6, <2>7, <2>8, Steps
<1>2. ASSUME IInv, [Next]_vars
      PROVE  [\A k \in Kind : run'.cmd = k /\ run.cmd # k => op[k] = "none"]_vars
  BY <1>1, <1>2
<1> QED
  BY <1>2, AlwaysIInv, PTL DEF Spec, OneCommand
-----------------------------------------------------------------------------
(***************************************************************************)
(* What a decision reports                                                 *)
(*                                                                         *)
(* A plan is decided failed, rolled_back or succeeded on a look at the     *)
(* runtime; the restart of a service found healthy is remembered.  Every   *)
(* other step of the runner is calm: it decides nothing but a review, and  *)
(* leads neither to the restore of the old runtime nor back to the start.  *)
(***************************************************************************)

Untried == {"preparing", "staged"}

\* Nothing of the runtime has been touched.
Beginning == {"prepare", "barrier"}

\* A rollback, up to the launch of the previous release.
Undoing == {"rollback", "operator_rollback", "rollback_observe", "drain_target_slack",
            "target_slack_drained", "drain_target_dispatcher", "target_dispatcher_drained",
            "stop_target_slack", "stop_target_dispatcher", "target_worker_after_stop",
            "stop_target_main_agent", "rollback_worker", "switch_back", "switch_previous_back",
            "write_rollback_receipt", "switched_back"}

\* The restore of the old runtime, from its first restart on.
Relaunching == run.at = "start_previous_main_agent" /\ row.state # "rolling_back"

Restoring ==
    run.at \in {"restart_current_dispatcher", "restart_current_slack", "restore_check"} \/ Relaunching

Restored(s) == svc[s] = "old" /\ s \notin draining /\ Readable("old")

FreshInv ==
    /\ row.state \in Untried =>
          run.at \in Beginning \cup {"idle"} /\ Runtime("old", {"old"}) /\ schema = "old"
    /\ run.at \in Beginning => row.state \in Untried

RestInv == row.state \in Terminal => run.at = "idle"

UndoInv == run.at \in Undoing => row.state = "rolling_back"

SchemaInv == (row.state = "activating" \/ current = "new") /\ plan.migrates => schema = "new"

RestoreInv ==
    /\ Restoring => current = "old"
    /\ ~run.broken /\ run.at = "restart_current_slack" /\ "dispatcher" \in recovery.scope =>
          Restored("dispatcher")
    /\ ~run.broken /\ (run.at = "restore_check" \/ Relaunching) =>
          \A s \in recovery.scope : Restored(s)

Sound == FreshInv /\ RestInv /\ UndoInv /\ SchemaInv /\ RestoreInv /\ DecisionTrue

Calm ==
    /\ row'.state \in Mutating \cup {"needs_review"}
    /\ row'.state = "needs_review" => run'.at = "idle"
    /\ run'.at \notin Beginning /\ ~Restoring'
    /\ run'.at \in Undoing => row'.state = "rolling_back"
    /\ row'.state = "activating" => row.state = "activating" \/ (plan.migrates => schema' = "new")

\* A schema is never migrated back, and only an activation makes the target current.
Mild ==
    /\ plan' = plan
    /\ schema' = schema \/ schema' = "new"
    /\ current' = "new" => current = "new" \/ row.state = "activating"

LEMMA CalmKeeps ==
    ASSUME SchemaInv, Calm, Mild
    PROVE  Sound'
<1>1. FreshInv' /\ RestInv' /\ UndoInv'
  BY DEF Calm, FreshInv, RestInv, UndoInv, Untried
<1>2. SchemaInv'
  BY DEF Calm, Mild, SchemaInv
<1>3. RestoreInv'
  BY DEF Calm, RestoreInv, Restoring
<1>4. DecisionTrue'
  BY DEF Calm, DecisionTrue
<1> QED
  BY <1>1, <1>2, <1>3, <1>4 DEF Sound

\* The runner is under way with the plan.
Afoot == Premise /\ UndoInv /\ row.state \in Mutating /\ run.at # "idle"

LEMMA AfootThere ==
    ASSUME IInv, Sound, run.at \notin Beginning \cup {"idle"}
    PROVE  Afoot
<1>1. row.state \in State
  BY DEF IInv, Typed, RowType
<1> QED
  BY <1>1, IInvPremise DEF Sound, FreshInv, RestInv, Afoot, Untried

\* A place a calm step may lead to.
Plain(to) ==
    /\ to \notin Beginning
    /\ to \notin {"restart_current_dispatcher", "restart_current_slack", "restore_check"}
    /\ to \in Undoing \cup {"start_previous_main_agent"} => row.state = "rolling_back"

LEMMA LeadsCalm ==
    ASSUME Afoot, row' = row, Plain(run'.at)
    PROVE  Calm
BY DEF Afoot, Plain, Calm, Restoring, Relaunching

LEMMA GoesCalm ==
    ASSUME Afoot, NEW to \in Places, Goes(to), Plain(to)
    PROVE  Calm
<1>1. row' = row /\ run'.at = to
  BY GoesOn DEF Afoot, Premise
<1> QED
  BY <1>1, LeadsCalm

LEMMA RestsCalm ==
    ASSUME Afoot, run' = Rest, row'.state \in {row.state, "needs_review"}
    PROVE  Calm
<1>1. run'.at = "idle"
  BY RestAway
<1>2. "idle" \notin Undoing \cup Beginning
  BY DEF Undoing, Beginning
<1> QED
  BY <1>1, <1>2 DEF Afoot, Calm, Restoring, Relaunching

LEMMA ReviewCalm ==
    ASSUME Afoot, NEW code \in {"none", "other", "evidence"}, Review(code)
    PROVE  Calm
<1>1. row'.state = "needs_review"
  BY DEF Review, Decides, Afoot, Premise, Typed, RowType
<1> QED
  BY <1>1, RestsCalm DEF Review, Decides

LEMMA DeferCalm ==
    ASSUME Afoot, Defer
    PROVE  Calm
<1>1. CASE row' = [row EXCEPT !.deadline = "open"] /\ run' = Rest
  <2>1. row'.state = row.state
    BY <1>1 DEF Afoot, Premise, Typed, RowType
  <2> QED
    BY <1>1, <2>1, RestsCalm
<1> QED
  BY <1>1, ReviewCalm DEF Defer

LEMMA ThrowCalm ==
    ASSUME Afoot, Throw
    PROVE  Calm
<1>1. CASE run' = Rest /\ UNCHANGED row
  BY <1>1, RestsCalm
<1> QED
  BY <1>1, ReviewCalm DEF Throw, Afoot

LEMMA EntersCalm ==
    ASSUME Afoot, NEW state \in Mutating, NEW to \in {"verify", "activate"}, Enters(state, to),
           state = "activating" => row.state = "activating" \/ (plan.migrates => schema' = "new")
    PROVE  Calm
<1>1. to \in Places
  BY DEF Places, Kind
<1>2. row'.state = state /\ run'.at = to
  BY <1>1, EntersOn DEF Afoot, Premise
<1> QED
  BY <1>2 DEF Afoot, Calm, Restoring, Relaunching, Beginning, Undoing

LEMMA RollBackCalm ==
    ASSUME Afoot, NEW known \in BOOLEAN, RollBack(known)
    PROVE  Calm
<1>1. CASE /\ row' = [row EXCEPT !.state = "rolling_back"]
           /\ run' = [run EXCEPT !.at = "rollback", !.cmd = "none", !.known = known]
  <2>1. row'.state = "rolling_back"
    BY <1>1 DEF Afoot, Premise, Typed, RowType
  <2>2. run'.at = "rollback"
    BY <1>1 DEF Afoot, Premise, Typed, RunType
  <2> QED
    BY <2>1, <2>2 DEF Calm, Restoring, Relaunching, Beginning
<1> QED
  BY <1>1, ReviewCalm DEF RollBack

LEMMA RecoverCalm ==
    ASSUME Afoot, NEW scope, Recover(scope)
    PROVE  Calm
<1>1. "restore" \in Places /\ Plain("restore")
  BY DEF Places, Plain, Beginning, Undoing
<1> QED
  BY <1>1, GoesCalm DEF Recover

LEMMA RestoreTargetCalm ==
    ASSUME Afoot, NEW scope, NEW cause, RestoreTarget(scope, cause)
    PROVE  Calm
<1>1. "restore_target" \in Places /\ Plain("restore_target")
  BY DEF Places, Plain, Beginning, Undoing
<1> QED
  BY <1>1, GoesCalm DEF RestoreTarget

\* A command that is given or answered leaves the runner where it is.
LEMMA HereCalm ==
    ASSUME Afoot, NEW k \in Kind, run.at = k, Issue(k) \/ Goes(k),
           k \notin {"restart_current_dispatcher", "restart_current_slack", "start_previous_main_agent"}
    PROVE  Calm
<1>1. row' = row /\ run'.at = k
  BY KindFacts, GoesOn DEF Issue, Afoot, Premise, Typed, RunType
<1>2. k \notin Beginning \cup {"restore_check"}
  BY DEF Kind, Stops, Starts, Restarts, MainStops, Resumes, Beginning
<1> QED
  BY <1>1, <1>2, LeadsCalm DEF Plain, Afoot, UndoInv

LEMMA StillMild ==
    ASSUME Still, NEW k, Unmoved \/ Done(k) \/ DoneOrNot(k)
    PROVE  Mild
BY DEF Still, Unmoved, worldVars, pointerVars, DoneOrNot, Done, Mild

LEMMA ReadsMild ==
    ASSUME Reads
    PROVE  Mild
BY StillMild DEF Reads

(***************************************************************************)
(* The calm steps                                                          *)
(***************************************************************************)

LEMMA StopServiceCalm ==
    ASSUME Afoot, NEW k \in Stops, StopService(k)
    PROVE  Calm /\ Mild
<1>1. /\ run.at = k /\ k \in Kind /\ Mild
      /\ k \notin {"restart_current_dispatcher", "restart_current_slack", "start_previous_main_agent"}
  BY KindFacts, StillMild, ReadsMild DEF StopService, At, Issue, Stops
<1>2. CASE Issue(k)
  BY <1>1, <1>2, HereCalm
<1>3. CASE Goes(NextStop(k))
  <2>1. CASE k \in {"stop_slack", "stop_dispatcher"}
    <3>1. NextStop(k) \in {"stop_dispatcher", "worker_after_stop"}
      BY <2>1 DEF NextStop
    <3>2. NextStop(k) \in Places /\ Plain(NextStop(k))
      BY <3>1 DEF Places, Kind, Stops, Plain, Beginning, Undoing
    <3> QED
      BY <1>1, <1>3, <3>2, GoesCalm
  <2>2. CASE k \in {"stop_target_slack", "stop_target_dispatcher"}
    <3>1. NextStop(k) \in {"stop_target_dispatcher", "target_worker_after_stop"}
      BY <2>2 DEF NextStop
    <3>2. row.state = "rolling_back"
      BY <1>1, <2>2 DEF Afoot, UndoInv, Undoing
    <3>3. NextStop(k) \in Places /\ Plain(NextStop(k))
      BY <3>1, <3>2 DEF Places, Kind, Stops, Plain, Beginning
    <3> QED
      BY <1>1, <1>3, <3>3, GoesCalm
  <2> QED
    BY <2>1, <2>2 DEF Stops
<1>4. CASE StopUnverified(k)
  BY <1>1, <1>4, RecoverCalm, RestoreTargetCalm DEF StopUnverified
<1>5. CASE Defer \/ Review("other")
  BY <1>1, <1>5, DeferCalm, ReviewCalm
<1> QED
  BY <1>2, <1>3, <1>4, <1>5 DEF StopService, Succeeds

LEMMA StopAnsweredCalm ==
    ASSUME Afoot, NEW k \in Stops, StopAnswered(k)
    PROVE  Calm /\ Mild
<1>1. /\ run.at = k /\ k \in Kind /\ Mild
      /\ k \notin {"restart_current_dispatcher", "restart_current_slack", "start_previous_main_agent"}
  BY KindFacts, AnsweredHere, StillMild DEF Afoot, StopAnswered, Stops
<1>2. CASE Goes(k)
  BY <1>1, <1>2, HereCalm
<1>3. CASE StopUnverified(k)
  BY <1>1, <1>3, RecoverCalm, RestoreTargetCalm DEF StopUnverified
<1>4. CASE Defer \/ Review("other")
  BY <1>1, <1>4, DeferCalm, ReviewCalm
<1> QED
  BY <1>2, <1>3, <1>4 DEF StopAnswered

LEMMA StartedCalm ==
    ASSUME Afoot, NEW k \in Starts, Started(k)
    PROVE  Calm
<1>1. CASE k # "start_target_slack"
  <2>1. \E to \in {"start_target_slack", "start_previous_slack", "verify_rollback"} : Goes(to)
    <3>1. CASE k = "start_target_dispatcher"
      BY <3>1 DEF Started
    <3>2. CASE k = "start_previous_dispatcher"
      BY <3>2 DEF Started
    <3>3. CASE k = "start_previous_slack"
      BY <3>3 DEF Started
    <3> QED
      BY <1>1, <3>1, <3>2, <3>3 DEF Starts
  <2>2. ASSUME NEW to \in {"start_target_slack", "start_previous_slack", "verify_rollback"}
        PROVE  to \in Places /\ Plain(to)
    BY DEF Places, Kind, Starts, Plain, Beginning, Undoing
  <2> QED
    BY <2>1, <2>2, GoesCalm
<1>2. CASE k = "start_target_slack"
  BY <1>2, EntersCalm DEF Started
<1> QED
  BY <1>1, <1>2

LEMMA StartsCalm ==
    ASSUME Afoot, NEW k \in Starts, StartService(k) \/ StartAnswered(k)
    PROVE  Calm /\ Mild
<1>1. /\ run.at = k /\ k \in Kind /\ Mild
      /\ k \notin {"restart_current_dispatcher", "restart_current_slack", "start_previous_main_agent"}
  BY KindFacts, AnsweredHere, StillMild, ReadsMild
     DEF Afoot, StartService, StartAnswered, At, Issue, Starts
<1>2. CASE Issue(k) \/ Goes(k)
  BY <1>1, <1>2, HereCalm
<1>3. CASE Started(k)
  BY <1>1, <1>3, StartedCalm
<1>4. CASE WrongBuild(k) \/ Defer \/ Review("other")
  BY <1>1, <1>4, RollBackCalm, DeferCalm, ReviewCalm DEF WrongBuild
<1> QED
  BY <1>2, <1>3, <1>4 DEF StartService, StartAnswered

LEMMA TargetRestartsCalm ==
    ASSUME Afoot, NEW k \in {"restart_target_dispatcher", "restart_target_slack"},
           RestartService(k) \/ RestartAnswered(k)
    PROVE  Calm /\ Mild
<1>1. /\ run.at = k /\ k \in Kind /\ Mild
      /\ k \notin {"restart_current_dispatcher", "restart_current_slack", "start_previous_main_agent"}
  BY KindFacts, AnsweredHere, StillMild, ReadsMild
     DEF Afoot, RestartService, RestartAnswered, At, Issue, Restarts
<1>2. CASE Issue(k) \/ Goes(k)
  BY <1>1, <1>2, HereCalm
<1>3. NextRestart(k) \in {"restart_target_slack", "restart_target_main_agent", "restore_target_check"}
  BY DEF NextRestart
<1>4. NextRestart(k) \in Places /\ Plain(NextRestart(k))
  BY <1>3 DEF Places, Kind, Restarts, Resumes, Plain, Beginning, Undoing
<1>5. CASE Goes(NextRestart(k))
  BY <1>1, <1>4, <1>5, GoesCalm
<1>6. CASE Breaks(k)
  <2>1. row' = row /\ run'.at = NextRestart(k)
    BY <1>6 DEF Breaks, Afoot, Premise, Typed, RunType
  <2> QED
    BY <1>1, <1>4, <2>1, LeadsCalm
<1> QED
  BY <1>2, <1>5, <1>6 DEF RestartService, RestartAnswered, Succeeds

LEMMA TargetRestoresCalm ==
    ASSUME Afoot, RestoreTargetServices \/ RestoreTargetCheck
    PROVE  Calm /\ Mild
<1>1. Mild
  BY ReadsMild DEF RestoreTargetServices, RestoreTargetCheck
<1>2. CASE RestoreTargetServices
  <2> DEFINE to == FirstOf("restart_target_dispatcher", "restart_target_slack",
                    "stop_target_main_agent", "restart_target_main_agent", "restore_target_check")
  <2>1. to \in {"restart_target_dispatcher", "restart_target_slack", "restart_target_main_agent",
                "restore_target_check"}
    BY DEF FirstOf
  <2>2. Goes(to)
    BY <1>2 DEF RestoreTargetServices
  <2> HIDE DEF to
  <2>3. to \in Places /\ Plain(to)
    BY <2>1 DEF Places, Kind, Restarts, Resumes, Plain, Beginning, Undoing
  <2> QED
    BY <1>1, <2>2, <2>3, GoesCalm
<1>3. CASE RestoreTargetCheck
  <2>1. recovery.cause \in {"none", "other", "evidence"}
    BY DEF Afoot, Premise, Typed, RecoveryType
  <2> QED
    BY <1>1, <1>3, <2>1, ReviewCalm DEF RestoreTargetCheck
<1> QED
  BY <1>2, <1>3

LEMMA StopMainCalm ==
    ASSUME Afoot, StopMainAgent \/ StopMainAnswered
    PROVE  Calm /\ Mild
<1> DEFINE k == "stop_main_agent"
<1>1. /\ run.at = k /\ k \in Kind /\ Mild
  BY MainPlaces, AnsweredHere, StillMild, ReadsMild
     DEF Afoot, StopMainAgent, StopMainAnswered, At, Issue
<1>2. CASE Issue(k)
  BY <1>1, <1>2, HereCalm
<1>3. CASE Goes("stop_slack")
  <2>1. "stop_slack" \in Places /\ Plain("stop_slack")
    BY DEF Places, Kind, Stops, Plain, Beginning, Undoing
  <2> QED
    BY <1>1, <1>3, <2>1, GoesCalm
<1>4. CASE Recover(Service) \/ Defer
  BY <1>1, <1>4, RecoverCalm, DeferCalm
<1> QED
  BY <1>2, <1>3, <1>4 DEF StopMainAgent, StopMainAnswered, Succeeds

LEMMA StopTargetMainCalm ==
    ASSUME Afoot, StopTargetMain \/ StopTargetMainAnswered
    PROVE  Calm /\ Mild
<1> DEFINE k == "stop_target_main_agent"
<1>1. /\ run.at = k /\ k \in Kind /\ Mild
  BY MainPlaces, AnsweredHere, StillMild
     DEF Afoot, StopTargetMain, StopTargetMainAnswered, At, Issue
<1>2. CASE Issue(k)
  BY <1>1, <1>2, HereCalm
<1>3. CASE Goes("rollback_worker")
  <2>1. row.state = "rolling_back"
    BY <1>1 DEF Afoot, UndoInv, Undoing
  <2>2. "rollback_worker" \in Places /\ Plain("rollback_worker")
    BY <2>1 DEF Places, Plain, Beginning
  <2> QED
    BY <1>1, <1>3, <2>2, GoesCalm
<1>4. CASE RestoreTarget(Service, "other") \/ RestoreTarget(Service, "evidence")
  BY <1>1, <1>4, RestoreTargetCalm
<1> QED
  BY <1>2, <1>3, <1>4 DEF StopTargetMain, StopTargetMainAnswered, Succeeds

LEMMA StartTargetMainCalm ==
    ASSUME Afoot, StartTargetMain \/ StartTargetMainAnswered
    PROVE  Calm /\ Mild
<1> DEFINE k == "start_target_main_agent"
<1>1. /\ run.at = k /\ k \in Kind /\ Mild
  BY KindFacts, AnsweredHere, StillMild, ReadsMild
     DEF Afoot, StartTargetMain, StartTargetMainAnswered, At, Issue
<1>2. CASE Issue(k)
  BY <1>1, <1>2, HereCalm
<1>3. CASE Goes("start_target_dispatcher")
  <2>1. "start_target_dispatcher" \in Places /\ Plain("start_target_dispatcher")
    BY DEF Places, Kind, Starts, Plain, Beginning, Undoing
  <2> QED
    BY <1>1, <1>3, <2>1, GoesCalm
<1>4. CASE RollBack(TRUE) \/ Defer
  BY <1>1, <1>4, RollBackCalm, DeferCalm
<1> QED
  BY <1>2, <1>3, <1>4 DEF StartTargetMain, StartTargetMainAnswered, Succeeds

\* The main agent of the target, and the old one at the end of a rollback.
LEMMA ResumeCalm ==
    ASSUME Afoot, NEW k \in Resumes, ResumeMain(k) \/ ResumeMainAnswered(k), ~Relaunching
    PROVE  Calm /\ Mild
<1>1. run.at = k /\ k \in Kind /\ Mild
  BY KindFacts, AnsweredHere, StillMild, ReadsMild
     DEF Afoot, ResumeMain, ResumeMainAnswered, At, Issue
<1>2. k \in {"restart_target_main_agent", "start_previous_main_agent"}
  BY DEF Resumes
<1>3. Plain(k)
  BY <1>1, <1>2 DEF Plain, Relaunching, Beginning, Undoing
<1>4. CASE Issue(k)
  <2>1. row' = row /\ run'.at = k
    BY <1>1, <1>4 DEF Issue, Afoot, Premise, Typed, RunType
  <2> QED
    BY <1>1, <1>3, <2>1, LeadsCalm
<1>5. CASE Goes(NextResume(k))
  <2>1. NextResume(k) \in {"restore_target_check", "start_previous_dispatcher"}
    BY <1>1, <1>2 DEF NextResume, Relaunching
  <2>2. NextResume(k) \in Places /\ Plain(NextResume(k))
    BY <2>1, MainPlaces DEF Plain, Beginning, Undoing
  <2> QED
    BY <1>1, <1>5, <2>2, GoesCalm
<1>6. CASE Review("other") \/ Defer
  BY <1>1, <1>6, ReviewCalm, DeferCalm
<1> QED
  BY <1>4, <1>5, <1>6 DEF ResumeMain, ResumeMainAnswered, Succeeds

LEMMA QuiesceCalm ==
    ASSUME Afoot, Quiesce
    PROVE  Calm /\ Mild
BY StillMild, ReviewCalm, RecoverCalm DEF Quiesce

LEMMA ObserveCalm ==
    ASSUME Afoot, NEW s, NEW stop, NEW drain, NEW next, NEW scopes,
           {drain, next} \subseteq {"observe_dispatcher", "drain_slack", "drain_dispatcher", "stop_main_agent"},
           Observe(s, stop, drain, next, scopes)
    PROVE  Calm /\ Mild
<1>1. Mild
  BY StillMild, ReadsMild DEF Observe
<1>2. ASSUME NEW to \in {drain, next}
      PROVE  to \in Places /\ Plain(to)
  BY DEF Places, Kind, MainStops, Plain, Beginning, Undoing
<1>3. CASE Goes(drain) \/ Goes(next)
  BY <1>1, <1>2, <1>3, GoesCalm
<1>4. CASE Throw \/ Defer \/ \E scope : Recover(scope)
  BY <1>1, <1>4, ThrowCalm, DeferCalm, RecoverCalm
<1> QED
  BY <1>3, <1>4 DEF Observe

LEMMA ObservesCalm ==
    ASSUME Afoot, ObserveSlack \/ ObserveDispatcher
    PROVE  Calm /\ Mild
BY ObserveCalm DEF ObserveSlack, ObserveDispatcher

LEMMA DrainsCalm ==
    ASSUME Afoot, DrainSlack \/ DrainDispatcher \/ DrainTargetSlack \/ DrainTargetDispatcher
    PROVE  Calm /\ Mild
<1>1. Mild
  BY DEF DrainSlack, DrainDispatcher, DrainTargetSlack, DrainTargetDispatcher, Drain, Still,
         pointerVars, Mild
<1>2. CASE DrainSlack \/ DrainDispatcher
  <2>1. ASSUME NEW to \in {"slack_drained", "dispatcher_drained"}
        PROVE  to \in Places /\ Plain(to)
    BY DEF Places, Plain, Beginning, Undoing
  <2> QED
    BY <1>1, <1>2, <2>1, GoesCalm DEF DrainSlack, DrainDispatcher, Drain
<1>3. CASE DrainTargetSlack \/ DrainTargetDispatcher
  <2>1. row.state = "rolling_back"
    BY <1>3 DEF DrainTargetSlack, DrainTargetDispatcher, Drain, At, Afoot, UndoInv, Undoing
  <2>2. ASSUME NEW to \in {"target_slack_drained", "target_dispatcher_drained"}
        PROVE  to \in Places /\ Plain(to)
    BY <2>1 DEF Places, Plain, Beginning
  <2> QED
    BY <1>1, <1>3, <2>2, GoesCalm DEF DrainTargetSlack, DrainTargetDispatcher, Drain
<1> QED
  BY <1>2, <1>3

LEMMA AwaitDrainCalm ==
    ASSUME Afoot, AwaitSlackDrain \/ AwaitDispatcherDrain
    PROVE  Calm /\ Mild
<1>1. Mild
  BY StillMild DEF AwaitSlackDrain, AwaitDispatcherDrain, AwaitDrain
<1>2. ASSUME NEW to \in {"observe_dispatcher", "stop_main_agent"}
      PROVE  to \in Places /\ Plain(to)
  BY DEF Places, Kind, MainStops, Plain, Beginning, Undoing
<1> QED
  BY <1>1, <1>2, GoesCalm, RecoverCalm DEF AwaitSlackDrain, AwaitDispatcherDrain, AwaitDrain

LEMMA WorkerAfterStopCalm ==
    ASSUME Afoot, WorkerAfterStop
    PROVE  Calm /\ Mild
<1>1. Mild
  BY StillMild DEF WorkerAfterStop
<1>2. CASE Goes("migrate")
  <2>1. "migrate" \in Places /\ Plain("migrate")
    BY DEF Places, Plain, Beginning, Undoing
  <2> QED
    BY <1>1, <1>2, <2>1, GoesCalm
<1>3. CASE ~plan.migrates /\ Enters("activating", "activate")
  BY <1>1, <1>3, EntersCalm
<1>4. CASE Recover(Service)
  BY <1>1, <1>4, RecoverCalm
<1> QED
  BY <1>2, <1>3, <1>4 DEF WorkerAfterStop

\* A plan that migrates is activating only after its migration.
LEMMA MigrateCalm ==
    ASSUME Afoot, Migrate \/ MigrateAnswered
    PROVE  Calm /\ Mild
<1>1. Mild
  BY StillMild DEF Migrate, MigrateAnswered
<1>2. CASE Migrate /\ run' = [run EXCEPT !.cmd = "migrate_schema"] /\ UNCHANGED row
  <2>1. run'.at = "migrate"
    BY <1>2 DEF Migrate, At, Afoot, Premise, Typed, RunType
  <2>2. Plain("migrate")
    BY DEF Plain, Beginning, Undoing
  <2> QED
    BY <1>1, <1>2, <2>1, <2>2, LeadsCalm
<1>3. CASE Done("migrate_schema") /\ Enters("activating", "activate")
  <2>1. schema' = "new"
    BY <1>3 DEF Done
  <2> QED
    BY <1>1, <1>3, <2>1, EntersCalm
<1>4. CASE Recover(Service) \/ Review("other")
  BY <1>1, <1>4, RecoverCalm, ReviewCalm
<1> QED
  BY <1>2, <1>3, <1>4 DEF Migrate, MigrateAnswered

LEMMA LooksCalm ==
    ASSUME Afoot, Activate \/ RollbackWorker
    PROVE  Calm /\ Mild
<1>1. Mild
  BY StillMild DEF Activate, RollbackWorker
<1>2. CASE (\E scope : Recover(scope)) \/ (\E scope : RestoreTarget(scope, "other"))
  BY <1>1, <1>2, RecoverCalm, RestoreTargetCalm
<1>3. CASE Goes("switch_previous")
  <2>1. "switch_previous" \in Places /\ Plain("switch_previous")
    BY DEF Places, Plain, Beginning, Undoing
  <2> QED
    BY <1>1, <1>3, <2>1, GoesCalm
<1>4. CASE RollbackWorker /\ Goes("switch_back")
  <2>1. "switch_back" \in Places /\ Plain("switch_back")
    BY <1>4 DEF RollbackWorker, At, Afoot, UndoInv, Undoing, Places, Plain, Beginning
  <2> QED
    BY <1>1, <1>4, <2>1, GoesCalm
<1> QED
  BY <1>2, <1>3, <1>4 DEF Activate, RollbackWorker

LEMMA RestartingCalm ==
    ASSUME Afoot, NEW generation, Restarting(generation)
    PROVE  Calm
<1>1. row'.state = "restarting" /\ run'.at = "count_restart"
  BY DEF Restarting, Afoot, Premise, Typed, RowType, RunType
<1> QED
  BY <1>1 DEF Calm, Restoring, Relaunching, Beginning, Undoing

LEMMA EvidenceCalm ==
    ASSUME Afoot, ActivationEvidence
    PROVE  Calm /\ Mild
<1>1. Mild
  BY StillMild DEF ActivationEvidence
<1>2. "activate" \in Places /\ Plain("activate")
  BY DEF Places, Plain, Beginning, Undoing
<1> QED
  BY <1>1, <1>2, GoesCalm, RecoverCalm, RestartingCalm, DeferCalm DEF ActivationEvidence

LEMMA ActivatedCalm ==
    ASSUME Afoot, Activated \/ CountRestart
    PROVE  Calm /\ Mild
<1>1. Mild
  BY ReadsMild DEF Activated, CountRestart
<1>2. CASE Activated
  BY <1>1, <1>2, RestartingCalm DEF Activated
<1>3. CASE CountRestart
  <2>1. row'.state = row.state
    BY <1>3 DEF CountRestart, Afoot, Premise, Typed, RowType
  <2>2. run'.at = "start_target_main_agent"
    BY <1>3 DEF CountRestart, Afoot, Premise, Typed, RunType
  <2> QED
    BY <1>1, <2>1, <2>2 DEF Afoot, Calm, Restoring, Relaunching, Beginning, Undoing
<1> QED
  BY <1>2, <1>3

\* Forward only for an activating plan.
LEMMA WritesCalm ==
    ASSUME Afoot, SwitchActivates,
           SwitchPrevious \/ SwitchCurrent \/ WriteReceipt
             \/ SwitchBack \/ SwitchPreviousBack \/ WriteRollbackReceipt
    PROVE  Calm /\ Mild
<1>1. Mild
  BY DEF SwitchPrevious, SwitchCurrent, WriteReceipt, SwitchBack, SwitchPreviousBack,
         WriteRollbackReceipt, At, SwitchActivates, Writes, Unmoved, worldVars, Mild
<1>2. CASE SwitchPrevious \/ SwitchCurrent \/ WriteReceipt
  <2>1. ASSUME NEW to \in {"switch_current", "write_receipt", "activated"}
        PROVE  to \in Places /\ Plain(to)
    BY DEF Places, Plain, Beginning, Undoing
  <2> QED
    BY <1>1, <1>2, <2>1, GoesCalm DEF SwitchPrevious, SwitchCurrent, WriteReceipt
<1>3. CASE SwitchBack \/ SwitchPreviousBack \/ WriteRollbackReceipt
  <2>1. row.state = "rolling_back"
    BY <1>3 DEF SwitchBack, SwitchPreviousBack, WriteRollbackReceipt, At, Afoot, UndoInv, Undoing
  <2>2. ASSUME NEW to \in {"switch_previous_back", "write_rollback_receipt", "switched_back"}
        PROVE  to \in Places /\ Plain(to)
    BY <2>1 DEF Places, Plain, Beginning
  <2> QED
    BY <1>1, <1>3, <2>2, GoesCalm DEF SwitchBack, SwitchPreviousBack, WriteRollbackReceipt
<1> QED
  BY <1>2, <1>3

\* Back at the launch of the previous release.
LEMMA BackCalm ==
    ASSUME Afoot, row.state = "rolling_back",
           row' = [row EXCEPT !.generation = receipt.generation],
           run' = [run EXCEPT !.at = "start_previous_main_agent"]
    PROVE  Calm
<1>1. row'.state = "rolling_back" /\ run'.at = "start_previous_main_agent"
  BY DEF Afoot, Premise, Typed, RowType, RunType
<1> QED
  BY <1>1 DEF Calm, Restoring, Relaunching, Beginning

LEMMA RollbackPlain ==
    ASSUME row.state = "rolling_back",
           NEW to \in {"rollback", "rollback_worker", "rollback_observe", "drain_target_slack",
                       "drain_target_dispatcher", "stop_target_slack", "stop_target_main_agent"}
    PROVE  to \in Places /\ Plain(to)
BY DEF Places, Kind, Stops, MainStops, Plain, Beginning

LEMMA RollbacksCalm ==
    ASSUME Afoot, ResumeRollback \/ SwitchedBack \/ TargetWorkerAfterStop \/ OperatorLooks
    PROVE  Calm /\ Mild
<1>1. Mild
  BY StillMild, ReadsMild DEF ResumeRollback, SwitchedBack, TargetWorkerAfterStop, OperatorLooks
<1>2. row.state = "rolling_back"
  BY DEF ResumeRollback, SwitchedBack, TargetWorkerAfterStop, OperatorLooks, At, Afoot, UndoInv, Undoing
<1>3. CASE ResumeRollback
  BY <1>1, <1>2, <1>3, BackCalm, RollbackPlain, GoesCalm, RestoreTargetCalm, DeferCalm
     DEF ResumeRollback
<1>4. CASE SwitchedBack
  BY <1>1, <1>2, <1>4, BackCalm DEF SwitchedBack
<1>5. CASE TargetWorkerAfterStop
  BY <1>1, <1>2, <1>5, RollbackPlain, GoesCalm, RestoreTargetCalm DEF TargetWorkerAfterStop
<1>6. CASE OperatorLooks
  BY <1>1, <1>2, <1>6, RollbackPlain, GoesCalm, ReviewCalm DEF OperatorLooks
<1> QED
  BY <1>3, <1>4, <1>5, <1>6

LEMMA RollbackObserveCalm ==
    ASSUME Afoot, RollbackObserve
    PROVE  Calm /\ Mild
<1> DEFINE To(seen) == IF "slack" \in seen THEN "drain_target_slack" ELSE TargetDrain(seen)
<1>0. run.at = "rollback_observe" /\ Still /\ Unmoved
  BY Zenon DEF RollbackObserve, At
<1>1. Mild
  BY <1>0, StillMild
<1>2. row.state = "rolling_back"
  BY <1>0 DEF Afoot, UndoInv, Undoing
<1>3. CASE \E scope : RestoreTarget(scope, "other")
  BY <1>1, <1>3, RestoreTargetCalm
<1>4. ASSUME NEW seen, UNCHANGED row, run' = [run EXCEPT !.seen = seen, !.at = To(seen)]
      PROVE  Calm
  <2> DEFINE to == To(seen)
  <2>1. to \in {"drain_target_slack", "drain_target_dispatcher", "stop_target_slack"}
    BY DEF TargetDrain
  <2>2. run'.at = to
    BY <1>4 DEF Afoot, Premise, Typed, RunType
  <2> HIDE DEF to
  <2> QED
    BY <1>2, <1>4, <2>1, <2>2, RollbackPlain, LeadsCalm
<1> QED
  BY <1>1, <1>3, <1>4, Zenon DEF RollbackObserve

LEMMA AwaitTargetDrainCalm ==
    ASSUME Afoot, AwaitTargetSlackDrain \/ AwaitTargetDispatcherDrain
    PROVE  Calm /\ Mild
<1>1. Mild
  BY StillMild DEF AwaitTargetSlackDrain, AwaitTargetDispatcherDrain, AwaitTargetDrain
<1>2. row.state = "rolling_back"
  BY DEF AwaitTargetSlackDrain, AwaitTargetDispatcherDrain, AwaitTargetDrain, At, Afoot, UndoInv, Undoing
<1>3. TargetDrain(run.seen) \in {"drain_target_dispatcher", "stop_target_slack"}
  BY DEF TargetDrain
<1> QED
  BY <1>1, <1>2, <1>3, RollbackPlain, GoesCalm, RestoreTargetCalm, ThrowCalm
     DEF AwaitTargetSlackDrain, AwaitTargetDispatcherDrain, AwaitTargetDrain

(***************************************************************************)
(* The decisions                                                           *)
(***************************************************************************)

\* What is true of a plan decided so.
Reports(state) ==
    /\ state = "failed" => Runtime("old", {"old", "back"})
    /\ state = "rolled_back" => Runtime("old", {"old", "back"}) /\ previous = "new"
    /\ state = "succeeded" =>
          Runtime("new", {"new"}) /\ previous = "old" /\ ~plan.misbuilt
            /\ (plan.migrates => schema = "new")

LEMMA HealthyOld ==
    ASSUME svc \in SvcType, NEW s \in Service, Healthy(s, "old")
    PROVE  Restored(s)
<1>1. svc[s] \in {"old", "new", "off"}
  BY DEF SvcType
<1>2. svc[s] # "off" /\ Sha(svc[s]) = "old" /\ s \notin draining /\ Readable(svc[s])
  BY DEF Healthy, Health
<1> QED
  BY <1>1, <1>2 DEF Sha, Restored

LEMMA HealthyNew ==
    ASSUME svc \in SvcType, NEW s \in Service, Healthy(s, "new")
    PROVE  svc[s] = "new" /\ s \notin draining /\ ~plan.misbuilt
<1>1. svc[s] \in {"old", "new", "off"}
  BY DEF SvcType
<1>2. svc[s] # "off" /\ Sha(svc[s]) = "new" /\ s \notin draining
  BY DEF Healthy, Health
<1> QED
  BY <1>1, <1>2 DEF Sha

LEMMA OldAgent ==
    ASSUME AgentReady("old")
    PROVE  main \in {"old", "back"}
<1>1. Runs(main) = "old"
  BY DEF AgentReady, Agent
<1> QED
  BY <1>1 DEF Runs

LEMMA OldRuntime ==
    ASSUME current = "old", \A s \in Service : Restored(s), AgentReady("old")
    PROVE  Runtime("old", {"old", "back"})
BY OldAgent DEF Runtime, Restored

\* What the updater looks at before each of its decisions.
LEMMA TargetReports ==
    ASSUME Typed, SchemaInv, TargetVerified
    PROVE  Reports("succeeded")
<1>1. svc \in SvcType
  BY DEF Typed, WorldType
<1>2. /\ \A s \in Service : svc[s] = "new" /\ s \notin draining
      /\ ~plan.misbuilt
  BY <1>1, HealthyNew DEF TargetVerified
<1>3. current = "new" /\ previous = "old" /\ main = "new"
  BY DEF TargetVerified
<1> QED
  BY <1>2, <1>3 DEF Reports, Runtime, Readable, SchemaInv

LEMMA PreviousReports ==
    ASSUME Typed, PreviousVerified
    PROVE  Reports("rolled_back")
<1>1. \A s \in Service : Restored(s)
  BY HealthyOld DEF Typed, WorldType, PreviousVerified
<1> QED
  BY <1>1, OldRuntime DEF PreviousVerified, Reports

LEMMA RestoreReports ==
    ASSUME Typed, RestoreInv, run.at = "restore_check", ~run.broken,
           \A s \in Untouched : Healthy(s, "old"), AgentReady("old")
    PROVE  Reports("failed")
<1>1. current = "old" /\ \A s \in recovery.scope : Restored(s)
  BY DEF RestoreInv, Restoring
<1>2. \A s \in Service : Restored(s)
  BY <1>1, HealthyOld DEF Typed, WorldType, Untouched
<1> QED
  BY <1>1, <1>2, OldRuntime DEF Reports

LEMMA FreshReports ==
    ASSUME FreshInv, row.state \in Untried
    PROVE  Reports("failed")
BY DEF FreshInv, Runtime, Reports

LEMMA ConcludeKeeps ==
    ASSUME Typed, Sound, NEW state \in Final, Decides(state, "none"), Reads, Reports(state)
    PROVE  Sound'
<1>1. row'.state = state /\ run'.at = "idle"
  BY RestAway DEF Decides, Typed, RowType
<1>2. /\ plan' = plan /\ current' = current /\ previous' = previous
      /\ svc' = svc /\ draining' = draining /\ main' = main /\ schema' = schema
  BY DEF Reads, Still, Unmoved, pointerVars, worldVars
<1>3. FreshInv' /\ RestInv' /\ UndoInv'
  BY <1>1 DEF FreshInv, RestInv, UndoInv, Untried, Beginning, Undoing
<1>4. SchemaInv' /\ RestoreInv'
  BY <1>1, <1>2 DEF Sound, SchemaInv, RestoreInv, Restoring, Relaunching
<1>5. DecisionTrue'
  BY <1>1, <1>2 DEF Reports, DecisionTrue, Runtime, Readable
<1> QED
  BY <1>3, <1>4, <1>5 DEF Sound

\* A plan that nothing has touched yet stays so.
LEMMA UntriedKeeps ==
    ASSUME Sound, Reads, row.state \in Untried, row'.state \in Untried,
           run'.at \in Beginning \cup {"idle"}
    PROVE  Sound'
<1>1. /\ plan' = plan /\ current' = current /\ previous' = previous
      /\ svc' = svc /\ draining' = draining /\ main' = main /\ schema' = schema
  BY DEF Reads, Still, Unmoved, pointerVars, worldVars
<1>2. FreshInv'
  BY <1>1 DEF Sound, FreshInv, Runtime, Readable
<1>3. current = "old"
  BY DEF Sound, FreshInv, Runtime
<1>4. RestInv' /\ UndoInv' /\ SchemaInv' /\ DecisionTrue'
  BY <1>1, <1>3 DEF RestInv, UndoInv, SchemaInv, DecisionTrue, Untried, Undoing, Beginning
<1>5. RestoreInv'
  BY DEF RestoreInv, Restoring, Relaunching, Beginning
<1> QED
  BY <1>2, <1>4, <1>5 DEF Sound

LEMMA BeginningKeeps ==
    ASSUME IInv, Sound, Stage \/ Barrier
    PROVE  Sound'
<1>1. /\ Typed /\ Reads /\ Mild /\ run.at \in Beginning /\ row.state \in Untried
      /\ SchemaInv /\ Reports("failed")
  BY ReadsMild, FreshReports DEF IInv, Sound, FreshInv, Stage, Barrier, At, Beginning
<1>2. CASE Enters("staged", "barrier")
  <2>1. row'.state = "staged" /\ run'.at = "barrier"
    BY <1>1, <1>2, EntersOn DEF Places
  <2> QED
    BY <1>1, <2>1, UntriedKeeps DEF Untried, Beginning
<1>3. CASE Enters("quiescing", "quiesce")
  <2>1. row'.state = "quiescing" /\ run'.at = "quiesce"
    BY <1>1, <1>3, EntersOn DEF Places
  <2>2. Calm
    BY <2>1 DEF Calm, Restoring, Relaunching, Beginning, Undoing
  <2> QED
    BY <1>1, <2>2, CalmKeeps
<1>4. CASE Decides("failed", "none")
  BY <1>1, <1>4, ConcludeKeeps
<1>5. CASE run' = Rest /\ UNCHANGED row
  BY <1>1, <1>5, UntriedKeeps, RestAway
<1>6. CASE Review("other")
  <2>1. row'.state = "needs_review" /\ run'.at = "idle"
    BY <1>1, <1>6, RestAway DEF Review, Decides, Typed, RowType
  <2>2. Calm
    BY <2>1 DEF Calm, Restoring, Relaunching, Beginning, Undoing
  <2> QED
    BY <1>1, <2>2, CalmKeeps
<1> QED
  BY <1>2, <1>3, <1>4, <1>5, <1>6 DEF Stage, Barrier, Throw

LEMMA VerifiesKeep ==
    ASSUME IInv, Sound, Verify \/ VerifyRollback \/ EvidenceReconcile
    PROVE  Sound'
<1>1. Typed /\ Reads /\ Mild /\ SchemaInv
  BY ReadsMild DEF IInv, Sound, Verify, VerifyRollback, EvidenceReconcile
<1>2. CASE TargetVerified /\ Decides("succeeded", "none")
  BY <1>1, <1>2, TargetReports, ConcludeKeeps
<1>3. CASE PreviousVerified /\ Decides("rolled_back", "none")
  BY <1>1, <1>3, PreviousReports, ConcludeKeeps
<1>4. CASE (Verify \/ VerifyRollback) /\ (RollBack(FALSE) \/ Defer)
  <2>1. Afoot
    BY <1>4, AfootThere DEF Verify, VerifyRollback, At, Beginning
  <2> QED
    BY <1>1, <1>4, <2>1, RollBackCalm, DeferCalm, CalmKeeps
<1> QED
  BY <1>2, <1>3, <1>4 DEF Verify, VerifyRollback, EvidenceReconcile

(***************************************************************************)
(* The restore of the old runtime                                          *)
(***************************************************************************)

LEMMA RestoringKeeps ==
    ASSUME Afoot, Sound, row' = row, plan' = plan, current' = current,
           schema' = schema, run'.at \notin Beginning \cup Undoing, RestoreInv'
    PROVE  Sound'
<1>1. FreshInv' /\ RestInv' /\ UndoInv' /\ DecisionTrue'
  BY DEF Afoot, FreshInv, RestInv, UndoInv, DecisionTrue, Untried
<1>2. SchemaInv'
  BY DEF Sound, SchemaInv
<1> QED
  BY <1>1, <1>2 DEF Sound

LEMMA RestoredStays ==
    ASSUME NEW s, Restored(s), svc'[s] = svc[s], draining' \subseteq draining,
           schema' = schema, plan' = plan
    PROVE  Restored(s)'
BY DEF Restored, Readable

LEMMA RestoringPlaces ==
    {"restart_current_dispatcher", "restart_current_slack", "restore_check",
     "start_previous_main_agent", "restore"}
        \subseteq Places \ (Beginning \cup Undoing \cup {"idle"})
BY DEF Places, Kind, Restarts, Resumes, Beginning, Undoing

\* The fields of the runner after a step to another place.
LEMMA GoesKeeps ==
    ASSUME Typed, NEW to \in Places, Goes(to)
    PROVE  run'.at = to /\ run'.broken = run.broken /\ row' = row
BY DEF Goes, Typed, RunType

LEMMA IssueKeeps ==
    ASSUME Typed, NEW k \in Kind, Issue(k)
    PROVE  run'.at = k /\ run'.broken = run.broken /\ row' = row /\ recovery' = recovery
BY DEF Issue, Typed, RunType

LEMMA RestoreKeeps ==
    ASSUME IInv, Sound, Restore
    PROVE  Sound'
<1>1. Afoot /\ Typed /\ Reads /\ Mild /\ SchemaInv /\ recovery.scope \in SUBSET Service
  BY AfootThere, ReadsMild DEF IInv, Sound, Restore, At, Beginning, Typed, RecoveryType
<1>2. CASE Review("other")
  BY <1>1, <1>2, ReviewCalm, CalmKeeps
<1> DEFINE to == FirstOf("restart_current_dispatcher", "restart_current_slack",
                         "stop_main_agent", "start_previous_main_agent", "restore_check")
<1>3. CASE current = "old" /\ Goes(to)
  <2>1. /\ to \in {"restart_current_dispatcher", "restart_current_slack", "restore_check",
                   "start_previous_main_agent"}
        /\ to = "restart_current_slack" => "dispatcher" \notin recovery.scope
        /\ to \in {"restore_check", "start_previous_main_agent"} => recovery.scope = {}
    BY <1>1 DEF FirstOf
  <2> HIDE DEF to
  <2>2. to \in Places /\ to \notin Beginning \cup Undoing
    BY <2>1, RestoringPlaces
  <2>3. run'.at = to /\ row' = row
    BY <1>1, <1>3, <2>2, GoesKeeps
  <2>4. /\ recovery' = recovery /\ current' = current /\ plan' = plan /\ schema' = schema
    BY <1>1 DEF Reads, Still, Unmoved, pointerVars, worldVars
  <2>5. RestoreInv'
    BY <1>3, <2>1, <2>3, <2>4 DEF RestoreInv, Relaunching
  <2> QED
    BY <1>1, <2>2, <2>3, <2>4, <2>5, RestoringKeeps
<1> QED
  BY <1>2, <1>3 DEF Restore

LEMMA RestoreCheckKeeps ==
    ASSUME IInv, Sound, RestoreCheck
    PROVE  Sound'
<1>1. Afoot /\ Typed /\ Reads /\ Mild /\ SchemaInv /\ RestoreInv /\ run.at = "restore_check"
  BY AfootThere, ReadsMild DEF IInv, Sound, RestoreCheck, At, Beginning
<1>2. CASE Review("other")
  BY <1>1, <1>2, ReviewCalm, CalmKeeps
<1>3. CASE /\ ~run.broken /\ \A s \in Untouched : Healthy(s, "old")
           /\ AgentReady("old") /\ Decides("failed", "none")
  BY <1>1, <1>3, RestoreReports, ConcludeKeeps
<1> QED
  BY <1>2, <1>3 DEF RestoreCheck

\* Where the runner waits for a command, nothing but the command's service moves.
LEMMA WaitingKeeps ==
    ASSUME Afoot, Sound, run.at \in Places \ (Beginning \cup Undoing), Still,
           run'.at = run.at, run'.broken = run.broken, row' = row, recovery' = recovery,
           schema' = schema, draining' \subseteq draining,
           run.at = "restart_current_slack" => svc'["dispatcher"] = svc["dispatcher"],
           run.at # "restart_current_slack" =>
              svc' = svc \/ run.at = "restart_current_dispatcher"
    PROVE  Sound'
<1>1. plan' = plan /\ current' = current
  BY DEF Still, pointerVars
<1>2. (Restoring' => Restoring) /\ (Relaunching' => Relaunching)
  BY DEF Restoring, Relaunching
<1>3. CASE run.at = "restart_current_slack"
  <2>1. Restored("dispatcher") => Restored("dispatcher")'
    BY <1>1, <1>3, RestoredStays
  <2> QED
    BY <1>1, <1>2, <1>3, <2>1, RestoringKeeps DEF Sound, RestoreInv, Relaunching
<1>4. CASE run.at = "restart_current_dispatcher"
  BY <1>1, <1>2, <1>4, RestoringKeeps DEF Sound, RestoreInv, Relaunching
<1>5. CASE svc' = svc /\ run.at # "restart_current_slack"
  <2>1. \A s \in recovery.scope : Restored(s) => Restored(s)'
    BY <1>1, <1>5, RestoredStays
  <2> QED
    BY <1>1, <1>2, <1>5, <2>1, RestoringKeeps DEF Sound, RestoreInv
<1> QED
  BY <1>3, <1>4, <1>5

LEMMA CurrentKinds ==
    ASSUME NEW k \in {"restart_current_dispatcher", "restart_current_slack"}
    PROVE  /\ k \in Kind /\ k \in Restarts /\ k \notin Stops \cup MainStops \cup Resumes
           /\ k \in Places \ (Beginning \cup Undoing \cup {"idle"})
           /\ k = "restart_current_slack" => ServiceOf(k) = "slack"
           /\ k = "restart_current_dispatcher" => ServiceOf(k) = "dispatcher"
           /\ ReleaseOf(k) = "old" /\ k # "migrate_schema"
BY DEF Kind, Restarts, Stops, MainStops, Resumes, Places, Beginning, Undoing, ServiceOf, ReleaseOf

\* A service found healthy is restored, whatever comes after it.
LEMMA NextRestartKeeps ==
    ASSUME IInv, Sound, Afoot, NEW k \in {"restart_current_dispatcher", "restart_current_slack"},
           run.at = k, Still, Unmoved, recovery' = recovery, row' = row,
           run'.at = NextRestart(k),
           run'.broken \/ (run'.broken = run.broken /\ Healthy(ServiceOf(k), "old"))
    PROVE  Sound'
<1>1. /\ plan' = plan /\ current' = current /\ schema' = schema /\ svc' = svc /\ draining' = draining
      /\ current = "old" /\ recovery.scope \in SUBSET Service /\ svc \in SvcType
  BY DEF Still, Unmoved, pointerVars, worldVars, Sound, RestoreInv, Restoring, IInv, Typed,
         RecoveryType, WorldType
<1>2. \A s \in Service : Restored(s) => Restored(s)'
  BY <1>1, RestoredStays
<1>3. /\ NextRestart(k) \in {"restart_current_slack", "start_previous_main_agent", "restore_check"}
      /\ NextRestart(k) = "restart_current_slack" => k = "restart_current_dispatcher"
      /\ k = "restart_current_dispatcher" /\ NextRestart(k) # "restart_current_slack" =>
            "slack" \notin recovery.scope
  BY DEF NextRestart, ServiceOf
<1>4. ServiceOf(k) \in Service
  BY DEF ServiceOf
<1>5. CASE run'.broken
  BY <1>1, <1>3, <1>5, RestoringPlaces, RestoringKeeps DEF RestoreInv
<1>6. CASE ~run'.broken
  <2>1. ~run.broken /\ Restored(ServiceOf(k))
    BY <1>1, <1>4, <1>6, HealthyOld
  <2>2. CASE k = "restart_current_dispatcher"
    <3>1. Restored("dispatcher")'
      BY <1>2, <2>1, <2>2 DEF ServiceOf
    <3>2. ASSUME run'.at # "restart_current_slack", NEW s \in recovery.scope
          PROVE  Restored(s)'
      <4>1. s = "dispatcher"
        BY <1>1, <1>3, <2>2, <3>2
      <4> QED
        BY <3>1, <4>1
    <3> QED
      BY <1>1, <1>3, <3>1, <3>2, RestoringPlaces, RestoringKeeps DEF RestoreInv, Relaunching
  <2>3. CASE k = "restart_current_slack"
    <3>1. Restored("slack") /\ ("dispatcher" \in recovery.scope => Restored("dispatcher"))
      BY <2>1, <2>3 DEF ServiceOf, Sound, RestoreInv
    <3>2. \A s \in recovery.scope : Restored(s)'
      BY <1>1, <1>2, <3>1
    <3> QED
      BY <1>1, <1>3, <2>3, <3>2, RestoringPlaces, RestoringKeeps DEF RestoreInv
  <2> QED
    BY <2>2, <2>3
<1> QED
  BY <1>5, <1>6

LEMMA BreaksKeeps ==
    ASSUME Typed, NEW k, Breaks(k)
    PROVE  run'.at = NextRestart(k) /\ run'.broken /\ row' = row
BY DEF Breaks, Typed, RunType

LEMMA CurrentRestartsKeep ==
    ASSUME IInv, Sound, NEW k \in {"restart_current_dispatcher", "restart_current_slack"},
           RestartService(k) \/ RestartAnswered(k)
    PROVE  Sound'
<1>1. /\ k \in Kind /\ k \in Places \ (Beginning \cup Undoing \cup {"idle"})
      /\ ReleaseOf(k) = "old"
  BY CurrentKinds
<1>2. run.at = k
  BY <1>1, IInvPremise, AnsweredHere DEF RestartService, RestartAnswered, At
<1>3. Afoot /\ Typed
  BY <1>1, <1>2, AfootThere DEF IInv
<1>4. Still
  BY DEF RestartService, RestartAnswered, Issue, Reads
<1>5. CASE RestartService(k)
  <2>1. Unmoved /\ recovery' = recovery
    BY <1>5 DEF RestartService, Issue, Reads, SameEvidence
  <2>2. CASE Issue(k)
    <3>1. /\ run'.at = run.at /\ run'.broken = run.broken /\ row' = row
      BY <1>1, <1>2, <1>3, <2>2, IssueKeeps
    <3>2. schema' = schema /\ draining' = draining /\ svc' = svc
      BY <2>1 DEF Unmoved, worldVars
    <3> QED
      BY <1>1, <1>2, <1>3, <1>4, <2>1, <3>1, <3>2, WaitingKeeps
  <2>3. CASE Healthy(ServiceOf(k), ReleaseOf(k)) /\ Goes(NextRestart(k))
    <3>1. NextRestart(k) \in Places
      BY RestorePlaces
    <3>2. run'.at = NextRestart(k) /\ run'.broken = run.broken /\ row' = row
      BY <1>3, <2>3, <3>1, GoesKeeps
    <3> QED
      BY <1>1, <1>2, <1>3, <1>4, <2>1, <2>3, <3>2, NextRestartKeeps
  <2>4. CASE Breaks(k)
    BY <1>2, <1>3, <1>4, <2>1, <2>4, BreaksKeeps, NextRestartKeeps
  <2> QED
    BY <1>5, <2>2, <2>3, <2>4 DEF RestartService, Succeeds
<1>6. CASE RestartAnswered(k)
  <2>1. recovery' = recovery /\ DoneOrNot(k)
    BY <1>6 DEF RestartAnswered, SameEvidence, DoneOrNot
  <2>2. CASE Goes(k)
    <3>1. /\ run'.at = run.at /\ run'.broken = run.broken /\ row' = row
      BY <1>1, <1>2, <1>3, <2>2, GoesKeeps
    <3>2. /\ schema' = schema /\ draining' \subseteq draining
          /\ k = "restart_current_slack" => svc'["dispatcher"] = svc["dispatcher"]
      <4>1. CASE Unmoved
        BY <4>1 DEF Unmoved, worldVars
      <4>2. CASE Done(k)
        <5>1. /\ schema' = schema /\ draining' = draining \ {ServiceOf(k)}
              /\ svc' = [svc EXCEPT ![ServiceOf(k)] = current]
          BY <4>2, CurrentKinds DEF Done
        <5> QED
          BY <5>1, CurrentKinds DEF IInv, Typed, WorldType, SvcType
      <4> QED
        BY <2>1, <4>1, <4>2 DEF DoneOrNot
    <3>3. k # "restart_current_slack" => k = "restart_current_dispatcher"
      OBVIOUS
    <3> QED
      BY <1>1, <1>2, <1>3, <1>4, <2>1, <3>1, <3>2, <3>3, WaitingKeeps
  <2>3. CASE Unmoved /\ Breaks(k)
    BY <1>2, <1>3, <1>4, <2>1, <2>3, BreaksKeeps, NextRestartKeeps
  <2> QED
    BY <1>6, <2>2, <2>3 DEF RestartAnswered
<1> QED
  BY <1>5, <1>6

LEMMA RestartsKeep ==
    ASSUME IInv, Sound, NEW k \in Restarts, RestartService(k) \/ RestartAnswered(k)
    PROVE  Sound'
<1>1. CASE k \in {"restart_current_dispatcher", "restart_current_slack"}
  BY <1>1, CurrentRestartsKeep
<1>2. CASE k \in {"restart_target_dispatcher", "restart_target_slack"}
  <2>1. k \in Kind /\ k \notin Beginning \cup {"idle"}
    BY <1>2 DEF Kind, Restarts, Beginning
  <2>2. run.at = k
    BY <2>1, IInvPremise, AnsweredHere DEF RestartService, RestartAnswered, At
  <2>3. Afoot
    BY <2>1, <2>2, AfootThere
  <2> QED
    BY <1>2, <2>3, TargetRestartsCalm, CalmKeeps DEF Sound
<1> QED
  BY <1>1, <1>2 DEF Restarts

LEMMA ResumesKeep ==
    ASSUME IInv, Sound, NEW k \in Resumes, ResumeMain(k) \/ ResumeMainAnswered(k)
    PROVE  Sound'
<1>1. k \in Kind /\ k \notin Beginning \cup {"idle"}
  BY DEF Kind, Resumes, Beginning
<1>2. run.at = k
  BY <1>1, IInvPremise, AnsweredHere DEF ResumeMain, ResumeMainAnswered, At
<1>3. Afoot /\ Typed
  BY <1>1, <1>2, AfootThere DEF IInv
<1>4. CASE ~Relaunching
  BY <1>3, <1>4, ResumeCalm, CalmKeeps DEF Sound
<1>5. CASE Relaunching
  <2>1. /\ k = "start_previous_main_agent"
        /\ k \in Places \ (Beginning \cup Undoing \cup {"idle"})
        /\ NextResume(k) = "restore_check"
    BY <1>2, <1>5, RestoringPlaces DEF Relaunching, NextResume
  <2>2. Still /\ Mild
    BY StillMild, ReadsMild DEF ResumeMain, ResumeMainAnswered, Issue, Reads
  <2>3. CASE Review("other") \/ Defer
    BY <1>3, <2>2, <2>3, ReviewCalm, DeferCalm, CalmKeeps DEF Sound
  <2>4. /\ recovery' = recovery \/ Review("other") \/ Defer
        /\ schema' = schema /\ draining' = draining /\ svc' = svc
    <3>1. CASE ResumeMain(k)
      BY <3>1 DEF ResumeMain, Issue, Reads, SameEvidence, Unmoved, worldVars
    <3>2. CASE ResumeMainAnswered(k)
      <4>1. recovery' = recovery /\ DoneOrNot(k)
        BY <3>2 DEF ResumeMainAnswered, SameEvidence, DoneOrNot
      <4>2. k \notin Stops \cup Starts \cup Restarts /\ k # "migrate_schema"
        BY <2>1 DEF Stops, Starts, Restarts
      <4> QED
        BY <4>1, <4>2 DEF DoneOrNot, Done, Unmoved, worldVars
    <3> QED
      BY <3>1, <3>2
  <2>5. CASE Issue(k) /\ recovery' = recovery
    <3>1. /\ run'.at = run.at /\ run'.broken = run.broken /\ row' = row
      BY <1>1, <1>2, <1>3, <2>5, IssueKeeps
    <3> QED
      BY <1>2, <1>3, <2>1, <2>2, <2>4, <2>5, <3>1, WaitingKeeps
  <2>6. CASE Goes(NextResume(k)) /\ recovery' = recovery
    <3>1. /\ run'.at = "restore_check" /\ run'.broken = run.broken /\ row' = row
      BY <1>3, <2>1, <2>6, RestoringPlaces, GoesKeeps
    <3>2. plan' = plan /\ current' = current
      BY <2>2 DEF Still, pointerVars
    <3>3. \A s : Restored(s) => Restored(s)'
      BY <2>4, <3>2, RestoredStays
    <3>4. RestoreInv'
      BY <1>5, <2>4, <2>6, <3>1, <3>2, <3>3 DEF Sound, RestoreInv, Restoring
    <3> QED
      BY <1>3, <2>4, <3>1, <3>2, <3>4, RestoringPlaces, RestoringKeeps
  <2> QED
    BY <2>3, <2>4, <2>5, <2>6 DEF ResumeMain, ResumeMainAnswered, Succeeds
<1> QED
  BY <1>4, <1>5

(***************************************************************************)
(* Claims, and the world                                                   *)
(***************************************************************************)

LEMMA ClaimsSound ==
    ASSUME IInv, Sound, ClaimAttempt \/ Reconcile
    PROVE  Sound'
<1>1. Reads /\ row' = row /\ Typed /\ Mild /\ SchemaInv
  BY ReadsMild DEF ClaimAttempt, Reconcile, Claim, IInv, Sound
<1>2. CASE ClaimAttempt
  <2>1. run'.at \in Beginning /\ row.state \in Untried
    BY <1>1, <1>2 DEF ClaimAttempt, Claim, Typed, RunType, Beginning, Untried
  <2> QED
    BY <1>1, <2>1, UntriedKeeps
<1>3. CASE Reconcile
  <2>1. /\ run'.at \in {"quiesce", "activation_evidence", "count_restart", "verify", "rollback"}
        /\ run'.at = "rollback" => row.state = "rolling_back"
        /\ row.state \in Mutating
    BY <1>1, <1>3 DEF Reconcile, Claim, Typed, RunType
  <2>2. Calm
    BY <1>1, <2>1 DEF Calm, Restoring, Relaunching, Beginning, Undoing
  <2> QED
    BY <1>1, <2>2, CalmKeeps
<1> QED
  BY <1>2, <1>3

LEMMA OperatorSound ==
    ASSUME IInv, Sound, OperatorRollback
    PROVE  Sound'
<1>1. row'.state = "rolling_back" /\ run'.at = "operator_rollback"
  BY DEF OperatorRollback, IInv, Typed, RowType, Rest
<1>2. Calm
  BY <1>1 DEF Calm, Restoring, Relaunching, Beginning
<1>3. Mild
  BY DEF OperatorRollback, Unmoved, worldVars, pointerVars, Mild
<1> QED
  BY <1>2, <1>3, CalmKeeps DEF Sound

\* launchd starts what is current.
LEMMA LaunchdSound ==
    ASSUME IInv, Sound, \E s \in Service : KeepAlive(s) \/ Register(s)
    PROVE  Sound'
<1>1. PICK s \in Service : KeepAlive(s) \/ Register(s)
  OBVIOUS
<1>2. /\ plan' = plan /\ run' = run /\ row' = row /\ recovery' = recovery /\ main' = main
      /\ current' = current /\ previous' = previous /\ schema' = schema
      /\ svc' = [svc EXCEPT ![s] = current] /\ draining' \subseteq draining
  BY <1>1 DEF KeepAlive, Register, rowVars, pointerVars
<1>3. ASSUME NEW x \in Service
      PROVE  svc'[x] \in {svc[x], current}
  BY <1>2 DEF IInv, Typed, WorldType, SvcType
<1>4. ASSUME NEW release, NEW sessions, Runtime(release, sessions)
      PROVE  Runtime(release, sessions)'
  BY <1>2, <1>3, <1>4 DEF Runtime, Readable
<1>5. ASSUME NEW x \in Service, current = "old", Restored(x)
      PROVE  Restored(x)'
  BY <1>2, <1>3, <1>5 DEF Restored, Readable
<1>6. FreshInv'
  <2>1. Runtime("old", {"old"}) => Runtime("old", {"old"})'
    BY <1>4
  <2> QED
    BY <1>2, <2>1 DEF Sound, FreshInv
<1>7. DecisionTrue'
  <2>1. /\ Runtime("old", {"old", "back"}) => Runtime("old", {"old", "back"})'
        /\ Runtime("new", {"new"}) => Runtime("new", {"new"})'
    BY <1>4
  <2> QED
    BY <1>2, <2>1 DEF Sound, DecisionTrue
<1>8. RestoreInv'
  BY <1>2, <1>5 DEF Sound, RestoreInv, Restoring, Relaunching, IInv, Typed, RecoveryType
<1> QED
  BY <1>2, <1>6, <1>7, <1>8 DEF Sound, RestInv, UndoInv, SchemaInv

\* Workers, and time.
LEMMA OthersSound ==
    ASSUME IInv, Sound, WorkerStarts \/ WorkerEnds \/ Expire \/ UNCHANGED vars
    PROVE  Sound'
<1>1. /\ plan' = plan /\ run' = run /\ recovery' = recovery /\ main' = main
      /\ current' = current /\ previous' = previous /\ schema' = schema
      /\ svc' = svc /\ draining' = draining
  BY DEF WorkerStarts, WorkerEnds, Elsewhere, Expire, vars, rowVars, pointerVars, worldVars
<1>2. row'.state = row.state
  BY DEF WorkerStarts, WorkerEnds, Elsewhere, Expire, vars, rowVars, IInv, Typed, RowType
<1>3. FreshInv' /\ DecisionTrue'
  BY <1>1, <1>2 DEF Sound, FreshInv, DecisionTrue, Runtime, Readable
<1>4. RestoreInv'
  BY <1>1, <1>2 DEF Sound, RestoreInv, Restoring, Relaunching, Restored, Readable
<1> QED
  BY <1>1, <1>2, <1>3, <1>4 DEF Sound, RestInv, UndoInv, SchemaInv

\* The runner that ends leaves an untried plan as it was, and any other under way.
LEMMA InterruptedSound ==
    ASSUME IInv, Sound, Interrupted
    PROVE  Sound'
<1>1. /\ plan' = plan /\ row' = row /\ run' = Rest /\ recovery' = recovery
      /\ current' = current /\ previous' = previous
      /\ IF run.cmd = "none" THEN Unmoved ELSE DoneOrNot(run.cmd)
      /\ run.at # "idle"
  BY DEF Interrupted, Idle, rowVars, pointerVars
<1>2. CASE run.at \in Beginning
  <2>1. run.cmd = "none"
    BY <1>2 DEF IInv, CommandHere, Beginning, Typed, RunType, Kind, Stops, Starts, Restarts,
                MainStops, Resumes
  <2>2. svc' = svc /\ draining' = draining /\ main' = main /\ schema' = schema
    BY <1>1, <2>1 DEF Unmoved, worldVars
  <2>3. row.state \in Untried /\ current = "old" /\ run'.at = "idle"
    BY <1>1, <1>2, RestAway DEF Sound, FreshInv, Runtime
  <2>4. FreshInv' /\ SchemaInv'
    BY <1>1, <2>2, <2>3 DEF Sound, FreshInv, SchemaInv, Runtime, Readable, Untried, Beginning
  <2>5. RestInv' /\ UndoInv' /\ RestoreInv' /\ DecisionTrue'
    BY <1>1, <2>3 DEF RestInv, UndoInv, RestoreInv, Restoring, Relaunching, DecisionTrue,
                      Untried, Undoing
  <2> QED
    BY <2>4, <2>5 DEF Sound
<1>3. CASE run.at \notin Beginning
  <2>1. Afoot
    BY <1>1, <1>3, AfootThere
  <2>2. Calm
    BY <1>1, <2>1, RestsCalm
  <2>3. Mild
    BY <1>1 DEF DoneOrNot, Done, Unmoved, worldVars, Mild
  <2> QED
    BY <2>2, <2>3, CalmKeeps DEF Sound
<1> QED
  BY <1>2, <1>3

\* The actions of ShapedStep that only lead the runner on.
LEMMA CalmStepsKeep ==
    ASSUME IInv, Sound,
           \/ OperatorLooks \/ Quiesce \/ ObserveSlack \/ ObserveDispatcher
           \/ DrainSlack \/ AwaitSlackDrain \/ DrainDispatcher \/ AwaitDispatcherDrain
           \/ StopMainAgent \/ StopMainAnswered
           \/ \E k \in Stops : StopService(k) \/ StopAnswered(k)
           \/ WorkerAfterStop \/ Migrate \/ MigrateAnswered \/ Activated
           \/ CountRestart \/ StartTargetMain \/ StartTargetMainAnswered
           \/ \E k \in Starts : StartService(k) \/ StartAnswered(k)
           \/ ResumeRollback \/ RollbackObserve
           \/ DrainTargetSlack \/ AwaitTargetSlackDrain
           \/ DrainTargetDispatcher \/ AwaitTargetDispatcherDrain
           \/ TargetWorkerAfterStop \/ StopTargetMain \/ StopTargetMainAnswered
           \/ SwitchedBack \/ RestoreTargetServices \/ RestoreTargetCheck
           \/ ActivationEvidence \/ Activate \/ RollbackWorker
           \/ SwitchPrevious \/ SwitchCurrent \/ WriteReceipt
           \/ SwitchBack \/ SwitchPreviousBack \/ WriteRollbackReceipt
    PROVE  Sound'
<1>1. ASSUME Calm, Mild
      PROVE  Sound'
  BY <1>1, CalmKeeps DEF Sound
<1>2. ASSUME run.at \notin Beginning \cup {"idle"}
      PROVE  Afoot
  BY <1>2, AfootThere
<1>3. ASSUME NEW k \in Kind, Answered(k) \/ At(k)
      PROVE  Afoot
  <2>1. run.at = k
    BY <1>3, IInvPremise, AnsweredHere DEF At
  <2> QED
    BY <1>2, <2>1 DEF Kind, Stops, Starts, Restarts, MainStops, Resumes, Beginning
<1>4. CASE \E k \in Stops : StopService(k) \/ StopAnswered(k)
  BY <1>1, <1>3, <1>4, KindFacts, StopServiceCalm, StopAnsweredCalm DEF StopService, StopAnswered
<1>5. CASE \E k \in Starts : StartService(k) \/ StartAnswered(k)
  BY <1>1, <1>3, <1>5, KindFacts, StartsCalm DEF StartService, StartAnswered
<1>6. CASE StopMainAgent \/ StopMainAnswered \/ StopTargetMain \/ StopTargetMainAnswered
  BY <1>1, <1>3, <1>6, MainPlaces, StopMainCalm, StopTargetMainCalm
     DEF StopMainAgent, StopMainAnswered, StopTargetMain, StopTargetMainAnswered
<1>7. CASE StartTargetMain \/ StartTargetMainAnswered
  BY <1>1, <1>3, <1>7, KindFacts, StartTargetMainCalm DEF StartTargetMain, StartTargetMainAnswered
<1>8. CASE Quiesce \/ ObserveSlack \/ ObserveDispatcher
  BY <1>1, <1>2, <1>8, QuiesceCalm, ObservesCalm DEF Quiesce, ObserveSlack, ObserveDispatcher, At, Beginning
<1>9. CASE DrainSlack \/ DrainDispatcher \/ DrainTargetSlack \/ DrainTargetDispatcher
  BY <1>1, <1>2, <1>9, DrainsCalm
     DEF DrainSlack, DrainDispatcher, DrainTargetSlack, DrainTargetDispatcher, Drain, At, Beginning
<1>10. CASE AwaitSlackDrain \/ AwaitDispatcherDrain
  BY <1>1, <1>2, <1>10, AwaitDrainCalm
     DEF AwaitSlackDrain, AwaitDispatcherDrain, AwaitDrain, At, Beginning
<1>11. CASE AwaitTargetSlackDrain \/ AwaitTargetDispatcherDrain
  BY <1>1, <1>2, <1>11, AwaitTargetDrainCalm
     DEF AwaitTargetSlackDrain, AwaitTargetDispatcherDrain, AwaitTargetDrain, At, Beginning
<1>12. CASE WorkerAfterStop \/ Migrate
  BY <1>1, <1>2, <1>12, WorkerAfterStopCalm, MigrateCalm DEF WorkerAfterStop, Migrate, At, Beginning
<1>13. CASE MigrateAnswered
  <2>1. run.at = "migrate"
    BY <1>13 DEF MigrateAnswered, Answered, IInv, CommandHere, Typed, RunType, Places, Kind, Stops,
                 Starts, Restarts, MainStops, Resumes
  <2> QED
    BY <1>1, <1>2, <1>13, <2>1, MigrateCalm DEF Beginning
<1>14. CASE Activated \/ CountRestart \/ ActivationEvidence
  BY <1>1, <1>2, <1>14, ActivatedCalm, EvidenceCalm
     DEF Activated, CountRestart, ActivationEvidence, At, Beginning
<1>15. CASE ResumeRollback \/ SwitchedBack \/ TargetWorkerAfterStop \/ OperatorLooks
  BY <1>1, <1>2, <1>15, RollbacksCalm
     DEF ResumeRollback, SwitchedBack, TargetWorkerAfterStop, OperatorLooks, At, Beginning
<1>16. CASE RollbackObserve
  <2>1. run.at = "rollback_observe"
    BY <1>16, Zenon DEF RollbackObserve, At
  <2> QED
    BY <1>1, <1>2, <1>16, <2>1, RollbackObserveCalm DEF Beginning
<1>17. CASE RestoreTargetServices \/ RestoreTargetCheck
  BY <1>1, <1>2, <1>17, TargetRestoresCalm DEF RestoreTargetServices, RestoreTargetCheck, At, Beginning
<1>18. CASE Activate \/ RollbackWorker
  BY <1>1, <1>2, <1>18, LooksCalm DEF Activate, RollbackWorker, At, Beginning
<1>19. CASE \/ SwitchPrevious \/ SwitchCurrent \/ WriteReceipt
            \/ SwitchBack \/ SwitchPreviousBack \/ WriteRollbackReceipt
  <2>1. Afoot
    BY <1>2, <1>19 DEF SwitchPrevious, SwitchCurrent, WriteReceipt, SwitchBack, SwitchPreviousBack,
                       WriteRollbackReceipt, At, Beginning
  <2> QED
    BY <1>1, <1>19, <2>1, WritesCalm DEF IInv
<1> QED
  BY <1>4, <1>5, <1>6, <1>7, <1>8, <1>9, <1>10, <1>11, <1>12, <1>13, <1>14, <1>15, <1>16, <1>17,
     <1>18, <1>19

LEMMA InitSound == Init => Sound
<1> SUFFICES ASSUME Init PROVE Sound
  OBVIOUS
<1>1. run.at = "idle" /\ row.state = "preparing" /\ current = "old"
  BY RestAway DEF Init
<1>2. FreshInv
  BY <1>1 DEF Init, FreshInv, Runtime, Readable, Untried, Beginning
<1>3. RestInv /\ UndoInv /\ SchemaInv /\ RestoreInv /\ DecisionTrue
  BY <1>1 DEF RestInv, UndoInv, SchemaInv, RestoreInv, Restoring, Relaunching, DecisionTrue, Undoing
<1> QED
  BY <1>2, <1>3 DEF Sound

LEMMA NextSound ==
    ASSUME IInv, Sound, [Next]_vars
    PROVE  Sound'
<1>1. CASE Stage \/ Barrier
  BY <1>1, BeginningKeeps
<1>2. CASE Verify \/ VerifyRollback \/ EvidenceReconcile
  BY <1>2, VerifiesKeep
<1>3. CASE Restore \/ RestoreCheck
  BY <1>3, RestoreKeeps, RestoreCheckKeeps
<1>4. CASE \E k \in Restarts : RestartService(k) \/ RestartAnswered(k)
  BY <1>4, RestartsKeep
<1>5. CASE \E k \in Resumes : ResumeMain(k) \/ ResumeMainAnswered(k)
  BY <1>5, ResumesKeep
<1>6. CASE ClaimAttempt \/ Reconcile
  BY <1>6, ClaimsSound
<1>7. CASE \E s \in Service : KeepAlive(s) \/ Register(s)
  BY <1>7, LaunchdSound
<1>8. CASE WorkerStarts \/ WorkerEnds \/ Expire \/ UNCHANGED vars
  BY <1>8, OthersSound
<1>9. CASE Interrupted
  BY <1>9, InterruptedSound
<1>10. CASE OperatorRollback
  BY <1>10, OperatorSound
<1> QED
  BY <1>1, <1>2, <1>3, <1>4, <1>5, <1>6, <1>7, <1>8, <1>9, <1>10, CalmStepsKeep, Steps DEF ShapedStep

LEMMA AlwaysSound == Spec => []Sound
<1>1. IInv /\ Sound /\ [Next]_vars => Sound'
  BY NextSound
<1> QED
  BY <1>1, InitSound, AlwaysIInv, PTL DEF Spec

\* What completeInternal writes is true of the runtime from then on: the release
\* a decided plan names is current, its services run and serve, its main agent is
\* up, and the schema is one it reads, through lost answers, drains that stuck,
\* restarts by launchd and runners that ended half way.
THEOREM DecisionTrueAlways == Spec => []DecisionTrue
<1>1. Sound => DecisionTrue
  BY DEF Sound
<1> QED
  BY <1>1, AlwaysSound, PTL

-----------------------------------------------------------------------------
(***************************************************************************)
(* The bounds of the counters                                              *)
(*                                                                         *)
(* The generation is 0 until the receipt of the activation is read back,   *)
(* and at most 1 while a rollback has not written its own.  A launch is    *)
(* counted again only when a runner ended between the count and the        *)
(* command.                                                                *)
(***************************************************************************)

GenerationInv ==
    /\ row.generation <= 2 /\ receipt.generation <= 2
    /\ row.state \in Unproven => row.generation = 0
    /\ receipt.to = "new" => receipt.generation <= 1
    /\ run.at \in Back => row.generation <= 1

AttemptsInv ==
    \/ row.attempts <= used.crashes
    \/ /\ row.attempts = used.crashes + 1
       /\ Launched \/ run.at = "start_target_main_agent"

UsedInv ==
    /\ used.crashes <= CrashLimit
    /\ used.restarts + used.registered + used.rollbacks <= EventLimit

\* The columns and the parts of the runtime that IInv does not speak of.
RestTyped ==
    /\ plan \in Plans /\ op \in [Kind -> Phase] /\ held \in Session
    /\ previous \in Release \cup {"older"}
    /\ draining \in SUBSET Service /\ main \in Session /\ worker \in BOOLEAN /\ schema \in Release

Bounded == RestTyped /\ GenerationInv /\ AttemptsInv /\ UsedInv

(***************************************************************************)
(* The columns a step writes                                               *)
(***************************************************************************)

\* One phase of one operation, and none is forgotten.
Recorded == op' = op \/ \E k \in Kind, phase \in Phase \ {"none"} : Records(k, phase)

\* A command, or a request to drain, is all the runner does to the runtime.
Acted ==
    \/ \E k \in Kind \cup {"migrate_schema"} : DoneOrNot(k)
    \/ /\ UNCHANGED <<main, worker, schema>>
       /\ \E s \in Service : draining' \in {draining, draining \cup {s}}

Ordinary == plan' = plan /\ Recorded /\ held' \in {held, main, "none"} /\ Acted

LEMMA RecordsRecorded ==
    ASSUME NEW k \in Kind, NEW phase \in {"prepared", "accepted", "observed", "rejected", "unknown"},
           Records(k, phase)
    PROVE  Recorded
BY DEF Recorded, Phase

LEMMA UnmovedActs ==
    ASSUME Unmoved
    PROVE  Acted
<1>1. DoneOrNot("migrate_schema")
  BY DEF DoneOrNot
<1> QED
  BY <1>1 DEF Acted

LEMMA DoneActs ==
    ASSUME NEW k \in Kind \cup {"migrate_schema"}, Done(k) \/ DoneOrNot(k)
    PROVE  Acted
BY DEF Acted, DoneOrNot

LEMMA ReadsOrdinary ==
    ASSUME Reads
    PROVE  Ordinary
BY UnmovedActs DEF Reads, Still, Recorded, Ordinary

LEMMA IssueOrdinary ==
    ASSUME NEW k \in Kind, Issue(k), held' \in {held, main}
    PROVE  Ordinary
BY RecordsRecorded, UnmovedActs DEF Issue, Still, Ordinary

LEMMA SucceedsOrdinary ==
    ASSUME NEW k \in Kind, NEW to, Succeeds(k, to), held' \in {held, "none"}, Still, Unmoved
    PROVE  Ordinary
BY RecordsRecorded, UnmovedActs DEF Succeeds, Still, Ordinary

\* A step that looks, and persists no operation.
LEMMA LooksOrdinary ==
    ASSUME UNCHANGED op, UNCHANGED held, Still, Unmoved
    PROVE  Ordinary
BY UnmovedActs DEF Recorded, Still, Ordinary

LEMMA StopsOrdinary ==
    ASSUME NEW k \in Stops, StopService(k) \/ StopAnswered(k)
    PROVE  Ordinary
<1>1. k \in Kind
  BY KindFacts
<1>2. CASE StopService(k)
  BY <1>1, <1>2, ReadsOrdinary, IssueOrdinary, SucceedsOrdinary, LooksOrdinary
     DEF StopService, StopUnverified, SameEvidence
<1>3. CASE StopAnswered(k)
  <2>1. Acted /\ plan' = plan /\ held' = held
    BY <1>1, <1>3, DoneActs, UnmovedActs DEF StopAnswered, SameEvidence, Still
  <2>2. Recorded
    BY <1>1, <1>3, RecordsRecorded DEF StopAnswered, StopUnverified, Recorded
  <2> QED
    BY <2>1, <2>2 DEF Ordinary
<1> QED
  BY <1>2, <1>3

LEMMA StartsOrdinary ==
    ASSUME NEW k \in Starts, StartService(k) \/ StartAnswered(k)
    PROVE  Ordinary
<1>1. k \in Kind
  BY KindFacts
<1>2. CASE StartService(k)
  <2>1. \/ Reads
        \/ Records(k, "observed") /\ SameEvidence /\ Still /\ Unmoved
        \/ Issue(k) /\ UNCHANGED held
    BY <1>2 DEF StartService
  <2> QED
    BY <1>1, <2>1, ReadsOrdinary, IssueOrdinary, RecordsRecorded, UnmovedActs
       DEF SameEvidence, Still, Ordinary
<1>3. CASE StartAnswered(k)
  BY <1>1, <1>3, DoneActs, UnmovedActs, RecordsRecorded DEF StartAnswered, SameEvidence, Still, Ordinary
<1> QED
  BY <1>2, <1>3

LEMMA RestartsOrdinary ==
    ASSUME NEW k \in Restarts, RestartService(k) \/ RestartAnswered(k)
    PROVE  Ordinary
<1>1. k \in Kind
  BY KindFacts
<1>2. CASE RestartService(k)
  BY <1>1, <1>2, ReadsOrdinary, IssueOrdinary, SucceedsOrdinary DEF RestartService, SameEvidence
<1>3. CASE RestartAnswered(k)
  BY <1>1, <1>3, DoneActs, UnmovedActs, RecordsRecorded DEF RestartAnswered, SameEvidence, Still, Ordinary
<1> QED
  BY <1>2, <1>3

LEMMA ResumesOrdinary ==
    ASSUME NEW k \in Resumes, ResumeMain(k) \/ ResumeMainAnswered(k)
    PROVE  Ordinary
<1>1. k \in Kind
  BY KindFacts
<1>2. CASE ResumeMain(k)
  BY <1>1, <1>2, ReadsOrdinary, IssueOrdinary, SucceedsOrdinary DEF ResumeMain, SameEvidence
<1>3. CASE ResumeMainAnswered(k)
  BY <1>1, <1>3, DoneActs, UnmovedActs, RecordsRecorded
     DEF ResumeMainAnswered, Succeeds, SameEvidence, Still, Ordinary
<1> QED
  BY <1>2, <1>3

LEMMA MainsOrdinary ==
    ASSUME \/ StopMainAgent \/ StopMainAnswered
           \/ StopTargetMain \/ StopTargetMainAnswered
           \/ StartTargetMain \/ StartTargetMainAnswered
    PROVE  Ordinary
<1>1. {"stop_main_agent", "stop_target_main_agent", "start_target_main_agent"} \subseteq Kind
  BY MainPlaces, KindFacts
<1>2. CASE StopMainAgent
  BY <1>1, <1>2, ReadsOrdinary, IssueOrdinary, SucceedsOrdinary, LooksOrdinary
     DEF StopMainAgent, SameEvidence
<1>3. CASE StopTargetMain
  BY <1>1, <1>3, IssueOrdinary, SucceedsOrdinary, LooksOrdinary DEF StopTargetMain, SameEvidence
<1>4. CASE StartTargetMain
  BY <1>1, <1>4, ReadsOrdinary, IssueOrdinary, SucceedsOrdinary DEF StartTargetMain, SameEvidence
<1>5. CASE StopMainAnswered
  BY <1>1, <1>5, DoneActs, UnmovedActs, RecordsRecorded DEF StopMainAnswered, Succeeds, Still, Ordinary
<1>6. CASE StopTargetMainAnswered
  BY <1>1, <1>6, DoneActs, UnmovedActs, RecordsRecorded
     DEF StopTargetMainAnswered, Succeeds, Still, Ordinary
<1>7. CASE StartTargetMainAnswered
  BY <1>1, <1>7, DoneActs, UnmovedActs, RecordsRecorded
     DEF StartTargetMainAnswered, Succeeds, SameEvidence, Still, Ordinary
<1> QED
  BY <1>2, <1>3, <1>4, <1>5, <1>6, <1>7

LEMMA DrainsOrdinary ==
    ASSUME DrainSlack \/ DrainDispatcher \/ DrainTargetSlack \/ DrainTargetDispatcher
    PROVE  Ordinary
<1>1. PICK s \in Service : \E from, to : Drain(from, s, to)
  BY DEF DrainSlack, DrainDispatcher, DrainTargetSlack, DrainTargetDispatcher
<1>2. Acted
  BY <1>1 DEF Drain, Acted
<1> QED
  BY <1>1, <1>2 DEF Drain, Still, Recorded, Ordinary

LEMMA MigratesOrdinary ==
    ASSUME Migrate \/ MigrateAnswered
    PROVE  Ordinary
<1>1. CASE Migrate
  BY <1>1, LooksOrdinary DEF Migrate
<1>2. CASE MigrateAnswered
  BY <1>2, DoneActs, UnmovedActs DEF MigrateAnswered, Still, Recorded, Ordinary
<1> QED
  BY <1>1, <1>2

LEMMA ObservesOrdinary ==
    ASSUME ObserveSlack \/ ObserveDispatcher
    PROVE  Ordinary
<1>1. \E s, stop, drain, next, scopes : Observe(s, stop, drain, next, scopes)
  BY DEF ObserveSlack, ObserveDispatcher
<1> QED
  BY <1>1, ReadsOrdinary, LooksOrdinary DEF Observe

LEMMA OthersOrdinary ==
    ASSUME \/ EvidenceReconcile \/ OperatorLooks \/ Stage \/ Barrier
           \/ Quiesce \/ AwaitSlackDrain \/ AwaitDispatcherDrain
           \/ WorkerAfterStop \/ Activated \/ CountRestart \/ Verify
           \/ ResumeRollback \/ RollbackObserve
           \/ AwaitTargetSlackDrain \/ AwaitTargetDispatcherDrain
           \/ TargetWorkerAfterStop \/ SwitchedBack \/ VerifyRollback
           \/ Restore \/ RestoreCheck \/ RestoreTargetServices \/ RestoreTargetCheck
           \/ ClaimAttempt \/ Reconcile \/ ActivationEvidence \/ Activate \/ RollbackWorker
    PROVE  Ordinary
<1>1. CASE \/ EvidenceReconcile \/ OperatorLooks \/ Stage \/ Barrier \/ Activated \/ CountRestart
           \/ Verify \/ SwitchedBack \/ VerifyRollback
           \/ Restore \/ RestoreCheck \/ RestoreTargetServices \/ RestoreTargetCheck
           \/ ClaimAttempt \/ Reconcile
  BY <1>1, ReadsOrdinary
     DEF EvidenceReconcile, OperatorLooks, Stage, Barrier, Activated, CountRestart, Verify,
         SwitchedBack, VerifyRollback, Restore, RestoreCheck, RestoreTargetServices,
         RestoreTargetCheck, ClaimAttempt, Reconcile, Claim
<1>2. CASE \/ Quiesce \/ WorkerAfterStop \/ ResumeRollback \/ TargetWorkerAfterStop
           \/ AwaitSlackDrain \/ AwaitDispatcherDrain
           \/ AwaitTargetSlackDrain \/ AwaitTargetDispatcherDrain
           \/ ActivationEvidence \/ Activate \/ RollbackWorker
  BY <1>2, LooksOrdinary
     DEF Quiesce, WorkerAfterStop, ResumeRollback, TargetWorkerAfterStop, AwaitSlackDrain,
         AwaitDispatcherDrain, AwaitDrain, AwaitTargetSlackDrain, AwaitTargetDispatcherDrain,
         AwaitTargetDrain, ActivationEvidence, Activate, RollbackWorker
<1>3. CASE RollbackObserve
  <2>1. UNCHANGED op /\ UNCHANGED held /\ Still /\ Unmoved
    BY <1>3, Zenon DEF RollbackObserve
  <2> QED
    BY <2>1, LooksOrdinary
<1> QED
  BY <1>1, <1>2, <1>3

LEMMA WritesOrdinary ==
    ASSUME SwitchPrevious \/ SwitchCurrent \/ WriteReceipt
             \/ SwitchBack \/ SwitchPreviousBack \/ WriteRollbackReceipt
    PROVE  Ordinary
<1>1. Writes
  BY DEF SwitchPrevious, SwitchCurrent, WriteReceipt, SwitchBack, SwitchPreviousBack,
         WriteRollbackReceipt
<1> QED
  BY <1>1, UnmovedActs DEF Writes, Recorded, Ordinary

(***************************************************************************)
(* What a step does to the bounds                                          *)
(***************************************************************************)

LEMMA SessionsTyped ==
    /\ \A k \in Resumes \cup {"start_target_main_agent"} : LaunchedSession(k) \in Session
    /\ {"none", "old"} \subseteq Session
BY DEF Resumes, LaunchedSession, Session

LEMMA DoneSteady ==
    ASSUME RestTyped, NEW k \in Kind \cup {"migrate_schema"}, DoneOrNot(k)
    PROVE  draining' \in SUBSET Service /\ main' \in Session /\ worker' \in BOOLEAN /\ schema' \in Release
<1>1. CASE Done(k)
  <2>1. worker' = worker /\ draining' \in {draining, draining \ {ServiceOf(k)}} /\ schema' \in {schema, "new"}
    BY <1>1 DEF Done
  <2>2. main' \in Session
    BY <1>1, SessionsTyped DEF Done, RestTyped
  <2> QED
    BY <2>1, <2>2 DEF RestTyped
<1>2. CASE Unmoved
  BY <1>2 DEF Unmoved, worldVars, RestTyped
<1> QED
  BY <1>1, <1>2 DEF DoneOrNot

LEMMA OrdinaryTyped ==
    ASSUME RestTyped, Ordinary, previous' \in Release \cup {"older"}
    PROVE  RestTyped'
<1>1. op' \in [Kind -> Phase]
  BY DEF RestTyped, Ordinary, Recorded, Records
<1>2. held' \in Session
  BY SessionsTyped DEF RestTyped, Ordinary
<1>3. draining' \in SUBSET Service /\ main' \in Session /\ worker' \in BOOLEAN /\ schema' \in Release
  <2>1. CASE \E k \in Kind \cup {"migrate_schema"} : DoneOrNot(k)
    BY <2>1, DoneSteady
  <2>2. CASE /\ UNCHANGED <<main, worker, schema>>
             /\ \E s \in Service : draining' \in {draining, draining \cup {s}}
    BY <2>2 DEF RestTyped
  <2> QED
    BY <2>1, <2>2 DEF Ordinary, Acted
<1> QED
  BY <1>1, <1>2, <1>3 DEF RestTyped, Ordinary

\* A launch that is persisted stays so.
LEMMA LaunchLasts ==
    ASSUME RestTyped, Recorded, Launched
    PROVE  Launched'
<1>1. "start_target_main_agent" \in Kind
  BY KindFacts
<1>2. CASE op' = op
  BY <1>2 DEF Launched, Issued
<1>3. ASSUME NEW k \in Kind, NEW phase \in Phase \ {"none"}, Records(k, phase)
      PROVE  Launched'
  BY <1>1, <1>3 DEF RestTyped, Records, Launched, Issued
<1> QED
  BY <1>2, <1>3 DEF Recorded

LEMMA AttemptsStay ==
    ASSUME AttemptsInv, row'.attempts = row.attempts, used' = used, Launched => Launched',
           run.at = "start_target_main_agent" => run'.at = "start_target_main_agent" \/ Launched'
    PROVE  AttemptsInv'
BY DEF AttemptsInv

\* Of the steps of the runner, two start where the launch is awaited.
LEMMA LaunchHere ==
    ASSUME Premise, ShapedStep, run.at = "start_target_main_agent"
    PROVE  StartTargetMain \/ StartTargetMainAnswered
<1> DEFINE k0 == "start_target_main_agent"
<1>1. k0 \notin Stops \cup Starts \cup Restarts \cup Resumes \cup MainStops
  BY DEF Stops, Starts, Restarts, Resumes, MainStops
<1>2. ASSUME NEW k \in Kind, k # k0
      PROVE  ~At(k) /\ ~Answered(k)
  BY <1>2, AnsweredHere DEF At
<1>3. ~(\E k \in Stops : StopService(k) \/ StopAnswered(k))
  BY <1>1, <1>2, KindFacts DEF StopService, StopAnswered
<1>4. ~(\E k \in Starts : StartService(k) \/ StartAnswered(k))
  BY <1>1, <1>2, KindFacts DEF StartService, StartAnswered
<1>5. ~(\E k \in Restarts : RestartService(k) \/ RestartAnswered(k))
  BY <1>1, <1>2, KindFacts DEF RestartService, RestartAnswered
<1>6. ~(\E k \in Resumes : ResumeMain(k) \/ ResumeMainAnswered(k))
  BY <1>1, <1>2, KindFacts DEF ResumeMain, ResumeMainAnswered
<1>7. ~(StopMainAgent \/ StopMainAnswered \/ StopTargetMain \/ StopTargetMainAnswered)
  BY <1>2, MainPlaces DEF StopMainAgent, StopMainAnswered, StopTargetMain, StopTargetMainAnswered
<1>8. ~MigrateAnswered
  BY KindFacts DEF MigrateAnswered, Answered, Premise, CommandHere
<1>9. ~RollbackObserve
  BY Zenon DEF RollbackObserve, At
<1>10. ~(\/ DrainSlack \/ DrainDispatcher \/ DrainTargetSlack \/ DrainTargetDispatcher
         \/ AwaitSlackDrain \/ AwaitDispatcherDrain
         \/ AwaitTargetSlackDrain \/ AwaitTargetDispatcherDrain
         \/ Quiesce \/ ObserveSlack \/ ObserveDispatcher)
  BY DEF DrainSlack, DrainDispatcher, DrainTargetSlack, DrainTargetDispatcher, Drain,
         AwaitSlackDrain, AwaitDispatcherDrain, AwaitDrain,
         AwaitTargetSlackDrain, AwaitTargetDispatcherDrain, AwaitTargetDrain,
         Quiesce, ObserveSlack, ObserveDispatcher, At
<1>11. ~(EvidenceReconcile \/ OperatorLooks \/ Stage \/ Barrier \/ WorkerAfterStop \/ Migrate
         \/ Activated \/ CountRestart \/ Verify \/ ResumeRollback \/ TargetWorkerAfterStop
         \/ SwitchedBack \/ VerifyRollback
         \/ Restore \/ RestoreCheck \/ RestoreTargetServices \/ RestoreTargetCheck)
  BY DEF EvidenceReconcile, Idle, OperatorLooks, Stage, Barrier, WorkerAfterStop, Migrate,
         Activated, CountRestart, Verify, ResumeRollback, TargetWorkerAfterStop,
         SwitchedBack, VerifyRollback, Restore, RestoreCheck, RestoreTargetServices,
         RestoreTargetCheck, At
<1> QED
  BY <1>3, <1>4, <1>5, <1>6, <1>7, <1>8, <1>9, <1>10, <1>11 DEF ShapedStep

\* The runner leaves the launch only once it is persisted.
LEMMA LaunchFirst ==
    ASSUME Premise, RestTyped, ShapedStep, run.at = "start_target_main_agent"
    PROVE  Launched'
<1> DEFINE k == "start_target_main_agent"
<1>1. k \in Kind
  BY KindFacts
<1>2. ASSUME NEW phase \in Phase \ {"none"}, Records(k, phase)
      PROVE  Launched'
  BY <1>1, <1>2 DEF RestTyped, Records, Launched, Issued
<1>3. CASE StartTargetMain
  <2>1. CASE op[k] # "none" /\ Reads
    BY <2>1 DEF Reads, Launched, Issued
  <2>2. CASE Records(k, "prepared") \/ Records(k, "observed")
    BY <1>2, <2>2 DEF Phase
  <2> QED
    BY <1>3, <2>1, <2>2 DEF StartTargetMain, Issue, Succeeds, Persisted
<1>4. CASE StartTargetMainAnswered
  BY <1>2, <1>4 DEF StartTargetMainAnswered, Succeeds, Phase
<1> QED
  BY <1>3, <1>4, LaunchHere

LEMMA ShapedGeneration ==
    ASSUME IInv, UndoInv, GenerationInv, Shaped
    PROVE  GenerationInv'
<1>1. receipt' = receipt /\ row.generation \in Nat /\ receipt.generation \in Nat
  BY DEF Shaped, Quiet, pointerVars, IInv, Typed, RowType, WorldType
<1>2. CASE Away
  <2>1. CASE row'.generation = row.generation
    <3>1. run'.at \in Back => row'.generation <= 1
      BY <1>2, <2>1 DEF Away, Counted, Activation, Receipt, GenerationInv
    <3>2. row'.state \in Unproven => row.state \in Unproven
      BY <1>2 DEF Away
    <3> QED
      BY <1>1, <2>1, <3>1, <3>2 DEF GenerationInv
  <2>2. CASE /\ row'.generation = receipt.generation
             /\ row'.state \notin Unproven \/ run.at \in {"rollback", "switched_back"}
    <3>1. row'.state \notin Unproven
      BY <1>2, <2>2 DEF Away, UndoInv, Undoing
    <3>2. run'.at \in Back => row'.generation <= 1
      BY <1>2 DEF Away, Counted, Activation, Receipt, GenerationInv
    <3> QED
      BY <1>1, <2>2, <3>1, <3>2 DEF GenerationInv
  <2> QED
    BY <1>2, <2>1, <2>2 DEF Away, Counted
<1>3. CASE Stays
  BY <1>1, <1>3 DEF Stays, GenerationInv
<1>4. CASE Advances
  <2>1. row.state \in Unproven /\ row'.generation = row.generation /\ run'.at \notin Back
    BY <1>4 DEF Advances, IInv, SwitchActivates, Back
  <2> QED
    BY <1>1, <2>1 DEF GenerationInv
<1> QED
  BY <1>2, <1>3, <1>4 DEF Shaped

LEMMA ShapedOrdinary ==
    ASSUME ShapedStep
    PROVE  Ordinary
BY StopsOrdinary, StartsOrdinary, RestartsOrdinary, ResumesOrdinary, MainsOrdinary,
   DrainsOrdinary, MigratesOrdinary, ObservesOrdinary, OthersOrdinary DEF ShapedStep

LEMMA ShapedBounded ==
    ASSUME IInv, UndoInv, Bounded, ShapedStep
    PROVE  Bounded'
<1>1. Premise /\ Shaped /\ Ordinary
  BY IInvPremise, ShapedStepShaped, ShapedOrdinary
<1>2. used' = used /\ previous' = previous
  BY <1>1 DEF Shaped, Quiet, pointerVars
<1>3. RestTyped' /\ GenerationInv' /\ UsedInv'
  BY <1>1, <1>2, OrdinaryTyped, ShapedGeneration DEF Bounded, RestTyped, UsedInv
<1>4. Launched => Launched'
  BY <1>1, LaunchLasts DEF Bounded, Ordinary
<1>5. CASE row'.attempts = row.attempts
  <2>1. run.at = "start_target_main_agent" => Launched'
    BY <1>1, LaunchFirst DEF Bounded
  <2> QED
    BY <1>2, <1>3, <1>4, <1>5, <2>1, AttemptsStay DEF Bounded
<1>6. CASE /\ run.at = "count_restart" /\ ~Launched
           /\ row'.attempts = row.attempts + 1 /\ run'.at = "start_target_main_agent"
  <2>1. row.attempts <= used.crashes /\ row.attempts \in Nat /\ used.crashes \in Nat
    BY <1>6 DEF Bounded, AttemptsInv, IInv, Typed, RowType, WorldType
  <2>2. AttemptsInv'
    BY <1>2, <1>6, <2>1 DEF AttemptsInv
  <2> QED
    BY <1>3, <2>2 DEF Bounded
<1> QED
  BY <1>1, <1>5, <1>6 DEF Shaped, Away, Stays, Advances, Counted

\* The looks, the claims and the writes of the pointers count nothing.
LEMMA OrdinaryBounded ==
    ASSUME Bounded, Ordinary, GenerationInv', previous' \in Release \cup {"older"}, used' = used,
           row'.attempts = row.attempts, run.at # "start_target_main_agent"
    PROVE  Bounded'
<1>1. RestTyped' /\ (Launched => Launched')
  BY OrdinaryTyped, LaunchLasts DEF Bounded, Ordinary
<1>2. AttemptsInv' /\ UsedInv'
  BY <1>1, AttemptsStay DEF Bounded, UsedInv
<1> QED
  BY <1>1, <1>2 DEF Bounded

LEMMA ClaimsBounded ==
    ASSUME IInv, Bounded, ClaimAttempt \/ Reconcile
    PROVE  Bounded'
<1>1. /\ Idle /\ Reads /\ row' = row
      /\ run'.at \in {"prepare", "barrier", "quiesce", "activation_evidence", "count_restart",
                     "verify", "rollback"}
  BY DEF ClaimAttempt, Reconcile, Claim, IInv, Typed, RunType
<1>2. /\ Ordinary /\ used' = used /\ previous' = previous /\ receipt' = receipt
      /\ run'.at \notin Back /\ run.at # "start_target_main_agent"
  BY <1>1, OthersOrdinary DEF Reads, Still, pointerVars, Back, Idle
<1>3. GenerationInv'
  BY <1>1, <1>2 DEF Bounded, GenerationInv
<1> QED
  BY <1>1, <1>2, <1>3, OrdinaryBounded DEF Bounded, RestTyped

LEMMA EvidenceBounded ==
    ASSUME IInv, UndoInv, Bounded, ActivationEvidence
    PROVE  Bounded'
<1>1. /\ Premise /\ Typed /\ run.cmd = "none" /\ Still /\ Unmoved /\ Ordinary
      /\ used' = used /\ previous' = previous /\ receipt' = receipt
      /\ run.at = "activation_evidence"
  BY IInvPremise, OthersOrdinary
     DEF Premise, ActivationEvidence, At, Still, pointerVars
<1>2. CASE Goes("activate")
  <2>1. row' = row /\ run'.at = "activate" /\ "activate" \notin Back
    BY <1>1, <1>2, GoesOn DEF Places, Back
  <2>2. GenerationInv'
    BY <1>1, <2>1 DEF Bounded, GenerationInv
  <2> QED
    BY <1>1, <2>1, <2>2, OrdinaryBounded DEF Bounded, RestTyped
<1>3. ASSUME Away, recovery' \in RecoveryType
      PROVE  Bounded'
  <2>1. Shaped
    BY <1>1, <1>3, StillUnmovedQuiet DEF Shaped
  <2>2. row'.attempts = row.attempts
    BY <1>1, <1>3 DEF Away, Counted
  <2> QED
    BY <1>1, <2>1, <2>2, ShapedGeneration, OrdinaryBounded DEF Bounded, RestTyped
<1>4. CASE Recover(Service)
  BY <1>1, <1>3, <1>4, RecoverAway
<1>5. CASE (Restarting(receipt.generation) \/ Defer) /\ UNCHANGED recovery
  BY <1>1, <1>3, <1>5, RestartingAway, DeferAway DEF Typed
<1> QED
  BY <1>2, <1>4, <1>5 DEF ActivationEvidence

LEMMA LooksBounded ==
    ASSUME IInv, UndoInv, Bounded, Activate \/ RollbackWorker
    PROVE  Bounded'
<1>1. /\ Premise /\ Typed /\ Still /\ Unmoved /\ Ordinary
      /\ used' = used /\ previous' = previous /\ receipt' = receipt
      /\ run.at \in {"activate", "rollback_worker"} /\ recovery.scope \in SUBSET Service
  BY IInvPremise, OthersOrdinary
     DEF Premise, Activate, RollbackWorker, At, Still, pointerVars, Typed, RecoveryType
<1>2. ASSUME NEW to \in {"switch_previous", "switch_back"}, Goes(to),
             to = "switch_back" => run.at = "rollback_worker"
      PROVE  Bounded'
  <2>1. row' = row /\ run'.at = to
    BY <1>1, <1>2, GoesOn DEF Places
  <2>2. GenerationInv'
    BY <1>1, <1>2, <2>1 DEF Bounded, GenerationInv, Back
  <2> QED
    BY <1>1, <2>1, <2>2, OrdinaryBounded DEF Bounded, RestTyped
<1>3. CASE \E scope \in SUBSET Service : Recover(scope) \/ RestoreTarget(scope, "other")
  <2>1. Away /\ recovery' \in RecoveryType
    BY <1>1, <1>3, RecoverAway, RestoreTargetAway
  <2>2. Shaped /\ row'.attempts = row.attempts
    BY <1>1, <2>1, StillUnmovedQuiet DEF Shaped, Away, Counted
  <2> QED
    BY <1>1, <2>2, ShapedGeneration, OrdinaryBounded DEF Bounded, RestTyped
<1>4. CASE Activate
  BY <1>1, <1>2, <1>3, <1>4 DEF Activate
<1>5. CASE RollbackWorker
  BY <1>2, <1>3, <1>5, ScopesSmall DEF RollbackWorker, At
<1> QED
  BY <1>4, <1>5

\* The receipt of the activation is the first, that of the rollback the second.
LEMMA WritesBounded ==
    ASSUME IInv, Bounded,
           SwitchPrevious \/ SwitchCurrent \/ WriteReceipt
             \/ SwitchBack \/ SwitchPreviousBack \/ WriteRollbackReceipt
    PROVE  Bounded'
<1> DEFINE To == {"switch_current", "write_receipt", "activated", "switch_previous_back",
                  "write_rollback_receipt", "switched_back"}
<1>1. /\ Typed /\ Ordinary /\ used' = used /\ current \in Release
      /\ row.generation \in Nat /\ receipt.generation \in Nat
      /\ run.at \in {"switch_previous", "switch_current", "write_receipt", "switch_back",
                    "switch_previous_back", "write_rollback_receipt"}
  BY WritesOrdinary
     DEF IInv, Typed, RowType, WorldType, PointersPast, SwitchPrevious, SwitchCurrent, WriteReceipt,
         SwitchBack, SwitchPreviousBack, WriteRollbackReceipt, Writes, At
<1>2. ASSUME NEW to \in To, Goes(to)
      PROVE  row' = row /\ run'.at = to
  <2>1. To \subseteq Places
    BY DEF Places
  <2> QED
    BY <1>1, <1>2, <2>1, GoesOn
<1>3. row' = row
  BY <1>2 DEF SwitchPrevious, SwitchCurrent, WriteReceipt, SwitchBack, SwitchPreviousBack,
              WriteRollbackReceipt
<1>4. previous' \in Release \cup {"older"}
  BY <1>1 DEF Bounded, RestTyped, SwitchPrevious, SwitchCurrent, WriteReceipt, SwitchBack,
              SwitchPreviousBack, WriteRollbackReceipt
<1>5. GenerationInv'
  <2>1. CASE SwitchPrevious \/ SwitchCurrent
    <3>1. receipt' = receipt /\ run'.at \in {"switch_current", "write_receipt"}
      BY <1>2, <2>1 DEF SwitchPrevious, SwitchCurrent
    <3> QED
      BY <1>3, <3>1 DEF Bounded, GenerationInv, Back
  <2>2. CASE WriteReceipt
    <3>1. row.generation = 0
      BY <2>2 DEF WriteReceipt, At, IInv, SwitchActivates, Bounded, GenerationInv
    <3>2. receipt' = [to |-> "new", generation |-> 1] /\ run'.at = "activated"
      BY <1>2, <2>2, <3>1 DEF WriteReceipt
    <3> QED
      BY <1>3, <3>1, <3>2 DEF GenerationInv, Back
  <2>3. CASE SwitchBack \/ SwitchPreviousBack
    <3>1. receipt' = receipt /\ row.generation <= 1
      BY <2>3 DEF SwitchBack, SwitchPreviousBack, At, Bounded, GenerationInv, Back
    <3> QED
      BY <1>3, <3>1 DEF Bounded, GenerationInv
  <2>4. CASE WriteRollbackReceipt
    <3>1. row.generation <= 1
      BY <2>4 DEF WriteRollbackReceipt, At, Bounded, GenerationInv, Back
    <3>2. /\ receipt' = [to |-> "old", generation |-> row.generation + 1]
          /\ run'.at = "switched_back"
      BY <1>2, <2>4 DEF WriteRollbackReceipt
    <3> QED
      BY <1>1, <1>3, <3>1, <3>2 DEF Bounded, GenerationInv, Back
  <2> QED
    BY <2>1, <2>2, <2>3, <2>4
<1> QED
  BY <1>1, <1>3, <1>4, <1>5, OrdinaryBounded

\* The runner, its row and the pointers stay; the launch is as persisted as before.
LEMMA StillBounded ==
    ASSUME Bounded, RestTyped', UsedInv', used'.crashes = used.crashes, run' = run, op' = op,
           receipt' = receipt, row'.generation = row.generation, row'.attempts = row.attempts,
           row'.state = row.state
    PROVE  Bounded'
<1>1. GenerationInv'
  BY DEF Bounded, GenerationInv
<1>2. AttemptsInv'
  BY DEF Bounded, AttemptsInv, Launched, Issued
<1> QED
  BY <1>1, <1>2 DEF Bounded

LEMMA WorldBounded ==
    ASSUME IInv, Bounded,
           (\E s \in Service : KeepAlive(s) \/ Register(s)) \/ WorkerStarts \/ WorkerEnds
             \/ Expire \/ UNCHANGED vars
    PROVE  Bounded'
<1>1. CASE \E s \in Service : KeepAlive(s) \/ Register(s)
  <2>1. PICK s \in Service : KeepAlive(s) \/ Register(s)
    BY <1>1
  <2>2. used \in [crashes : Nat, restarts : Nat, registered : Nat, rollbacks : Nat]
    BY DEF IInv, Typed, WorldType
  <2>3. UsedInv' /\ used'.crashes = used.crashes
    BY <2>1, <2>2, BoundAssumption DEF KeepAlive, Register, MayHappen, Bounded, UsedInv
  <2>4. RestTyped'
    BY <2>1 DEF KeepAlive, Register, rowVars, pointerVars, Bounded, RestTyped
  <2> QED
    BY <2>1, <2>3, <2>4, StillBounded DEF KeepAlive, Register, rowVars, pointerVars
<1>2. CASE WorkerStarts \/ WorkerEnds \/ UNCHANGED vars
  <2>1. /\ run' = run /\ row' = row /\ op' = op /\ receipt' = receipt /\ used' = used
        /\ RestTyped'
    BY <1>2 DEF WorkerStarts, WorkerEnds, Elsewhere, vars, rowVars, pointerVars, worldVars,
                Bounded, RestTyped
  <2> QED
    BY <2>1, StillBounded DEF Bounded, UsedInv
<1>3. CASE Expire
  <2>1. /\ run' = run /\ op' = op /\ receipt' = receipt /\ used' = used /\ RestTyped'
    BY <1>3 DEF Expire, pointerVars, worldVars, Bounded, RestTyped
  <2>2. /\ row'.generation = row.generation /\ row'.attempts = row.attempts
        /\ row'.state = row.state
    BY <1>3 DEF Expire, IInv, Typed, RowType
  <2> QED
    BY <2>1, <2>2, StillBounded DEF Bounded, UsedInv
<1> QED
  BY <1>1, <1>2, <1>3

\* A runner that ends may have counted a launch it did not persist.
LEMMA InterruptedBounded ==
    ASSUME IInv, Bounded, Interrupted
    PROVE  Bounded'
<1>1. /\ row' = row /\ receipt' = receipt /\ previous' = previous /\ plan' = plan
      /\ op' = op /\ held' = held /\ run'.at = "idle" /\ run'.at \notin Back
      /\ used' = [used EXCEPT !.crashes = @ + 1] /\ used.crashes < CrashLimit
  BY RestAway DEF Interrupted, rowVars, pointerVars
<1>2. /\ used \in [crashes : Nat, restarts : Nat, registered : Nat, rollbacks : Nat]
      /\ row.attempts \in Nat /\ run.cmd \in Kind \cup {"none", "migrate_schema"}
  BY DEF IInv, Typed, RowType, RunType, WorldType
<1>3. GenerationInv'
  BY <1>1 DEF Bounded, GenerationInv
<1>4. AttemptsInv' /\ UsedInv'
  BY <1>1, <1>2, BoundAssumption DEF Bounded, AttemptsInv, UsedInv
<1>5. Ordinary
  BY <1>1, <1>2, DoneActs, UnmovedActs DEF Interrupted, Recorded, Ordinary
<1>6. RestTyped'
  BY <1>1, <1>5, OrdinaryTyped DEF Bounded, RestTyped
<1> QED
  BY <1>3, <1>4, <1>6 DEF Bounded

LEMMA OperatorBounded ==
    ASSUME IInv, Bounded, OperatorRollback
    PROVE  Bounded'
<1>1. /\ receipt' = receipt /\ op' = op /\ run.at = "idle" /\ RestTyped'
      /\ used' = [used EXCEPT !.rollbacks = @ + 1]
  BY DEF OperatorRollback, Idle, Unmoved, worldVars, pointerVars, Bounded, RestTyped
<1>2. /\ used \in [crashes : Nat, restarts : Nat, registered : Nat, rollbacks : Nat]
      /\ row.attempts \in Nat
  BY DEF IInv, Typed, RowType, WorldType
<1>3. /\ row'.state = "rolling_back" /\ row'.generation = row.generation
      /\ row'.attempts = row.attempts
  BY DEF OperatorRollback, IInv, Typed, RowType
<1>4. run'.at = "operator_rollback" /\ run'.at \notin Back
  BY RestAway DEF OperatorRollback, RunType, Back
<1>5. GenerationInv'
  BY <1>1, <1>3, <1>4 DEF Bounded, GenerationInv
<1>6. AttemptsInv' /\ UsedInv'
  BY <1>1, <1>2, <1>3, BoundAssumption
     DEF OperatorRollback, MayHappen, Bounded, AttemptsInv, UsedInv, Launched, Issued
<1> QED
  BY <1>1, <1>5, <1>6 DEF Bounded

LEMMA InitBounded == Init => Bounded
<1> SUFFICES ASSUME Init PROVE Bounded
  OBVIOUS
<1>1. RestTyped
  BY DEF Init, RestTyped, Phase, Session
<1>2. GenerationInv /\ AttemptsInv /\ UsedInv
  BY RestAway, BoundAssumption DEF Init, GenerationInv, AttemptsInv, UsedInv
<1> QED
  BY <1>1, <1>2 DEF Bounded

LEMMA NextBounded ==
    ASSUME IInv, Sound, Bounded, [Next]_vars
    PROVE  Bounded'
<1>1. UndoInv
  BY DEF Sound
<1>2. CASE ShapedStep
  BY <1>1, <1>2, ShapedBounded
<1>3. CASE ClaimAttempt \/ Reconcile
  BY <1>3, ClaimsBounded
<1>4. CASE ActivationEvidence
  BY <1>1, <1>4, EvidenceBounded
<1>5. CASE Activate \/ RollbackWorker
  BY <1>1, <1>5, LooksBounded
<1>6. CASE SwitchPrevious \/ SwitchCurrent \/ WriteReceipt
             \/ SwitchBack \/ SwitchPreviousBack \/ WriteRollbackReceipt
  BY <1>6, WritesBounded
<1>7. CASE (\E s \in Service : KeepAlive(s) \/ Register(s)) \/ WorkerStarts \/ WorkerEnds
             \/ Expire \/ UNCHANGED vars
  BY <1>7, WorldBounded
<1>8. CASE Interrupted
  BY <1>8, InterruptedBounded
<1>9. CASE OperatorRollback
  BY <1>9, OperatorBounded
<1> QED
  BY <1>2, <1>3, <1>4, <1>5, <1>6, <1>7, <1>8, <1>9, Steps

LEMMA AlwaysBounded == Spec => []Bounded
<1>1. IInv /\ Sound /\ Bounded /\ [Next]_vars => Bounded'
  BY NextBounded
<1> QED
  BY <1>1, InitBounded, AlwaysIInv, AlwaysSound, PTL DEF Spec

\* The columns of update_requests and runtime_operations, the pointers and the
\* locals of the runner keep to their values.  The receipt moves twice at most,
\* once forward and once back, and a launch is counted once per runner that
\* ended before it was persisted (incrementRestartAttempts).
THEOREM TypeCorrect == Spec => []TypeOK
<1>1. IInv /\ Bounded => TypeOK
  <2> SUFFICES ASSUME IInv, Bounded PROVE TypeOK
    OBVIOUS
  <2>1. row.generation \in 0..2 /\ receipt.generation \in 0..2
    BY DEF IInv, Typed, RowType, WorldType, Bounded, GenerationInv
  <2>2. row.attempts \in 0..1 + CrashLimit
    BY BoundAssumption DEF IInv, Typed, RowType, WorldType, Bounded, AttemptsInv, UsedInv
  <2>3. /\ used.crashes \in 0..CrashLimit /\ used.restarts \in 0..EventLimit
        /\ used.registered \in 0..EventLimit /\ used.rollbacks \in 0..EventLimit
    BY BoundAssumption DEF IInv, Typed, WorldType, Bounded, UsedInv
  <2>4. /\ row \in [state : State, why : {"none", "other", "evidence"},
                    deadline : {"none", "open", "expired"}, generation : 0..2,
                    attempts : 0..1 + CrashLimit]
        /\ receipt \in [to : Release \cup {"none"}, generation : 0..2]
    BY <2>1, <2>2 DEF IInv, Typed, RowType, WorldType
  <2>5. used \in [crashes : 0..CrashLimit, restarts : 0..EventLimit,
                  registered : 0..EventLimit, rollbacks : 0..EventLimit]
    BY <2>3 DEF IInv, Typed, WorldType
  <2> QED
    BY <2>4, <2>5 DEF TypeOK, IInv, Typed, RunType, RecoveryType, SvcType, WorldType, PointersPast,
                      Bounded, RestTyped
<1> QED
  BY <1>1, AlwaysIInv, AlwaysBounded, PTL

=============================================================================
