----------------------------- MODULE ServicesMC -----------------------------
(* Four parts of Dona that share nothing but the queue and the job table, of     *)
(* which each has its own abstraction: the notices of a job group, the progress   *)
(* of jobs, the notices of updates and the intake of Slack events.  A behaviour   *)
(* is one of one of them; the others stay as they begin.                          *)
EXTENDS Naturals, FiniteSets

CONSTANTS
    Job, None,
    Second,        \* one of the jobs
    Events,        \* bound: notices of updates, events of Slack
    MaxPhases,     \* bound: phases that the workers publish
    FaultLimit,    \* bound: failures that the progress and the intake meet
    CallFaults,    \* bound: failures that the notices of updates meet
    CrashLimit,    \* bound: restarts of the progress
    ReturnLimit,   \* bound: blocked jobs that run again
    OutageLimit,   \* bound: crashes among the notices of updates
    HandLimit,     \* bound: what the operator does by hand to the events of updates
    StopLimit      \* bound: shutdowns of the intake

VARIABLES
    service,                                                             \* the part that acts
    db,                                                                  \* JobGroup
    job, hand, row, report, calls, recovery, pass, enabled, group, used,   \* JobProgress
    event, notice, file, worker, call, thread, crossed, failed,           \* UpdateNotification
    nature, slack, stored, handler, stray, op, socket, process, broken, faults \* SlackIngress

Groups == INSTANCE JobGroup
Progress == INSTANCE JobProgress
Updates == INSTANCE UpdateNotification WITH
    FaultLimit <- CallFaults, row <- notice, slack <- thread, used <- failed
Intake == INSTANCE SlackIngress WITH used <- faults

\* None is no name of a notice.
ASSUME NoneAssumption == None \notin Groups!Notice
ASSUME LimitAssumption == {Events, CallFaults, OutageLimit} \subseteq Nat

groupVars == <<db>>
progressVars == <<job, hand, row, report, calls, recovery, pass, enabled, group, used>>
updateVars == <<event, notice, file, worker, call, thread, crossed, failed>>
intakeVars == <<nature, slack, stored, handler, stray, op, socket, process, broken, faults>>
vars == <<service, groupVars, progressVars, updateVars, intakeVars>>

Init ==
    /\ service \in {"groups", "progress", "updates", "intake"}
    /\ Groups!Init /\ Progress!Init /\ Updates!Init /\ Intake!Init
    /\ service # "intake" => \A e \in DOMAIN nature : nature[e] = "ignored"

Next ==
    \/ service = "groups" /\ Groups!Next /\ UNCHANGED <<service, progressVars, updateVars, intakeVars>>
    \/ service = "progress" /\ Progress!Next /\ UNCHANGED <<service, groupVars, updateVars, intakeVars>>
    \/ service = "updates" /\ Updates!Next /\ UNCHANGED <<service, groupVars, progressVars, intakeVars>>
    \/ service = "intake" /\ Intake!Next /\ UNCHANGED <<service, groupVars, progressVars, updateVars>>

\* Each module's own fairness.
Fairness ==
    /\ WF_groupVars(service = "groups" /\ \E j \in Job : Groups!Announce(j))
    /\ WF_progressVars(service = "progress" /\ Progress!Adapter)
    /\ WF_progressVars(service = "progress" /\ Progress!Reporting)
    /\ WF_progressVars(service = "progress" /\ Progress!Recovering)
    /\ WF_progressVars(service = "progress" /\ Progress!Announcing)
    /\ WF_updateVars(service = "updates" /\ Updates!Work)
    /\ WF_updateVars(service = "updates" /\ Updates!Waiting)
    /\ WF_intakeVars(service = "intake" /\ Intake!Connecting)
    /\ WF_intakeVars(service = "intake" /\ Intake!Tracked)
    /\ WF_intakeVars(service = "intake" /\ Intake!Leaving)
    /\ \A k \in 1..2 : WF_intakeVars(service = "intake" /\ Intake!Handle(k))
    /\ \A e \in 1..Events : SF_intakeVars(service = "intake" /\ \E k \in 1..2 : Intake!Receive(e, k))

Spec == Init /\ [][Next]_vars /\ Fairness

(***************************************************************************)
(* Bounds on the notices of a group: how many there are, how many wait at a    *)
(* time, how many are put aside, withdrawn or verified (none of three); the queue *)
(* hands out one at a time, and the jobs are alike: the first notice is not about  *)
(* the second one.  Of a fault, a restart and a blocked job that runs again, the   *)
(* progress of jobs meets one, and two when one is that its adapter stops.  Of what  *)
(* fails, crashes and is done by hand, the notices of updates meet three.            *)
(***************************************************************************)
MaxNotices == 3
Open == {n \in DOMAIN db.notice : db.notice[n].state # "completed"}
InTurn ==
    /\ Cardinality(Open) <= 2
    /\ Cardinality({n \in Open : db.notice[n].state = "held"}) <= 1
    /\ \A n \in db.claims : db.notice[n].outcome # "posted"
Unusual(n) == \/ n \in db.receipts \cup db.claims \cup db.noPost
              \/ db.notice[n].outcome \in {"superseded", "unclear"}
Disturbed ==
    Cardinality({n \in DOMAIN db.notice : Unusual(n)})
    + Cardinality({j \in Job : db.job[j].status \in {"cancelling", "cancelled"}})
MaxDisturbed == IF Cardinality(DOMAIN db.notice) = MaxNotices THEN 0 ELSE 1
Alike == DOMAIN db.notice = {} => \A n \in DOMAIN db'.notice : Groups!JobOf(n) # Second
Setbacks == used.faults + used.crashes + used.returns
MaxSetbacks == IF Progress!Listening THEN 1 ELSE 2
MaxTrouble == 3
Bounds ==
    /\ Alike
    /\ (Cardinality(DOMAIN db.notice) <= MaxNotices /\ InTurn /\ Disturbed <= MaxDisturbed)'
    /\ Setbacks' > Setbacks => (Setbacks <= MaxSetbacks)'
    /\ (failed.hand + failed.faults + failed.outages <= MaxTrouble)'

(***************************************************************************)
(* Properties: what each module states of itself, where it is explained.       *)
(***************************************************************************)
\* Every part keeps to its types.
TypesOK ==
    CASE service = "groups" -> Groups!TypeOK
      [] service = "progress" -> Progress!TypeOK
      [] service = "updates" -> Updates!TypeOK
      [] OTHER -> Intake!TypeOK

\* What a group was told stays true: after its final report nothing of it changes,
\* its attention is settled before another or the final report takes its place, and
\* what was verified about a notice is not contradicted.
ToldStaysTrue == service = "groups" =>
    Groups!FinalReportIsFinal /\ Groups!AttentionUntilSettled /\ Groups!VerdictsAgree

\* A notice is the last word about its job, and a status line has one writer, also
\* over a crash with requests still on their way.
NoticeIsLastWord == service = "progress" => Progress!NoProgressAfterNotice /\ Progress!OneWriter

\* What crosses a lost answer happens once: an update's notice is posted once, unless its
\* requests cross, and then no more often than failures allow, and counts as told only
\* when it was; an event that Slack counts as delivered is stored once, by one socket;
\* and what reports itself drained is quiet.
TakenOnce ==
    /\ service = "updates" => Updates!PostedOnce /\ Updates!PostsPaid /\ Updates!CompletedIsPosted
    /\ service = "intake" => Intake!AckedIsStored /\ Intake!OneSocket /\ Intake!DrainedIsQuiet

\* What must come comes: the final report of a group, the notice behind the progress, the
\* end of an update's notice, the Slack event into the queue.  This is each part's own
\* property, of its first and of its second event, in one formula.
Due(e) ==
    CASE service = "groups" -> Groups!ReportDue
      [] service = "progress" -> Progress!NoticeDue
      [] service = "updates" -> event[e].status = "queued"
      [] OTHER -> nature[e] = "delivered"
Come(e) ==
    CASE service = "groups" -> db.terminal # None \/ ~Groups!Claimable(db)
      [] service = "progress" -> group.final # "none"
      [] service = "updates" -> Updates!Through(e)
      [] OTHER -> Intake!Arrived(e)
EverythingComes == \A e \in 1..Events : Due(e) ~> Come(e)
=============================================================================
