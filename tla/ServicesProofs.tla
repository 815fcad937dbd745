---------------------------- MODULE ServicesProofs ----------------------------
(* What the parts around the queue promise holds for any number of jobs,         *)
(* notices, events, failures and restarts: a notice is the last word about its    *)
(* job and a status line has one writer; an update's notice is posted once and    *)
(* counts as told only when it was; the intake, of which SlackIngressProofs has    *)
(* the argument, takes an event once; and what a group of jobs was told stays true. *)
(* The last part has the types, and with them how often a notice can be posted.   *)
EXTENDS ServicesMC, TLAPS

(***************************************************************************)
(* The progress of jobs: the invariant.                                     *)
(***************************************************************************)
Status == {"none", "pending", "delivering", "delivered", "unknown"}
RowType == [status : Status, checked : BOOLEAN]
CallType == [of : Job, at : {"asking", "writing"}, token : {"claimed", "dropped", "earlier"},
             leaving : BOOLEAN]
PassType == [of : Job \cup {None}, running : SUBSET Job, closed : BOOLEAN]

\* The types, with those of every field.
LineTyped ==
    /\ job \in [Job -> {"running", "blocked", "ended"}]
    /\ row \in [Job -> RowType]
    /\ report \in [at : {"idle", "token", "wait", "drain"}, of : Job \cup {None}]
    /\ calls \subseteq CallType
    /\ enabled \in BOOLEAN
    /\ pass \in PassType
    /\ group \in [sealed : BOOLEAN, attention : Job \cup {None},
                  final : {"none", "gated", "open"}, told : SUBSET Job]

\* A report is under way only while the progress is enabled and nobody was told
\* anything; a final notice is about jobs that have all ended.
Reported ==
    /\ report.at # "idle" => enabled /\ group.attention = None /\ group.final = "none" /\ report.of \in Job
    /\ report.at = "idle" => report = Progress!Idle
    /\ group.final # "none" => \A j \in Job : job[j] = "ended"

\* A request of this process is the one that the report waits for, or drains; one that
\* writes still has its row, and an earlier one has another row than the report: as long
\* as the adapter listens.  Of an adapter that stops all requests are the last ones.
Requested ==
    /\ \A c \in calls :
         /\ c.token = "claimed" => report.at = "wait" /\ c.of = report.of
         /\ ~c.leaving =>
              /\ c.token = "dropped" => report.at = "drain" /\ c.of = report.of
              /\ c.at = "writing" => row[c.of].status = "delivering"
              /\ c.at = "writing" /\ c.token = "earlier" /\ report.at # "idle" => c.of # report.of
    /\ \A c, d \in calls : c.token # "earlier" /\ d.token # "earlier" => c = d
    /\ \A c, d \in calls : c.leaving => d.leaving

LineInv ==
    LineTyped /\ Reported /\ Requested /\ Progress!NoProgressAfterNotice /\ Progress!OneWriter

(***************************************************************************)
(* The progress of jobs: the steps.                                         *)
(***************************************************************************)
\* No report begins or ends, nobody is told, and the rows that are being written stay.
Aside ==
    /\ report' = report /\ calls' = calls /\ enabled' = enabled
    /\ group'.attention = group.attention /\ group'.final = group.final
    /\ \A c \in calls : c.at = "writing" /\ ~c.leaving =>
         row'[c.of].status = row[c.of].status /\ (row[c.of].checked => row'[c.of].checked)
    /\ (\A j \in Job : job[j] = "ended") => job' = job

\* Such a step keeps the invariant.
LEMMA AsideKeeps == ASSUME LineInv, LineTyped', Aside PROVE LineInv'
<1>1. Reported'
  BY DEF LineInv, Aside, Reported, Progress!Idle
<1>2. Requested'
  BY DEF LineInv, Aside, Requested, Reported
<1>3. Progress!NoProgressAfterNotice'
  BY DEF LineInv, Aside, Progress!NoProgressAfterNotice
<1>4. Progress!OneWriter'
  BY DEF LineInv, Aside, Progress!OneWriter, Progress!MayWrite
<1> QED
  BY <1>1, <1>2, <1>3, <1>4 DEF LineInv

\* The jobs and what their workers publish.
LEMMA JobSteps ==
    ASSUME LineInv,
           \/ Progress!Seal \/ Progress!Defer \/ Progress!Recovered
           \/ \E j \in Job : \/ Progress!Stop(j) \/ Progress!Return(j) \/ Progress!Read(j)
                             \/ Progress!PassStart(j)
    PROVE  LineInv'
<1> USE DEF LineInv, LineTyped, Progress!Terminal
<1> DEFINE Rest == UNCHANGED <<row, report, calls, enabled>>
<1>1. CASE Progress!Seal \/ Progress!Defer \/ Progress!Recovered \/ \E j \in Job : Progress!Read(j)
  <2>1. Rest /\ UNCHANGED <<job, pass>>
    BY <1>1 DEF Progress!Seal, Progress!Defer, Progress!Recovered, Progress!Read
  <2>2. group' = group \/ group' = [group EXCEPT !.sealed = TRUE]
    BY <1>1 DEF Progress!Seal, Progress!Defer, Progress!Recovered, Progress!Read
  <2> QED
    BY <2>1, <2>2, AsideKeeps DEF Aside
<1>2. ASSUME NEW j \in Job, Progress!Stop(j) \/ Progress!Return(j) PROVE LineInv'
  <2>1. Rest /\ UNCHANGED <<pass, group>>
    BY <1>2 DEF Progress!Stop, Progress!Return
  <2>2. PICK status \in {"running", "blocked", "ended"} : job' = [job EXCEPT ![j] = status] /\ job[j] # "ended"
    BY <1>2 DEF Progress!Stop, Progress!Return
  <2> QED
    BY <2>1, <2>2, AsideKeeps DEF Aside
<1>3. ASSUME NEW j \in Job, Progress!PassStart(j) PROVE LineInv'
  <2>1. Rest /\ UNCHANGED <<job, group>> /\ pass' \in PassType
    BY <1>3 DEF Progress!PassStart, PassType
  <2> QED
    BY <2>1, AsideKeeps DEF Aside
<1> QED
  BY <1>1, <1>2, <1>3

\* The rows that are not being delivered.
LEMMA RowSteps ==
    ASSUME LineInv, NEW j \in Job, Progress!Store(j) \/ Progress!CloseRow(j)
    PROVE  LineInv'
<1> USE DEF LineInv, LineTyped
<1>1. row[j] \in RowType
  OBVIOUS
<1>2. UNCHANGED <<job, report, calls, enabled, pass, group>>
  BY DEF Progress!Store, Progress!CloseRow
<1>3. PICK r \in RowType : row' = [row EXCEPT ![j] = r] /\ (r = row[j] \/ row[j].status # "delivering")
  <2>1. CASE Progress!CloseRow(j)
    <3>1. row' = [row EXCEPT ![j] = [row[j] EXCEPT !.status = "delivered"]]
      BY <2>1 DEF Progress!CloseRow
    <3> QED
      BY <1>1, <2>1, <3>1 DEF RowType, Status, Progress!CloseRow
  <2>2. CASE Progress!Store(j)
    BY <1>1, <2>2 DEF RowType, Status, Progress!Store
  <2> QED
    BY <2>1, <2>2
<1>4. row' \in [Job -> RowType]
  BY <1>3
<1>5. Aside
  BY <1>2, <1>3 DEF CallType, Requested, Aside
<1> QED
  BY <1>2, <1>4, <1>5, AsideKeeps

\* What a terminal reconciliation sends again is a row of the table, and no row that is
\* being delivered.
LEMMA RequeuedTyped ==
    ASSUME NEW r \in [Job -> RowType], NEW running \in SUBSET Job, NEW q \in Progress!Requeued(r, running)
    PROVE  q \in [Job -> RowType] /\ \A j \in Job : r[j].status = "delivering" => q[j] = r[j]
<1> DEFINE Again(k) == [r EXCEPT ![k].status = "pending"]
           Anew(k) == [r EXCEPT ![k] = [status |-> "pending", checked |-> FALSE]]
           Fine(t) == t \in [Job -> RowType] /\ \A j \in Job : r[j].status = "delivering" => t[j] = r[j]
<1>1. \A k \in Job : r[k].status # "delivering" => Fine(Again(k))
  BY DEF RowType, Status
<1>2. \A k \in Job : r[k].status # "delivering" => Fine(Anew(k))
  BY DEF RowType, Status
<1>3. q = r \/ \E k \in Job : r[k].status # "delivering" /\ (q = Again(k) \/ q = Anew(k))
  BY DEF Progress!Requeued
<1> HIDE DEF Again, Anew
<1> QED
  BY <1>1, <1>2, <1>3

\* A terminal reconciliation leaves the rows alone while one is being delivered.
LEMMA PassCloseStep == ASSUME LineInv, Progress!PassClose PROVE LineInv'
<1> USE DEF LineInv, LineTyped
<1>1. UNCHANGED <<job, report, calls, enabled, group>> /\ pass' \in PassType
  <2>1. pass' = Progress!NoPass \/ pass' = [pass EXCEPT !.closed = TRUE]
    BY DEF Progress!PassClose
  <2>2. Progress!NoPass \in PassType /\ [pass EXCEPT !.closed = TRUE] \in PassType
    BY DEF Progress!NoPass, PassType
  <2> QED
    BY <2>1, <2>2 DEF Progress!PassClose, Progress!PassStep
<1>2. CASE row' = row
  BY <1>1, <1>2, AsideKeeps DEF Aside
<1>3. CASE row' # row
  <2>1. /\ ~\E k \in Job : row[k].status = "delivering"
        /\ row' = [row EXCEPT ![pass.of].status = Progress!Closed(@)]
    BY <1>3 DEF Progress!PassClose
  <2>2. row' \in [Job -> RowType]
    BY <2>1 DEF RowType, Status, Progress!Closed
  <2>3. Aside
    BY <1>1, <2>1 DEF Aside, Requested, CallType
  <2> QED
    BY <1>1, <2>2, <2>3, AsideKeeps
<1> QED
  BY <1>2, <1>3

\* What is being delivered when it ends is not sent again.
LEMMA PassEndStep == ASSUME LineInv, Progress!PassEnd PROVE LineInv'
<1> USE DEF LineInv, LineTyped
<1>1. UNCHANGED <<job, report, calls, enabled, group>> /\ pass' = Progress!NoPass
  BY DEF Progress!PassEnd, Progress!PassStep
<1>2. PICK r \in Progress!Requeued(row, pass.running) :
        row' = [r EXCEPT ![pass.of] = [status |-> IF @.status = "none" THEN "delivered" ELSE @.status,
                                       checked |-> TRUE]]
  BY DEF Progress!PassEnd
<1>3. r \in [Job -> RowType] /\ \A j \in Job : row[j].status = "delivering" => r[j] = row[j]
  BY <1>2, RequeuedTyped DEF PassType
<1>4. row' \in [Job -> RowType]
  BY <1>2, <1>3 DEF RowType, Status
<1>5. \A j \in Job : row[j].status = "delivering" =>
        row'[j].status = "delivering" /\ (row[j].checked => row'[j].checked)
  BY <1>2, <1>3 DEF RowType
<1>6. LineTyped'
  BY <1>1, <1>4 DEF Progress!NoPass, PassType
<1>7. Aside
  BY <1>1, <1>5 DEF Aside, Requested, CallType
<1> QED
  BY <1>6, <1>7, AsideKeeps

\* Requests that vanish change nothing else.
LEMMA FewerKeeps ==
    ASSUME LineInv, calls' \subseteq calls, UNCHANGED <<job, row, report, pass, enabled, group>>
    PROVE  LineInv'
<1>1. LineTyped'
  BY DEF LineInv, LineTyped
<1>2. Reported'
  BY DEF LineInv, Reported, Progress!Idle
<1>3. Requested'
  BY DEF LineInv, Requested
<1>4. Progress!NoProgressAfterNotice' /\ Progress!OneWriter'
  BY DEF LineInv, Progress!NoProgressAfterNotice, Progress!OneWriter, Progress!MayWrite
<1> QED
  BY <1>1, <1>2, <1>3, <1>4 DEF LineInv

\* The row of the report gets its outcome, the others stay.
LEMMA SettleRows ==
    ASSUME LineTyped, report.of \in Job, NEW status \in Status, Progress!Settle(status)
    PROVE  /\ row' \in [Job -> RowType]
           /\ \A j \in Job : row'[j].checked = row[j].checked /\ (j # report.of => row'[j] = row[j])
<1>1. row[report.of] \in RowType /\ row \in [Job -> RowType]
  BY DEF LineTyped
<1>2. row' = row \/ row' = [row EXCEPT ![report.of] = [row[report.of] EXCEPT !.status = status]]
  BY DEF Progress!Settle
<1> QED
  BY <1>1, <1>2 DEF RowType

\* A report ends: no request of this process is left but those of an adapter that stops.
LEMMA EndKeeps ==
    ASSUME LineInv, report.at # "idle", NEW status \in Status, Progress!EndReport(status),
           calls' \subseteq calls, \A c \in calls' : c.token = "earlier" \/ (c.token = "dropped" /\ c.leaving),
           UNCHANGED <<job, pass, enabled, group>>
    PROVE  LineInv'
<1>1. report.of \in Job
  BY DEF LineInv, Reported
<1>2. /\ row' \in [Job -> RowType]
      /\ \A j \in Job : row'[j].checked = row[j].checked /\ (j # report.of => row'[j] = row[j])
  BY <1>1, SettleRows DEF LineInv, Progress!EndReport
<1>3. report' = Progress!Idle
  BY DEF Progress!EndReport
<1>4. LineTyped'
  BY <1>2, <1>3 DEF LineInv, LineTyped, Progress!Idle
<1>5. Reported'
  BY <1>3 DEF LineInv, Reported, Progress!Idle
<1>6. Requested'
  BY <1>2, <1>3 DEF LineInv, LineTyped, Requested, Progress!Idle, CallType
<1>7. Progress!NoProgressAfterNotice'
  BY <1>2 DEF LineInv, LineTyped, Progress!NoProgressAfterNotice, CallType
<1>8. Progress!OneWriter'
  BY DEF LineInv, Progress!OneWriter, Progress!MayWrite
<1> QED
  BY <1>4, <1>5, <1>6, <1>7, <1>8 DEF LineInv

\* The answer is lost: the report asks the adapter to drain, and of the requests of
\* this process at most one is left, which nobody waits for.
LEMMA DrainKeeps ==
    ASSUME LineInv, report.at = "wait", report' = [report EXCEPT !.at = "drain"],
           calls' \subseteq {[c EXCEPT !.token = IF @ = "claimed" THEN "dropped" ELSE @] : c \in calls},
           UNCHANGED <<job, row, pass, enabled, group>>
    PROVE  LineInv'
<1>1. report' \in [at : {"idle", "token", "wait", "drain"}, of : Job \cup {None}]
      /\ report'.at = "drain" /\ report'.of = report.of
  BY DEF LineInv, LineTyped
<1>2. ASSUME NEW c \in calls'
      PROVE  /\ c \in CallType
             /\ \E d \in calls : /\ d.of = c.of /\ d.at = c.at /\ d.leaving = c.leaving
                                 /\ c = [d EXCEPT !.token = IF @ = "claimed" THEN "dropped" ELSE @]
                                 /\ \/ d.token = "claimed" /\ c.token = "dropped"
                                    \/ d = c /\ c.token # "claimed"
  BY DEF LineInv, LineTyped, CallType
<1>3. LineTyped'
  BY <1>1, <1>2 DEF LineInv, LineTyped
<1>4. Reported'
  BY <1>1 DEF LineInv, Reported, Progress!Idle
<1>5. \A c \in calls' : c.token # "claimed" /\ (c.token = "dropped" /\ ~c.leaving => c.of = report.of)
  BY <1>2 DEF LineInv, Requested
<1>6. Requested'
  <2>1. \A c \in calls' : ~c.leaving =>
         /\ c.at = "writing" => row[c.of].status = "delivering"
         /\ c.at = "writing" /\ c.token = "earlier" => c.of # report.of
    BY <1>2 DEF LineInv, Requested
  <2>2. \A c, d \in calls' : (c.token # "earlier" /\ d.token # "earlier" => c = d)
                            /\ (c.leaving => d.leaving)
    BY <1>2 DEF LineInv, Requested
  <2> QED
    BY <1>1, <1>5, <2>1, <2>2 DEF Requested
<1>7. Progress!NoProgressAfterNotice'
  BY <1>1, <1>2 DEF LineInv, Reported, Progress!NoProgressAfterNotice
<1>8. Progress!OneWriter'
  BY <1>2 DEF LineInv, Progress!OneWriter, Progress!MayWrite, Requested
<1> QED
  BY <1>3, <1>4, <1>6, <1>7, <1>8 DEF LineInv


\* The answer to a request, in any of its outcomes.
LEMMA AnswerKeeps ==
    ASSUME LineInv, NEW c \in calls, NEW outcome \in {"pending", "delivered", "doubt"},
           Progress!Answered(c, outcome), UNCHANGED <<job, pass, enabled, group>>
    PROVE  LineInv'
<1>1. calls' = calls \ {c}
  BY DEF Progress!Answered
<1>2. CASE c.token # "claimed"
  BY <1>1, <1>2, FewerKeeps DEF Progress!Answered
<1>3. CASE c.token = "claimed"
  <2>1. report.at = "wait"
    BY <1>3 DEF LineInv, Requested
  <2>2. \A d \in calls' : d.token = "earlier"
    BY <1>1, <1>3 DEF LineInv, Requested
  <2>3. CASE outcome = "doubt"
    <3>1. report' = [report EXCEPT !.at = "drain"] /\ row' = row
      BY <1>3, <2>3 DEF Progress!Answered
    <3>2. \A d \in calls' : d = [d EXCEPT !.token = IF @ = "claimed" THEN "dropped" ELSE @]
      BY <1>1, <2>2 DEF LineInv, LineTyped, CallType
    <3> QED
      BY <1>1, <2>1, <3>1, <3>2, DrainKeeps
  <2>4. CASE outcome # "doubt"
    <3>1. Progress!EndReport(outcome) /\ outcome \in Status
      BY <1>3, <2>4 DEF Progress!Answered, Status
    <3> QED
      BY <1>1, <2>1, <2>2, <3>1, EndKeeps
  <2> QED
    BY <2>3, <2>4
<1> QED
  BY <1>2, <1>3

\* The adapter.
LEMMA AdapterSteps ==
    ASSUME LineInv, NEW c \in calls,
           \/ Progress!Resolve(c) \/ Progress!ResolveFails(c)
           \/ Progress!Write(c) \/ Progress!WriteFails(c)
    PROVE  LineInv'
<1>1. UNCHANGED <<job, pass, enabled, group>>
  BY DEF Progress!Resolve, Progress!ResolveFails, Progress!Write, Progress!WriteFails
<1>2. CASE \E outcome \in {"pending", "delivered", "doubt"} : Progress!Answered(c, outcome)
  BY <1>1, <1>2, AnswerKeeps
<1>3. CASE /\ Progress!Deliverable(c) /\ c.at = "asking" /\ UNCHANGED <<row, report>>
           /\ calls' = (calls \ {c}) \cup {[c EXCEPT !.at = "writing"]}
  <2> DEFINE w == [c EXCEPT !.at = "writing"]
  <2>1. w \in CallType /\ w.of = c.of /\ w.token = "claimed" /\ w.at = "writing" /\ c.token = "claimed"
        /\ w.leaving = c.leaving
    BY <1>3 DEF LineInv, LineTyped, CallType, Progress!Deliverable
  <2>2. row[c.of].status = "delivering" /\ group.attention = None /\ report.at = "wait"
    BY <1>3, <2>1 DEF Progress!Deliverable, LineInv, Requested
  <2>3. calls' = (calls \ {c}) \cup {w} /\ \A d \in calls \ {c} : d.token = "earlier"
    BY <1>3, <2>1 DEF LineInv, Requested
  <2> HIDE DEF w
  <2>4. LineTyped'
    BY <1>1, <1>3, <2>1, <2>3 DEF LineInv, LineTyped
  <2>5. Reported'
    BY <1>1, <1>3 DEF LineInv, Reported, Progress!Idle
  <2>6. Requested'
    BY <1>1, <1>3, <2>1, <2>2, <2>3 DEF LineInv, Requested
  <2>7. Progress!NoProgressAfterNotice'
    BY <1>1, <1>3, <2>1, <2>2, <2>3 DEF LineInv, Reported, Progress!NoProgressAfterNotice
  <2>8. Progress!OneWriter'
    BY <1>1, <1>3, <2>1, <2>2, <2>3 DEF LineInv, Progress!OneWriter, Progress!MayWrite, Requested
  <2> QED
    BY <2>4, <2>5, <2>6, <2>7, <2>8 DEF LineInv
<1> QED
  BY <1>2, <1>3 DEF Progress!Resolve, Progress!ResolveFails, Progress!Write, Progress!WriteFails

\* The report: it begins, its request is sent or not, its answer is lost, or it is given up.
LEMMA ReportSteps ==
    ASSUME LineInv,
           \/ Progress!Send \/ Progress!Unsent \/ Progress!LoseAnswer \/ Progress!GiveUp
           \/ Progress!AdapterStops \/ Progress!AdapterDies \/ \E j \in Job : Progress!Begin(j)
    PROVE  LineInv'
<1>1. CASE Progress!Send
  <2> DEFINE new == [of |-> report.of, at |-> "asking", token |-> "claimed", leaving |-> FALSE]
  <2>1. /\ report.at = "token" /\ report' = [report EXCEPT !.at = "wait"]
        /\ calls' = calls \cup {new}
        /\ UNCHANGED <<job, row, pass, enabled, group>>
    BY <1>1 DEF Progress!Send
  <2>2. report.of \in Job /\ \A c \in calls : c.token = "earlier" /\ ~c.leaving
    BY <1>1, <2>1 DEF LineInv, Reported, Requested, LineTyped, CallType, Progress!Send, Progress!Listening
  <2>3. new \in CallType /\ new.of = report.of /\ new.at = "asking" /\ new.token = "claimed" /\ ~new.leaving
    BY <2>2 DEF CallType
  <2>4. report'.at = "wait" /\ report'.of = report.of
        /\ report' \in [at : {"idle", "token", "wait", "drain"}, of : Job \cup {None}]
    BY <2>1 DEF LineInv, LineTyped
  <2> HIDE DEF new
  <2>5. LineTyped'
    BY <2>1, <2>3, <2>4 DEF LineInv, LineTyped
  <2>6. Reported'
    BY <2>1, <2>4 DEF LineInv, Reported, Progress!Idle
  <2>7. Requested'
    BY <2>1, <2>2, <2>3, <2>4 DEF LineInv, Requested
  <2>8. Progress!NoProgressAfterNotice'
    BY <2>1, <2>3 DEF LineInv, Progress!NoProgressAfterNotice
  <2>9. Progress!OneWriter'
    BY <2>1, <2>2, <2>3 DEF LineInv, Requested, Progress!OneWriter, Progress!MayWrite
  <2> QED
    BY <2>5, <2>6, <2>7, <2>8, <2>9 DEF LineInv
<1>2. CASE Progress!Unsent
  <2>1. \A c \in calls : c.token = "earlier" \/ (c.token = "dropped" /\ c.leaving)
    BY <1>2 DEF LineInv, Requested, LineTyped, CallType, Progress!Unsent
  <2> QED
    BY <1>2, <2>1, EndKeeps DEF Progress!Unsent, Status
<1>3. CASE Progress!LoseAnswer
  BY <1>3, DrainKeeps DEF Progress!LoseAnswer
<1>4. CASE Progress!GiveUp
  <2>1. \A c \in calls' : c.token = "earlier" \/ (c.token = "dropped" /\ c.leaving)
    BY <1>4 DEF Progress!GiveUp, Progress!Drained, Progress!Listening, LineInv, LineTyped, Requested, CallType
  <2> QED
    BY <1>4, <2>1, EndKeeps DEF Progress!GiveUp, Status
<1>5. CASE Progress!AdapterDies
  <2>1. CASE report.at = "wait"
    BY <1>5, <2>1, DrainKeeps DEF Progress!AdapterDies
  <2>2. CASE report.at # "wait"
    BY <1>5, <2>2, FewerKeeps DEF Progress!AdapterDies
  <2> QED
    BY <2>1, <2>2
<1>6. ASSUME NEW j \in Job, Progress!Begin(j) PROVE LineInv'
  <2>1. /\ enabled /\ report.at = "idle" /\ row[j].status = "pending" /\ group.attention = None
        /\ job[j] # "ended"
        /\ row' = [row EXCEPT ![j].status = "delivering"] /\ report' = [at |-> "token", of |-> j]
        /\ UNCHANGED <<job, calls, pass, enabled, group>>
    BY <1>6 DEF Progress!Begin, Progress!Idle, Progress!Terminal
  <2>2. row' \in [Job -> RowType] /\ \A k \in Job : row'[k].checked = row[k].checked /\ (k # j => row'[k] = row[k])
    BY <2>1 DEF LineInv, LineTyped, RowType, Status
  <2>3. LineTyped'
    BY <2>1, <2>2 DEF LineInv, LineTyped
  <2>4. Reported'
    BY <2>1 DEF LineInv, Reported, Progress!Idle
  <2>5. Requested'
    BY <2>1, <2>2 DEF LineInv, LineTyped, Requested, CallType
  <2>6. Progress!NoProgressAfterNotice'
    BY <2>1, <2>2 DEF LineInv, LineTyped, Progress!NoProgressAfterNotice, CallType
  <2>7. Progress!OneWriter'
    BY <2>1 DEF LineInv, Progress!OneWriter, Progress!MayWrite
  <2> QED
    BY <2>3, <2>4, <2>5, <2>6, <2>7 DEF LineInv
<1>7. CASE Progress!AdapterStops
  <2>1. /\ calls' = {[c EXCEPT !.leaving = TRUE] : c \in calls}
        /\ UNCHANGED <<job, row, report, pass, enabled, group>>
    BY <1>7 DEF Progress!AdapterStops
  <2>2. ASSUME NEW c \in calls'
        PROVE  c \in CallType /\ c.leaving
               /\ \E d \in calls : d.of = c.of /\ d.at = c.at /\ d.token = c.token
                                   /\ c = [d EXCEPT !.leaving = TRUE]
    <3>1. PICK d \in calls : c = [d EXCEPT !.leaving = TRUE]
      BY <2>1
    <3>2. d \in CallType
      BY DEF LineInv, LineTyped
    <3> QED
      BY <3>1, <3>2 DEF CallType
  <2>3. LineTyped'
    BY <2>1, <2>2 DEF LineInv, LineTyped
  <2>4. Reported'
    BY <2>1 DEF LineInv, Reported, Progress!Idle
  <2>5. Requested'
    <3>1. \A c \in calls' : c.leaving /\ (c.token = "claimed" => report.at = "wait" /\ c.of = report.of)
      BY <2>2 DEF LineInv, Requested
    <3>2. ASSUME NEW c \in calls', NEW d \in calls', c.token # "earlier", d.token # "earlier" PROVE c = d
      <4>1. PICK x \in calls : x.token = c.token /\ c = [x EXCEPT !.leaving = TRUE]
        BY <2>2
      <4>2. PICK y \in calls : y.token = d.token /\ d = [y EXCEPT !.leaving = TRUE]
        BY <2>2
      <4>3. x = y
        BY <3>2, <4>1, <4>2 DEF LineInv, Requested
      <4> QED
        BY <4>1, <4>2, <4>3
    <3> QED
      BY <2>1, <3>1, <3>2 DEF Requested
  <2>6. Progress!NoProgressAfterNotice'
    BY <2>1, <2>2 DEF LineInv, Reported, Requested, Progress!NoProgressAfterNotice
  <2>7. Progress!OneWriter'
    <3>1. ASSUME NEW c \in calls', NEW d \in calls', Progress!MayWrite(c), Progress!MayWrite(d), c.of = d.of
          PROVE  c = d
      <4>1. PICK x \in calls : x.of = c.of /\ x.at = c.at /\ x.token = c.token /\ c = [x EXCEPT !.leaving = TRUE]
        BY <2>2
      <4>2. PICK y \in calls : y.of = d.of /\ y.at = d.at /\ y.token = d.token /\ d = [y EXCEPT !.leaving = TRUE]
        BY <2>2
      <4>3. x = y
        BY <3>1, <4>1, <4>2 DEF LineInv, Progress!OneWriter, Progress!MayWrite
      <4> QED
        BY <4>1, <4>2, <4>3
    <3> QED
      BY <3>1 DEF Progress!OneWriter, Progress!MayWrite
  <2> QED
    BY <2>3, <2>4, <2>5, <2>6, <2>7 DEF LineInv
<1> QED
  BY <1>1, <1>2, <1>3, <1>4, <1>5, <1>6, <1>7

\* Somebody is told: no report is under way, and before the final notice behind an
\* enabled progress every row was checked.
LEMMA PublishStep == ASSUME LineInv, NEW j \in Job, Progress!Publish(j) PROVE LineInv'
<1>1. UNCHANGED <<job, row, report, calls, pass, enabled>> /\ report.at = "idle"
  BY DEF LineInv, Reported, Progress!Publish, Progress!NotificationReady, Progress!Idle
<1>2. \A c \in calls : c.token = "earlier" \/ (c.token = "dropped" /\ c.leaving)
  BY <1>1 DEF LineInv, LineTyped, CallType, Requested
<1>3. group.final = "none"
  BY DEF Progress!Publish, Progress!Listed
<1>4. /\ group' \in [sealed : BOOLEAN, attention : Job \cup {None},
                     final : {"none", "gated", "open"}, told : SUBSET Job]
      /\ \/ group'.final = "none"
         \/ /\ \A k \in Job : job[k] = "ended"
            /\ group'.final = "gated" => \A k \in Job : row[k].checked
  <2>1. CASE Progress!AllEnded
    BY <2>1 DEF LineInv, LineTyped, Progress!Publish, Progress!AllEnded, Progress!NotificationReady,
            Progress!Terminal
  <2>2. CASE ~Progress!AllEnded
    BY <1>3, <2>2 DEF LineInv, LineTyped, Progress!Publish
  <2> QED
    BY <2>1, <2>2
<1>5. LineTyped'
  BY <1>1, <1>4 DEF LineInv, LineTyped
<1>6. Reported'
  BY <1>1, <1>4 DEF LineInv, Reported, Progress!Idle
<1>7. Requested'
  BY <1>1 DEF LineInv, Requested
<1>8. Progress!NoProgressAfterNotice'
  BY <1>1, <1>2, <1>4 DEF LineInv, LineTyped, CallType, Progress!NoProgressAfterNotice
<1>9. Progress!OneWriter'
  BY <1>1 DEF LineInv, Progress!OneWriter, Progress!MayWrite
<1> QED
  BY <1>5, <1>6, <1>7, <1>8, <1>9 DEF LineInv

\* The progress is given up between two reports.
LEMMA DisableStep == ASSUME LineInv, Progress!Disable PROVE LineInv'
<1>1. UNCHANGED <<job, row, report, calls, pass, group>> /\ report.at = "idle" /\ enabled' \in BOOLEAN
  BY DEF Progress!Disable, Progress!Idle
<1>2. LineTyped'
  BY <1>1 DEF LineInv, LineTyped
<1>3. Reported' /\ Requested'
  BY <1>1 DEF LineInv, Reported, Requested, Progress!Idle
<1>4. Progress!NoProgressAfterNotice' /\ Progress!OneWriter'
  BY <1>1 DEF LineInv, Progress!NoProgressAfterNotice, Progress!OneWriter, Progress!MayWrite
<1> QED
  BY <1>2, <1>3, <1>4 DEF LineInv

\* A restart leaves its requests to the adapter, which goes on with those that write.
LEMMA RestartStep == ASSUME LineInv, Progress!Restart PROVE LineInv'
<1>1. /\ report' = Progress!Idle /\ pass' = Progress!NoPass /\ enabled' = TRUE
      /\ calls' = {[c EXCEPT !.token = "earlier"] : c \in calls}
      /\ UNCHANGED <<job, row, group>>
  BY DEF Progress!Restart
<1>2. ASSUME NEW c \in calls'
      PROVE  c \in CallType /\ c.token = "earlier"
             /\ \E d \in calls : /\ d.of = c.of /\ d.at = c.at /\ d.leaving = c.leaving
                                 /\ c = [d EXCEPT !.token = "earlier"]
  BY <1>1 DEF LineInv, LineTyped, CallType
<1>3. LineTyped'
  BY <1>1, <1>2 DEF LineInv, LineTyped, Progress!Idle, Progress!NoPass, PassType
<1>4. Reported'
  BY <1>1 DEF LineInv, Reported, Progress!Idle
<1>5. Requested'
  BY <1>1, <1>2 DEF LineInv, Requested, Progress!Idle
<1>6. Progress!NoProgressAfterNotice'
  BY <1>1, <1>2 DEF LineInv, Progress!NoProgressAfterNotice
<1>7. Progress!OneWriter'
  BY <1>1, <1>2 DEF LineInv, Progress!OneWriter, Progress!MayWrite
<1> QED
  BY <1>3, <1>4, <1>5, <1>6, <1>7 DEF LineInv

\* recover() waits until no request is left, or none but those of an adapter that stops.
LEMMA RecoverStep == ASSUME LineInv, Progress!Recover PROVE LineInv'
<1>1. (\A c \in calls : c.leaving) /\ UNCHANGED <<job, report, calls, pass, enabled, group>>
  BY DEF Progress!Recover, Progress!Drained, Progress!Listening, LineInv, Requested
<1>2. row' \in [Job -> RowType]
  BY DEF LineInv, LineTyped, RowType, Status, Progress!Recover
<1> QED
  BY <1>1, <1>2, AsideKeeps DEF LineInv, LineTyped, Aside

\* Every step of the progress of jobs keeps the invariant.
LEMMA LineStep == ASSUME LineInv, [Progress!Next]_progressVars PROVE LineInv'
<1>1. CASE UNCHANGED progressVars
  <2>1. UNCHANGED <<job, row, report, calls, pass, enabled, group>>
    BY <1>1 DEF progressVars
  <2> QED
    BY <2>1, FewerKeeps
<1>2. CASE Progress!Next
  BY <1>2, JobSteps, RowSteps, PassCloseStep, PassEndStep, AdapterSteps, ReportSteps, PublishStep, DisableStep, RestartStep,
     RecoverStep
  DEF Progress!Next, Progress!Adapter, Progress!Reporting, Progress!Recovering, Progress!Announcing
<1> QED
  BY <1>1, <1>2

LEMMA LineStart == Progress!Init => LineInv
  BY DEF Progress!Init, LineInv, LineTyped, RowType, Status, Reported, Requested, Progress!Idle, Progress!NoRow,
         Progress!NoPass, PassType, Progress!NoProgressAfterNotice, Progress!OneWriter, Progress!MayWrite

\* When the final notice is queued or somebody is asked for, no request of this process
\* can still write a status line over it, and of each job one request writes at a time:
\* with any jobs, phases, failures and restarts.
THEOREM NoticeLastAlways == Spec => []NoticeIsLastWord
<1>1. Init => LineInv
  BY LineStart DEF Init
<1>2. LineInv /\ [Next]_vars => LineInv'
  <2>1. [Next]_vars => [Progress!Next]_progressVars
    BY DEF Next, vars, progressVars
  <2> QED
    BY <2>1, LineStep
<1>3. LineInv => NoticeIsLastWord
  BY DEF LineInv, NoticeIsLastWord
<1> QED
  BY <1>1, <1>2, <1>3, PTL DEF Spec


(***************************************************************************)
(* The notices of updates: the invariant.                                   *)
(***************************************************************************)
Steps == {"free", "look", "post", "search", "session", "verify"}
Makes == {"none", "created", "existing"}
EventType == [status : {"absent", "queued", "completed", "by_hand", "needs_review", "dead_letter"},
              valid : BOOLEAN, filed : BOOLEAN]
NoteType == [status : {"none", "pending", "delivering", "posted", "reported", "needs_review"},
             refused : BOOLEAN, post : Makes, due : BOOLEAN]
WorkerType == [at : {"loop", "wait", "publish", "save", "mark", "down"}, of : Updates!Event \cup {0}]
RequestType == [at : Steps, of : Updates!Event \cup {0}, post : Makes]
ThreadType == [posts : Nat, coming : Nat, session : BOOLEAN]

\* The types, for every value of the bounds.
NoteTyped ==
    /\ event \in [Updates!Event -> EventType] /\ notice \in [Updates!Event -> NoteType]
    /\ file \in [Updates!Event -> Updates!Results]
    /\ worker \in WorkerType /\ call \in [Updates!Slot -> RequestType]
    /\ thread \in [Updates!Event -> ThreadType]

Busy(k) == call[k].at # "free"

\* The worker waits for its own request only, and two requests for an event that was
\* not crossed are one.
Served ==
    /\ Busy("awaited") => worker.at = "wait" /\ worker.of = call["awaited"].of
    /\ \A k \in Updates!Slot : Busy(k) => call[k].of \in Updates!Event
    /\ Busy("awaited") /\ Busy("orphan") /\ call["awaited"].of = call["orphan"].of =>
         call["awaited"].of \in crossed

\* A request that has still to look or to post comes after nothing that is on its way.
Unposted(k) == call[k].at \in {"look", "post"} /\ call[k].of \notin crossed =>
    thread[call[k].of].coming = 0 /\ (call[k].at = "post" => thread[call[k].of].posts = 0)

\* A request that found the post, or set the session, did.
Seen(k) ==
    /\ call[k].at = "session" /\ call[k].post # "created" => thread[call[k].of].posts > 0
    /\ call[k].at = "verify" => thread[call[k].of].session

Told(e) == thread[e].posts > 0 /\ thread[e].session

\* A row that says so was told; only an event that came, and can be rendered, has a row.
Noted(e) ==
    /\ notice[e].status = "posted" /\ ~notice[e].refused => Told(e)
    /\ notice[e].status # "none" => event[e].valid /\ event[e].status # "absent"

\* What becomes of an open event while nobody but the operator closes it.
Loose == {"queued", "by_hand", "dead_letter"}

\* The event in the worker's hands was open, its row is as the worker left it, and so is
\* its result, unless it was put aside.
InHand ==
    /\ worker.at \in {"wait", "publish", "save", "mark"} => worker.of \in Updates!Event
    /\ worker.at = "wait" => notice[worker.of].status = "delivering"
    /\ worker.at \in {"publish", "save", "mark"} => notice[worker.of].status = "posted"
    /\ worker.at \in {"wait", "publish", "save"} => event[worker.of].status \in Loose
    /\ worker.at = "save" => file[worker.of] \in {Updates!Result(worker.of), Updates!Aside}

\* What the requests and the thread tell of each other.
ThreadInv ==
    /\ Served /\ Updates!PostedOnce
    /\ \A k \in Updates!Slot : Unposted(k) /\ Seen(k)

\* What the Dispatcher keeps.
StoreInv == (\A e \in Updates!Event : Noted(e)) /\ InHand /\ Updates!CompletedIsPosted

NoticeInv == NoteTyped /\ ThreadInv /\ StoreInv

(***************************************************************************)
(* The notices of updates: the steps.                                       *)
(***************************************************************************)
\* The requests and the thread stay, and so does a worker that waits.
LEMMA ThreadKept ==
    ASSUME NoticeInv, UNCHANGED <<call, thread, crossed>>, worker.at = "wait" => worker' = worker
    PROVE  ThreadInv'
<1>1. Served'
  BY DEF NoticeInv, ThreadInv, Served, Busy
<1>2. Updates!PostedOnce' /\ \A k \in Updates!Slot : Unposted(k)' /\ Seen(k)'
  BY DEF NoticeInv, ThreadInv, Updates!PostedOnce, Unposted, Seen
<1> QED
  BY <1>1, <1>2 DEF ThreadInv

\* Posts are not taken back, nor is the session.
Grows == \A e \in Updates!Event :
    (thread[e].posts > 0 => thread'[e].posts > 0) /\ (thread[e].session => thread'[e].session)

\* The Dispatcher keeps what it has.
LEMMA StoreKept == ASSUME NoticeInv, UNCHANGED <<event, notice, file, worker>>, Grows PROVE StoreInv'
<1>1. \A e \in Updates!Event : Noted(e)'
  BY DEF NoticeInv, StoreInv, Noted, Told, Grows
<1>2. InHand'
  BY DEF NoticeInv, StoreInv, InHand, Updates!Result
<1>3. Updates!CompletedIsPosted'
  BY DEF NoticeInv, StoreInv, Updates!CompletedIsPosted, Grows
<1> QED
  BY <1>1, <1>2, <1>3 DEF StoreInv

\* An event comes.
LEMMA ArriveStep == ASSUME NoticeInv, NEW e \in Updates!Event, Updates!Arrive(e) PROVE NoticeInv'
<1> USE DEF NoticeInv
<1>1. /\ event[e].status = "absent" /\ UNCHANGED <<notice, file, worker, call, thread, crossed>>
      /\ \E valid \in BOOLEAN : event' = [event EXCEPT ![e] = [status |-> "queued", valid |-> valid, filed |-> FALSE]]
  BY DEF Updates!Arrive
<1>2. event' \in [Updates!Event -> EventType] /\ event'[e].status = "queued"
      /\ \A d \in Updates!Event : d # e => event'[d] = event[d]
  BY <1>1 DEF NoteTyped, EventType
<1>3. NoteTyped'
  BY <1>1, <1>2 DEF NoteTyped
<1>4. ThreadInv'
  BY <1>1, ThreadKept
<1>5. \A d \in Updates!Event : Noted(d)'
  BY <1>1, <1>2 DEF StoreInv, Noted, Told
<1>6. InHand'
  BY <1>1, <1>2 DEF StoreInv, InHand, Loose, Updates!Result
<1>7. Updates!CompletedIsPosted'
  BY <1>1, <1>2 DEF StoreInv, Updates!CompletedIsPosted
<1> QED
  BY <1>3, <1>4, <1>5, <1>6, <1>7 DEF StoreInv


\* One row changes; the event, its result and the thread stay.
LEMMA RowMoves ==
    ASSUME NoticeInv, NEW e \in Updates!Event, NEW r \in NoteType,
           notice' = [notice EXCEPT ![e] = r], UNCHANGED <<event, file, thread>>,
           r.status = "posted" /\ ~r.refused => Told(e),
           r.status # "none" => notice[e].status # "none" \/ (event[e].status # "absent" /\ event[e].valid)
    PROVE  /\ notice' \in [Updates!Event -> NoteType]
           /\ notice'[e] = r /\ \A d \in Updates!Event : d # e => notice'[d] = notice[d]
           /\ \A d \in Updates!Event : Noted(d)'
           /\ Updates!CompletedIsPosted'
<1>1. /\ notice' \in [Updates!Event -> NoteType]
      /\ notice'[e] = r /\ \A d \in Updates!Event : d # e => notice'[d] = notice[d]
  BY DEF NoticeInv, NoteTyped
<1>2. ASSUME NEW d \in Updates!Event PROVE Noted(d)'
  <2>1. CASE d = e
    BY <1>1, <2>1 DEF NoticeInv, StoreInv, Noted, Told
  <2>2. CASE d # e
    BY <1>1, <2>2 DEF NoticeInv, StoreInv, Noted, Told
  <2> QED
    BY <2>1, <2>2
<1>3. Updates!CompletedIsPosted'
  BY DEF NoticeInv, StoreInv, Updates!CompletedIsPosted
<1> QED
  BY <1>1, <1>2, <1>3

\* A row's delay ends.
LEMMA DueStep == ASSUME NoticeInv, NEW e \in Updates!Event, Updates!Due(e) PROVE NoticeInv'
<1> DEFINE r == [notice[e] EXCEPT !.due = TRUE]
<1>1. notice' = [notice EXCEPT ![e] = r] /\ UNCHANGED <<event, file, worker, call, thread, crossed>>
  BY DEF Updates!Due
<1>2. r \in NoteType /\ r.status = notice[e].status /\ r.refused = notice[e].refused /\ r.post = notice[e].post
  BY DEF NoticeInv, NoteTyped, NoteType
<1> HIDE DEF r
<1>3. r.status = "posted" /\ ~r.refused => Told(e)
  BY <1>2 DEF NoticeInv, StoreInv, Noted
<1>4. /\ notice' \in [Updates!Event -> NoteType]
      /\ notice'[e] = r /\ \A d \in Updates!Event : d # e => notice'[d] = notice[d]
      /\ \A d \in Updates!Event : Noted(d)'
      /\ Updates!CompletedIsPosted'
  BY <1>1, <1>2, <1>3, RowMoves
<1>5. NoteTyped'
  BY <1>1, <1>4 DEF NoticeInv, NoteTyped
<1>6. \A d \in Updates!Event : /\ notice'[d].status = notice[d].status /\ notice'[d].refused = notice[d].refused
                               /\ notice'[d].post = notice[d].post
  BY <1>2, <1>4
<1>7. InHand'
  BY <1>1, <1>6 DEF NoticeInv, StoreInv, InHand, Updates!Result
<1>8. ThreadInv'
  BY <1>1, ThreadKept
<1> QED
  BY <1>4, <1>5, <1>7, <1>8 DEF NoticeInv, StoreInv

\* The worker is free and takes up, or closes, an event's row.
LEMMA IdleRowMoves ==
    ASSUME NoticeInv, NEW e \in Updates!Event, NEW r \in NoteType, worker = Updates!Idle,
           notice' = [notice EXCEPT ![e] = r], UNCHANGED <<event, file, worker, call, thread, crossed>>,
           r.status = "posted" /\ ~r.refused => Told(e),
           r.status # "none" => notice[e].status # "none" \/ (event[e].status # "absent" /\ event[e].valid)
    PROVE  NoticeInv'
<1>1. /\ notice' \in [Updates!Event -> NoteType]
      /\ \A d \in Updates!Event : Noted(d)'
      /\ Updates!CompletedIsPosted'
  BY RowMoves
<1>2. NoteTyped'
  BY <1>1 DEF NoticeInv, NoteTyped
<1>3. InHand'
  BY DEF InHand, Updates!Idle
<1>4. ThreadInv'
  BY ThreadKept
<1> QED
  BY <1>1, <1>2, <1>3, <1>4 DEF NoticeInv, StoreInv

LEMMA EnsureStep == ASSUME NoticeInv, NEW e \in Updates!Event, Updates!Ensure(e) PROVE NoticeInv'
<1>1. /\ worker = Updates!Idle /\ event[e].status = "queued" /\ notice[e].status = "none"
      /\ UNCHANGED <<file, worker, call, thread, crossed>>
  BY DEF Updates!Ensure, Updates!Unseen
<1>2. CASE event[e].valid
  <2> DEFINE r == [notice[e] EXCEPT !.status = "pending"]
  <2>1. notice' = [notice EXCEPT ![e] = r] /\ event' = event
    BY <1>2 DEF Updates!Ensure
  <2>2. r \in NoteType /\ r.status = "pending"
    BY DEF NoticeInv, NoteTyped, NoteType
  <2> HIDE DEF r
  <2> QED
    BY <1>1, <1>2, <2>1, <2>2, IdleRowMoves
<1>3. CASE ~event[e].valid
  <2>1. notice' = notice /\ event' = [event EXCEPT ![e].status = "dead_letter"]
    BY <1>3 DEF Updates!Ensure
  <2>2. /\ event' \in [Updates!Event -> EventType]
        /\ event'[e].status = "dead_letter" /\ event'[e].valid = event[e].valid
        /\ \A d \in Updates!Event : d # e => event'[d] = event[d]
    BY <2>1 DEF NoticeInv, NoteTyped, EventType
  <2>3. NoteTyped'
    BY <1>1, <2>1, <2>2 DEF NoticeInv, NoteTyped
  <2>4. \A d \in Updates!Event : Noted(d)'
    BY <1>1, <1>3, <2>1, <2>2 DEF NoticeInv, StoreInv, Noted, Told
  <2>5. InHand'
    BY <1>1 DEF InHand, Updates!Idle
  <2>6. Updates!CompletedIsPosted'
    BY <1>1, <2>1, <2>2 DEF NoticeInv, StoreInv, Updates!CompletedIsPosted
  <2>7. ThreadInv'
    BY <1>1, ThreadKept
  <2> QED
    BY <2>3, <2>4, <2>5, <2>6, <2>7 DEF NoticeInv, StoreInv
<1> QED
  BY <1>2, <1>3

LEMMA CatchUpStep == ASSUME NoticeInv, NEW e \in Updates!Event, Updates!CatchUp(e) PROVE NoticeInv'
<1> DEFINE r == [notice[e] EXCEPT !.status =
                    IF event[e].status \in Updates!Done THEN "reported" ELSE "needs_review"]
<1>1. /\ worker = Updates!Idle /\ notice[e].status \in {"pending", "posted"}
      /\ notice' = [notice EXCEPT ![e] = r]
      /\ UNCHANGED <<event, file, worker, call, thread, crossed>>
  BY DEF Updates!CatchUp, Updates!Chosen, Updates!Available
<1>2. r \in NoteType /\ r.status # "posted"
  BY DEF NoticeInv, NoteTyped, NoteType
<1> HIDE DEF r
<1> QED
  BY <1>1, <1>2, IdleRowMoves

\* An event that is open and has a row came, and was not closed by the worker.
LEMMA ChosenOpen ==
    ASSUME NoticeInv, NEW e \in Updates!Event, Updates!Chosen(e), Updates!Open(e)
    PROVE  event[e].status \in Loose /\ worker = Updates!Idle /\ notice[e].status # "none"
<1>1. event[e] \in EventType
  BY DEF NoticeInv, NoteTyped
<1> QED
  BY <1>1 DEF EventType, Loose, NoticeInv, StoreInv, Noted, Updates!Chosen, Updates!Available,
              Updates!Open, Updates!Done

LEMMA FinishPostedStep == ASSUME NoticeInv, NEW e \in Updates!Event, Updates!FinishPosted(e) PROVE NoticeInv'
<1>1. /\ notice[e].status = "posted" /\ worker' = [at |-> "publish", of |-> e]
      /\ UNCHANGED <<event, notice, file, call, thread, crossed>>
  BY DEF Updates!FinishPosted
<1>2. event[e].status \in Loose /\ worker.at # "wait"
  BY ChosenOpen DEF Updates!FinishPosted, Updates!Idle
<1>3. NoteTyped'
  BY <1>1 DEF NoticeInv, NoteTyped, WorkerType
<1>4. ThreadInv'
  BY <1>1, <1>2, ThreadKept
<1>5. \A d \in Updates!Event : Noted(d)'
  BY <1>1 DEF NoticeInv, StoreInv, Noted, Told
<1>6. InHand'
  BY <1>1, <1>2 DEF InHand
<1>7. Updates!CompletedIsPosted'
  BY <1>1 DEF NoticeInv, StoreInv, Updates!CompletedIsPosted
<1> QED
  BY <1>3, <1>4, <1>5, <1>6, <1>7 DEF NoticeInv, StoreInv


\* The worker publishes the result, closes the event and then the row.
LEMMA PublishResultStep == ASSUME NoticeInv, Updates!Publish PROVE NoticeInv'
<1> DEFINE e == worker.of
<1>1. /\ worker.at = "publish" /\ UNCHANGED <<event, notice, call, thread, crossed>>
      /\ \/ worker' = [worker EXCEPT !.at = "save"] /\ file' = [file EXCEPT ![e] = Updates!Result(e)]
         \/ worker' = Updates!Idle /\ file' = file
  BY DEF Updates!Publish
<1>2. e \in Updates!Event /\ event[e].status \in Loose /\ notice[e].status = "posted"
  BY <1>1 DEF NoticeInv, StoreInv, InHand
<1>3. Updates!Result(e) \in Updates!Results
  BY <1>2 DEF NoticeInv, NoteTyped, NoteType, Makes, Updates!Result, Updates!Results
<1>4. /\ file' \in [Updates!Event -> Updates!Results]
      /\ \A d \in Updates!Event : d # e => file'[d] = file[d]
      /\ \/ worker' = [at |-> "save", of |-> e] /\ file'[e] = Updates!Result(e)
         \/ worker' = Updates!Idle
  BY <1>1, <1>2, <1>3 DEF NoticeInv, NoteTyped, WorkerType
<1>5. NoteTyped'
  BY <1>1, <1>2, <1>4 DEF NoticeInv, NoteTyped, WorkerType, Updates!Idle
<1>6. ThreadInv'
  BY <1>1, ThreadKept
<1>7. \A d \in Updates!Event : Noted(d)'
  BY <1>1 DEF NoticeInv, StoreInv, Noted, Told
<1>8. InHand'
  <2>1. CASE worker' = Updates!Idle
    BY <2>1 DEF InHand, Updates!Idle
  <2>2. CASE worker' = [at |-> "save", of |-> e] /\ file'[e] = Updates!Result(e)
    BY <1>1, <1>2, <2>2 DEF InHand, Updates!Result
  <2> QED
    BY <1>4, <2>1, <2>2
<1>9. Updates!CompletedIsPosted'
  BY <1>1, <1>2, <1>4 DEF Loose, NoticeInv, StoreInv, Updates!CompletedIsPosted
<1> QED
  BY <1>5, <1>6, <1>7, <1>8, <1>9 DEF NoticeInv, StoreInv

LEMMA SaveStep == ASSUME NoticeInv, Updates!Save PROVE NoticeInv'
<1> DEFINE e == worker.of
           to == IF Updates!Result(e)[1] = "completed" THEN "completed" ELSE "needs_review"
<1>1. /\ worker.at = "save" /\ e \in Updates!Event /\ notice[e].status = "posted"
      /\ event[e].status \in Loose /\ file[e] \in {Updates!Result(e), Updates!Aside}
  BY DEF NoticeInv, StoreInv, InHand, Updates!Save
<1>2. to = IF notice[e].refused THEN "needs_review" ELSE "completed"
  BY DEF Updates!Result
<1>3. /\ worker' \in {[worker EXCEPT !.at = "mark"], Updates!Idle}
      /\ UNCHANGED <<notice, file, call, thread, crossed>>
      /\ \/ event[e].status = "queued" /\ event' = [event EXCEPT ![e].status = to, ![e].filed = TRUE]
         \/ event' = event
  BY DEF Updates!Save
<1> HIDE DEF to
<1>4. /\ event' \in [Updates!Event -> EventType]
      /\ \A d \in Updates!Event : \/ event'[d] = event[d]
                                  \/ d = e /\ event'[d].status = to /\ event'[d].valid = event[d].valid
  BY <1>1, <1>2, <1>3 DEF NoticeInv, NoteTyped, EventType
<1>5. worker' \in {[at |-> "mark", of |-> e], Updates!Idle}
  BY <1>3 DEF NoticeInv, NoteTyped, WorkerType
<1>6. NoteTyped'
  BY <1>1, <1>3, <1>4, <1>5 DEF NoticeInv, NoteTyped, WorkerType, Updates!Idle
<1>7. ThreadInv'
  BY <1>1, <1>3, ThreadKept
<1>8. \A d \in Updates!Event : Noted(d)'
  BY <1>2, <1>3, <1>4 DEF NoticeInv, StoreInv, Noted, Told
<1>9. InHand'
  BY <1>1, <1>3, <1>5 DEF InHand, Updates!Idle
<1>10. Updates!CompletedIsPosted'
  <2>1. ASSUME ~notice[e].refused PROVE Told(e) /\ file[e][1] \in {"completed", "aside"}
    BY <1>1, <2>1 DEF NoticeInv, StoreInv, Noted, Updates!Result, Updates!Aside
  <2> QED
    BY <1>1, <1>2, <1>3, <1>4, <2>1 DEF NoticeInv, StoreInv, Updates!CompletedIsPosted, Told
<1> QED
  BY <1>6, <1>7, <1>8, <1>9, <1>10 DEF NoticeInv, StoreInv

LEMMA MarkStep == ASSUME NoticeInv, Updates!Mark PROVE NoticeInv'
<1> DEFINE e == worker.of
           r == [notice[e] EXCEPT !.status =
                    IF Updates!Result(e)[1] = "completed" THEN "reported" ELSE "needs_review"]
<1>1. worker.at = "mark" /\ e \in Updates!Event /\ notice[e].status = "posted"
  BY DEF NoticeInv, StoreInv, InHand, Updates!Mark
<1>2. /\ notice' = [notice EXCEPT ![e] = r] /\ worker' = Updates!Idle
      /\ UNCHANGED <<event, file, call, thread, crossed>>
  BY DEF Updates!Mark
<1>3. r \in NoteType /\ r.refused = notice[e].refused /\ r.status \in {"reported", "needs_review"}
  BY <1>1 DEF NoticeInv, NoteTyped, NoteType
<1> HIDE DEF r
<1>4. r.status = "posted" /\ ~r.refused => Told(e)
  BY <1>1, <1>3 DEF NoticeInv, StoreInv, Noted
<1>5. /\ notice' \in [Updates!Event -> NoteType]
      /\ \A d \in Updates!Event : Noted(d)'
      /\ Updates!CompletedIsPosted'
  BY <1>1, <1>2, <1>3, <1>4, RowMoves
<1>6. NoteTyped'
  BY <1>2, <1>5 DEF NoticeInv, NoteTyped, WorkerType, Updates!Idle
<1>7. InHand'
  BY <1>2 DEF InHand, Updates!Idle
<1>8. ThreadInv'
  BY <1>1, <1>2, ThreadKept
<1> QED
  BY <1>5, <1>6, <1>7, <1>8 DEF NoticeInv, StoreInv

\* What the operator does by hand leaves an event loose, and at most its result aside.
LEMMA ByHandStep ==
    ASSUME NoticeInv, NEW e \in Updates!Event, NEW status \in Loose, NEW filed \in BOOLEAN,
           Updates!ByHand(e, status, filed), event[e].status # "absent",
           file' \in {file, [file EXCEPT ![e] = Updates!Aside]}
    PROVE  NoticeInv'
<1>1. /\ event' = [event EXCEPT ![e].status = status, ![e].filed = filed]
      /\ UNCHANGED <<notice, worker, call, thread, crossed>>
  BY DEF Updates!ByHand
<1>2. /\ event' \in [Updates!Event -> EventType]
      /\ event'[e].status = status /\ event'[e].valid = event[e].valid
      /\ \A d \in Updates!Event : d # e => event'[d] = event[d]
  BY <1>1 DEF NoticeInv, NoteTyped, EventType, Loose
<1>3. /\ file' \in [Updates!Event -> Updates!Results]
      /\ \A d \in Updates!Event : file'[d] = file[d] \/ (d = e /\ file'[d] = Updates!Aside)
  BY DEF NoticeInv, NoteTyped, Updates!Aside, Updates!Results
<1>4. NoteTyped'
  BY <1>1, <1>2, <1>3 DEF NoticeInv, NoteTyped
<1>5. ThreadInv'
  BY <1>1, ThreadKept
<1>6. \A d \in Updates!Event : Noted(d)'
  BY <1>1, <1>2 DEF NoticeInv, StoreInv, Noted, Told, Loose
<1>7. InHand'
  BY <1>1, <1>2, <1>3 DEF NoticeInv, StoreInv, InHand, Updates!Result
<1>8. Updates!CompletedIsPosted'
  BY <1>1, <1>2, <1>3 DEF NoticeInv, StoreInv, Updates!CompletedIsPosted, Loose
<1> QED
  BY <1>4, <1>5, <1>6, <1>7, <1>8 DEF NoticeInv, StoreInv

LEMMA HandsStep ==
    ASSUME NoticeInv, NEW e \in Updates!Event,
           Updates!Retry(e) \/ Updates!Complete(e) \/ Updates!DeadLetter(e)
    PROVE  NoticeInv'
<1>1. event[e].filed \in BOOLEAN
  BY DEF NoticeInv, NoteTyped, EventType
<1>2. CASE Updates!Retry(e)
  BY <1>2, ByHandStep DEF Updates!Retry, Loose
<1>3. CASE Updates!Complete(e)
  BY <1>1, <1>3, ByHandStep DEF Updates!Complete, Loose
<1>4. CASE Updates!DeadLetter(e)
  BY <1>1, <1>4, ByHandStep DEF Updates!DeadLetter, Loose
<1> QED
  BY <1>2, <1>3, <1>4

\* After a restart what was being delivered is pending, and nobody waits for it.
LEMMA RestartedStep == ASSUME NoticeInv, Updates!Restart PROVE NoticeInv'
<1>1. /\ worker.at = "down" /\ worker' = Updates!Idle
      /\ notice' = [e \in Updates!Event |-> Updates!Recovered(e)]
      /\ UNCHANGED <<event, file, call, thread, crossed>>
  BY DEF Updates!Restart
<1>2. \A e \in Updates!Event :
         /\ Updates!Recovered(e) \in NoteType /\ Updates!Recovered(e).refused = notice[e].refused
         /\ \/ Updates!Recovered(e).status = notice[e].status
            \/ notice[e].status = "delivering" /\ Updates!Recovered(e).status = "pending"
  <2> TAKE e \in Updates!Event
  <2>1. notice[e] \in NoteType
    BY DEF NoticeInv, NoteTyped
  <2> QED
    BY <2>1 DEF NoteType, Updates!Recovered
<1>3. NoteTyped'
  BY <1>1, <1>2 DEF NoticeInv, NoteTyped, WorkerType, Updates!Idle
<1>4. ThreadInv'
  BY <1>1, ThreadKept
<1>5. \A d \in Updates!Event : Noted(d)'
  BY <1>1, <1>2 DEF NoticeInv, StoreInv, Noted, Told
<1>6. InHand'
  BY <1>1 DEF InHand, Updates!Idle
<1>7. Updates!CompletedIsPosted'
  BY <1>1 DEF NoticeInv, StoreInv, Updates!CompletedIsPosted
<1> QED
  BY <1>3, <1>4, <1>5, <1>6, <1>7 DEF NoticeInv, StoreInv


\* A delivery begins; a request or a post for the event that nobody waits for crosses it.
LEMMA DeliverStep == ASSUME NoticeInv, NEW e \in Updates!Event, Updates!Deliver(e) PROVE NoticeInv'
<1> DEFINE r == [notice[e] EXCEPT !.status = "delivering"]
           new == [Updates!Free EXCEPT !.at = "look", !.of = e]
<1>1. /\ notice' = [notice EXCEPT ![e] = r] /\ worker' = [at |-> "wait", of |-> e]
      /\ call' = [call EXCEPT !["awaited"] = new] /\ UNCHANGED <<event, file, thread>>
      /\ crossed' = IF Updates!Straying(e) THEN crossed \cup {e} ELSE crossed
  BY DEF Updates!Deliver
<1>2. event[e].status \in Loose /\ notice[e].status # "none" /\ worker.at = "loop"
  BY ChosenOpen DEF Updates!Deliver, Updates!Idle
<1>3. r \in NoteType /\ r.status = "delivering"
  BY DEF NoticeInv, NoteTyped, NoteType
<1>4. new \in RequestType /\ new.at = "look" /\ new.of = e /\ new.post = "none"
  <2>1. Updates!Free \in RequestType /\ Updates!Free.post = "none"
    BY DEF Updates!Free, RequestType, Steps, Makes
  <2> QED
    BY <2>1 DEF RequestType, Steps
<1> HIDE DEF r, new
<1>5. /\ notice' \in [Updates!Event -> NoteType] /\ notice'[e] = r
      /\ \A d \in Updates!Event : Noted(d)'
      /\ Updates!CompletedIsPosted'
  BY <1>1, <1>2, <1>3, RowMoves
<1>6. /\ call' \in [Updates!Slot -> RequestType] /\ call'["awaited"] = new /\ call'["orphan"] = call["orphan"]
  BY <1>1, <1>4 DEF NoticeInv, NoteTyped, RequestType, Updates!Slot, Steps, Makes
<1>7. NoteTyped'
  BY <1>1, <1>5, <1>6 DEF NoticeInv, NoteTyped, WorkerType
<1>8. InHand'
  BY <1>1, <1>2, <1>3, <1>5 DEF InHand
<1>9. crossed \subseteq crossed'
      /\ (e \notin crossed' => ~(Busy("orphan") /\ call["orphan"].of = e) /\ ~(thread[e].coming > 0))
  BY <1>1 DEF Updates!Straying, Busy, Updates!Slot
<1>10. Served'
  BY <1>1, <1>4, <1>6, <1>9 DEF NoticeInv, ThreadInv, Served, Busy, Updates!Slot
<1>11. Updates!PostedOnce'
  BY <1>1, <1>9 DEF NoticeInv, ThreadInv, Updates!PostedOnce
<1>12. thread[e].coming \in Nat
  BY DEF NoticeInv, NoteTyped, ThreadType
<1>13. \A k \in Updates!Slot : Unposted(k)' /\ Seen(k)'
  BY <1>1, <1>4, <1>6, <1>9, <1>12 DEF NoticeInv, ThreadInv, Unposted, Seen, Updates!Slot
<1> QED
  BY <1>5, <1>7, <1>8, <1>10, <1>11, <1>13 DEF NoticeInv, StoreInv, ThreadInv

\* A post on its way arrives: no request that comes before it has still to post.
LEMMA LandsStep == ASSUME NoticeInv, NEW e \in Updates!Event, Updates!Lands(e) PROVE NoticeInv'
<1>1. /\ thread[e].coming > 0 /\ UNCHANGED <<event, notice, file, worker, call, crossed>>
      /\ thread' = [thread EXCEPT ![e] = [thread[e] EXCEPT !.coming = @ - 1, !.posts = @ + 1]]
  BY DEF Updates!Lands
<1>2. thread[e] \in ThreadType
  BY DEF NoticeInv, NoteTyped
<1> DEFINE t == [thread[e] EXCEPT !.coming = @ - 1, !.posts = @ + 1]
<1>3. t \in ThreadType /\ t.posts = thread[e].posts + 1 /\ t.coming = thread[e].coming - 1
      /\ t.session = thread[e].session
  <2>1. thread[e].coming - 1 \in Nat /\ thread[e].posts + 1 \in Nat
    BY <1>1, <1>2 DEF ThreadType
  <2> QED
    BY <1>2, <2>1 DEF ThreadType
<1> HIDE DEF t
<1>4. thread' \in [Updates!Event -> ThreadType] /\ thread'[e] = t
      /\ \A d \in Updates!Event : d # e => thread'[d] = thread[d]
  BY <1>1, <1>3 DEF NoticeInv, NoteTyped, t
<1>5. Grows
  BY <1>2, <1>3, <1>4 DEF Grows, ThreadType
<1>6. StoreInv'
  BY <1>1, <1>5, StoreKept
<1>7. NoteTyped'
  BY <1>1, <1>4 DEF NoticeInv, NoteTyped
<1>8. Served'
  BY <1>1 DEF NoticeInv, ThreadInv, Served, Busy
<1>9. Updates!PostedOnce'
  BY <1>1, <1>2, <1>3, <1>4 DEF NoticeInv, ThreadInv, Updates!PostedOnce, ThreadType
<1>10. \A k \in Updates!Slot : call[k].at # "free" => call[k].of \in Updates!Event
  BY DEF NoticeInv, ThreadInv, Served, Busy
<1>11. \A k \in Updates!Slot : Unposted(k)'
  <2> TAKE k \in Updates!Slot
  <2>1. CASE call[k].of = e
    BY <1>1, <1>2, <2>1 DEF NoticeInv, ThreadInv, Unposted, ThreadType
  <2>2. CASE call[k].of # e
    BY <1>1, <1>4, <1>10, <2>2 DEF NoticeInv, ThreadInv, Unposted
  <2> QED
    BY <2>1, <2>2
<1>12. \A k \in Updates!Slot : Seen(k)'
  BY <1>1, <1>5, <1>10 DEF NoticeInv, ThreadInv, Seen, Grows
<1> QED
  BY <1>6, <1>7, <1>8, <1>9, <1>11, <1>12 DEF NoticeInv, ThreadInv


\* The thread's posts stay, its sessions grow.
Settled ==
    /\ thread' \in [Updates!Event -> ThreadType]
    /\ \A e \in Updates!Event : /\ thread'[e].posts = thread[e].posts /\ thread'[e].coming = thread[e].coming
                                /\ thread[e].session => thread'[e].session

ToldNext(e) == thread'[e].posts > 0 /\ thread'[e].session

\* Requests end or change hands, none begins.
LEMMA CallsEnd ==
    ASSUME NoticeInv, Settled, call' \in [Updates!Slot -> RequestType], crossed' = crossed,
           \A k \in Updates!Slot : call'[k].at # "free" =>
               call'[k] = call[k] \/ (k = "orphan" /\ call'[k] = call["awaited"] /\ call'["awaited"].at = "free"),
           call'["awaited"].at # "free" => worker' = worker
    PROVE  ThreadInv'
<1>1. Served'
  BY DEF NoticeInv, ThreadInv, Served, Busy, Updates!Slot
<1>2. Updates!PostedOnce'
  BY DEF NoticeInv, ThreadInv, Updates!PostedOnce, Settled
<1>3. \A k \in Updates!Slot : call'[k].at # "free" => \E j \in Updates!Slot : call'[k] = call[j]
  BY DEF Updates!Slot
<1>4. \A k \in Updates!Slot : call'[k].at # "free" => call'[k].of \in Updates!Event
  BY <1>3 DEF NoticeInv, ThreadInv, Served, Busy
<1>5. \A k \in Updates!Slot : Unposted(k)'
  BY <1>3, <1>4 DEF NoticeInv, ThreadInv, Unposted, Settled
<1>6. \A k \in Updates!Slot : Seen(k)'
  BY <1>3, <1>4 DEF NoticeInv, ThreadInv, Seen, Settled
<1> QED
  BY <1>1, <1>2, <1>5, <1>6 DEF ThreadInv

\* The worker's row after the answer, or after none: a row that counts as told was.
LEMMA AnsweredRow ==
    ASSUME NoticeInv, Settled, worker.at = "wait", UNCHANGED <<event, file>>, NEW r \in NoteType,
           notice' = [notice EXCEPT ![worker.of] = r],
           \/ r.status = "pending" /\ worker' = Updates!Idle
           \/ r.status = "posted" /\ worker' = [worker EXCEPT !.at = "publish"]
              /\ (~r.refused => ToldNext(worker.of))
    PROVE  notice' \in [Updates!Event -> NoteType] /\ worker' \in WorkerType /\ StoreInv'
<1> DEFINE e == worker.of
<1>1. e \in Updates!Event /\ event[e].status \in Loose /\ notice[e].status = "delivering"
  BY DEF NoticeInv, StoreInv, InHand
<1>2. /\ notice' \in [Updates!Event -> NoteType]
      /\ notice'[e] = r /\ \A d \in Updates!Event : d # e => notice'[d] = notice[d]
  BY <1>1 DEF NoticeInv, NoteTyped
<1>3. \A d \in Updates!Event : Told(d) => Told(d)'
  BY DEF Told, Settled
<1>4. worker' = Updates!Idle \/ (worker' = [at |-> "publish", of |-> e] /\ r.status = "posted")
  BY DEF NoticeInv, NoteTyped, WorkerType
<1>5. \A d \in Updates!Event : d # e => Noted(d)'
  BY <1>2, <1>3 DEF NoticeInv, StoreInv, Noted
<1>6. /\ notice'[e].status = "posted" /\ ~notice'[e].refused =>
           thread'[e].posts > 0 /\ thread'[e].session
      /\ event'[e].valid /\ event'[e].status # "absent"
  BY <1>1, <1>2 DEF ToldNext, NoticeInv, StoreInv, Noted
<1>7. \A d \in Updates!Event : Noted(d)'
  BY <1>5, <1>6 DEF Noted, Told
<1>8. InHand'
  BY <1>1, <1>2, <1>4 DEF InHand, Updates!Idle
<1>9. Updates!CompletedIsPosted'
  BY <1>3 DEF NoticeInv, StoreInv, Updates!CompletedIsPosted, Told
<1>10. worker' \in WorkerType
  BY <1>1, <1>4 DEF WorkerType, Updates!Idle
<1> QED
  BY <1>2, <1>7, <1>8, <1>9, <1>10 DEF StoreInv

LEMMA Freed == Updates!Free \in RequestType /\ Updates!Free.at = "free"
  BY DEF Updates!Free, RequestType, Steps, Makes

\* The adapter's answer: "reported" only about a post that is there and a session that is set.
LEMMA AnswerStep ==
    ASSUME NoticeInv, NEW k \in Updates!Slot, Busy(k), Settled, UNCHANGED <<event, file, crossed>>,
           NEW outcome \in {"retryable", "permanent", "reported"}, NEW post \in Makes,
           Updates!Answer(k, outcome, post),
           outcome = "reported" => ToldNext(call[k].of)
    PROVE  NoticeInv'
<1>1. call' = [call EXCEPT ![k] = Updates!Free]
  BY DEF Updates!Answer
<1>2. /\ call' \in [Updates!Slot -> RequestType] /\ call'[k].at = "free"
      /\ \A j \in Updates!Slot : j # k => call'[j] = call[j]
  BY <1>1, Freed DEF NoticeInv, NoteTyped
<1>3. CASE k = "orphan"
  <2>1. UNCHANGED <<worker, notice>>
    BY <1>3 DEF Updates!Answer
  <2>2. ThreadInv'
    BY <1>2, <2>1, CallsEnd
  <2>3. StoreInv'
    BY <2>1, StoreKept DEF Settled, Grows
  <2>4. NoteTyped'
    BY <1>2, <2>1 DEF NoticeInv, NoteTyped, Settled
  <2> QED
    BY <2>2, <2>3, <2>4 DEF NoticeInv
<1>4. CASE k = "awaited"
  <2> DEFINE e == worker.of
             late == [notice[e] EXCEPT !.status = "pending", !.due = FALSE]
             done == [notice[e] EXCEPT !.status = "posted", !.refused = (outcome = "permanent"),
                                       !.post = IF post = "none" THEN @ ELSE post]
  <2>1. worker.at = "wait" /\ e = call[k].of
    BY <1>4 DEF NoticeInv, ThreadInv, Served
  <2>2. notice[e] \in NoteType
    BY <2>1 DEF NoticeInv, NoteTyped, StoreInv, InHand
  <2>3. late \in NoteType /\ late.status = "pending"
    BY <2>2 DEF NoteType
  <2>4. done \in NoteType /\ done.status = "posted" /\ (~done.refused => outcome # "permanent")
    BY <2>2 DEF NoteType
  <2>5. \/ outcome = "retryable" /\ worker' = Updates!Idle /\ notice' = [notice EXCEPT ![e] = late]
        \/ outcome # "retryable" /\ worker' = [worker EXCEPT !.at = "publish"] /\ notice' = [notice EXCEPT ![e] = done]
    BY <1>4 DEF Updates!Answer, Updates!Postpone, Updates!Postponed, Updates!Accept
  <2> HIDE DEF late, done
  <2>6. notice' \in [Updates!Event -> NoteType] /\ worker' \in WorkerType /\ StoreInv'
    <3>1. CASE outcome = "retryable"
      BY <2>1, <2>3, <2>5, <3>1, AnsweredRow
    <3>2. CASE outcome # "retryable"
      <4>1. ~done.refused => ToldNext(e)
        BY <2>1, <2>4, <3>2
      <4> QED
        BY <2>1, <2>4, <2>5, <3>2, <4>1, AnsweredRow
    <3> QED
      BY <3>1, <3>2
  <2>7. ThreadInv'
    BY <1>2, <1>4, CallsEnd
  <2>8. NoteTyped'
    BY <1>2, <2>6 DEF NoticeInv, NoteTyped, Settled
  <2> QED
    BY <2>6, <2>7, <2>8 DEF NoticeInv
<1> QED
  BY <1>3, <1>4 DEF Updates!Slot


LEMMA UnservedStep == ASSUME NoticeInv, Updates!Unserved PROVE NoticeInv'
<1>1. Busy("awaited") /\ "awaited" \in Updates!Slot
  BY DEF Updates!Unserved, Busy, Updates!Slot
<1>2. Settled
  BY DEF NoticeInv, NoteTyped, Updates!Unserved, Settled
<1>3. PICK outcome \in {"retryable", "permanent"} : Updates!Answer("awaited", outcome, "none")
  BY DEF Updates!Unserved
<1>4. UNCHANGED <<event, file, crossed>>
  BY DEF Updates!Unserved
<1> QED
  BY <1>1, <1>2, <1>3, <1>4, AnswerStep DEF Makes

\* The worker's request is left to the adapter.
LEMMA Orphaned ==
    ASSUME NoticeInv, call' = [awaited |-> Updates!Free, orphan |-> call["awaited"]]
    PROVE  /\ call' \in [Updates!Slot -> RequestType]
           /\ call'["awaited"] = Updates!Free /\ call'["orphan"] = call["awaited"]
  BY Freed DEF NoticeInv, NoteTyped, Updates!Slot

\* The worker gives up to wait; the row is tried again later.
LEMMA TimeOutStep == ASSUME NoticeInv, Updates!TimeOut PROVE NoticeInv'
<1> DEFINE e == worker.of
           late == [notice[e] EXCEPT !.status = "pending", !.due = FALSE]
<1>1. /\ worker.at = "wait" /\ worker' = Updates!Idle /\ notice' = [notice EXCEPT ![e] = late]
      /\ call' = [awaited |-> Updates!Free, orphan |-> call["awaited"]]
      /\ UNCHANGED <<event, file, thread, crossed>>
  BY DEF Updates!TimeOut, Updates!Postpone, Updates!Postponed
<1>2. notice[e] \in NoteType
  BY <1>1 DEF NoticeInv, NoteTyped, StoreInv, InHand
<1>3. late \in NoteType /\ late.status = "pending"
  BY <1>2 DEF NoteType
<1> HIDE DEF late
<1>4. Settled
  BY <1>1 DEF NoticeInv, NoteTyped, Settled
<1>5. /\ call' \in [Updates!Slot -> RequestType]
      /\ call'["awaited"] = Updates!Free /\ call'["orphan"] = call["awaited"]
  BY <1>1, Orphaned
<1>6. ThreadInv'
  BY <1>1, <1>4, <1>5, Freed, CallsEnd DEF Updates!Slot
<1>7. notice' \in [Updates!Event -> NoteType] /\ worker' \in WorkerType /\ StoreInv'
  BY <1>1, <1>3, <1>4, AnsweredRow
<1> QED
  BY <1>1, <1>5, <1>6, <1>7 DEF NoticeInv, NoteTyped

LEMMA CrashStep == ASSUME NoticeInv, Updates!Crash PROVE NoticeInv'
<1>1. /\ worker' = [at |-> "down", of |-> 0]
      /\ call' = [awaited |-> Updates!Free, orphan |-> call["awaited"]]
      /\ UNCHANGED <<event, notice, file, thread, crossed>>
  BY DEF Updates!Crash
<1>2. Settled
  BY <1>1 DEF NoticeInv, NoteTyped, Settled
<1>3. /\ call' \in [Updates!Slot -> RequestType]
      /\ call'["awaited"] = Updates!Free /\ call'["orphan"] = call["awaited"]
  BY <1>1, Orphaned
<1>4. ThreadInv'
  BY <1>2, <1>3, <1>1, Freed, CallsEnd DEF Updates!Slot
<1>5. \A d \in Updates!Event : Noted(d)'
  BY <1>1 DEF NoticeInv, StoreInv, Noted, Told
<1>6. InHand'
  BY <1>1 DEF InHand
<1>7. Updates!CompletedIsPosted'
  BY <1>1 DEF NoticeInv, StoreInv, Updates!CompletedIsPosted
<1>8. NoteTyped'
  BY <1>1, <1>3 DEF NoticeInv, NoteTyped, WorkerType
<1> QED
  BY <1>4, <1>5, <1>6, <1>7, <1>8 DEF NoticeInv, StoreInv

\* A request goes on.  It alone may add to its event's thread, and then only as a post
\* that nothing else has begun.
LEMMA GoesStep ==
    ASSUME NoticeInv, NEW k \in Updates!Slot, Busy(k), NEW step \in Steps \ {"free"}, NEW post \in Makes,
           Updates!Goes(k, step, post), UNCHANGED <<event, file, crossed>>,
           NEW t \in ThreadType, thread' = [thread EXCEPT ![call[k].of] = t],
           thread[call[k].of].posts > 0 => t.posts > 0, thread[call[k].of].session => t.session,
           \/ t.posts = thread[call[k].of].posts /\ t.coming = thread[call[k].of].coming
           \/ call[k].of \notin crossed => t.posts + t.coming <= 1,
           step # "look", step = "post" => call[k].at = "look" /\ t = thread[call[k].of] /\ t.posts = 0,
           step = "session" /\ post # "created" => t.posts > 0,
           step = "verify" => t.session
    PROVE  NoticeInv'
<1> DEFINE e == call[k].of
           new == [call[k] EXCEPT !.at = step, !.post = post]
<1>1. e \in Updates!Event
  BY DEF NoticeInv, ThreadInv, Served
<1>2. call' = [call EXCEPT ![k] = new] /\ UNCHANGED <<worker, notice>>
  BY DEF Updates!Goes
<1>3. new \in RequestType /\ new.at = step /\ new.of = e /\ new.post = post
  BY DEF NoticeInv, NoteTyped, RequestType
<1> HIDE DEF new
<1>4. /\ call' \in [Updates!Slot -> RequestType] /\ call'[k] = new
      /\ \A j \in Updates!Slot : j # k => call'[j] = call[j]
  BY <1>2, <1>3 DEF NoticeInv, NoteTyped
<1>5. /\ thread' \in [Updates!Event -> ThreadType] /\ thread'[e] = t
      /\ \A d \in Updates!Event : d # e => thread'[d] = thread[d]
  BY <1>1 DEF NoticeInv, NoteTyped
<1>6. Grows
  BY <1>5 DEF Grows
<1>7. StoreInv'
  BY <1>2, <1>6, StoreKept
<1>8. NoteTyped'
  BY <1>2, <1>4, <1>5 DEF NoticeInv, NoteTyped
<1>9. \A j \in Updates!Slot : call'[j].of = call[j].of /\ (Busy(j)' => Busy(j))
  BY <1>3, <1>4 DEF Busy
<1>10. Served'
  BY <1>2, <1>9 DEF NoticeInv, ThreadInv, Served, Updates!Slot
<1>11. Updates!PostedOnce'
  <2> SUFFICES ASSUME NEW d \in Updates!Event, thread'[d].posts + thread'[d].coming > 1 PROVE d \in crossed'
    BY DEF Updates!PostedOnce
  <2>1. CASE d # e
    BY <1>5, <2>1 DEF NoticeInv, ThreadInv, Updates!PostedOnce
  <2>2. CASE d = e
    BY <1>5, <2>2 DEF NoticeInv, ThreadInv, Updates!PostedOnce, ThreadType
  <2> QED
    BY <2>1, <2>2
<1>12. \A j \in Updates!Slot : Unposted(j)'
  <2> TAKE j \in Updates!Slot
  <2>1. CASE j = k
    BY <1>3, <1>4, <1>5, <2>1 DEF NoticeInv, ThreadInv, Unposted, Steps
  <2>2. CASE j # k
    <3>1. Busy(j) /\ call[j].of = e => e \in crossed
      BY <2>2 DEF NoticeInv, ThreadInv, Served, Updates!Slot
    <3>2. Busy(j) => call[j].of \in Updates!Event
      BY DEF NoticeInv, ThreadInv, Served
    <3>3. CASE call[j].of = e
      BY <1>4, <2>2, <3>1, <3>3 DEF Unposted, Busy
    <3>4. CASE call[j].of # e
      BY <1>4, <1>5, <2>2, <3>2, <3>4 DEF NoticeInv, ThreadInv, Unposted, Busy
    <3> QED
      BY <3>3, <3>4
  <2> QED
    BY <2>1, <2>2
<1>13. \A j \in Updates!Slot : Seen(j)'
  <2> TAKE j \in Updates!Slot
  <2>1. CASE j = k
    BY <1>3, <1>4, <1>5, <2>1 DEF Seen
  <2>2. CASE j # k
    <3>1. Busy(j) => call[j].of \in Updates!Event
      BY DEF NoticeInv, ThreadInv, Served
    <3> QED
      BY <1>4, <1>6, <2>2, <3>1 DEF NoticeInv, ThreadInv, Seen, Busy, Grows
  <2> QED
    BY <2>1, <2>2
<1> QED
  BY <1>7, <1>8, <1>10, <1>11, <1>12, <1>13 DEF NoticeInv, ThreadInv


\* A request goes on and leaves the thread alone.
LEMMA GoesAlong ==
    ASSUME NoticeInv, NEW k \in Updates!Slot, Busy(k), NEW step \in Steps \ {"free", "look", "verify"},
           NEW post \in Makes, Updates!Goes(k, step, post), UNCHANGED <<event, file, crossed, thread>>,
           step = "post" => call[k].at = "look" /\ thread[call[k].of].posts = 0,
           step = "session" /\ post # "created" => thread[call[k].of].posts > 0
    PROVE  NoticeInv'
<1>1. thread[call[k].of] \in ThreadType /\ thread' = [thread EXCEPT ![call[k].of] = thread[call[k].of]]
  BY DEF NoticeInv, NoteTyped, ThreadInv, Served
<1> QED
  BY <1>1, GoesStep

\* An answer that says nothing of the thread.
LEMMA AnswerOnly ==
    ASSUME NoticeInv, NEW k \in Updates!Slot, Busy(k), UNCHANGED <<event, file, crossed, thread>>,
           NEW outcome \in {"retryable", "permanent"}, NEW post \in Makes, Updates!Answer(k, outcome, post)
    PROVE  NoticeInv'
<1>1. Settled
  BY DEF NoticeInv, NoteTyped, Settled
<1> QED
  BY <1>1, AnswerStep

LEMMA PostStep ==
    ASSUME NoticeInv, NEW k \in Updates!Slot, call[k].at = "post", Updates!Post(k),
           UNCHANGED <<event, file, crossed>>
    PROVE  NoticeInv'
<1> DEFINE e == call[k].of
           there == [thread[e] EXCEPT !.posts = @ + 1]
           late == [thread[e] EXCEPT !.coming = @ + 1]
<1>1. Busy(k) /\ e \in Updates!Event /\ thread[e] \in ThreadType
  BY DEF NoticeInv, NoteTyped, ThreadInv, Served, Busy
<1>2. e \notin crossed => thread[e].posts = 0 /\ thread[e].coming = 0
  BY DEF NoticeInv, ThreadInv, Unposted
<1>3. thread[e].posts + 1 \in Nat /\ thread[e].coming + 1 \in Nat
  BY <1>1 DEF ThreadType
<1>4. /\ there \in ThreadType /\ there.posts = thread[e].posts + 1 /\ there.coming = thread[e].coming
      /\ there.session = thread[e].session
  BY <1>1, <1>3 DEF ThreadType
<1>5. /\ late \in ThreadType /\ late.posts = thread[e].posts /\ late.coming = thread[e].coming + 1
      /\ late.session = thread[e].session
  BY <1>1, <1>3 DEF ThreadType
<1>6. PICK step \in {"session", "search"} : Updates!Goes(k, step, "created")
  BY DEF Updates!Post
<1>7. \/ thread' = [thread EXCEPT ![e] = there] \/ thread' = [thread EXCEPT ![e] = late] \/ thread' = thread
  BY DEF Updates!Post
<1> HIDE DEF there, late
<1>8. step \in Steps \ {"free", "look", "verify"} /\ "created" \in Makes /\ step # "post"
  BY DEF Steps, Makes
<1>9. CASE thread' = [thread EXCEPT ![e] = there]
  <2>1. there.posts > 0 /\ (e \notin crossed => there.posts + there.coming <= 1)
    BY <1>1, <1>2, <1>4 DEF ThreadType
  <2> QED
    BY <1>1, <1>4, <1>6, <1>8, <1>9, <2>1, GoesStep
<1>10. CASE thread' = [thread EXCEPT ![e] = late]
  <2>1. e \notin crossed => late.posts + late.coming <= 1
    BY <1>1, <1>2, <1>5 DEF ThreadType
  <2> QED
    BY <1>1, <1>5, <1>6, <1>8, <1>10, <2>1, GoesStep
<1>11. CASE thread' = thread
  BY <1>1, <1>6, <1>8, <1>11, GoesAlong
<1> QED
  BY <1>7, <1>9, <1>10, <1>11

LEMMA SessionStep ==
    ASSUME NoticeInv, NEW k \in Updates!Slot, call[k].at = "session", Updates!Session(k),
           UNCHANGED <<event, file, crossed>>
    PROVE  NoticeInv'
<1> DEFINE e == call[k].of
           t == [thread[e] EXCEPT !.session = TRUE]
<1>1. Busy(k) /\ e \in Updates!Event /\ thread[e] \in ThreadType /\ call[k].post \in Makes
  BY DEF NoticeInv, NoteTyped, ThreadInv, Served, Busy, RequestType
<1>2. t \in ThreadType /\ t.posts = thread[e].posts /\ t.coming = thread[e].coming /\ t.session
  BY <1>1 DEF ThreadType
<1>3. Updates!Session(k) =>
        \/ thread' = [thread EXCEPT ![e] = t] /\ call[k].post = "created" /\ Updates!Goes(k, "verify", "created")
        \/ thread' = [thread EXCEPT ![e] = t] /\ Updates!Answer(k, "reported", "existing") /\ call[k].post # "created"
        \/ thread' = thread /\ Updates!Answer(k, "retryable", "none")
  BY DEF Updates!Session
<1> HIDE DEF t
<1>4. CASE thread' = [thread EXCEPT ![e] = t] /\ Updates!Goes(k, "verify", "created")
  BY <1>1, <1>2, <1>4, GoesStep DEF Steps, Makes
<1>5. CASE thread' = [thread EXCEPT ![e] = t] /\ Updates!Answer(k, "reported", "existing") /\ call[k].post # "created"
  <2>1. thread[e].posts > 0
    BY <1>5 DEF NoticeInv, ThreadInv, Seen
  <2>2. /\ thread' \in [Updates!Event -> ThreadType] /\ thread'[e] = t
        /\ \A d \in Updates!Event : d # e => thread'[d] = thread[d]
    BY <1>1, <1>2, <1>5 DEF NoticeInv, NoteTyped
  <2>3. Settled
    BY <1>2, <2>2 DEF Settled
  <2>4. ToldNext(e)
    BY <1>2, <2>1, <2>2 DEF ToldNext
  <2> QED
    BY <1>1, <1>5, <2>3, <2>4, AnswerStep DEF Makes
<1>6. CASE thread' = thread /\ Updates!Answer(k, "retryable", "none")
  BY <1>1, <1>6, AnswerOnly DEF Makes
<1> QED
  BY <1>3, <1>4, <1>5, <1>6

\* Every step of the adapter.
LEMMA AdapterStep == ASSUME NoticeInv, NEW k \in Updates!Slot, Updates!Adapter(k) PROVE NoticeInv'
<1>1. UNCHANGED <<event, file, crossed>>
  BY DEF Updates!Adapter
<1>2. CASE call[k].at = "look" /\ Updates!Look(k) /\ thread' = thread
  <2>1. Busy(k)
    BY <1>2 DEF Busy
  <2> QED
    BY <1>1, <1>2, <2>1, GoesAlong, AnswerOnly DEF Updates!Look, Updates!Posts, Steps, Makes
<1>3. CASE call[k].at = "search" /\ Updates!Search(k) /\ thread' = thread
  <2>1. Busy(k)
    BY <1>3 DEF Busy
  <2> QED
    BY <1>1, <1>3, <2>1, GoesAlong, AnswerOnly DEF Updates!Search, Steps, Makes
<1>4. CASE call[k].at = "verify" /\ Updates!Verify(k) /\ thread' = thread
  <2>1. Busy(k)
    BY <1>4 DEF Busy
  <2>2. CASE thread[call[k].of].posts = 1 /\ Updates!Answer(k, "reported", "created")
    <3>1. Settled
      BY <1>4 DEF NoticeInv, NoteTyped, Settled
    <3>2. ToldNext(call[k].of)
      BY <1>4, <2>2 DEF NoticeInv, ThreadInv, Seen, ToldNext
    <3> QED
      BY <1>1, <2>1, <2>2, <3>1, <3>2, AnswerStep DEF Makes
  <2> QED
    BY <1>1, <1>4, <2>1, <2>2, AnswerOnly DEF Updates!Verify, Updates!Posts, Makes
<1>5. CASE call[k].at = "post" /\ Updates!Post(k)
  BY <1>1, <1>5, PostStep
<1>6. CASE call[k].at = "session" /\ Updates!Session(k)
  BY <1>1, <1>6, SessionStep
<1> QED
  BY <1>2, <1>3, <1>4, <1>5, <1>6 DEF Updates!Adapter, Updates!At

\* Every step of the notices of updates keeps the invariant.
LEMMA NoticeStep == ASSUME NoticeInv, [Updates!Next]_updateVars PROVE NoticeInv'
<1>1. CASE UNCHANGED updateVars
  <2>1. UNCHANGED <<event, notice, file, worker, call, thread, crossed>>
    BY <1>1 DEF updateVars
  <2>2. ThreadInv'
    BY <2>1, ThreadKept
  <2>3. StoreInv'
    BY <2>1, StoreKept DEF Grows
  <2> QED
    BY <2>1, <2>2, <2>3 DEF NoticeInv, NoteTyped
<1>2. CASE Updates!Next
  BY <1>2, ArriveStep, DueStep, EnsureStep, CatchUpStep, FinishPostedStep, DeliverStep, LandsStep,
     PublishResultStep, SaveStep, MarkStep, HandsStep, RestartedStep, UnservedStep, TimeOutStep, CrashStep,
     AdapterStep
  DEF Updates!Next, Updates!Work, Updates!Waiting
<1> QED
  BY <1>1, <1>2

LEMMA NoticeStart == Updates!Init => NoticeInv
<1> SUFFICES ASSUME Updates!Init PROVE NoticeInv
  OBVIOUS
<1>1. NoteTyped
  BY Freed DEF Updates!Init, NoteTyped, EventType, NoteType, Makes, WorkerType, ThreadType, Updates!NoRow,
               Updates!NoFile, Updates!Results, Updates!Idle
<1>2. ThreadInv
  BY DEF Updates!Init, ThreadInv, Served, Busy, Updates!PostedOnce, Unposted, Seen, Updates!Free, Updates!Slot,
         Updates!Idle
<1>3. StoreInv
  BY DEF Updates!Init, StoreInv, Noted, Told, InHand, Updates!CompletedIsPosted, Updates!NoRow, Updates!Idle
<1> QED
  BY <1>1, <1>2, <1>3 DEF NoticeInv

(***************************************************************************)
(* The notices of updates: how often a notice is posted.                    *)
(***************************************************************************)
\* A request k for e that has still to look or to post, and one that looked.
Ahead(k, e) == IF call[k].of = e /\ call[k].at \in {"look", "post"} THEN 1 ELSE 0
Posting(k, e) == IF call[k].of = e /\ call[k].at = "post" THEN 1 ELSE 0

\* The row of e leads to one more request, without another failure.
Hope(e) == IF \/ notice[e].status \in {"none", "pending"}
              \/ notice[e].status = "delivering" /\ ~(worker.at = "wait" /\ worker.of = e)
           THEN 1 ELSE 0

Left(e) == Ahead("awaited", e) + Ahead("orphan", e) + Hope(e)
Looked(e) == Posting("awaited", e) + Posting("orphan", e)
Mishaps == failed.faults + failed.outages

\* Every post but one is paid for by a failure or a crash; one that comes late by a
\* failure of its own, and of those that come at once two at most saw an empty thread.
Counts(e) ==
    LET sent == thread[e].posts + thread[e].coming
    IN /\ thread[e].coming <= failed.faults
       /\ sent + thread[e].coming + Left(e) <= 1 + Mishaps
       /\ 2 * sent + Left(e) + Looked(e) <= 3 + Mishaps

FailedTyped ==
    /\ failed \in [faults : Nat, outages : Nat, hand : Nat]
    /\ failed.faults <= CallFaults /\ failed.outages <= OutageLimit

CountInv ==
    /\ FailedTyped
    /\ crossed \subseteq Updates!Event
    /\ \A e \in Updates!Event : Counts(e)

\* The numbers of an event.
LEMMA Numbers ==
    ASSUME NoteTyped, NEW e \in Updates!Event
    PROVE  /\ thread[e].posts \in Nat /\ thread[e].coming \in Nat
           /\ Left(e) \in 0..3 /\ Looked(e) \in 0..2 /\ Hope(e) \in {0, 1}
           /\ \A k \in Updates!Slot : Ahead(k, e) \in {0, 1} /\ Posting(k, e) \in {0, 1}
  BY DEF NoteTyped, ThreadType, Left, Looked, Hope, Ahead, Posting, Updates!Slot

LEMMA NumbersNext ==
    ASSUME NoteTyped', NEW e \in Updates!Event
    PROVE  /\ thread'[e].posts \in Nat /\ thread'[e].coming \in Nat
           /\ Left(e)' \in 0..3 /\ Looked(e)' \in 0..2 /\ Hope(e)' \in {0, 1}
           /\ \A k \in Updates!Slot : Ahead(k, e)' \in {0, 1} /\ Posting(k, e)' \in {0, 1}
  BY DEF NoteTyped, ThreadType, Left, Looked, Hope, Ahead, Posting, Updates!Slot

\* What was paid, and that nothing is taken back.
Paid(n) == failed'.faults >= failed.faults /\ Mishaps' = Mishaps + n

\* Nothing is sent of e; what is left grows by what was paid at most.
LEMMA NoneSent ==
    ASSUME NoteTyped, NoteTyped', CountInv, FailedTyped', NEW e \in Updates!Event, NEW n \in Nat, Paid(n),
           thread'[e].posts = thread[e].posts, thread'[e].coming = thread[e].coming,
           Left(e)' <= Left(e) + n, Left(e)' + Looked(e)' <= Left(e) + Looked(e) + n
    PROVE  Counts(e)'
<1>1. /\ failed.faults \in Nat /\ failed.outages \in Nat /\ failed'.faults \in Nat /\ failed'.outages \in Nat
      /\ Mishaps \in Nat /\ Mishaps' \in Nat
  BY DEF CountInv, FailedTyped, Mishaps
<1>2. Counts(e)
  BY DEF CountInv
<1> QED
  BY <1>1, <1>2, Numbers, NumbersNext DEF Counts, Paid

\* The thread was empty when a request looked.
LEMMA LookCounted ==
    ASSUME NoteTyped, NoteTyped', CountInv, FailedTyped', NEW e \in Updates!Event, Paid(0), thread[e].posts = 0,
           thread'[e].posts = thread[e].posts, thread'[e].coming = thread[e].coming, Left(e)' <= Left(e)
    PROVE  Counts(e)'
<1>1. /\ failed.faults \in Nat /\ failed.outages \in Nat /\ failed'.faults \in Nat /\ failed'.outages \in Nat
      /\ Mishaps \in Nat /\ Mishaps' \in Nat
  BY DEF CountInv, FailedTyped, Mishaps
<1>2. Counts(e)
  BY DEF CountInv
<1> QED
  BY <1>1, <1>2, Numbers, NumbersNext DEF Counts, Paid

\* A post that is there at once, or late, was what a request that looked had left to do.
LEMMA PostCounted ==
    ASSUME NoteTyped, NoteTyped', CountInv, FailedTyped', NEW e \in Updates!Event, NEW n \in Nat, Paid(n),
           Left(e)' <= Left(e) - 1, Looked(e)' <= Looked(e) - 1,
           \/ thread'[e].posts = thread[e].posts + 1 /\ thread'[e].coming = thread[e].coming
           \/ /\ thread'[e].posts = thread[e].posts /\ thread'[e].coming = thread[e].coming + 1
              /\ n = 1 /\ failed'.faults = failed.faults + 1
    PROVE  Counts(e)'
<1>1. /\ failed.faults \in Nat /\ failed.outages \in Nat /\ failed'.faults \in Nat /\ failed'.outages \in Nat
      /\ Mishaps \in Nat /\ Mishaps' \in Nat
  BY DEF CountInv, FailedTyped, Mishaps
<1>2. Counts(e)
  BY DEF CountInv
<1> QED
  BY <1>1, <1>2, Numbers, NumbersNext DEF Counts, Paid

\* A late post arrives.
LEMMA LandCounted ==
    ASSUME NoteTyped, NoteTyped', CountInv, FailedTyped', NEW e \in Updates!Event, Paid(0),
           thread'[e].posts = thread[e].posts + 1, thread'[e].coming = thread[e].coming - 1,
           Left(e)' = Left(e), Looked(e)' = Looked(e)
    PROVE  Counts(e)'
<1>1. /\ failed.faults \in Nat /\ failed.outages \in Nat /\ failed'.faults \in Nat /\ failed'.outages \in Nat
      /\ Mishaps \in Nat /\ Mishaps' \in Nat
  BY DEF CountInv, FailedTyped, Mishaps
<1>2. Counts(e)
  BY DEF CountInv
<1> QED
  BY <1>1, <1>2, Numbers, NumbersNext DEF Counts, Paid

\* A failure, a crash, or neither.
LEMMA FaultPaid == ASSUME FailedTyped, Updates!Faulty PROVE FailedTyped' /\ Paid(1) /\ failed'.faults = failed.faults + 1
  BY LimitAssumption DEF FailedTyped, Updates!Faulty, Paid, Mishaps

LEMMA CrashPaid == ASSUME FailedTyped, Updates!Crash PROVE FailedTyped' /\ Paid(1)
  BY LimitAssumption DEF FailedTyped, Updates!Crash, Paid, Mishaps

LEMMA FreePaid == ASSUME FailedTyped, failed' = failed PROVE FailedTyped' /\ Paid(0)
  BY DEF FailedTyped, Paid, Mishaps

(***************************************************************************)
(* The notices of updates: what a step costs.                               *)
(***************************************************************************)
\* The requests and the thread stay, and no row hopes anew.
LEMMA RowsCounted ==
    ASSUME NoteTyped, NoteTyped', CountInv, FailedTyped', Paid(0), UNCHANGED <<call, thread, crossed>>,
           \A e \in Updates!Event : Hope(e)' <= Hope(e)
    PROVE  CountInv'
<1> SUFFICES ASSUME NEW e \in Updates!Event PROVE Counts(e)'
  BY DEF CountInv
<1>1. \A k \in Updates!Slot : Ahead(k, e)' = Ahead(k, e) /\ Posting(k, e)' = Posting(k, e)
  BY DEF Ahead, Posting
<1>2. Left(e)' <= Left(e) /\ Looked(e)' = Looked(e)
  BY <1>1, Numbers, NumbersNext DEF Left, Looked, Updates!Slot
<1>3. Left(e)' + Looked(e)' <= Left(e) + Looked(e)
  BY <1>2, Numbers, NumbersNext
<1> QED
  BY <1>2, <1>3, Numbers, NumbersNext, NoneSent

LEMMA DeliverCounted ==
    ASSUME NoticeInv, NoteTyped', CountInv, NEW e \in Updates!Event, Updates!Deliver(e) PROVE CountInv'
<1> DEFINE new == [Updates!Free EXCEPT !.at = "look", !.of = e]
<1>1. /\ notice[e].status = "pending" /\ notice' = [notice EXCEPT ![e].status = "delivering"]
      /\ worker = Updates!Idle /\ worker' = [at |-> "wait", of |-> e]
      /\ call' = [call EXCEPT !["awaited"] = new] /\ UNCHANGED <<thread, failed>>
      /\ crossed' \in {crossed, crossed \cup {e}}
  BY DEF Updates!Deliver, Updates!Chosen
<1>2. new.at = "look" /\ new.of = e
  BY DEF Updates!Free
<1> HIDE DEF new
<1>3. call'["awaited"] = new /\ call'["orphan"] = call["orphan"]
  BY <1>1 DEF NoticeInv, NoteTyped, Updates!Slot
<1>4. NoteTyped /\ FailedTyped' /\ Paid(0) /\ crossed' \subseteq Updates!Event
  BY <1>1, FreePaid DEF NoticeInv, CountInv
<1> SUFFICES ASSUME NEW d \in Updates!Event PROVE Counts(d)'
  BY <1>4 DEF CountInv
<1>5. /\ Ahead("orphan", d)' = Ahead("orphan", d) /\ Posting("orphan", d)' = Posting("orphan", d)
      /\ Ahead("awaited", d)' = (IF d = e THEN 1 ELSE 0) /\ Posting("awaited", d)' = 0
  BY <1>2, <1>3 DEF Ahead, Posting
<1>6. Hope(d)' = (IF d = e THEN 0 ELSE Hope(d)) /\ (d = e => Hope(d) = 1)
  <2>1. notice'[e].status = "delivering" /\ (d # e => notice'[d] = notice[d])
    BY <1>1 DEF NoticeInv, NoteTyped, NoteType
  <2> QED
    BY <1>1, <2>1 DEF Hope, Updates!Idle
<1>7. Left(d)' <= Left(d) /\ Looked(d)' <= Looked(d)
  BY <1>4, <1>5, <1>6, Numbers DEF Left, Looked, Updates!Slot
<1>8. Left(d)' + Looked(d)' <= Left(d) + Looked(d)
  BY <1>4, <1>7, Numbers, NumbersNext
<1> QED
  BY <1>1, <1>4, <1>7, <1>8, Numbers, NumbersNext, NoneSent

\* An answer ends its request; when the row is to be tried again a failure was met.
LEMMA AnswerCounted ==
    ASSUME NoticeInv, NoteTyped', CountInv, NEW k \in Updates!Slot, Busy(k),
           NEW outcome \in {"retryable", "permanent", "reported"}, NEW post,
           Updates!Answer(k, outcome, post), NEW n \in Nat, Paid(n), FailedTyped', crossed' = crossed,
           outcome = "retryable" => n = 1,
           \A e \in Updates!Event : thread'[e].posts = thread[e].posts /\ thread'[e].coming = thread[e].coming
    PROVE  CountInv'
<1>1. call' = [call EXCEPT ![k] = Updates!Free]
  BY DEF Updates!Answer
<1>2. NoteTyped /\ call'[k] = Updates!Free /\ \A j \in Updates!Slot : j # k => call'[j] = call[j]
  BY <1>1 DEF NoticeInv, NoteTyped
<1> SUFFICES ASSUME NEW d \in Updates!Event PROVE Counts(d)'
  BY DEF CountInv
<1>3. \A j \in Updates!Slot : Ahead(j, d)' <= Ahead(j, d) /\ Posting(j, d)' <= Posting(j, d)
  BY <1>2 DEF Ahead, Posting, Updates!Free
<1>4. Hope(d)' <= Hope(d) + n
  <2>1. CASE k = "orphan"
    <3>1. UNCHANGED <<worker, notice>>
      BY <2>1 DEF Updates!Answer
    <3>2. Hope(d)' = Hope(d)
      BY <3>1 DEF Hope
    <3> QED
      BY <1>2, <3>2, Numbers
  <2>2. CASE k = "awaited"
    <3>1. worker.at = "wait" /\ worker.of \in Updates!Event
      BY <2>2 DEF NoticeInv, ThreadInv, Served
    <3>2. CASE outcome = "retryable"
      <4>1. /\ worker' = Updates!Idle
            /\ notice' = [notice EXCEPT ![worker.of].status = "pending", ![worker.of].due = FALSE]
        BY <2>2, <3>2 DEF Updates!Answer, Updates!Postpone, Updates!Postponed
      <4> QED
        BY <1>2, <3>2, Numbers, NumbersNext
    <3>3. CASE outcome # "retryable"
      <4> DEFINE r == [notice[worker.of] EXCEPT !.status = "posted", !.refused = (outcome = "permanent"),
                                                !.post = IF post = "none" THEN @ ELSE post]
      <4>1. worker' = [worker EXCEPT !.at = "publish"] /\ notice' = [notice EXCEPT ![worker.of] = r]
        BY <2>2, <3>3 DEF Updates!Answer, Updates!Accept
      <4>2. r.status = "posted"
        BY <3>1 DEF NoticeInv, NoteTyped, NoteType
      <4> HIDE DEF r
      <4>3. notice'[worker.of].status = "posted" /\ (d # worker.of => notice'[d] = notice[d])
        BY <3>1, <4>1, <4>2 DEF NoticeInv, NoteTyped
      <4>4. Hope(d)' <= Hope(d)
        BY <3>1, <4>3 DEF Hope
      <4> QED
        BY <1>2, <4>4, Numbers, NumbersNext
    <3> QED
      BY <3>2, <3>3
  <2> QED
    BY <2>1, <2>2 DEF Updates!Slot
<1>5. Left(d)' <= Left(d) + n /\ Looked(d)' <= Looked(d)
  BY <1>2, <1>3, <1>4, Numbers, NumbersNext DEF Left, Looked, Updates!Slot
<1>6. Left(d)' + Looked(d)' <= Left(d) + Looked(d) + n
  BY <1>2, <1>5, Numbers, NumbersNext
<1> QED
  BY <1>2, <1>5, <1>6, NoneSent

\* The worker's request is left to the adapter: a failure, or a crash.
LEMMA HandedCounted ==
    ASSUME NoticeInv, NoteTyped', CountInv, Updates!TimeOut \/ Updates!Crash PROVE CountInv'
<1>1. /\ call["orphan"].at = "free"
      /\ call' = [awaited |-> Updates!Free, orphan |-> call["awaited"]] /\ UNCHANGED <<thread, crossed>>
  BY DEF Updates!TimeOut, Updates!Crash
<1>2. NoteTyped /\ FailedTyped' /\ Paid(1)
  BY FaultPaid, CrashPaid DEF NoticeInv, CountInv, Updates!TimeOut
<1> SUFFICES ASSUME NEW d \in Updates!Event PROVE Counts(d)'
  BY <1>1, <1>2 DEF CountInv
<1>3. call'["awaited"] = Updates!Free /\ call'["orphan"] = call["awaited"]
  BY <1>1
<1>4. /\ Ahead("orphan", d)' = Ahead("awaited", d) /\ Posting("orphan", d)' = Posting("awaited", d)
      /\ Ahead("awaited", d)' = 0 /\ Posting("awaited", d)' = 0
  BY <1>3 DEF Ahead, Posting, Updates!Free
<1>5. Left(d)' <= Left(d) + 1 /\ Looked(d)' <= Looked(d)
  BY <1>2, <1>4, Numbers, NumbersNext DEF Left, Looked, Updates!Slot
<1>6. Left(d)' + Looked(d)' <= Left(d) + Looked(d) + 1
  BY <1>2, <1>5, Numbers, NumbersNext
<1> QED
  BY <1>1, <1>2, <1>5, <1>6, NoneSent

LEMMA LandsCounted ==
    ASSUME NoticeInv, NoteTyped', CountInv, NEW e \in Updates!Event, Updates!Lands(e) PROVE CountInv'
<1>1. /\ thread[e].coming > 0 /\ UNCHANGED <<notice, worker, call, crossed, failed>>
      /\ thread' = [thread EXCEPT ![e] = [thread[e] EXCEPT !.coming = @ - 1, !.posts = @ + 1]]
  BY DEF Updates!Lands
<1>2. NoteTyped /\ FailedTyped' /\ Paid(0)
  BY <1>1, FreePaid DEF NoticeInv, CountInv
<1>3. /\ thread'[e].posts = thread[e].posts + 1 /\ thread'[e].coming = thread[e].coming - 1
      /\ \A d \in Updates!Event : d # e => thread'[d] = thread[d]
  BY <1>1, <1>2 DEF NoteTyped, ThreadType
<1> SUFFICES ASSUME NEW d \in Updates!Event PROVE Counts(d)'
  BY <1>1, <1>2 DEF CountInv
<1>4. Left(d)' = Left(d) /\ Looked(d)' = Looked(d)
  BY <1>1 DEF Left, Looked, Ahead, Posting, Hope
<1>5. CASE d = e
  BY <1>2, <1>3, <1>4, <1>5, LandCounted
<1>6. CASE d # e
  <2>1. Left(d)' <= Left(d) + 0 /\ Left(d)' + Looked(d)' <= Left(d) + Looked(d) + 0
    BY <1>2, <1>4, Numbers
  <2> QED
    BY <1>2, <1>3, <1>6, <2>1, NoneSent
<1> QED
  BY <1>5, <1>6

\* A request that goes on: to the post, or past it.
LEMMA GoesEffect ==
    ASSUME NoticeInv, NoteTyped', NEW k \in Updates!Slot, NEW step, NEW post, Updates!Goes(k, step, post),
           call[k].at # "free", NEW d \in Updates!Event
    PROVE  /\ Hope(d)' = Hope(d)
           /\ step \notin {"look", "post"} =>
                  /\ Left(d)' = Left(d) - Ahead(k, d) /\ Looked(d)' = Looked(d) - Posting(k, d)
           /\ call[k].at = "look" /\ step = "post" =>
                  /\ Left(d)' = Left(d) /\ (call[k].of # d => Looked(d)' = Looked(d))
<1>1. call' = [call EXCEPT ![k].at = step, ![k].post = post] /\ UNCHANGED <<worker, notice>>
  BY DEF Updates!Goes
<1>2. NoteTyped
  BY DEF NoticeInv
<1>3. /\ call'[k].at = step /\ call'[k].of = call[k].of
      /\ \A j \in Updates!Slot : j # k => call'[j] = call[j]
  BY <1>1, <1>2 DEF NoteTyped, RequestType
<1>4. Hope(d)' = Hope(d)
  BY <1>1 DEF Hope
<1>5. \A j \in Updates!Slot : j # k => Ahead(j, d)' = Ahead(j, d) /\ Posting(j, d)' = Posting(j, d)
  BY <1>3 DEF Ahead, Posting
<1>6. step \notin {"look", "post"} => Ahead(k, d)' = 0 /\ Posting(k, d)' = 0
  BY <1>3 DEF Ahead, Posting
<1>7. call[k].at = "look" /\ step = "post" =>
         Ahead(k, d)' = Ahead(k, d) /\ (call[k].of # d => Posting(k, d)' = Posting(k, d))
  BY <1>3 DEF Ahead, Posting
<1> QED
  BY <1>2, <1>4, <1>5, <1>6, <1>7, Numbers, NumbersNext DEF Left, Looked, Updates!Slot

\* A request goes past its post and sends nothing.
LEMMA PastCounted ==
    ASSUME NoticeInv, NoteTyped', CountInv, NEW k \in Updates!Slot, Busy(k), NEW step \in {"search", "session", "verify"},
           NEW post, Updates!Goes(k, step, post), NEW n \in Nat, Paid(n), FailedTyped', crossed' = crossed,
           \A e \in Updates!Event : thread'[e].posts = thread[e].posts /\ thread'[e].coming = thread[e].coming
    PROVE  CountInv'
<1>1. NoteTyped /\ call[k].at # "free"
  BY DEF NoticeInv, Busy
<1> SUFFICES ASSUME NEW d \in Updates!Event PROVE Counts(d)'
  BY DEF CountInv
<1>2. Left(d)' = Left(d) - Ahead(k, d) /\ Looked(d)' = Looked(d) - Posting(k, d)
  BY <1>1, GoesEffect
<1>3. Left(d)' <= Left(d) + n /\ Left(d)' + Looked(d)' <= Left(d) + Looked(d) + n
  BY <1>1, <1>2, Numbers, NumbersNext
<1> QED
  BY <1>1, <1>3, NoneSent

\* A request that saw no post of its event is about to post.
LEMMA LooksCounted ==
    ASSUME NoticeInv, NoteTyped', CountInv, NEW k \in Updates!Slot, call[k].at = "look",
           thread[call[k].of].posts = 0, Updates!Goes(k, "post", "created"),
           UNCHANGED <<thread, crossed, failed>>
    PROVE  CountInv'
<1>1. NoteTyped /\ FailedTyped' /\ Paid(0)
  BY FreePaid DEF NoticeInv, CountInv
<1> SUFFICES ASSUME NEW d \in Updates!Event PROVE Counts(d)'
  BY <1>1 DEF CountInv
<1>2. Left(d)' = Left(d) /\ (call[k].of # d => Looked(d)' = Looked(d))
  BY GoesEffect
<1>3. Left(d)' <= Left(d)
  BY <1>1, <1>2, Numbers
<1>4. CASE call[k].of = d
  BY <1>1, <1>3, <1>4, LookCounted
<1>5. CASE call[k].of # d
  <2>1. Left(d)' <= Left(d) + 0 /\ Left(d)' + Looked(d)' <= Left(d) + Looked(d) + 0
    BY <1>1, <1>2, <1>5, Numbers
  <2> QED
    BY <1>1, <2>1, NoneSent
<1> QED
  BY <1>4, <1>5

LEMMA PostsCounted ==
    ASSUME NoticeInv, NoteTyped', CountInv, NEW k \in Updates!Slot, call[k].at = "post", Updates!Post(k),
           crossed' = crossed
    PROVE  CountInv'
<1> DEFINE e == call[k].of
<1>1. NoteTyped /\ Busy(k) /\ e \in Updates!Event /\ thread[e] \in ThreadType
  BY DEF NoticeInv, NoteTyped, ThreadInv, Served, Busy
<1>2. PICK step \in {"session", "search"} : Updates!Goes(k, step, "created")
  BY DEF Updates!Post
<1>3. PICK n \in {0, 1} : Paid(n) /\ FailedTyped' /\ (thread' = [thread EXCEPT ![e].coming = @ + 1] =>
         n = 1 /\ failed'.faults = failed.faults + 1)
  <2>1. CASE Updates!Faulty
    BY <2>1, FaultPaid DEF CountInv
  <2>2. CASE ~Updates!Faulty
    <3>1. failed' = failed /\ thread' = [thread EXCEPT ![e].posts = @ + 1]
      BY <2>2 DEF Updates!Post
    <3>2. thread'[e].posts # thread[e].posts
      BY <1>1, <3>1 DEF NoteTyped, ThreadType
    <3>3. thread' # [thread EXCEPT ![e].coming = @ + 1]
      BY <1>1, <3>2 DEF NoteTyped, ThreadType
    <3> QED
      BY <3>1, <3>3, FreePaid DEF CountInv
  <2> QED
    BY <2>1, <2>2
<1>4. n \in Nat
  OBVIOUS
<1>5. CASE thread' = thread
  BY <1>1, <1>2, <1>3, <1>4, <1>5, PastCounted
<1>6. CASE thread' = [thread EXCEPT ![e].posts = @ + 1] \/ thread' = [thread EXCEPT ![e].coming = @ + 1]
  <2> SUFFICES ASSUME NEW d \in Updates!Event PROVE Counts(d)'
    BY <1>3 DEF CountInv
  <2>1. Left(d)' = Left(d) - Ahead(k, d) /\ Looked(d)' = Looked(d) - Posting(k, d)
    BY <1>2, GoesEffect
  <2>2. CASE d = e
    <3>1. Ahead(k, d) = 1 /\ Posting(k, d) = 1
      BY <2>2 DEF Ahead, Posting
    <3>2. Left(d)' <= Left(d) - 1 /\ Looked(d)' <= Looked(d) - 1
      BY <1>1, <2>1, <3>1, Numbers
    <3>3. \/ thread'[e].posts = thread[e].posts + 1 /\ thread'[e].coming = thread[e].coming
          \/ /\ thread'[e].posts = thread[e].posts /\ thread'[e].coming = thread[e].coming + 1
             /\ thread' = [thread EXCEPT ![e].coming = @ + 1]
      BY <1>1, <1>6 DEF NoteTyped, ThreadType
    <3> QED
      BY <1>1, <1>3, <1>4, <2>2, <3>2, <3>3, PostCounted
  <2>3. CASE d # e
    <3>1. thread'[d] = thread[d]
      BY <1>1, <1>6, <2>3 DEF NoteTyped
    <3>2. Left(d)' <= Left(d) + n /\ Left(d)' + Looked(d)' <= Left(d) + Looked(d) + n
      BY <1>1, <1>4, <2>1, Numbers
    <3> QED
      BY <1>1, <1>3, <1>4, <3>1, <3>2, NoneSent
  <2> QED
    BY <2>2, <2>3
<1> QED
  BY <1>5, <1>6 DEF Updates!Post

\* An answer that costs a failure when the row is to be tried again.
LEMMA AnswersCounted ==
    ASSUME NoticeInv, NoteTyped', CountInv, NEW k \in Updates!Slot, Busy(k),
           NEW outcome \in {"retryable", "permanent", "reported"}, NEW post,
           Updates!Answer(k, outcome, post), crossed' = crossed,
           Updates!Faulty \/ (failed' = failed /\ outcome # "retryable"),
           \A e \in Updates!Event : thread'[e].posts = thread[e].posts /\ thread'[e].coming = thread[e].coming
    PROVE  CountInv'
<1>1. CASE Updates!Faulty
  <2>1. FailedTyped' /\ Paid(1) /\ 1 \in Nat
    BY <1>1, FaultPaid DEF CountInv
  <2> QED
    BY <2>1, AnswerCounted
<1>2. CASE failed' = failed /\ outcome # "retryable"
  <2>1. FailedTyped' /\ Paid(0) /\ 0 \in Nat
    BY <1>2, FreePaid DEF CountInv
  <2> QED
    BY <1>2, <2>1, AnswerCounted
<1> QED
  BY <1>1, <1>2

LEMMA AdapterCounted ==
    ASSUME NoticeInv, NoteTyped', CountInv, NEW k \in Updates!Slot, Updates!Adapter(k) PROVE CountInv'
<1>1. crossed' = crossed
  BY DEF Updates!Adapter
<1>2. CASE call[k].at = "look" /\ Updates!Look(k) /\ thread' = thread
  <2>1. Busy(k)
    BY <1>2 DEF Busy
  <2>2. CASE thread[call[k].of].posts = 0 /\ Updates!Goes(k, "post", "created") /\ failed' = failed
    BY <1>1, <1>2, <2>2, LooksCounted
  <2>3. CASE Updates!Goes(k, "session", "existing") /\ failed' = failed
    <3>1. FailedTyped' /\ Paid(0) /\ 0 \in Nat
      BY <2>3, FreePaid DEF CountInv
    <3> QED
      BY <1>1, <1>2, <2>1, <2>3, <3>1, PastCounted
  <2>4. CASE \/ Updates!Answer(k, "permanent", "none") /\ failed' = failed
             \/ Updates!Answer(k, "retryable", "none") /\ Updates!Faulty
    BY <1>1, <1>2, <2>1, <2>4, AnswersCounted
  <2> QED
    BY <1>2, <2>2, <2>3, <2>4 DEF Updates!Look, Updates!Posts
<1>3. CASE call[k].at = "post" /\ Updates!Post(k)
  BY <1>1, <1>3, PostsCounted
<1>4. CASE call[k].at = "search" /\ Updates!Search(k) /\ UNCHANGED <<thread, failed>>
  <2>1. Busy(k) /\ FailedTyped' /\ Paid(0) /\ 0 \in Nat
    BY <1>4, FreePaid DEF Busy, CountInv
  <2>2. CASE Updates!Goes(k, "session", "created")
    BY <1>1, <1>4, <2>1, <2>2, PastCounted
  <2>3. CASE Updates!Answer(k, "permanent", "none")
    BY <1>1, <1>4, <2>1, <2>3, AnswersCounted
  <2> QED
    BY <1>4, <2>2, <2>3 DEF Updates!Search
<1>5. CASE call[k].at = "session" /\ Updates!Session(k)
  <2>1. Busy(k) /\ NoteTyped /\ call[k].of \in Updates!Event
    BY <1>5 DEF Busy, NoticeInv, ThreadInv, Served
  <2>2. \A e \in Updates!Event : thread'[e].posts = thread[e].posts /\ thread'[e].coming = thread[e].coming
    <3>1. thread' = [thread EXCEPT ![call[k].of].session = TRUE] \/ thread' = thread
      BY <1>5 DEF Updates!Session
    <3> QED
      BY <2>1, <3>1 DEF NoteTyped, ThreadType
  <2>3. CASE Updates!Goes(k, "verify", "created") /\ failed' = failed
    <3>1. FailedTyped' /\ Paid(0) /\ 0 \in Nat
      BY <2>3, FreePaid DEF CountInv
    <3> QED
      BY <1>1, <2>1, <2>2, <2>3, <3>1, PastCounted
  <2>4. CASE \/ Updates!Answer(k, "reported", "existing") /\ failed' = failed
             \/ Updates!Answer(k, "retryable", "none") /\ Updates!Faulty
    BY <1>1, <2>1, <2>2, <2>4, AnswersCounted
  <2> QED
    BY <1>5, <2>3, <2>4 DEF Updates!Session
<1>6. CASE call[k].at = "verify" /\ Updates!Verify(k) /\ thread' = thread
  <2>1. Busy(k)
    BY <1>6 DEF Busy
  <2>2. PICK outcome \in {"retryable", "permanent", "reported"}, post \in Makes :
           /\ Updates!Answer(k, outcome, post)
           /\ Updates!Faulty \/ (failed' = failed /\ outcome # "retryable")
    BY <1>6 DEF Updates!Verify, Makes
  <2> QED
    BY <1>1, <1>6, <2>1, <2>2, AnswersCounted
<1> QED
  BY <1>2, <1>3, <1>4, <1>5, <1>6 DEF Updates!Adapter, Updates!At

\* A step of the Dispatcher's own keeps the hopes of the rows, or ends them.
LEMMA OwnCounted ==
    ASSUME NoticeInv, NoteTyped', CountInv,
           \/ \E e \in Updates!Event : \/ Updates!Arrive(e) \/ Updates!Ensure(e) \/ Updates!Due(e)
                                      \/ Updates!CatchUp(e) \/ Updates!FinishPosted(e)
                                      \/ Updates!Retry(e) \/ Updates!Complete(e) \/ Updates!DeadLetter(e)
           \/ Updates!Publish \/ Updates!Save \/ Updates!Mark \/ Updates!Restart
    PROVE  CountInv'
<1>1. UNCHANGED <<call, thread, crossed>>
  BY DEF Updates!Arrive, Updates!Ensure, Updates!Due, Updates!CatchUp, Updates!FinishPosted, Updates!Retry,
         Updates!Complete, Updates!DeadLetter, Updates!ByHand, Updates!Publish, Updates!Save, Updates!Mark, Updates!Restart
<1>2. FailedTyped' /\ Paid(0)
  <2>1. CASE failed' = failed
    BY <2>1, FreePaid DEF CountInv
  <2>2. CASE failed' = [failed EXCEPT !.hand = @ + 1]
    BY <2>2 DEF CountInv, FailedTyped, Paid, Mishaps
  <2> QED
    BY <2>1, <2>2 DEF Updates!Arrive, Updates!Ensure, Updates!Due, Updates!CatchUp, Updates!FinishPosted,
         Updates!Retry, Updates!Complete, Updates!DeadLetter, Updates!ByHand, Updates!Publish, Updates!Save,
         Updates!Mark, Updates!Restart
<1>3. NoteTyped
  BY DEF NoticeInv
<1> SUFFICES ASSUME NEW d \in Updates!Event PROVE Hope(d)' <= Hope(d)
  BY <1>1, <1>2, <1>3, RowsCounted
<1> USE DEF Hope, Updates!Idle
<1>4. ASSUME NEW e \in Updates!Event,
             Updates!Arrive(e) \/ Updates!Retry(e) \/ Updates!Complete(e) \/ Updates!DeadLetter(e)
      PROVE  Hope(d)' <= Hope(d)
  BY <1>4 DEF Updates!Arrive, Updates!Retry, Updates!Complete, Updates!DeadLetter, Updates!ByHand
<1>5. ASSUME NEW e \in Updates!Event, Updates!Ensure(e) PROVE Hope(d)' <= Hope(d)
  BY <1>3, <1>5 DEF Updates!Ensure, Updates!Unseen, NoteTyped, NoteType
<1>6. ASSUME NEW e \in Updates!Event, Updates!Due(e) PROVE Hope(d)' <= Hope(d)
  BY <1>3, <1>6 DEF Updates!Due, NoteTyped, NoteType
<1>7. ASSUME NEW e \in Updates!Event, Updates!CatchUp(e) PROVE Hope(d)' <= Hope(d)
  BY <1>3, <1>7 DEF Updates!CatchUp, NoteTyped, NoteType
<1>8. ASSUME NEW e \in Updates!Event, Updates!FinishPosted(e) PROVE Hope(d)' <= Hope(d)
  BY <1>8 DEF Updates!FinishPosted, Updates!Chosen
<1>9. CASE Updates!Publish \/ Updates!Save
  <2>1. notice' = notice /\ worker.at # "wait" /\ worker'.at # "wait"
    BY <1>3, <1>9 DEF Updates!Publish, Updates!Save, NoteTyped, WorkerType
  <2> QED
    BY <2>1
<1>10. CASE Updates!Mark
  <2>1. worker.at = "mark" /\ worker' = Updates!Idle /\ worker.of \in Updates!Event
    BY <1>10 DEF Updates!Mark, NoticeInv, StoreInv, InHand
  <2>2. notice'[d] = notice[d] \/ notice'[d].status \in {"reported", "needs_review"}
    BY <1>3, <1>10, <2>1 DEF Updates!Mark, NoteTyped, NoteType
  <2> QED
    BY <2>1, <2>2
<1>11. CASE Updates!Restart
  <2>1. worker.at = "down" /\ notice'[d] = Updates!Recovered(d)
    BY <1>11 DEF Updates!Restart
  <2>2. \/ notice'[d] = notice[d]
        \/ notice[d].status = "delivering" /\ notice'[d].status = "pending"
    BY <1>3, <2>1 DEF Updates!Recovered, NoteTyped, NoteType
  <2>3. notice[d].status = "delivering" => Hope(d) = 1
    BY <2>1
  <2>4. notice'[d] = notice[d] /\ notice[d].status # "delivering" => Hope(d)' = Hope(d)
    OBVIOUS
  <2> QED
    BY <1>3, <2>2, <2>3, <2>4, Numbers, NumbersNext
<1> QED
  BY <1>4, <1>5, <1>6, <1>7, <1>8, <1>9, <1>10, <1>11

LEMMA CountStep == ASSUME NoticeInv, CountInv, [Updates!Next]_updateVars PROVE CountInv'
<1>1. NoteTyped /\ NoteTyped'
  BY NoticeStep DEF NoticeInv
<1>2. CASE Updates!Next
  <2>1. CASE Updates!Unserved
    <3>1. PICK outcome \in {"retryable", "permanent"} : Updates!Answer("awaited", outcome, "none")
      BY <2>1 DEF Updates!Unserved
    <3>2. /\ "awaited" \in Updates!Slot /\ Busy("awaited") /\ Updates!Faulty
          /\ UNCHANGED <<thread, crossed>>
      BY <2>1 DEF Updates!Unserved, Updates!Slot, Busy
    <3> QED
      BY <1>1, <3>1, <3>2, AnswersCounted
  <2> QED
    BY <1>1, <1>2, <2>1, OwnCounted, DeliverCounted, LandsCounted, AdapterCounted, HandedCounted
    DEF Updates!Next, Updates!Work, Updates!Waiting
<1>3. CASE UNCHANGED updateVars
  <2>1. FailedTyped' /\ Paid(0) /\ UNCHANGED <<notice, worker, call, thread, crossed>>
    BY <1>3, FreePaid DEF CountInv, updateVars
  <2>2. \A e \in Updates!Event : Hope(e)' <= Hope(e)
    BY <1>1, <2>1, Numbers DEF Hope
  <2> QED
    BY <1>1, <2>1, <2>2, RowsCounted
<1> QED
  BY <1>2, <1>3

LEMMA CountStart == Updates!Init => CountInv
<1> SUFFICES ASSUME Updates!Init PROVE CountInv
  OBVIOUS
<1>1. FailedTyped /\ crossed = {} /\ Mishaps = 0
  BY LimitAssumption DEF Updates!Init, FailedTyped, Mishaps
<1>2. ASSUME NEW e \in Updates!Event
      PROVE  Left(e) = 1 /\ Looked(e) = 0 /\ thread[e].posts = 0 /\ thread[e].coming = 0
  BY DEF Updates!Init, Updates!Free, Updates!Slot, Updates!NoRow, Left, Looked, Ahead, Posting, Hope
<1>3. failed.faults = 0
  BY DEF Updates!Init
<1> QED
  BY <1>1, <1>2, <1>3 DEF CountInv, Counts

\* How often a notice was posted, and can be.
LEMMA PaidFor == ASSUME NoticeInv, CountInv PROVE Updates!PostsPaid
<1> SUFFICES ASSUME NEW e \in Updates!Event
             PROVE  2 * (thread[e].posts + thread[e].coming) <= 3 + failed.faults + failed.outages
  BY DEF Updates!PostsPaid
<1>1. NoteTyped /\ failed.faults \in Nat /\ failed.outages \in Nat /\ Counts(e)
  BY DEF NoticeInv, CountInv, FailedTyped
<1> QED
  BY <1>1, Numbers DEF Counts, Mishaps

LEMMA NoticeTypes == ASSUME NoticeInv, CountInv PROVE Updates!TypeOK
<1>1. NoteTyped /\ FailedTyped
  BY DEF NoticeInv, CountInv
<1>2. ASSUME NEW e \in Updates!Event
      PROVE  thread[e].posts \in 0..Updates!MostPosts /\ thread[e].coming \in 0..CallFaults
  <2>1. /\ failed.faults \in Nat /\ failed.outages \in Nat /\ CallFaults \in Nat /\ OutageLimit \in Nat
        /\ failed.faults <= CallFaults /\ failed.outages <= OutageLimit
    BY <1>1, LimitAssumption DEF FailedTyped
  <2>2. /\ thread[e].coming <= failed.faults
        /\ 2 * (thread[e].posts + thread[e].coming) <= 3 + failed.faults + failed.outages
    BY PaidFor DEF CountInv, Counts, Updates!PostsPaid
  <2>3. thread[e].posts \in Nat /\ thread[e].coming \in Nat
    BY <1>1, Numbers
  <2>4. 2 * thread[e].posts <= 3 + CallFaults + OutageLimit
    BY <2>1, <2>2, <2>3
  <2> QED
    BY <2>1, <2>2, <2>3, <2>4 DEF Updates!MostPosts
<1>3. thread \in [Updates!Event -> [posts : 0..Updates!MostPosts, coming : 0..CallFaults, session : BOOLEAN]]
  BY <1>1, <1>2 DEF NoteTyped, ThreadType
<1>4. crossed \subseteq Updates!Event
  BY DEF CountInv
<1> QED
  BY <1>1, <1>3, <1>4
  DEF NoteTyped, EventType, NoteType, WorkerType, RequestType, Steps, Makes, Updates!TypeOK, Updates!Closed,
      Updates!Done


(***************************************************************************)
(* The intake of Slack events: SlackIngressProofs, of this module's state.    *)
(***************************************************************************)
Ingress == INSTANCE SlackIngressProofs WITH used <- faults

\* The intake here and the one that the proofs are about are the same.
LEMMA SameIntake ==
    /\ Intake!Init <=> Ingress!Init
    /\ [Intake!Next]_intakeVars <=> [Ingress!Next]_(Ingress!vars)
    /\ Intake!AckedIsStored <=> Ingress!AckedIsStored
    /\ Intake!OneSocket <=> Ingress!OneSocket
    /\ Intake!DrainedIsQuiet <=> Ingress!DrainedIsQuiet
<1> USE DEF Intake!Init, Ingress!Init, Intake!Next, Ingress!Next, Intake!Connecting, Ingress!Connecting,
            Intake!Handle, Ingress!Handle, Intake!Tracked, Ingress!Tracked, Intake!Start, Ingress!Start,
            Intake!Timer, Ingress!Timer, Intake!Open, Ingress!Open, Intake!Settle, Ingress!Settle,
            Intake!Lose, Ingress!Lose, Intake!Refuse, Ingress!Refuse, Intake!OpChecked,
            Ingress!OpChecked, Intake!OpEnds, Ingress!OpEnds, Intake!OpArrives, Ingress!OpArrives,
            Intake!Quiesce, Ingress!Quiesce, Intake!Disconnect, Ingress!Disconnect, Intake!Report,
            Ingress!Report, Intake!End, Ingress!End, Intake!Store, Ingress!Store, Intake!Persisted,
            Ingress!Persisted, Intake!NotPersisted, Ingress!NotPersisted, Intake!Ack, Ingress!Ack,
            Intake!AckFails, Ingress!AckFails, Intake!StrayArrives, Ingress!StrayArrives,
            Intake!Receive, Ingress!Receive, Intake!AckedIsStored, Ingress!AckedIsStored,
            Intake!OneSocket, Ingress!OneSocket, Intake!DrainedIsQuiet, Ingress!DrainedIsQuiet,
            Intake!Normalized, Ingress!Normalized, Intake!Kind, Ingress!Kind, Intake!Event,
            Ingress!Event, Intake!Slot, Ingress!Slot, Intake!Free, Ingress!Free, Intake!Closed,
            Ingress!Closed, Intake!Quiet, Ingress!Quiet, Intake!InFlight, Ingress!InFlight,
            Intake!Faulty, Ingress!Faulty, Intake!Up, Ingress!Up, Intake!Stopping, Ingress!Stopping,
            Intake!Connected, Ingress!Connected, Intake!Misused, Ingress!Misused, Intake!Scheduled,
            Ingress!Scheduled, Intake!At, Ingress!At, Intake!StoredNow, Ingress!StoredNow,
            Intake!Handling, Ingress!Handling, Intake!vars, Ingress!vars
<1>1. Intake!Init <=> Ingress!Init
  OBVIOUS
<1>2. [Intake!Next]_intakeVars <=> [Ingress!Next]_(Ingress!vars)
  BY DEF intakeVars
<1>3. /\ Intake!AckedIsStored <=> Ingress!AckedIsStored
      /\ Intake!OneSocket <=> Ingress!OneSocket
      /\ Intake!DrainedIsQuiet <=> Ingress!DrainedIsQuiet
  OBVIOUS
<1> QED
  BY <1>1, <1>2, <1>3

\* A behaviour of the parts is one of the intake.
LEMMA IntakeRefined == Spec => Ingress!Spec
<1>1. Init => Ingress!Init
  BY SameIntake DEF Init
<1>2. [Next]_vars => [Ingress!Next]_(Ingress!vars)
  <2>1. [Next]_vars => [Intake!Next]_intakeVars
    BY DEF Next, vars, intakeVars
  <2> QED
    BY <2>1, SameIntake
<1> QED
  BY <1>1, <1>2, PTL DEF Spec, Ingress!Spec

\* An update's notice is posted a second time only when two requests for it were under
\* way at once, and then no more often than failures and crashes have paid for; its event
\* is completed only when the post is there, the session set and the result written; what
\* Slack counts as delivered is stored once, by one socket, and a drain that was reported
\* is true: for any number of events, failures, crashes, retries and shutdowns.
THEOREM TakenOnceAlways == Spec => []TakenOnce
<1> DEFINE Inv == NoticeInv /\ CountInv
<1>1. Init => Inv
  BY NoticeStart, CountStart DEF Init
<1>2. Inv /\ [Next]_vars => Inv'
  <2>1. [Next]_vars => [Updates!Next]_updateVars
    BY DEF Next, vars, updateVars
  <2> QED
    BY <2>1, NoticeStep, CountStep
<1>3. Spec => Ingress!Spec
  BY IntakeRefined
<1>4. Ingress!Spec => [](Ingress!AckedIsStored /\ Ingress!OneSocket /\ Ingress!DrainedIsQuiet)
  BY Ingress!AckedAlwaysStored, Ingress!OneSocketAlways, Ingress!DrainedStaysQuiet, PTL
<1>5. Inv /\ Ingress!AckedIsStored /\ Ingress!OneSocket /\ Ingress!DrainedIsQuiet => TakenOnce
  BY SameIntake, PaidFor DEF NoticeInv, ThreadInv, StoreInv, TakenOnce
<1> QED
  BY <1>1, <1>2, <1>3, <1>4, <1>5, PTL DEF Spec

(***************************************************************************)
(* The notices of a group: the invariant.                                   *)
(***************************************************************************)
JobType == [status : Groups!Status, cause : Groups!Cause, notice : Groups!Notice \cup {None}]
QueueType == [state : {"queued", "held", "completed"}, transition : {"attention", "progress", "all_terminal"},
              outcome : {"none", "posted", "unclear", "superseded"}]
QueueTables == UNION {[names -> QueueType] : names \in SUBSET Groups!Notice}
Tables == [sealed : BOOLEAN, attention : Groups!Notice \cup {None}, terminal : Groups!Notice \cup {None},
           job : [Job -> JobType], notice : QueueTables,
           resolution : [Job -> {None, "validated_result", "operator_reconcile"}],
           claims : SUBSET Groups!Notice, receipts : SUBSET Groups!Notice, noPost : SUBSET Groups!Notice]

\* The tables: the notices that they name are in the queue, and one that was withdrawn
\* is closed.
Sane(d) ==
    /\ d \in Tables
    /\ {d.attention, d.terminal} \subseteq DOMAIN d.notice \cup {None}
    /\ \A j \in Job : d.job[j].notice \in DOMAIN d.notice \cup {None}
    /\ d.claims \cup d.receipts \cup d.noPost \subseteq DOMAIN d.notice
    /\ \A n \in DOMAIN d.notice : d.notice[n].outcome = "superseded" => d.notice[n].state = "completed"

\* What the module promises, of any tables.
Finished(d) == d.terminal # None => d.claims = {} /\ \A j \in Job : Groups!Understood(d, j)
Attended(d) == \A n \in DOMAIN d.notice :
    d.notice[n].transition = "attention" /\ n # d.attention
    => d.notice[n].outcome = "superseded" \/ Groups!Settled(d, n)
Agreed(d) == d.noPost \cap (d.receipts \cup d.claims) = {}

Sound(d) == Sane(d) /\ Finished(d) /\ Attended(d) /\ Agreed(d)

(***************************************************************************)
(* The notices of a group: what the operations are made of.                 *)
(***************************************************************************)
LEMMA TableEntry ==
    ASSUME NEW f \in QueueTables
    PROVE  DOMAIN f \subseteq Groups!Notice /\ f \in [DOMAIN f -> QueueType]
  BY DEF QueueTables

LEMMA TableMade ==
    ASSUME NEW names \in SUBSET Groups!Notice, NEW f \in [names -> QueueType]
    PROVE  f \in QueueTables
  BY DEF QueueTables

\* Whether an attention is settled depends on its notice and on what was verified.
LEMMA SettledFrame ==
    ASSUME NEW d \in Tables, NEW e \in Tables, NEW n, e.notice[n] = d.notice[n],
           n \in e.noPost <=> n \in d.noPost, n \in e.receipts <=> n \in d.receipts,
           n \in e.claims <=> n \in d.claims
    PROVE  Groups!Settled(e, n) <=> Groups!Settled(d, n)
  BY DEF Groups!Settled, Groups!Done

\* The queue and the verdicts stay, the attention stays or is given up when it is
\* settled, and the final report stays true or is withdrawn.
Calm(d, e) ==
    /\ e.notice = d.notice /\ e.claims = d.claims /\ e.receipts = d.receipts /\ e.noPost = d.noPost
    /\ e.attention = d.attention \/ (e.attention = None /\ (d.attention # None => Groups!Settled(d, d.attention)))
    /\ e.terminal = d.terminal \/ e.terminal = None
    /\ e.terminal # None => \A j \in Job : Groups!Understood(d, j) => Groups!Understood(e, j)
    /\ \A j \in Job : e.job[j].notice \in {d.job[j].notice, d.terminal, None}

LEMMA CalmKeeps ==
    ASSUME NEW d, Sound(d), NEW e \in Tables, Calm(d, e)
    PROVE  Sound(e)
<1> USE DEF Sound
<1>1. Sane(e)
  BY DEF Sane, Calm
<1>2. Finished(e)
  BY DEF Finished, Calm
<1>3. Attended(e)
  <2> SUFFICES ASSUME NEW n \in DOMAIN e.notice, e.notice[n].transition = "attention", n # e.attention,
                      e.notice[n].outcome # "superseded"
               PROVE  Groups!Settled(e, n)
    BY DEF Attended
  <2>1. Groups!Settled(e, n) <=> Groups!Settled(d, n)
    BY SettledFrame DEF Sane, Calm
  <2>2. Groups!Settled(d, n)
    BY DEF Attended, Calm
  <2> QED
    BY <2>1, <2>2
<1>4. Agreed(e)
  BY DEF Agreed, Calm
<1> QED
  BY <1>1, <1>2, <1>3, <1>4

\* A delivered attention makes room for another.
LEMMA HandOffKeeps ==
    ASSUME NEW d, Sound(d), NEW n
    PROVE  /\ Sound(Groups!HandOff(d, n))
           /\ \/ Groups!HandOff(d, n) = d
              \/ Groups!HandOff(d, n) = [d EXCEPT !.attention = None]
<1> DEFINE e == [d EXCEPT !.attention = None]
<1>1. \/ Groups!HandOff(d, n) = d
      \/ Groups!HandOff(d, n) = e /\ d.attention = n /\ Groups!Settled(d, n)
  BY DEF Groups!HandOff
<1>2. e \in Tables
  BY DEF Sound, Sane, Tables
<1>3. /\ e.notice = d.notice /\ e.claims = d.claims /\ e.receipts = d.receipts /\ e.noPost = d.noPost
      /\ e.attention = None /\ e.terminal = d.terminal /\ e.job = d.job /\ e.resolution = d.resolution
  BY DEF Sound, Sane, Tables
<1>4. \A j \in Job : Groups!Understood(d, j) => Groups!Understood(e, j)
  BY <1>3 DEF Groups!Understood, Groups!JobResolved
<1> HIDE DEF e
<1>5. CASE Groups!HandOff(d, n) = e /\ d.attention = n /\ Groups!Settled(d, n)
  <2>1. Calm(d, e)
    BY <1>3, <1>4, <1>5 DEF Calm
  <2> QED
    BY <1>2, <1>5, <2>1, CalmKeeps DEF e
<1> QED
  BY <1>1, <1>5

LEMMA SettledLess ==
    ASSUME NEW d \in Tables, NEW n, Groups!Settled(d, n)
    PROVE  d.notice[n].state = "completed" /\ d.notice[n].transition = "attention"
  BY DEF Groups!Settled, Groups!Done

\* Until a job has ended the group has no final report.
LEMMA NoReportYet ==
    ASSUME NEW d, Sound(d), NEW j \in Job, d.job[j].status \notin Groups!Final
    PROVE  d.terminal = None
  BY DEF Sound, Finished, Groups!Understood, Groups!JobResolved, Groups!Final

\* A job that had not ended gets another status.
LEMMA StopKeeps ==
    ASSUME NEW d, Sound(d), NEW j \in Job, d.job[j].status \notin Groups!Final,
           NEW status \in Groups!Status, NEW cause \in Groups!Cause
    PROVE  /\ Sound(Groups!Stop(d, j, status, cause))
           /\ Groups!Stop(d, j, status, cause).notice = d.notice
           /\ Groups!Stop(d, j, status, cause).attention = d.attention
<1> DEFINE entry == [d.job[j] EXCEPT !.status = status, !.cause = cause]
           e == [d EXCEPT !.job = [d.job EXCEPT ![j] = entry]]
<1>1. d \in Tables /\ d.job[j] \in JobType /\ d.job \in [Job -> JobType]
  BY DEF Sound, Sane, Tables
<1>2. entry \in JobType /\ entry.notice = d.job[j].notice
  BY <1>1 DEF JobType
<1>3. Groups!Stop(d, j, status, cause) = e
  BY <1>1 DEF Groups!Stop, Tables, JobType
<1> HIDE DEF entry
<1>4. [d.job EXCEPT ![j] = entry] \in [Job -> JobType]
  BY <1>1, <1>2
<1>5. e \in Tables
  BY <1>1, <1>4 DEF Tables
<1>6. /\ e.notice = d.notice /\ e.claims = d.claims /\ e.receipts = d.receipts /\ e.noPost = d.noPost
      /\ e.attention = d.attention /\ e.terminal = d.terminal
      /\ e.job = [d.job EXCEPT ![j] = entry]
  BY <1>1 DEF Tables
<1>7. \A k \in Job : e.job[k].notice = d.job[k].notice
  BY <1>1, <1>2, <1>6
<1> HIDE DEF e
<1>8. Calm(d, e)
  BY <1>6, <1>7, NoReportYet DEF Calm
<1> QED
  BY <1>3, <1>5, <1>6, <1>8, CalmKeeps

\* What waits in the queue is withdrawn.
LEMMA SupersedeKeeps ==
    ASSUME NEW d, Sound(d), NEW gone, \A n \in gone : n \in DOMAIN d.notice /\ Groups!Queued(d, n)
    PROVE  LET e == Groups!Supersede(d, gone) IN
           /\ Sound(e) /\ e.terminal = d.terminal /\ e.job = d.job
           /\ e.attention = (IF d.attention \in gone THEN None ELSE d.attention)
<1> DEFINE f == [n \in DOMAIN d.notice |-> IF n \in gone
                    THEN [d.notice[n] EXCEPT !.state = "completed", !.outcome = "superseded"]
                    ELSE d.notice[n]]
           a == IF d.attention \in gone THEN None ELSE d.attention
           e == [d EXCEPT !.notice = f, !.attention = a]
<1>1. d \in Tables /\ d.notice \in QueueTables
  BY DEF Sound, Sane, Tables
<1>2. DOMAIN d.notice \subseteq Groups!Notice /\ d.notice \in [DOMAIN d.notice -> QueueType]
  BY <1>1, TableEntry
<1>3. \A n \in DOMAIN d.notice :
        [d.notice[n] EXCEPT !.state = "completed", !.outcome = "superseded"] \in QueueType
  BY <1>2 DEF QueueType
<1>4. f \in [DOMAIN d.notice -> QueueType]
  BY <1>2, <1>3
<1>5. DOMAIN f = DOMAIN d.notice /\ f \in QueueTables
  BY <1>2, <1>4, TableMade
<1>6. \A n \in DOMAIN d.notice : /\ n \notin gone => f[n] = d.notice[n]
                                 /\ n \in gone => f[n].outcome = "superseded" /\ f[n].state = "completed"
  BY <1>2 DEF QueueType
<1>7. Groups!Supersede(d, gone) = e
  BY DEF Groups!Supersede
<1> HIDE DEF f
<1>8. a \in Groups!Notice \cup {None} /\ a \in {d.attention, None}
  BY <1>1 DEF Tables
<1>9. (a # d.attention => d.attention \in gone) /\ a = (IF d.attention \in gone THEN None ELSE d.attention)
  OBVIOUS
<1> HIDE DEF a
<1>10. e \in Tables
  BY <1>1, <1>5, <1>8 DEF Tables
<1>11. /\ e.notice = f /\ e.claims = d.claims /\ e.receipts = d.receipts /\ e.noPost = d.noPost
       /\ e.attention = a /\ e.terminal = d.terminal /\ e.job = d.job /\ e.resolution = d.resolution
  BY <1>1 DEF Tables
<1> HIDE DEF e
<1>12. Sane(e)
  BY <1>5, <1>6, <1>8, <1>10, <1>11 DEF Sound, Sane
<1>13. Finished(e)
  BY <1>11 DEF Sound, Finished, Groups!Understood, Groups!JobResolved
<1>14. Attended(e)
  <2> SUFFICES ASSUME NEW n \in DOMAIN e.notice, e.notice[n].transition = "attention", n # e.attention,
                      e.notice[n].outcome # "superseded"
               PROVE  Groups!Settled(e, n)
    BY DEF Attended
  <2>1. n \in DOMAIN d.notice /\ n \notin gone /\ e.notice[n] = d.notice[n]
    BY <1>5, <1>6, <1>11
  <2>2. n # d.attention
    BY <1>9, <1>11, <2>1
  <2>3. Groups!Settled(d, n)
    BY <2>1, <2>2 DEF Sound, Attended
  <2> QED
    BY <1>1, <1>10, <1>11, <2>1, <2>3, SettledFrame
<1>15. Agreed(e)
  BY <1>11 DEF Sound, Agreed
<1> QED
  BY <1>7, <1>9, <1>11, <1>12, <1>13, <1>14, <1>15 DEF Sound

\* A resolution is recorded, and a delivered attention may make room.
LEMMA ResolveKeeps ==
    ASSUME NEW d, Sound(d), NEW j \in Job, NEW n, NEW kind \in {"validated_result", "operator_reconcile"},
           NEW q \in Groups!Resolve(d, j, n, kind)
    PROVE  Sound(q)
<1> DEFINE e == [d EXCEPT !.resolution = [d.resolution EXCEPT ![j] = kind]]
<1>1. CASE d.resolution[j] = None
  <2>1. d \in Tables /\ d.resolution \in [Job -> {None, "validated_result", "operator_reconcile"}]
    BY DEF Sound, Sane, Tables
  <2>2. [d EXCEPT !.resolution[j] = kind] = e
    BY <2>1 DEF Tables
  <2>3. q = Groups!HandOff(e, n)
    BY <1>1, <2>2 DEF Groups!Resolve
  <2>4. [d.resolution EXCEPT ![j] = kind] \in [Job -> {None, "validated_result", "operator_reconcile"}]
    BY <2>1
  <2>5. e \in Tables
    BY <2>1, <2>4 DEF Tables
  <2>6. /\ e.notice = d.notice /\ e.claims = d.claims /\ e.receipts = d.receipts /\ e.noPost = d.noPost
        /\ e.attention = d.attention /\ e.terminal = d.terminal /\ e.job = d.job
        /\ e.resolution = [d.resolution EXCEPT ![j] = kind]
    BY <2>1 DEF Tables
  <2> HIDE DEF e
  <2>7. \A k \in Job : Groups!Understood(d, k) => Groups!Understood(e, k)
    BY <1>1, <2>1, <2>6 DEF Groups!Understood, Groups!JobResolved
  <2>8. Calm(d, e)
    BY <2>6, <2>7 DEF Calm
  <2>9. Sound(e)
    BY <2>5, <2>8, CalmKeeps
  <2> QED
    BY <2>3, <2>9, HandOffKeeps
<1>2. CASE d.resolution[j] # None
  <2>1. q = d
    BY <1>2 DEF Groups!Resolve
  <2> QED
    BY <2>1
<1> QED
  BY <1>1, <1>2

\* The tables with a notice added.
Added(d, j, n, transition, linked, a, t) ==
    LET queued == [state |-> "queued", transition |-> transition, outcome |-> "none"]
        told == [d EXCEPT !.notice = [m \in DOMAIN @ \cup {n} |-> IF m = n THEN queued ELSE @[m]],
                          !.job[j].notice = IF linked THEN @ ELSE n]
    IN [told EXCEPT !.attention = a, !.terminal = t]

\* A notice is added about a job: a progress report, the attention of a group that has
\* none, or the final report of one whose jobs are all understood.
LEMMA AddKeeps ==
    ASSUME NEW d, Sound(d), NEW j \in Job, NEW n \in Groups!Notice, n \notin DOMAIN d.notice,
           NEW transition \in {"attention", "progress", "all_terminal"}, d.terminal = None,
           NEW linked \in BOOLEAN,
           NEW a \in {d.attention, n}, NEW t \in {None, n},
           transition = "attention" => d.attention = None /\ a = n,
           a = n => d.attention = None,
           t = n => d.claims = {} /\ \A k \in Job : Groups!Understood(d, k)
    PROVE  Sound(Added(d, j, n, transition, linked, a, t))
<1> DEFINE queued == [state |-> "queued", transition |-> transition, outcome |-> "none"]
           f == [m \in DOMAIN d.notice \cup {n} |-> IF m = n THEN queued ELSE d.notice[m]]
           entry == [d.job[j] EXCEPT !.notice = IF linked THEN @ ELSE n]
           jobs == [d.job EXCEPT ![j] = entry]
           told == [d EXCEPT !.notice = [m \in DOMAIN @ \cup {n} |-> IF m = n THEN queued ELSE @[m]],
                             !.job[j].notice = IF linked THEN @ ELSE n]
           e == [d EXCEPT !.notice = f, !.job = jobs, !.attention = a, !.terminal = t]
<1>1. d \in Tables /\ d.notice \in QueueTables /\ d.job[j] \in JobType /\ d.job \in [Job -> JobType]
  BY DEF Sound, Sane, Tables
<1>2. DOMAIN d.notice \subseteq Groups!Notice /\ d.notice \in [DOMAIN d.notice -> QueueType]
  BY <1>1, TableEntry
<1>3. queued \in QueueType /\ queued.transition = transition /\ queued.outcome = "none"
  BY DEF QueueType
<1> HIDE DEF queued
<1>4. f \in [DOMAIN d.notice \cup {n} -> QueueType]
  BY <1>2, <1>3
<1>5. DOMAIN f = DOMAIN d.notice \cup {n} /\ f \in QueueTables
  BY <1>2, <1>4, TableMade
<1>6. f[n] = queued /\ \A m \in DOMAIN d.notice : f[m] = d.notice[m]
  OBVIOUS
<1>7. entry \in JobType /\ entry.status = d.job[j].status /\ entry.cause = d.job[j].cause
      /\ entry.notice \in {d.job[j].notice, n}
  BY <1>1 DEF JobType
<1>8. told = [d EXCEPT !.notice = f, !.job = jobs]
  BY <1>1, <1>7 DEF Tables
<1>9. [told EXCEPT !.attention = a, !.terminal = t] = e
  BY <1>1, <1>8 DEF Tables
<1> HIDE DEF f, entry
<1>10. jobs \in [Job -> JobType] /\ \A k \in Job : /\ jobs[k].status = d.job[k].status
                                                   /\ jobs[k].notice \in {d.job[k].notice, n}
  BY <1>1, <1>7
<1> HIDE DEF jobs
<1>11. a \in Groups!Notice \cup {None} /\ t \in Groups!Notice \cup {None}
  BY <1>1 DEF Tables
<1>12. e \in Tables
  BY <1>1, <1>5, <1>10, <1>11 DEF Tables
<1>13. /\ e.notice = f /\ e.claims = d.claims /\ e.receipts = d.receipts /\ e.noPost = d.noPost
       /\ e.attention = a /\ e.terminal = t /\ e.job = jobs /\ e.resolution = d.resolution
  BY <1>1 DEF Tables
<1> HIDE DEF e, told
<1>14. Sane(e)
  BY <1>3, <1>5, <1>6, <1>10, <1>12, <1>13 DEF Sound, Sane
<1>15. Finished(e)
  BY <1>10, <1>13 DEF Sound, Finished, Groups!Understood, Groups!JobResolved
<1>16. Attended(e)
  <2> SUFFICES ASSUME NEW m \in DOMAIN e.notice, e.notice[m].transition = "attention", m # e.attention,
                      e.notice[m].outcome # "superseded"
               PROVE  Groups!Settled(e, m)
    BY DEF Attended
  <2>1. m # n
    BY <1>3, <1>6, <1>13
  <2>2. m \in DOMAIN d.notice /\ e.notice[m] = d.notice[m] /\ m # None
    BY <1>2, <1>5, <1>6, <1>13, <2>1, NoneAssumption
  <2>3. m # d.attention
    BY <1>13, <2>2
  <2>4. Groups!Settled(d, m)
    BY <2>2, <2>3 DEF Sound, Attended
  <2> QED
    BY <1>1, <1>12, <1>13, <2>2, <2>4, SettledFrame
<1>17. Agreed(e)
  BY <1>13 DEF Sound, Agreed
<1> QED
  BY <1>9, <1>14, <1>15, <1>16, <1>17 DEF Sound, Added, told, queued

\* A job's notice becomes one that the group has, or none.
LEMMA LinkKeeps ==
    ASSUME NEW d, Sound(d), NEW j \in Job, NEW n \in {d.job[j].notice, d.terminal, None}
    PROVE  /\ Sound([d EXCEPT !.job[j].notice = n])
           /\ [d EXCEPT !.job[j].notice = n].job[j].status = d.job[j].status
<1> DEFINE entry == [d.job[j] EXCEPT !.notice = n]
           jobs == [d.job EXCEPT ![j] = entry]
           e == [d EXCEPT !.job = jobs]
<1>1. d \in Tables /\ d.job[j] \in JobType /\ d.job \in [Job -> JobType] /\ n \in Groups!Notice \cup {None}
  BY DEF Sound, Sane, Tables, JobType
<1>2. entry \in JobType /\ entry.status = d.job[j].status /\ entry.notice = n
  BY <1>1 DEF JobType
<1>3. [d EXCEPT !.job[j].notice = n] = e
  BY <1>1 DEF Tables
<1> HIDE DEF entry
<1>4. jobs \in [Job -> JobType]
      /\ \A k \in Job : jobs[k].status = d.job[k].status /\ jobs[k].notice \in {d.job[k].notice, d.terminal, None}
  BY <1>1, <1>2
<1> HIDE DEF jobs
<1>5. e \in Tables
  BY <1>1, <1>4 DEF Tables
<1>6. /\ e.notice = d.notice /\ e.claims = d.claims /\ e.receipts = d.receipts /\ e.noPost = d.noPost
      /\ e.attention = d.attention /\ e.terminal = d.terminal /\ e.job = jobs /\ e.resolution = d.resolution
  BY <1>1 DEF Tables
<1> HIDE DEF e
<1>7. \A k \in Job : Groups!Understood(d, k) => Groups!Understood(e, k)
  BY <1>4, <1>6 DEF Groups!Understood, Groups!JobResolved
<1>8. Calm(d, e)
  BY <1>4, <1>6, <1>7 DEF Calm
<1> QED
  BY <1>3, <1>4, <1>5, <1>6, <1>8, CalmKeeps

\* enqueueRegularJobNotification.
LEMMA EnqueueKeeps ==
    ASSUME NEW d0, Sound(d0), NEW j \in Job, NEW q \in Groups!Enqueue(d0, j)
    PROVE  Sound(q)
<1> DEFINE d == IF d0.attention # None /\ d0.job[j].status \in Groups!Attention
                THEN Groups!HandOff(d0, d0.attention) ELSE d0
<1>1. Sound(d)
  BY HandOffKeeps
<1> DEFINE linked == d.job[j].notice # None
           replaces == d.attention = None /\ d.job[j].status \in Groups!Attention /\ ~Groups!JobResolved(d, j)
           transition == Groups!Transition(d, j)
           n == <<j, d.job[j].status, IF ~linked THEN "plain"
                     ELSE IF transition = "attention" THEN "attention_replacement" ELSE "all_terminal">>
           queued == [state |-> "queued", transition |-> transition, outcome |-> "none"]
           told == [d EXCEPT !.notice = [m \in DOMAIN @ \cup {n} |-> IF m = n THEN queued ELSE @[m]],
                             !.job[j].notice = IF linked THEN @ ELSE n]
<1>2. \/ d.terminal # None /\ q = [d EXCEPT !.job[j].notice = IF linked THEN @ ELSE d.terminal]
      \/ q = d
      \/ /\ d.terminal = None /\ d.job[j].status \in Groups!Stopped /\ n \notin DOMAIN d.notice
         /\ \/ transition = "attention" /\ q = [told EXCEPT !.attention = n]
            \/ transition = "all_terminal" /\ q = [told EXCEPT !.terminal = n]
            \/ transition \notin {"attention", "all_terminal"} /\ q = told
  BY DEF Groups!Enqueue
<1> HIDE DEF d
<1>3. CASE d.terminal # None /\ q = [d EXCEPT !.job[j].notice = IF linked THEN @ ELSE d.terminal]
  BY <1>1, <1>3, LinkKeeps
<1>4. CASE /\ d.terminal = None /\ d.job[j].status \in Groups!Stopped /\ n \notin DOMAIN d.notice
           /\ \/ transition = "attention" /\ q = [told EXCEPT !.attention = n]
              \/ transition = "all_terminal" /\ q = [told EXCEPT !.terminal = n]
              \/ transition \notin {"attention", "all_terminal"} /\ q = told
  <2>1. n \in Groups!Notice
    BY <1>4 DEF Groups!Notice
  <2>2. transition \in {"attention", "progress", "all_terminal"}
    BY DEF Groups!Transition
  <2>3. transition = "attention" => d.attention = None
    BY DEF Groups!Transition
  <2>4. transition = "all_terminal" => d.claims = {} /\ \A k \in Job : Groups!Understood(d, k)
    BY DEF Groups!Transition, Groups!Claimable
  <2>5. d \in Tables /\ d.attention \in Groups!Notice \cup {None} /\ d.job[j] \in JobType
        /\ d.job \in [Job -> JobType]
    BY <1>1 DEF Sound, Sane, Tables
  <2>6. linked \in BOOLEAN
    OBVIOUS
  <2> HIDE DEF n, transition, linked
  <2>7. told.attention = d.attention /\ told.terminal = d.terminal
        /\ \A a, t : /\ [told EXCEPT !.attention = a, !.terminal = d.terminal] = [told EXCEPT !.attention = a]
                     /\ [told EXCEPT !.attention = d.attention, !.terminal = t] = [told EXCEPT !.terminal = t]
                     /\ [told EXCEPT !.attention = d.attention, !.terminal = d.terminal] = told
    BY <2>5 DEF Tables
  <2>8. ASSUME NEW a \in {d.attention, n}, NEW t \in {None, n},
               transition = "attention" => d.attention = None /\ a = n,
               a = n => d.attention = None,
               t = n => d.claims = {} /\ \A k \in Job : Groups!Understood(d, k)
        PROVE  Sound([told EXCEPT !.attention = a, !.terminal = t])
    <3>1. [told EXCEPT !.attention = a, !.terminal = t] = Added(d, j, n, transition, linked, a, t)
      BY DEF Added
    <3>2. Sound(Added(d, j, n, transition, linked, a, t))
      BY <1>1, <1>4, <2>1, <2>2, <2>6, <2>8, AddKeeps
    <3> QED
      BY <3>1, <3>2
  <2> HIDE DEF told
  <2>9. n # None /\ d.attention # n
    BY <1>1, <1>4, <2>1, NoneAssumption DEF Sound, Sane
  <2>10. CASE transition = "attention"
    BY <1>4, <2>3, <2>7, <2>8, <2>9, <2>10
  <2>11. CASE transition = "all_terminal"
    BY <1>4, <2>4, <2>7, <2>8, <2>9, <2>11
  <2>12. CASE transition \notin {"attention", "all_terminal"}
    BY <1>4, <2>7, <2>8, <2>9, <2>12
  <2> QED
    BY <2>10, <2>11, <2>12
<1> QED
  BY <1>1, <1>2, <1>3, <1>4

\* A job in review is freed from its notice, and the group from what still waits.
LEMMA FreedKeeps ==
    ASSUME NEW d, Sound(d), NEW j \in Job, NEW gone,
           gone \subseteq {d.job[j].notice, d.attention} \ {None}, \A n \in gone : Groups!Queued(d, n)
    PROVE  LET e == [Groups!Supersede(d, gone) EXCEPT !.job[j].notice = None]
           IN Sound(e) /\ e.job[j].status = d.job[j].status
<1> DEFINE s == Groups!Supersede(d, gone)
<1>1. gone \subseteq DOMAIN d.notice
  BY DEF Sound, Sane
<1>2. Sound(s) /\ s.job = d.job
  BY <1>1, SupersedeKeeps
<1> HIDE DEF s
<1>3. \A n \in {s.job[j].notice, s.terminal, None} :
        Sound([s EXCEPT !.job[j].notice = n]) /\ [s EXCEPT !.job[j].notice = n].job[j].status = s.job[j].status
  BY <1>2, LinkKeeps
<1>4. Sound([s EXCEPT !.job[j].notice = None]) /\ [s EXCEPT !.job[j].notice = None].job[j].status = d.job[j].status
  BY <1>2, <1>3
<1> QED
  BY <1>4 DEF s

\* saveJobResultInternal.
LEMMA SaveKeeps ==
    ASSUME NEW d, Sound(d), NEW j \in Job, NEW status \in {"completed", "failed"}, NEW asserted \in BOOLEAN,
           NEW q \in Groups!SaveResult(d, j, status, asserted)
    PROVE  Sound(q)
<1> DEFINE recovers == d.job[j].status = "needs_review" /\ (asserted \/ d.job[j].cause \in {"prompt", "cancel"})
           prior == IF recovers /\ d.job[j].notice # None THEN {d.job[j].notice} ELSE {}
           gone == {n \in prior : Groups!Queued(d, n)}
           freed == IF recovers THEN [Groups!Supersede(d, gone) EXCEPT !.job[j].notice = None] ELSE d
           saved == Groups!Stop(freed, j, status, "none")
<1>1. /\ d.job[j].status \in {"active", "cancelling", "needs_review"}
      /\ q = saved \/ q \in Groups!Resolve(saved, j, d.attention, "validated_result")
  BY DEF Groups!SaveResult
<1>2. Sound(freed) /\ freed.job[j].status = d.job[j].status
  <2>1. CASE recovers
    <3>1. gone \subseteq {d.job[j].notice, d.attention} \ {None} /\ \A n \in gone : Groups!Queued(d, n)
      OBVIOUS
    <3> HIDE DEF gone
    <3> QED
      BY <2>1, <3>1, FreedKeeps
  <2>2. CASE ~recovers
    BY <2>2
  <2> QED
    BY <2>1, <2>2
<1> HIDE DEF freed
<1>3. Sound(saved)
  <2>1. status \in Groups!Status /\ "none" \in Groups!Cause /\ freed.job[j].status \notin Groups!Final
    BY <1>1, <1>2 DEF Groups!Status, Groups!Stopped, Groups!Final, Groups!Cause
  <2> QED
    BY <1>2, <2>1, StopKeeps
<1> HIDE DEF saved
<1> QED
  BY <1>1, <1>3, ResolveKeeps

\* recoverWithOperatorAssertion, without a valid result.
LEMMA UnacceptedKeeps ==
    ASSUME NEW d, Sound(d), NEW j \in Job, d.job[j].status = "needs_review", NEW q \in Groups!Unaccepted(d, j)
    PROVE  Sound(q)
<1> DEFINE gone == {n \in {d.job[j].notice, d.attention} \ {None} : Groups!Queued(d, n)}
           freed == [Groups!Supersede(d, gone) EXCEPT !.job[j].notice = None]
           failure == Groups!Stop(freed, j, "failed", "none")
<1>1. q = failure \/ q \in Groups!Resolve(failure, j, d.attention, "operator_reconcile")
  BY DEF Groups!Unaccepted
<1>2. gone \subseteq {d.job[j].notice, d.attention} \ {None} /\ \A n \in gone : Groups!Queued(d, n)
  OBVIOUS
<1> HIDE DEF gone
<1>3. Sound(freed) /\ freed.job[j].status = d.job[j].status
  BY <1>2, FreedKeeps
<1> HIDE DEF freed
<1>4. Sound(failure)
  <2>1. "failed" \in Groups!Status /\ "none" \in Groups!Cause /\ freed.job[j].status \notin Groups!Final
    BY <1>3 DEF Groups!Status, Groups!Stopped, Groups!Final, Groups!Cause
  <2> QED
    BY <1>3, <2>1, StopKeeps
<1> HIDE DEF failure
<1> QED
  BY <1>1, <1>4, ResolveKeeps

\* beginJobCancellation.
LEMMA CancellationKeeps ==
    ASSUME Sound(db), NEW j \in Job, Groups!BeginCancellation(j)
    PROVE  Sound(db')
<1> DEFINE gone == {n \in {db.job[j].notice, db.attention, db.terminal} \ {None} : Groups!Queued(db, n)}
           d == Groups!Supersede(db, gone)
           jobs == [k \in Job |-> IF k = j THEN [status |-> "cancelling", cause |-> "none", notice |-> None]
                                  ELSE IF d.job[k].notice \in gone THEN [d.job[k] EXCEPT !.notice = None]
                                  ELSE d.job[k]]
           e == [d EXCEPT !.terminal = None, !.job = jobs]
<1>1. db' = e
  BY DEF Groups!BeginCancellation
<1>2. gone \subseteq DOMAIN db.notice /\ \A n \in gone : Groups!Queued(db, n)
  BY DEF Sound, Sane
<1> HIDE DEF gone
<1>3. Sound(d)
  BY <1>2, SupersedeKeeps
<1> HIDE DEF d
<1>4. d \in Tables /\ d.job \in [Job -> JobType]
  BY <1>3 DEF Sound, Sane, Tables
<1>5. \A k \in Job : d.job[k] \in JobType /\ [d.job[k] EXCEPT !.notice = None] \in JobType
                     /\ [d.job[k] EXCEPT !.notice = None].notice = None
  BY <1>4 DEF JobType
<1>6. [status |-> "cancelling", cause |-> "none", notice |-> None] \in JobType
  BY DEF JobType, Groups!Status, Groups!Cause
<1>7. jobs \in [Job -> JobType] /\ \A k \in Job : jobs[k].notice \in {d.job[k].notice, None}
  BY <1>5, <1>6
<1> HIDE DEF jobs
<1>8. e \in Tables
  BY <1>4, <1>7 DEF Tables
<1>9. /\ e.notice = d.notice /\ e.claims = d.claims /\ e.receipts = d.receipts /\ e.noPost = d.noPost
      /\ e.attention = d.attention /\ e.terminal = None /\ e.job = jobs
  BY <1>4 DEF Tables
<1> HIDE DEF e
<1>10. Calm(d, e)
  BY <1>7, <1>9 DEF Calm
<1> QED
  BY <1>1, <1>3, <1>8, <1>10, CalmKeeps

(***************************************************************************)
(* The notices of a group: the steps.                                       *)
(***************************************************************************)
\* A notice that is not closed changes in the queue: nobody has counted on it yet.
LEMMA EntryKeeps ==
    ASSUME NEW d, Sound(d), NEW n \in DOMAIN d.notice, d.notice[n].state # "completed",
           NEW entry \in QueueType, entry.outcome # "superseded",
           entry.transition = d.notice[n].transition
    PROVE  Sound([d EXCEPT !.notice = [d.notice EXCEPT ![n] = entry]])
<1> DEFINE f == [d.notice EXCEPT ![n] = entry]
           e == [d EXCEPT !.notice = f]
<1>1. d \in Tables /\ d.notice \in QueueTables
  BY DEF Sound, Sane, Tables
<1>2. DOMAIN d.notice \subseteq Groups!Notice /\ d.notice \in [DOMAIN d.notice -> QueueType]
  BY <1>1, TableEntry
<1>3. f \in [DOMAIN d.notice -> QueueType] /\ f[n] = entry
      /\ \A m \in DOMAIN d.notice : m # n => f[m] = d.notice[m]
  BY <1>2
<1> HIDE DEF f
<1>4. DOMAIN f = DOMAIN d.notice /\ f \in QueueTables
  BY <1>2, <1>3, TableMade
<1>5. e \in Tables
  BY <1>1, <1>4 DEF Tables
<1>6. /\ e.notice = f /\ e.claims = d.claims /\ e.receipts = d.receipts /\ e.noPost = d.noPost
      /\ e.attention = d.attention /\ e.terminal = d.terminal /\ e.job = d.job /\ e.resolution = d.resolution
  BY <1>1 DEF Tables
<1> HIDE DEF e
<1>7. Sane(e)
  BY <1>3, <1>4, <1>5, <1>6 DEF Sound, Sane
<1>8. Finished(e)
  BY <1>6 DEF Sound, Finished, Groups!Understood, Groups!JobResolved
<1>9. Attended(e)
  <2> SUFFICES ASSUME NEW m \in DOMAIN e.notice, e.notice[m].transition = "attention", m # e.attention,
                      e.notice[m].outcome # "superseded"
               PROVE  Groups!Settled(e, m)
    BY DEF Attended
  <2>1. m # n
    <3> SUFFICES ASSUME m = n PROVE FALSE
      OBVIOUS
    <3>1. d.notice[n].transition = "attention" /\ n # d.attention
      BY <1>3, <1>6
    <3>2. d.notice[n].outcome # "superseded"
      BY DEF Sound, Sane
    <3>3. Groups!Settled(d, n)
      BY <3>1, <3>2 DEF Sound, Attended
    <3> QED
      BY <1>1, <3>3, SettledLess
  <2>2. m \in DOMAIN d.notice /\ e.notice[m] = d.notice[m]
    BY <1>3, <1>4, <1>6, <2>1
  <2>3. Groups!Settled(d, m)
    BY <1>6, <2>2 DEF Sound, Attended
  <2> QED
    BY <1>1, <1>5, <1>6, <2>2, <2>3, SettledFrame
<1>10. Agreed(e)
  BY <1>6 DEF Sound, Agreed
<1> QED
  BY <1>7, <1>8, <1>9, <1>10 DEF Sound, e, f

\* The tables with other verdicts.
Verified(d, claims, receipts, noPost) ==
    [d EXCEPT !.claims = claims, !.receipts = receipts, !.noPost = noPost]

\* What is verified, about the attention of a group without a final report.
LEMMA VerdictKeeps ==
    ASSUME NEW d, Sound(d), NEW n \in DOMAIN d.notice, n = d.attention, d.terminal = None,
           NEW claims \in SUBSET Groups!Notice, NEW receipts \in SUBSET Groups!Notice,
           NEW noPost \in SUBSET Groups!Notice,
           \A m \in Groups!Notice : m # n => /\ m \in claims <=> m \in d.claims
                                             /\ m \in receipts <=> m \in d.receipts
                                             /\ m \in noPost <=> m \in d.noPost,
           n \in noPost => n \notin receipts \cup claims
    PROVE  Sound(Verified(d, claims, receipts, noPost))
<1> DEFINE e == [d EXCEPT !.claims = claims, !.receipts = receipts, !.noPost = noPost]
<1>1. d \in Tables /\ d.notice \in QueueTables
  BY DEF Sound, Sane, Tables
<1>2. DOMAIN d.notice \subseteq Groups!Notice
  BY <1>1, TableEntry
<1>3. e \in Tables
  BY <1>1 DEF Tables
<1>4. /\ e.notice = d.notice /\ e.claims = claims /\ e.receipts = receipts /\ e.noPost = noPost
      /\ e.attention = d.attention /\ e.terminal = d.terminal /\ e.job = d.job /\ e.resolution = d.resolution
  BY <1>1 DEF Tables
<1> HIDE DEF e
<1>5. claims \cup receipts \cup noPost \subseteq DOMAIN d.notice
  BY <1>2 DEF Sound, Sane
<1>6. Sane(e)
  BY <1>3, <1>4, <1>5 DEF Sound, Sane
<1>7. Finished(e)
  BY <1>4 DEF Finished
<1>8. Attended(e)
  <2> SUFFICES ASSUME NEW m \in DOMAIN e.notice, e.notice[m].transition = "attention", m # e.attention,
                      e.notice[m].outcome # "superseded"
               PROVE  Groups!Settled(e, m)
    BY DEF Attended
  <2>1. m \in Groups!Notice /\ m # n /\ m \in DOMAIN d.notice /\ e.notice[m] = d.notice[m]
    BY <1>2, <1>4
  <2>2. Groups!Settled(d, m)
    BY <1>4, <2>1 DEF Sound, Attended
  <2> QED
    BY <1>1, <1>3, <1>4, <2>1, <2>2, SettledFrame
<1>9. Agreed(e)
  BY <1>4 DEF Sound, Agreed
<1> QED
  BY <1>6, <1>7, <1>8, <1>9 DEF Sound, Verified, e

\* sealJobGroup.
LEMMA SealKeeps ==
    ASSUME Sound(db), Groups!Seal
    PROVE  Sound(db')
<1> DEFINE e == [db EXCEPT !.sealed = TRUE]
<1>1. db' = e
  BY DEF Groups!Seal
<1>2. db \in Tables
  BY DEF Sound, Sane
<1>3. e \in Tables
  BY <1>2 DEF Tables
<1>4. /\ e.notice = db.notice /\ e.claims = db.claims /\ e.receipts = db.receipts /\ e.noPost = db.noPost
      /\ e.attention = db.attention /\ e.terminal = db.terminal /\ e.job = db.job
      /\ e.resolution = db.resolution
  BY <1>2 DEF Tables
<1> HIDE DEF e
<1>5. \A k \in Job : Groups!Understood(db, k) => Groups!Understood(e, k)
  BY <1>4 DEF Groups!Understood, Groups!JobResolved
<1>6. Calm(db, e)
  BY <1>4, <1>5 DEF Calm
<1> QED
  BY <1>1, <1>3, <1>6, CalmKeeps

\* A job of the group.
LEMMA JobKeeps ==
    ASSUME Sound(db), Groups!JobStep
    PROVE  Sound(db')
<1> PICK j \in Job : \/ Groups!Block(j) \/ Groups!Review(j) \/ Groups!Resume(j) \/ Groups!Finish(j)
                     \/ Groups!BeginCancellation(j) \/ Groups!Cancelled(j)
  BY DEF Groups!JobStep
<1>1. {"blocked", "needs_review", "active", "cancelled"} \subseteq Groups!Status
      /\ {"none", "cancel", "prompt", "other"} = Groups!Cause
      /\ {"active", "cancelling", "blocked", "needs_review"} \cap Groups!Final = {}
  BY DEF Groups!Status, Groups!Stopped, Groups!Final, Groups!Attention, Groups!Cause
<1>2. CASE Groups!Block(j)
  BY <1>1, <1>2, StopKeeps DEF Groups!Block
<1>3. CASE Groups!Review(j)
  BY <1>1, <1>3, StopKeeps DEF Groups!Review
<1>4. CASE Groups!Resume(j)
  BY <1>1, <1>4, StopKeeps DEF Groups!Resume
<1>5. CASE Groups!Finish(j)
  BY <1>5, SaveKeeps DEF Groups!Finish
<1>6. CASE Groups!BeginCancellation(j)
  BY <1>6, CancellationKeeps
<1>7. CASE Groups!Cancelled(j)
  <2> DEFINE d == Groups!Stop(db, j, "cancelled", "none")
  <2>1. db' = d \/ db' \in Groups!Resolve(d, j, d.attention, "operator_reconcile")
    BY <1>7 DEF Groups!Cancelled
  <2>2. Sound(d)
    BY <1>1, <1>7, StopKeeps DEF Groups!Cancelled
  <2> HIDE DEF d
  <2> QED
    BY <2>1, <2>2, ResolveKeeps
<1> QED
  BY <1>2, <1>3, <1>4, <1>5, <1>6, <1>7

\* The queue hands a notice out, takes it back, or closes it.
LEMMA NoticeKeeps ==
    ASSUME Sound(db), Groups!NoticeStep
    PROVE  Sound(db')
<1> PICK n \in DOMAIN db.notice : Groups!Take(n) \/ Groups!GiveBack(n) \/ Groups!Complete(n)
  BY DEF Groups!NoticeStep
<1>1. db \in Tables /\ db.notice \in QueueTables
  BY DEF Sound, Sane, Tables
<1>2. db.notice \in [DOMAIN db.notice -> QueueType] /\ db.notice[n] \in QueueType
  BY <1>1, TableEntry
<1>3. db.notice[n].state # "completed" => db.notice[n].outcome # "superseded"
  BY DEF Sound, Sane
<1>4. CASE Groups!Take(n) \/ Groups!GiveBack(n)
  <2>1. PICK from \in {"queued", "held"}, to \in {"queued", "held"} :
          db.notice[n].state = from /\ db' = [db EXCEPT !.notice[n].state = to]
    BY <1>4 DEF Groups!Take, Groups!GiveBack, Groups!NoticeTo
  <2> DEFINE entry == [db.notice[n] EXCEPT !.state = to]
  <2>2. entry \in QueueType /\ entry.outcome = db.notice[n].outcome
        /\ entry.transition = db.notice[n].transition
    BY <1>2 DEF QueueType
  <2>3. db' = [db EXCEPT !.notice = [db.notice EXCEPT ![n] = entry]]
    BY <1>1, <1>2, <2>1 DEF Tables
  <2> HIDE DEF entry
  <2> QED
    BY <1>3, <2>1, <2>2, <2>3, EntryKeeps
<1>5. CASE Groups!Complete(n)
  <2>1. PICK outcome \in {"posted", "unclear"} :
          db' = Groups!HandOff([db EXCEPT !.notice[n] = [@ EXCEPT !.state = "completed", !.outcome = outcome]], n)
    BY <1>5 DEF Groups!Complete
  <2> DEFINE entry == [db.notice[n] EXCEPT !.state = "completed", !.outcome = outcome]
             d == [db EXCEPT !.notice = [db.notice EXCEPT ![n] = entry]]
  <2>2. entry \in QueueType /\ entry.outcome = outcome /\ entry.transition = db.notice[n].transition
    BY <1>2 DEF QueueType
  <2>3. [db EXCEPT !.notice[n] = [@ EXCEPT !.state = "completed", !.outcome = outcome]] = d
    BY <1>1, <1>2 DEF Tables
  <2>4. db' = Groups!HandOff(d, n)
    BY <2>1, <2>3
  <2> HIDE DEF entry
  <2>5. Sound(d)
    BY <1>5, <2>2, EntryKeeps DEF Groups!Complete
  <2> HIDE DEF d
  <2> QED
    BY <2>4, <2>5, HandOffKeeps
<1> QED
  BY <1>4, <1>5

\* The operator verifies the attention of the group.
LEMMA VerifyKeeps ==
    ASSUME Sound(db), NEW n \in DOMAIN db.notice,
           \/ Groups!ClaimDelivery(n) \/ Groups!RecordDelivery(n)
           \/ Groups!ReleaseClaim(n) \/ Groups!NotPosted(n)
    PROVE  Sound(db')
<1>1. db \in Tables /\ db.notice \in QueueTables /\ n \in Groups!Notice
      /\ db.claims \in SUBSET Groups!Notice /\ db.receipts \in SUBSET Groups!Notice
      /\ db.noPost \in SUBSET Groups!Notice /\ db.noPost \cap (db.receipts \cup db.claims) = {}
  BY TableEntry DEF Sound, Sane, Tables, Agreed
<1>2. n = db.attention /\ db.terminal = None
  BY DEF Groups!ClaimDelivery, Groups!RecordDelivery, Groups!ReleaseClaim, Groups!NotPosted,
         Groups!Verifiable
<1>3. \A claims, receipts, noPost :
        /\ [db EXCEPT !.claims = claims] = Verified(db, claims, db.receipts, db.noPost)
        /\ [db EXCEPT !.receipts = receipts, !.claims = claims] = Verified(db, claims, receipts, db.noPost)
        /\ [db EXCEPT !.noPost = noPost] = Verified(db, db.claims, db.receipts, noPost)
  BY <1>1 DEF Tables, Verified
<1>4. ASSUME NEW claims, NEW receipts, NEW noPost,
             claims \in {db.claims, db.claims \cup {n}, db.claims \ {n}},
             receipts \in {db.receipts, db.receipts \cup {n}}, noPost \in {db.noPost, db.noPost \cup {n}},
             n \in noPost => n \notin receipts \cup claims
      PROVE  Sound(Verified(db, claims, receipts, noPost))
  <2>1. claims \in SUBSET Groups!Notice /\ receipts \in SUBSET Groups!Notice /\ noPost \in SUBSET Groups!Notice
    BY <1>1, <1>4
  <2>2. \A m \in Groups!Notice : m # n => /\ m \in claims <=> m \in db.claims
                                          /\ m \in receipts <=> m \in db.receipts
                                          /\ m \in noPost <=> m \in db.noPost
    BY <1>4
  <2> QED
    BY <1>2, <1>4, <2>1, <2>2, VerdictKeeps
<1>5. CASE Groups!ClaimDelivery(n)
  <2>1. db' = [db EXCEPT !.claims = db.claims \cup {n}] /\ n \notin db.noPost
    BY <1>1, <1>5 DEF Groups!ClaimDelivery, Groups!Verifiable
  <2>2. db' = Verified(db, db.claims \cup {n}, db.receipts, db.noPost)
    BY <1>3, <2>1
  <2> QED
    BY <1>1, <1>4, <2>1, <2>2
<1>6. CASE Groups!ReleaseClaim(n)
  <2>1. db' = [db EXCEPT !.claims = db.claims \ {n}]
    BY <1>1, <1>6 DEF Groups!ReleaseClaim
  <2>2. db' = Verified(db, db.claims \ {n}, db.receipts, db.noPost)
    BY <1>3, <2>1
  <2> QED
    BY <1>1, <1>4, <2>2
<1>7. CASE Groups!NotPosted(n)
  <2>1. db' = [db EXCEPT !.noPost = db.noPost \cup {n}] /\ n \notin db.receipts \cup db.claims
    BY <1>1, <1>7 DEF Groups!NotPosted
  <2>2. db' = Verified(db, db.claims, db.receipts, db.noPost \cup {n})
    BY <1>3, <2>1
  <2> QED
    BY <1>1, <1>4, <2>1, <2>2
<1>8. CASE Groups!RecordDelivery(n)
  <2> DEFINE d == [db EXCEPT !.receipts = db.receipts \cup {n}, !.claims = db.claims \ {n}]
  <2>1. db' = Groups!HandOff(d, n) /\ n \notin db.noPost
    BY <1>1, <1>8 DEF Groups!RecordDelivery, Groups!Verifiable
  <2>2. d = Verified(db, db.claims \ {n}, db.receipts \cup {n}, db.noPost)
    BY <1>3
  <2> HIDE DEF d
  <2>3. Sound(d)
    BY <1>4, <2>1, <2>2
  <2> QED
    BY <2>1, <2>3, HandOffKeeps
<1> QED
  BY <1>5, <1>6, <1>7, <1>8

\* The operator settles a failed job, or answers for one in review.
LEMMA OperatorKeeps ==
    ASSUME Sound(db), NEW j \in Job, Groups!ResolveFailed(j) \/ Groups!Recover(j)
    PROVE  Sound(db')
<1>1. CASE Groups!ResolveFailed(j)
  <2>1. PICK d \in Groups!Resolve(db, j, db.attention, "operator_reconcile") : db' \in Groups!Enqueue(d, j)
    BY <1>1 DEF Groups!ResolveFailed
  <2>2. Sound(d)
    BY <2>1, ResolveKeeps
  <2> QED
    BY <2>1, <2>2, EnqueueKeeps
<1>2. CASE Groups!Recover(j)
  <2>1. PICK d \in (UNION {Groups!SaveResult(db, j, status, TRUE) : status \in {"completed", "failed"}})
                     \cup Groups!Unaccepted(db, j) : db' \in Groups!Enqueue(d, j)
    BY <1>2 DEF Groups!Recover
  <2>2. db.job[j].status = "needs_review"
    BY <1>2 DEF Groups!Recover
  <2>3. \/ \E status \in {"completed", "failed"} : d \in Groups!SaveResult(db, j, status, TRUE)
        \/ d \in Groups!Unaccepted(db, j)
    BY <2>1
  <2>4. Sound(d)
    BY <2>2, <2>3, SaveKeeps, UnacceptedKeeps
  <2> QED
    BY <2>1, <2>4, EnqueueKeeps
<1> QED
  BY <1>1, <1>2

LEMMA GroupKeeps ==
    ASSUME Sound(db), [Groups!Next]_groupVars
    PROVE  Sound(db')
<1>1. CASE Groups!Seal
  BY <1>1, SealKeeps
<1>2. CASE Groups!JobStep
  BY <1>2, JobKeeps
<1>3. CASE Groups!NoticeStep
  BY <1>3, NoticeKeeps
<1>4. CASE Groups!OperatorStep
  BY <1>4, VerifyKeeps, OperatorKeeps DEF Groups!OperatorStep
<1>5. ASSUME NEW j \in Job, Groups!Announce(j)
      PROVE  Sound(db')
  BY <1>5, EnqueueKeeps DEF Groups!Announce
<1>6. CASE UNCHANGED groupVars
  BY <1>6 DEF groupVars
<1> QED
  BY <1>1, <1>2, <1>3, <1>4, <1>5, <1>6 DEF Groups!Next

LEMMA GroupBegins ==
    ASSUME Groups!Init
    PROVE  Sound(db)
<1> DEFINE jobs == [j \in Job |-> [status |-> "active", cause |-> "none", notice |-> None]]
           f == [n \in {} |-> None]
           resolution == [j \in Job |-> None]
<1>1. db = [sealed |-> FALSE, attention |-> None, terminal |-> None, job |-> jobs, notice |-> f,
            resolution |-> resolution, claims |-> {}, receipts |-> {}, noPost |-> {}]
  BY DEF Groups!Init
<1>2. jobs \in [Job -> JobType] /\ \A j \in Job : jobs[j].notice = None
  BY DEF JobType, Groups!Status, Groups!Cause
<1>3. DOMAIN f = {} /\ f \in [{} -> QueueType]
  OBVIOUS
<1>4. f \in QueueTables
  BY <1>3, TableMade
<1>5. resolution \in [Job -> {None, "validated_result", "operator_reconcile"}]
  OBVIOUS
<1> HIDE DEF jobs, f, resolution
<1>6. db \in Tables
  BY <1>1, <1>2, <1>4, <1>5 DEF Tables
<1> QED
  BY <1>1, <1>2, <1>3, <1>6 DEF Sound, Sane, Finished, Attended, Agreed

\* What a group was told stays true (ToldStaysTrue): no job of a group leaves the state
\* that its final report gives, an attention is withdrawn unread or settled before
\* another one takes its place (handoffResolvedAttention, enqueueRegularJobNotification),
\* and nobody verifies that a message was not posted while it is being posted.
THEOREM ToldTrueAlways == Spec => []ToldStaysTrue
<1>1. Init => Sound(db)
  BY GroupBegins DEF Init
<1>2. Sound(db) /\ [Next]_vars => Sound(db)'
  <2> SUFFICES ASSUME Sound(db), [Next]_vars PROVE Sound(db')
    OBVIOUS
  <2>1. [Groups!Next]_groupVars
    BY DEF Next, vars, groupVars
  <2> QED
    BY <2>1, GroupKeeps
<1>3. Sound(db) => ToldStaysTrue
  BY DEF Sound, Finished, Attended, Agreed, ToldStaysTrue, Groups!FinalReportIsFinal,
         Groups!AttentionUntilSettled, Groups!VerdictsAgree
<1> QED
  BY <1>1, <1>2, <1>3, PTL DEF Spec

(***************************************************************************)
(* The types of all the state.                                              *)
(***************************************************************************)
\* The tables of a group are typed.
LEMMA GroupTypes == ASSUME Sound(db) PROVE Groups!TypeOK
<1> USE DEF Sound, Sane
<1>1. /\ db.notice \in QueueTables /\ db.job \in [Job -> JobType] /\ db.sealed \in BOOLEAN
      /\ db.resolution \in [Job -> {None, "validated_result", "operator_reconcile"}]
  BY DEF Tables
<1>2. DOMAIN db.notice \subseteq Groups!Notice /\ db.notice \in [DOMAIN db.notice -> QueueType]
  BY <1>1, TableEntry
<1>3. \A j \in Job : db.job[j] \in [status : Groups!Status, cause : Groups!Cause,
                                     notice : DOMAIN db.notice \cup {None}]
  BY <1>1 DEF JobType
<1>4. \A n \in DOMAIN db.notice : db.notice[n] \in QueueType
  BY <1>2
<1> QED
  BY <1>1, <1>2, <1>3, <1>4 DEF Groups!TypeOK, QueueType

\* Where the recovery is, and what was read.
Recalled == hand \subseteq Job /\ recovery \in {"done", "drain", "finish", "background"}

LEMMA RecalledStep == ASSUME Recalled, [Progress!Next]_progressVars PROVE Recalled'
<1> USE DEF Recalled
<1>1. CASE UNCHANGED <<hand, recovery>>
  BY <1>1
<1>2. ASSUME NEW j \in Job, Progress!Read(j) \/ Progress!Store(j) PROVE Recalled'
  BY <1>2 DEF Progress!Read, Progress!Store
<1>3. CASE Progress!Restart
  BY <1>3 DEF Progress!Restart
<1>4. CASE Progress!Recovering
  BY <1>4 DEF Progress!Recovering, Progress!Recover, Progress!Recovered, Progress!Defer
<1>5. CASE Progress!Adapter
  BY <1>5 DEF Progress!Adapter, Progress!Resolve, Progress!Write
<1>6. CASE Progress!Send \/ Progress!GiveUp \/ \E j \in Job : Progress!CloseRow(j) \/ Progress!Begin(j)
  BY <1>6 DEF Progress!Send, Progress!GiveUp, Progress!CloseRow, Progress!Begin
<1>7. CASE Progress!Announcing
  BY <1>7 DEF Progress!Announcing, Progress!PassClose, Progress!PassEnd, Progress!PassStep, Progress!PassStart, Progress!Publish
<1>8. CASE \/ Progress!Seal \/ Progress!Unsent \/ Progress!LoseAnswer
           \/ Progress!AdapterStops \/ Progress!AdapterDies \/ Progress!Disable
  BY <1>8 DEF Progress!Seal, Progress!Unsent, Progress!LoseAnswer, Progress!AdapterStops,
              Progress!AdapterDies, Progress!Disable
<1>9. ASSUME NEW j \in Job, Progress!Stop(j) \/ Progress!Return(j) PROVE UNCHANGED <<hand, recovery>>
  BY <1>9 DEF Progress!Stop, Progress!Return
<1>10. ASSUME NEW c \in calls, Progress!ResolveFails(c) \/ Progress!WriteFails(c) PROVE UNCHANGED <<hand, recovery>>
  BY <1>10 DEF Progress!ResolveFails, Progress!WriteFails
<1>11. CASE UNCHANGED progressVars
  BY <1>1, <1>11 DEF progressVars
<1> QED
  BY <1>1, <1>2, <1>3, <1>4, <1>5, <1>6, <1>7, <1>8, <1>9, <1>10, <1>11
  DEF Progress!Next, Progress!Reporting

LEMMA ProgressTypes == ASSUME LineInv, Recalled PROVE Progress!TypeOK
  BY DEF LineInv, LineTyped, Recalled, Progress!TypeOK, RowType, Status, CallType, PassType

\* The intake here and the one that the proofs are about have the same types.
LEMMA SameTypes == Intake!TypeOK <=> Ingress!TypeOK
  BY DEF Intake!TypeOK, Ingress!TypeOK, Intake!Event, Ingress!Event, Intake!Slot, Ingress!Slot

\* Every variable of every part keeps its type (TypesOK): no notice is in the queue that
\* a table does not know, a request names a job or an event that there is, and an
\* update's notice is posted at most as often as failures and crashes allow.
THEOREM TypesAlways == Spec => []TypesOK
<1> DEFINE Inv == Sound(db) /\ LineInv /\ Recalled /\ NoticeInv /\ CountInv
<1>1. Init => Inv
  <2>1. Progress!Init => Recalled
    BY DEF Progress!Init, Recalled
  <2> QED
    BY <2>1, GroupBegins, LineStart, NoticeStart, CountStart DEF Init
<1>2. Inv /\ [Next]_vars => Inv'
  <2> SUFFICES ASSUME Inv, [Next]_vars PROVE Inv'
    OBVIOUS
  <2>1. /\ [Groups!Next]_groupVars /\ [Progress!Next]_progressVars /\ [Updates!Next]_updateVars
    BY DEF Next, vars, groupVars, progressVars, updateVars
  <2>2. Sound(db)'
    BY <2>1, GroupKeeps
  <2> QED
    BY <2>1, <2>2, LineStep, RecalledStep, NoticeStep, CountStep
<1>3. Spec => []Ingress!TypeOK
  <2>1. Events \in Nat
    BY LimitAssumption
  <2> QED
    BY <2>1, IntakeRefined, Ingress!TypesAlways, PTL
<1>4. Inv /\ Ingress!TypeOK => TypesOK
  BY GroupTypes, ProgressTypes, NoticeTypes, SameTypes DEF TypesOK
<1> QED
  BY <1>1, <1>2, <1>3, <1>4, PTL DEF Spec
=============================================================================
