------------------------ MODULE TaskExecutionProofs ------------------------
(***************************************************************************)
(* Proofs about a task and its attempts, for any number of attempts and of *)
(* requests, lost commands and restarts.                                   *)
(***************************************************************************)
EXTENDS TaskExecution, FiniteSetTheorems, TLAPS

(***************************************************************************)
(* The inductive invariant                                                 *)
(***************************************************************************)

Resting == {"needs_review", "blocked"} \cup Terminal
Left == {"gone", "ready"}
Asks(j) == j.asks = "human" /\ j.answer \in {"stored", "asked"}

\* An attempt that does not exist yet has left no trace.
Later == \A a \in Attempt : a > Current =>
    job[a] = NoJob /\ worker[a] = "none" /\ file[a] = "none" /\ op[a] = "none" /\ used.closes[a] = 0

\* One that was replaced rests, and has no worker but one without a prompt.
Earlier == \A a \in Attempt : a < Current =>
    job[a].status \in Resting /\ worker[a] \in Left /\ ~(steer.at = "sent" /\ steer.of = a)

\* From the claim of the stop on nothing starts, steers or resumes the attempt.
Stopping == task.stop # "none" =>
    /\ Row.pane /\ Row.status \in Resting /\ steer.at # "sent"
    /\ task.stop = "stopped" => worker[Current] \in Left

\* What a round knows: the attempt, the owner's wish unless the row has moved, and
\* that nobody is asked anything.
Visited == visit.at # "none" =>
    /\ visit.of = Current /\ steer.at # "sent"
    /\ visit.stop # "none" => task.stop # "none"
    /\ ~visit.stale => visit.desired = task.desired
    /\ visit.at # "read" /\ ~visit.stale /\ visit.desired = "running" => ~Asks(Row)

\* What is said to an attempt is said to one that exists.
Steered == steer.at # "none" => steer.of <= Current

\* The pane is closed under the intent that is on the row, and once.
ClosedOnce ==
    /\ \A a \in Attempt : used.closes[a] <= 1
    /\ task.stop \in {"none", "not_sent"} => used.closes[Current] = 0
    /\ visit.at = "close" => task.stop = "attempting" /\ used.closes[Current] = 0

\* Only a prompt brings a result, and an attempt is cancelled when none can come.
Evidence == \A a \in Attempt :
    /\ ~job[a].sent => file[a] = "none"
    /\ job[a].status = "cancelled" =>
         file[a] = "none" /\ (~job[a].sent \/ a < Current \/ task.stop = "stopped")
    /\ job[a].asks = "none" => job[a].answer = "unread"

Rest == Later /\ Earlier /\ Stopping /\ Visited /\ Steered /\ ClosedOnce /\ Evidence
IInv == TypeOK /\ task.no <= task.max /\ Rest

USE BoundAssumption DEF Attempt, Current, Row

-----------------------------------------------------------------------------
(***************************************************************************)
(* The rows                                                                *)
(***************************************************************************)

StopState == {"none", "not_sent", "attempting", "stopped"}
Wish == {"running", "paused", "cancelled"}
TaskRow == [no : Attempt, max : Attempt, state : {"active", "waiting", "paused"} \cup Terminal,
            desired : Wish, reason : Reason, stop : StopState, fails : 0..3, steer : BOOLEAN]
JobRow == [status : Status, code : Code, pane : BOOLEAN, sent : BOOLEAN,
           steer : {"none", "dispatching", "accepted"},
           asks : {"none", "human", "limit", "lifted"},
           answer : {"unread", "stored", "asked", "answered"}]
WorkerState == {"none", "ready", "idle", "working", "waiting", "shell", "leaving", "gone"}
OpState == {"none", "access", "prepare", "observe", "prompt", "read", "ingest", "wait"}
VisitRow == [at : {"none", "read", "observe", "again", "close", "probe", "replace"}, of : Attempt,
             stale : BOOLEAN, moved : BOOLEAN, capacity : BOOLEAN,
             desired : Wish, reason : Reason, why : ForHuman \cup {"observation_unknown"},
             stop : StopState]
SteerRow == [at : {"none", "begin", "sent"}, of : Attempt, read : BOOLEAN]
UsedRow == [disturbed : 0..Disturbances, closes : [Attempt -> Nat]]

LEMMA Typed ==
    TypeOK <=> /\ task \in TaskRow /\ job \in [Attempt -> JobRow]
               /\ worker \in [Attempt -> WorkerState] /\ file \in [Attempt -> {"none", "valid", "invalid"}]
               /\ op \in [Attempt -> OpState] /\ visit \in VisitRow /\ steer \in SteerRow /\ used \in UsedRow
  BY DEF TypeOK, TaskRow, JobRow, WorkerState, OpState, VisitRow, SteerRow, UsedRow, StopState, Wish

LEMMA Words ==
    /\ Resting \subseteq Status /\ Terminal \subseteq Resting
    /\ {"none", "queued", "retryable_failed", "preparing", "dispatching", "running", "blocked",
        "needs_review", "completed", "failed", "cancelled"} \subseteq Status
    /\ {"none", "queued", "retryable_failed", "preparing", "dispatching", "running"} \cap Resting = {}
    /\ {"completed", "failed", "cancelled", "needs_review", "blocked"} \subseteq Resting
    /\ {"completed", "failed", "cancelled"} \subseteq Terminal
    /\ {"active", "waiting", "paused"} \cap Terminal = {}
    /\ {"none", "auto", "stop_pending", "invalid", "human"} = Code
    /\ {"none", "paused", "capacity_wait", "observation_unknown", "worker_stop_pending", "human_input",
        "retry_exhausted", "result_conflict", "external_effect_unknown", "worker_unknown",
        "steer_acceptance_unknown", "cancel_requested", "pause_requested", "resume_requested"} \subseteq Reason
    /\ ForHuman \subseteq Reason
    /\ {"human_input", "result_conflict", "external_effect_unknown"} \subseteq ForHuman
  BY DEF Resting, Terminal, Status, Code, Reason, ForHuman, Requested

LEMMA NoJobRow == NoJob \in JobRow /\ Queued \in JobRow
  BY DEF NoJob, Queued, JobRow, Status, Terminal, Code

LEMMA NoVisitRow == NoVisit \in VisitRow /\ NoSteer \in SteerRow
  BY DEF NoVisit, NoSteer, VisitRow, SteerRow, Wish, Reason, ForHuman, StopState

\* A job row that is written in place.
LEMMA JobWritten ==
    ASSUME NEW j \in JobRow, NEW s \in Status, NEW c \in Code, NEW t \in {"none", "dispatching", "accepted"},
           NEW p \in BOOLEAN, NEW u \in BOOLEAN
    PROVE  [j EXCEPT !.status = s, !.code = c, !.steer = t, !.pane = p, !.sent = u] \in JobRow
  BY DEF JobRow

LEMMA AskWritten ==
    ASSUME NEW j \in JobRow, NEW k \in {"none", "human", "limit", "lifted"},
           NEW r \in {"unread", "stored", "asked", "answered"}
    PROVE  [j EXCEPT !.asks = k] \in JobRow /\ [j EXCEPT !.answer = r] \in JobRow
  BY DEF JobRow

LEMMA ReviewedRow ==
    ASSUME NEW j \in JobRow, NEW c \in Code
    PROVE  /\ Reviewed(j, c) \in JobRow
           /\ Reviewed(j, c).status \in Resting
           /\ Reviewed(j, c).status = "cancelled" => j.status = "cancelled"
           /\ Reviewed(j, c).pane = j.pane /\ Reviewed(j, c).sent = j.sent
           /\ Reviewed(j, c).asks = j.asks /\ Reviewed(j, c).answer = j.answer
<1>1. CASE j.status \in Terminal
  BY <1>1, Words DEF Reviewed
<1>2. CASE j.status \notin Terminal
  BY <1>2, Words DEF Reviewed, JobRow
<1>3. QED
  BY <1>1, <1>2

-----------------------------------------------------------------------------
(***************************************************************************)
(* What a step that is not a round's does to the tables                    *)
(***************************************************************************)

\* Its attempt is over, or is being stopped; it has no worker, or none with a prompt.
Settled(a) == a < Current \/ (a = Current /\ task.stop # "none")
Empty(a) == a < Current \/ (a = Current /\ task.stop = "stopped")

\* The round that is under way still believes its read: the task is to run.
Trusted == visit'.at # "none" /\ ~visit'.stale /\ visit'.desired = "running"

\* It was stopped and has brought no result.
Over(a) == a = Current /\ task.stop = "stopped" /\ file'[a] = "none"

\* How a row may change beside a round.
RowGoesOn(a, j) ==
    /\ a > Current => j = job[a]
    /\ Settled(a) => j.status \in Resting
    /\ job[a].pane => j.pane
    /\ job[a].sent => j.sent
    /\ j.status = "cancelled" => \/ ~j.sent
                                 \/ job[a].status = "cancelled" /\ j.sent = job[a].sent
                                 \/ Over(a)
    /\ j.asks = "none" => j.answer = "unread"
    /\ Trusted /\ Asks(j) => Asks(job[a])
    /\ j.status = "dispatching" => job[a].status = "dispatching" \/ CanRun(a)

JobsGoOn == \A a \in Attempt : RowGoesOn(a, job'[a])
WorkersGoOn == \A a \in Attempt :
    /\ a > Current => worker'[a] = worker[a] /\ file'[a] = file[a] /\ op'[a] = op[a]
    /\ Empty(a) => worker'[a] \in Left
    /\ file'[a] # file[a] => job[a].sent /\ worker[a] \notin Left /\ job'[a] = job[a]
VisitGoesOn ==
    \/ visit'.at = "none"
    \/ /\ visit'.at = visit.at /\ visit'.of = visit.of /\ visit'.desired = visit.desired
       /\ visit.stale => visit'.stale
       /\ task'.desired = task.desired \/ visit'.stale
       /\ visit'.stop = visit.stop
    \/ \* The round reads, or what it has read lets it go on.
       /\ visit'.at # "close" /\ visit'.of = Current /\ steer'.at # "sent"
       /\ visit'.stop # "none" => task.stop # "none"
       /\ ~visit'.stale => visit'.desired = task'.desired
       /\ visit'.at # "read" /\ ~visit'.stale /\ visit'.desired = "running" => ~Asks(job'[Current])
SteerGoesOn == steer'.at # "none" =>
    /\ steer'.of <= Current
    /\ steer'.at = "sent" =>
         \/ steer.at = "sent" /\ steer'.of = steer.of
         \/ steer'.of = Current /\ task.stop = "none" /\ visit'.at = "none"
\* What OwnerDecides says of a step.
Decided == /\ Replaced \/ Dispatched => task.desired = "running" /\ task.state \notin Terminal
           /\ Replaced => ~Asking \/ visit.stale
TaskGoesOn == task'.no = task.no /\ task'.stop = task.stop /\ used'.closes = used.closes

LEMMA GoesOn ==
    ASSUME IInv, JobsGoOn, WorkersGoOn, VisitGoesOn, SteerGoesOn, TaskGoesOn
    PROVE  Rest'
<1>0. Current \in Attempt /\ \A a \in Attempt : a \in Nat
  BY Typed DEF IInv, TaskRow
<1>1. Later'
  BY <1>0 DEF IInv, Rest, Later, JobsGoOn, RowGoesOn, WorkersGoOn, TaskGoesOn
<1>2. Earlier'
  BY <1>0 DEF IInv, Rest, Earlier, JobsGoOn, RowGoesOn, WorkersGoOn, TaskGoesOn, SteerGoesOn, Settled, Empty
<1>3. Stopping'
  BY <1>0 DEF IInv, Rest, Stopping, JobsGoOn, RowGoesOn, WorkersGoOn, TaskGoesOn, SteerGoesOn, Settled, Empty
<1>4. Visited' /\ Steered'
  BY <1>0 DEF IInv, Rest, Visited, Steered, JobsGoOn, RowGoesOn, TaskGoesOn, SteerGoesOn, VisitGoesOn, Trusted
<1>5. ClosedOnce'
  BY <1>0 DEF IInv, Rest, ClosedOnce, TaskGoesOn, VisitGoesOn
<1>6. Evidence'
  <2> SUFFICES ASSUME NEW a \in Attempt
               PROVE  /\ ~job'[a].sent => file'[a] = "none"
                      /\ job'[a].status = "cancelled" =>
                           file'[a] = "none" /\ (~job'[a].sent \/ a < Current' \/ task'.stop = "stopped")
                      /\ job'[a].asks = "none" => job'[a].answer = "unread"
    BY DEF Evidence
  <2>1. RowGoesOn(a, job'[a])
    BY DEF JobsGoOn
  <2>2. CASE file'[a] = file[a]
    BY <1>0, <2>1, <2>2 DEF IInv, Rest, Evidence, RowGoesOn, TaskGoesOn, Over
  <2>3. CASE file'[a] # file[a]
    <3>1. job[a].sent /\ worker[a] \notin Left /\ job'[a] = job[a]
      BY <2>3 DEF WorkersGoOn
    <3>2. job[a].status # "cancelled"
      BY <1>0, <3>1, Typed DEF IInv, Rest, Evidence, Earlier, Stopping, Left, Later, NoJob
    <3>3. QED
      BY <3>1, <3>2 DEF IInv, Rest, Evidence
  <2>4. QED
    BY <2>2, <2>3
<1>7. QED
  BY <1>1, <1>2, <1>3, <1>4, <1>5, <1>6 DEF Rest

LEMMA RowStays ==
    ASSUME IInv, NEW a \in Attempt
    PROVE  RowGoesOn(a, job[a])
  BY Typed DEF IInv, Rest, Earlier, Stopping, Evidence, RowGoesOn, Settled, TaskRow

LEMMA JobsStay == ASSUME IInv, UNCHANGED job PROVE JobsGoOn
  BY RowStays DEF JobsGoOn

LEMMA OneRow ==
    ASSUME IInv, NEW a \in Attempt, NEW j, job' = [job EXCEPT ![a] = j], RowGoesOn(a, j)
    PROVE  JobsGoOn
  BY RowStays, Typed DEF JobsGoOn, IInv

LEMMA WorkersStay ==
    ASSUME IInv, UNCHANGED <<worker, file>>, \A a \in Attempt : a > Current => op'[a] = op[a]
    PROVE  WorkersGoOn
  BY Typed DEF WorkersGoOn, IInv, Rest, Earlier, Stopping, Empty, TaskRow

\* What is left of a step once its rows are known.
LEMMA Onward ==
    ASSUME IInv, JobsGoOn, WorkersGoOn, VisitGoesOn, SteerGoesOn, TaskGoesOn, task'.max >= task.no,
           task' \in TaskRow, job' \in [Attempt -> JobRow], worker' \in [Attempt -> WorkerState],
           file' \in [Attempt -> {"none", "valid", "invalid"}], op' \in [Attempt -> OpState],
           visit' \in VisitRow, steer' \in SteerRow, used' \in UsedRow
    PROVE  IInv' /\ Decided
<1>1. Rest'
  BY GoesOn
<1>2. TypeOK'
  BY DEF TypeOK, TaskRow, JobRow, WorkerState, OpState, VisitRow, SteerRow, UsedRow, StopState, Wish
<1>3. (task.no <= task.max)'
  BY Typed DEF IInv, TaskRow, TaskGoesOn
<1>4. Decided
  <2>1. ~Replaced
    BY Typed DEF IInv, TaskRow, TaskGoesOn, Replaced
  <2>2. Dispatched => \E a \in Attempt : CanRun(a)
    BY DEF Dispatched, JobsGoOn, RowGoesOn
  <2>3. QED
    BY <2>1, <2>2, Words DEF Decided, CanRun
<1>5. QED
  BY <1>1, <1>2, <1>3, <1>4 DEF IInv

LEMMA Here ==
    ASSUME IInv
    PROVE  /\ Current \in Attempt /\ \A a \in Attempt : a \in Nat
           /\ task \in TaskRow /\ job \in [Attempt -> JobRow]
           /\ worker \in [Attempt -> WorkerState] /\ file \in [Attempt -> {"none", "valid", "invalid"}]
           /\ op \in [Attempt -> OpState] /\ visit \in VisitRow /\ steer \in SteerRow /\ used \in UsedRow
           /\ task.max >= task.no
  BY Typed DEF IInv, TaskRow

\* Somebody has begun an attempt: it exists.
LEMMA Begun ==
    ASSUME IInv, NEW a \in Attempt,
           op[a] # "none" \/ worker[a] # "none" \/ job[a].status # "none" \/ job[a].asks # "none"
    PROVE  ~(a > Current)
  BY DEF IInv, Rest, Later, NoJob

LEMMA Counted ==
    ASSUME IInv, Disturbed \/ Smooth
    PROVE  used' \in UsedRow /\ used'.closes = used.closes
  BY Here DEF Disturbed, Smooth, UsedRow

LEMMA NotedOnward ==
    ASSUME IInv, NEW revised \in BOOLEAN, Noted(revised), task'.desired = task.desired \/ revised
    PROVE  VisitGoesOn /\ visit' \in VisitRow
  BY Here DEF Noted, VisitGoesOn, VisitRow

LEMMA SteerStays ==
    ASSUME IInv, UNCHANGED steer
    PROVE  SteerGoesOn
  BY DEF SteerGoesOn, IInv, Rest, Steered

LEMMA VisitStays ==
    ASSUME IInv, UNCHANGED visit, task'.desired = task.desired
    PROVE  VisitGoesOn /\ visit' \in VisitRow
  BY Here DEF VisitGoesOn

-----------------------------------------------------------------------------
(***************************************************************************)
(* The agents                                                              *)
(***************************************************************************)

LEMMA WorkersKeep ==
    ASSUME IInv, NEW a \in Attempt, Workers(a)
    PROVE  IInv' /\ Decided
<1> USE Here, VisitStays
<1>1. CASE WorkerWrites(a)
  <2>1. WorkersGoOn
    BY <1>1, Begun DEF WorkerWrites, WorkersGoOn, IInv, Rest, Earlier, Stopping, Empty, Left
  <2>2. JobsGoOn
    BY <1>1, JobsStay DEF WorkerWrites
  <2>3. QED
    BY <1>1, <2>1, <2>2, Onward, SteerStays DEF WorkerWrites, TaskGoesOn
<1>2. CASE TurnEnds(a)
  <2>1. PICK w \in {"idle", "waiting", "shell"}, asks \in {"none", "human", "limit"} :
          /\ worker' = [worker EXCEPT ![a] = w]
          /\ asks # "none" => job[a].asks = "none" /\ file[a] = "none"
          /\ job' = IF asks = "none" THEN job ELSE [job EXCEPT ![a].asks = asks]
    BY <1>2 DEF TurnEnds
  <2>2. ~Empty(a) /\ ~(a > Current) /\ worker[a] = "working"
    BY <1>2, Begun DEF TurnEnds, IInv, Rest, Earlier, Stopping, Empty, Left
  <2>3. WorkersGoOn /\ worker' \in [Attempt -> WorkerState]
    BY <1>2, <2>1, <2>2 DEF TurnEnds, WorkersGoOn, WorkerState, IInv, Rest, Earlier, Stopping, Empty, Left
  <2>4. JobsGoOn /\ job' \in [Attempt -> JobRow]
    <3>1. CASE asks = "none"
      BY <2>1, <3>1, JobsStay
    <3>2. CASE asks # "none"
      <4>1. job[a] \in JobRow /\ [job[a] EXCEPT !.asks = asks] \in JobRow
        BY AskWritten
      <4>2. RowGoesOn(a, [job[a] EXCEPT !.asks = asks])
        BY <2>1, <2>2, <3>2, RowStays, <4>1 DEF RowGoesOn, JobRow, Asks, IInv, Rest, Evidence
      <4>3. job' = [job EXCEPT ![a] = [job[a] EXCEPT !.asks = asks]]
        BY <2>1, <3>2
      <4>4. QED
        BY <4>1, <4>2, <4>3, OneRow
    <3>3. QED
      BY <3>1, <3>2
  <2>5. QED
    BY <1>2, <2>3, <2>4, Onward, SteerStays DEF TurnEnds, TaskGoesOn
<1>3. CASE WorkerGoes(a)
  <2>1. WorkersGoOn /\ worker' \in [Attempt -> WorkerState]
    BY <1>3, Begun DEF WorkerGoes, WorkersGoOn, WorkerState, IInv, Rest, Earlier, Stopping, Empty, Left
  <2>2. JobsGoOn
    BY <1>3, JobsStay DEF WorkerGoes
  <2>3. QED
    BY <1>3, <2>1, <2>2, Onward, SteerStays DEF WorkerGoes, TaskGoesOn
<1>4. CASE LimitLifts(a)
  <2>1. job[a] \in JobRow /\ [job[a] EXCEPT !.asks = "lifted"] \in JobRow
    BY AskWritten
  <2>2. RowGoesOn(a, [job[a] EXCEPT !.asks = "lifted"])
    BY <1>4, Begun, RowStays, <2>1 DEF LimitLifts, RowGoesOn, JobRow, Asks
  <2>3. JobsGoOn /\ job' \in [Attempt -> JobRow]
    BY <1>4, <2>1, <2>2, OneRow DEF LimitLifts
  <2>4. WorkersGoOn
    BY <1>4, WorkersStay DEF LimitLifts
  <2>5. QED
    BY <1>4, <2>3, <2>4, Onward, SteerStays DEF LimitLifts, TaskGoesOn
<1>5. CASE WorkerResumes(a)
  <2>1. WorkersGoOn /\ worker' \in [Attempt -> WorkerState]
    BY <1>5, Begun DEF WorkerResumes, WorkersGoOn, WorkerState, IInv, Rest, Earlier, Stopping, Empty, Left
  <2>2. JobsGoOn
    BY <1>5, JobsStay DEF WorkerResumes
  <2>3. QED
    BY <1>5, <2>1, <2>2, Onward, Counted, SteerStays DEF WorkerResumes, TaskGoesOn
<1>6. QED
  BY <1>1, <1>2, <1>3, <1>4, <1>5 DEF Workers

-----------------------------------------------------------------------------
(***************************************************************************)
(* startJob and monitor                                                    *)
(***************************************************************************)

\* The row of an attempt under other words.
As(j, s, c, t, p, u) == [j EXCEPT !.status = s, !.code = c, !.steer = t, !.pane = p, !.sent = u]

LEMMA AsWritten ==
    ASSUME IInv, NEW a \in Attempt, NEW s \in Status, NEW c \in Code,
           NEW t \in {"none", "dispatching", "accepted"}, NEW p \in BOOLEAN, NEW u \in BOOLEAN,
           job' = [job EXCEPT ![a] = As(job[a], s, c, t, p, u)],
           ~(a > Current), Settled(a) => s \in Resting, job[a].pane => p, job[a].sent => u,
           s = "cancelled" => ~u \/ (job[a].status = "cancelled" /\ u = job[a].sent) \/ Over(a),
           s = "dispatching" => job[a].status = "dispatching" \/ CanRun(a)
    PROVE  JobsGoOn /\ job' \in [Attempt -> JobRow]
<1> DEFINE j == As(job[a], s, c, t, p, u)
<1>1. job[a] \in JobRow
  BY Here
<1>2. j \in JobRow
  BY <1>1, JobWritten DEF As
<1>3. j.status = s /\ j.pane = p /\ j.sent = u /\ j.asks = job[a].asks /\ j.answer = job[a].answer
  BY <1>1 DEF JobRow, As
<1>4. RowGoesOn(a, j)
  BY <1>3, RowStays DEF RowGoesOn, Asks
<1>5. QED
  BY <1>2, <1>4, OneRow, Here

\* A row that is put to review.
LEMMA ReviewWritten ==
    ASSUME IInv, NEW a \in Attempt, NEW c \in Code, ~(a > Current),
           job' = [job EXCEPT ![a] = Reviewed(@, c)]
    PROVE  JobsGoOn /\ job' \in [Attempt -> JobRow]
<1>1. job[a] \in JobRow /\ job' = [job EXCEPT ![a] = Reviewed(job[a], c)]
  BY Here
<1>2. RowGoesOn(a, Reviewed(job[a], c)) /\ Reviewed(job[a], c) \in JobRow
  BY <1>1, ReviewedRow, RowStays, Words DEF RowGoesOn, Asks
<1>3. QED
  BY <1>1, <1>2, OneRow, Here

LEMMA PromoteKeeps ==
    ASSUME IInv, Promote
    PROVE  IInv' /\ Decided
<1> USE Here, VisitStays
<1>1. PICK a \in Attempt : job[a].status = "retryable_failed" /\ job' = [job EXCEPT ![a].status = "queued"]
  BY DEF Promote
<1>2. ~(a > Current) /\ ~Settled(a)
  BY <1>1, Begun, Words DEF Settled, IInv, Rest, Earlier, Stopping
<1>3. job[a] \in JobRow /\ "queued" \in Status /\ "queued" # "cancelled"
  BY Words
<1>4. job' = [job EXCEPT ![a] = As(job[a], "queued", job[a].code, job[a].steer, job[a].pane, job[a].sent)]
  BY <1>1, <1>3 DEF JobRow, As
<1>5. JobsGoOn /\ job' \in [Attempt -> JobRow]
  BY <1>2, <1>3, <1>4, AsWritten DEF JobRow
<1>6. WorkersGoOn
  BY WorkersStay DEF Promote
<1>7. QED
  BY <1>5, <1>6, Onward, SteerStays DEF Promote, TaskGoesOn

\* Only the await of a start moves.
LEMMA OpMoves ==
    ASSUME IInv, NEW a \in Attempt, NEW at \in OpState, OpAt(a, at), ~(a > Current)
    PROVE  op' \in [Attempt -> OpState] /\ \A b \in Attempt : b > Current => op'[b] = op[b]
  BY Here DEF OpAt

LEMMA LaunchKeeps ==
    ASSUME IInv, NEW a \in Attempt, Launch(a)
    PROVE  IInv' /\ Decided
<1>1. ~(a > Current)
  BY Begun DEF Launch
<1>2. op' \in [Attempt -> OpState] /\ \A b \in Attempt : b > Current => op'[b] = op[b]
  BY <1>1, OpMoves DEF Launch, OpState
<1>3. JobsGoOn /\ WorkersGoOn
  BY <1>2, JobsStay, WorkersStay DEF Launch
<1>4. QED
  BY <1>2, <1>3, Here, VisitStays, Onward, SteerStays DEF Launch, TaskGoesOn

LEMMA StartCheckedKeeps ==
    ASSUME IInv, NEW a \in Attempt, StartChecked(a)
    PROVE  IInv' /\ Decided
<1>1. ~(a > Current) /\ job[a] \in JobRow
  BY Begun, Here DEF StartChecked
<1>2. op' \in [Attempt -> OpState] /\ \A b \in Attempt : b > Current => op'[b] = op[b]
  BY <1>1, OpMoves DEF StartChecked, OpState
<1>3. JobsGoOn /\ job' \in [Attempt -> JobRow]
  <2>1. CASE job' = [job EXCEPT ![a] = Reviewed(@, "human")]
    BY <2>1, <1>1, ReviewWritten, Words
  <2>2. CASE UNCHANGED job
    BY <2>2, JobsStay, Here
  <2>3. CASE /\ job[a].status \in {"queued", "retryable_failed"}
             /\ job' = [job EXCEPT ![a].status = "preparing", ![a].code = "none", ![a].steer = "none"]
    <3>1. ~Settled(a)
      BY <2>3, Words DEF Settled, IInv, Rest, Earlier, Stopping
    <3>2. job' = [job EXCEPT ![a] = As(job[a], "preparing", "none", "none", job[a].pane, job[a].sent)]
      BY <2>3, <1>1 DEF JobRow, As
    <3>3. "preparing" \in Status /\ "none" \in Code /\ "preparing" # "cancelled"
      BY Words
    <3>4. QED
      BY <1>1, <3>1, <3>2, <3>3, AsWritten DEF JobRow
  <2>4. QED
    BY <2>1, <2>2, <2>3 DEF StartChecked
<1>4. WorkersGoOn
  BY <1>2, WorkersStay DEF StartChecked
<1>5. VisitGoesOn /\ visit' \in VisitRow
  BY NotedOnward DEF StartChecked
<1>6. QED
  BY <1>2, <1>3, <1>4, <1>5, Here, Onward, SteerStays DEF StartChecked, TaskGoesOn

LEMMA PrepareStartsKeeps ==
    ASSUME IInv, NEW a \in Attempt, PrepareStarts(a)
    PROVE  IInv' /\ Decided
<1>1. ~(a > Current)
  BY Begun DEF PrepareStarts
<1>2. WorkersGoOn /\ worker' \in [Attempt -> WorkerState]
  BY <1>1, Here DEF PrepareStarts, WorkersGoOn, WorkerState, Left, Empty, IInv, Rest, Earlier, Stopping
<1>3. JobsGoOn
  BY JobsStay DEF PrepareStarts
<1>4. QED
  BY <1>2, <1>3, Here, VisitStays, Onward, SteerStays DEF PrepareStarts, TaskGoesOn

LEMMA PreparedKeeps ==
    ASSUME IInv, NEW a \in Attempt, Prepared(a)
    PROVE  IInv' /\ Decided
<1>1. ~(a > Current) /\ job[a] \in JobRow
  BY Begun, Here DEF Prepared
<1>2. op' \in [Attempt -> OpState] /\ \A b \in Attempt : b > Current => op'[b] = op[b]
  BY <1>1, OpMoves DEF Prepared, OpState
<1>3. JobsGoOn /\ job' \in [Attempt -> JobRow]
  <2>1. CASE UNCHANGED job
    BY <2>1, JobsStay, Here
  <2>2. CASE job[a].status = "preparing" /\ job' = [job EXCEPT ![a].pane = TRUE]
    <3>1. ~Settled(a)
      BY <2>2, Words DEF Settled, IInv, Rest, Earlier, Stopping
    <3>2. job' = [job EXCEPT ![a] = As(job[a], job[a].status, job[a].code, job[a].steer, TRUE, job[a].sent)]
      BY <2>2, <1>1 DEF JobRow, As
    <3>3. /\ job[a].status \in Status /\ job[a].code \in Code /\ job[a].sent \in BOOLEAN
          /\ job[a].steer \in {"none", "dispatching", "accepted"} /\ job[a].status # "cancelled"
      BY <1>1, <2>2 DEF JobRow
    <3>4. QED
      BY <1>1, <3>1, <3>2, <3>3, AsWritten
  <2>3. QED
    BY <2>1, <2>2 DEF Prepared
<1>4. WorkersGoOn
  BY <1>2, WorkersStay DEF Prepared
<1>5. VisitGoesOn /\ visit' \in VisitRow
  BY NotedOnward DEF Prepared
<1>6. QED
  BY <1>2, <1>3, <1>4, <1>5, Here, Onward, SteerStays DEF Prepared, TaskGoesOn

LEMMA EndsRow ==
    ASSUME IInv, NEW status \in Terminal
    PROVE  /\ Ends(status) \in TaskRow
           /\ Ends(status).no = task.no /\ Ends(status).stop = task.stop
           /\ Ends(status).max = task.max /\ Ends(status).desired = task.desired
  BY Here, Words DEF Ends, TaskRow

LEMMA StartFailsWrites ==
    ASSUME IInv, NEW a \in Attempt, NEW code \in Code, StartFails(a, code), ~(a > Current), ~Settled(a)
    PROVE  /\ JobsGoOn /\ job' \in [Attempt -> JobRow]
           /\ VisitGoesOn /\ visit' \in VisitRow
           /\ task' \in TaskRow /\ task'.max = task.max /\ task'.no = task.no /\ task'.stop = task.stop
<1>1. PICK status \in {"retryable_failed", "failed"} :
          /\ job' = [job EXCEPT ![a].status = status, ![a].code = code]
          /\ task' = IF status = "failed" THEN Ends(status) ELSE task
          /\ Noted(status = "failed")
  BY DEF StartFails
<1>2. status \in Status /\ status # "cancelled" /\ (status = "failed") \in BOOLEAN
  BY Words
<1>3. job[a] \in JobRow
  BY Here
<1>4. job' = [job EXCEPT ![a] = As(job[a], status, code, job[a].steer, job[a].pane, job[a].sent)]
  BY <1>1, <1>3 DEF JobRow, As
<1>5. /\ job[a].sent \in BOOLEAN /\ job[a].pane \in BOOLEAN
      /\ job[a].steer \in {"none", "dispatching", "accepted"}
  BY <1>3 DEF JobRow
<1>6. JobsGoOn /\ job' \in [Attempt -> JobRow]
  BY <1>2, <1>4, <1>5, AsWritten
<1>7. task' \in TaskRow /\ task'.max = task.max /\ task'.no = task.no /\ task'.stop = task.stop
      /\ task'.desired = task.desired
  BY <1>1, EndsRow, Here, Words
<1>8. VisitGoesOn /\ visit' \in VisitRow
  BY <1>1, <1>2, <1>7, NotedOnward
<1>9. QED
  BY <1>6, <1>7, <1>8

LEMMA LeftBehindRow ==
    ASSUME NEW j \in JobRow, j.status \notin Terminal, NEW left \in BOOLEAN
    PROVE  \E p \in BOOLEAN : /\ j.pane => p
                              /\ LeftBehind(j, left) = As(j, "needs_review", "human", "none", p, j.sent)
<1>1. Reviewed(j, "human") = [j EXCEPT !.status = "needs_review", !.code = "human", !.steer = "none"]
  BY DEF Reviewed
<1>2. CASE left
  <2>1. LeftBehind(j, left) = As(j, "needs_review", "human", "none", TRUE, j.sent)
    BY <1>1, <1>2 DEF JobRow, As, LeftBehind
  <2>2. QED
    BY <2>1
<1>3. CASE ~left
  <2>1. LeftBehind(j, left) = As(j, "needs_review", "human", "none", j.pane, j.sent)
    BY <1>1, <1>3 DEF JobRow, As, LeftBehind
  <2>2. QED
    BY <2>1 DEF JobRow
<1>4. QED
  BY <1>2, <1>3

LEMMA PrepareFailsKeeps ==
    ASSUME IInv, NEW a \in Attempt, PrepareFails(a)
    PROVE  IInv' /\ Decided
<1>1. ~(a > Current) /\ job[a] \in JobRow
  BY Begun, Here DEF PrepareFails
<1>2. op' \in [Attempt -> OpState] /\ \A b \in Attempt : b > Current => op'[b] = op[b]
  BY <1>1, OpMoves DEF PrepareFails, OpState
<1>3. used' \in UsedRow /\ used'.closes = used.closes /\ UNCHANGED <<file, steer>>
  BY Counted DEF PrepareFails
<1>4. CASE UNCHANGED <<task, job, worker, visit>>
  <2>1. JobsGoOn /\ WorkersGoOn /\ VisitGoesOn
    BY <1>2, <1>3, <1>4, JobsStay, WorkersStay, VisitStays
  <2>2. QED
    BY <1>2, <1>3, <1>4, <2>1, Here, Onward, SteerStays DEF TaskGoesOn
<1>5. CASE job[a].status = "preparing" /\ StartFails(a, "human") /\ UNCHANGED worker
  <2>1. ~Settled(a)
    BY <1>5, Words DEF Settled, IInv, Rest, Earlier, Stopping
  <2>2. WorkersGoOn
    BY <1>2, <1>3, <1>5, WorkersStay
  <2>3. QED
    BY <1>1, <1>2, <1>3, <1>5, <2>1, <2>2, Here, Words, StartFailsWrites, Onward, SteerStays DEF TaskGoesOn
<1>6. CASE /\ job[a].status = "preparing"
           /\ \E left \in BOOLEAN :
                /\ job' = [job EXCEPT ![a] = LeftBehind(@, left)]
                /\ worker' = [worker EXCEPT ![a] = IF left /\ @ = "none" THEN "shell" ELSE @]
           /\ Noted(FALSE) /\ UNCHANGED task
  <2>1. ~Settled(a)
    BY <1>6, Words DEF Settled, IInv, Rest, Earlier, Stopping
  <2>2. WorkersGoOn /\ worker' \in [Attempt -> WorkerState]
    BY <1>1, <1>2, <1>3, <1>6, <2>1, Here DEF WorkersGoOn, WorkerState, Left, Settled, Empty, IInv, Rest, Earlier
  <2>3. PICK left \in BOOLEAN : job' = [job EXCEPT ![a] = LeftBehind(@, left)]
    BY <1>6
  <2>0. job[a].status \notin Terminal
    BY <1>6 DEF Terminal
  <2>4. PICK p \in BOOLEAN : /\ job[a].pane => p
                            /\ LeftBehind(job[a], left) = As(job[a], "needs_review", "human", "none", p, job[a].sent)
    BY <1>1, <2>0, LeftBehindRow
  <2>5. job' = [job EXCEPT ![a] = As(job[a], "needs_review", "human", "none", p, job[a].sent)]
    BY <2>3, <2>4
  <2>6. /\ job[a].sent \in BOOLEAN /\ "needs_review" \in Status /\ "human" \in Code /\ "needs_review" # "cancelled"
    BY <1>1, Words DEF JobRow
  <2>7. JobsGoOn /\ job' \in [Attempt -> JobRow]
    BY <1>1, <2>1, <2>4, <2>5, <2>6, AsWritten
  <2>8. VisitGoesOn /\ visit' \in VisitRow
    BY <1>6, NotedOnward
  <2>9. QED
    BY <1>2, <1>3, <1>6, <2>2, <2>7, <2>8, Here, Onward, SteerStays DEF TaskGoesOn
<1>7. QED
  BY <1>4, <1>5, <1>6 DEF PrepareFails

\* A row that may still be started is not settled.
LEMMA NotSettled ==
    ASSUME IInv, NEW a \in Attempt, job[a].status \notin Resting
    PROVE  ~Settled(a) /\ ~Empty(a)
  BY DEF Settled, Empty, IInv, Rest, Earlier, Stopping

LEMMA StartObservedKeeps ==
    ASSUME IInv, NEW a \in Attempt, StartObserved(a)
    PROVE  IInv' /\ Decided
<1>1. ~(a > Current) /\ job[a] \in JobRow
  BY Begun, Here DEF StartObserved
<1>2. op' \in [Attempt -> OpState] /\ \A b \in Attempt : b > Current => op'[b] = op[b]
  <2>1. OpAt(a, "none") \/ OpAt(a, "prompt")
    BY DEF StartObserved
  <2>2. QED
    BY <1>1, <2>1, OpMoves DEF OpState
<1>3. JobsGoOn /\ job' \in [Attempt -> JobRow]
  <2>1. CASE job' = [job EXCEPT ![a] = Reviewed(@, "human")]
    BY <2>1, <1>1, ReviewWritten, Words
  <2>2. CASE UNCHANGED job
    BY <2>2, JobsStay, Here
  <2>3. CASE /\ job[a].status = "preparing" /\ StartAllowed(a)
             /\ job' = [job EXCEPT ![a] = [@ EXCEPT !.status = "dispatching", !.sent = TRUE]]
    <3>1. ~Settled(a)
      BY <2>3, Words, NotSettled
    <3>2. job' = [job EXCEPT ![a] = As(job[a], "dispatching", job[a].code, job[a].steer, job[a].pane, TRUE)]
      BY <2>3, <1>1 DEF JobRow, As
    <3>3. /\ "dispatching" \in Status /\ job[a].code \in Code /\ job[a].pane \in BOOLEAN
          /\ job[a].steer \in {"none", "dispatching", "accepted"} /\ "dispatching" # "cancelled" /\ CanRun(a)
      BY <1>1, <2>3, Words DEF JobRow, StartAllowed
    <3>4. QED
      BY <1>1, <3>1, <3>2, <3>3, AsWritten
  <2>4. QED
    <3>1. CASE job' = [job EXCEPT ![a] =
                IF @.status # "preparing" THEN @
                ELSE IF ~StartAllowed(a) THEN Reviewed(@, "human")
                ELSE [@ EXCEPT !.status = "dispatching", !.sent = TRUE]]
      <4>1. CASE job[a].status # "preparing"
        BY <3>1, <4>1, <2>2, Here
      <4>2. CASE job[a].status = "preparing" /\ ~StartAllowed(a)
        BY <3>1, <4>2, <2>1
      <4>3. CASE job[a].status = "preparing" /\ StartAllowed(a)
        BY <3>1, <4>3, <2>3
      <4>4. QED
        BY <4>1, <4>2, <4>3
    <3>2. QED
      BY <3>1, <2>1 DEF StartObserved
<1>4. WorkersGoOn /\ worker' \in [Attempt -> WorkerState]
  <2>1. op'[a] = "prompt" => ~Empty(a)
    <3>1. ASSUME op'[a] = "prompt" PROVE job[a].status \in {"preparing", "dispatching"}
      <4>1. /\ job' = [job EXCEPT ![a] =
                   IF @.status # "preparing" THEN @
                   ELSE IF ~StartAllowed(a) THEN Reviewed(@, "human")
                   ELSE [@ EXCEPT !.status = "dispatching", !.sent = TRUE]]
            /\ job'[a].status = "dispatching"
        BY <3>1, Here DEF StartObserved, OpAt
      <4>2. job[a].status # "preparing" => job'[a] = job[a]
        BY <4>1, Here
      <4>3. QED
        BY <4>1, <4>2
    <3>2. QED
      BY <3>1, NotSettled, Words
  <2>2. QED
    BY <1>1, <1>2, <2>1, Here DEF StartObserved, WorkersGoOn, WorkerState, Empty, IInv, Rest, Earlier, Stopping
<1>5. VisitGoesOn /\ visit' \in VisitRow
  BY NotedOnward DEF StartObserved
<1>6. used' \in UsedRow /\ used'.closes = used.closes
  BY Counted DEF StartObserved
<1>7. QED
  BY <1>2, <1>3, <1>4, <1>5, <1>6, Here, Onward, SteerStays DEF StartObserved, TaskGoesOn

LEMMA PromptReadKeeps ==
    ASSUME IInv, NEW a \in Attempt, PromptRead(a)
    PROVE  IInv' /\ Decided
<1>1. ~(a > Current)
  BY Begun DEF PromptRead
<1>2. WorkersGoOn /\ worker' \in [Attempt -> WorkerState] /\ op' \in [Attempt -> OpState]
  BY <1>1, Here DEF PromptRead, WorkersGoOn, WorkerState, OpState, Left, Empty, IInv, Rest, Earlier, Stopping
<1>3. JobsGoOn
  BY JobsStay DEF PromptRead
<1>4. QED
  BY <1>2, <1>3, Here, VisitStays, Onward, SteerStays DEF PromptRead, TaskGoesOn

LEMMA PromptedKeeps ==
    ASSUME IInv, NEW a \in Attempt, Prompted(a)
    PROVE  IInv' /\ Decided
<1>1. ~(a > Current) /\ job[a] \in JobRow
  BY Begun, Here DEF Prompted
<1>2. op' \in [Attempt -> OpState] /\ \A b \in Attempt : b > Current => op'[b] = op[b]
  <2>1. OpAt(a, "none") \/ OpAt(a, "ingest")
    BY DEF Prompted
  <2>2. QED
    BY <1>1, <2>1, OpMoves DEF OpState
<1>3. used' \in UsedRow /\ used'.closes = used.closes /\ UNCHANGED <<file, steer>>
  BY Counted DEF Prompted
<1>4. CASE UNCHANGED <<task, job, worker, visit>>
  <2>1. JobsGoOn /\ WorkersGoOn /\ VisitGoesOn
    BY <1>2, <1>3, <1>4, JobsStay, WorkersStay, VisitStays
  <2>2. QED
    BY <1>2, <1>3, <1>4, <2>1, Here, Onward, SteerStays DEF TaskGoesOn
<1>5. CASE /\ job[a].status = "dispatching" /\ Noted(FALSE) /\ UNCHANGED <<task, worker>>
           /\ \/ job' = [job EXCEPT ![a].status = "running", ![a].code = "none"]
              \/ \E code \in {"auto", "human"} : job' = [job EXCEPT ![a] = Reviewed(@, code)]
  <2>1. ~Settled(a)
    BY <1>5, Words, NotSettled
  <2>2. JobsGoOn /\ job' \in [Attempt -> JobRow]
    <3>1. CASE job' = [job EXCEPT ![a].status = "running", ![a].code = "none"]
      <4>1. job' = [job EXCEPT ![a] = As(job[a], "running", "none", job[a].steer, job[a].pane, job[a].sent)]
        BY <3>1, <1>1 DEF JobRow, As
      <4>2. /\ "running" \in Status /\ "none" \in Code /\ job[a].pane \in BOOLEAN /\ job[a].sent \in BOOLEAN
            /\ job[a].steer \in {"none", "dispatching", "accepted"} /\ "running" # "cancelled"
        BY <1>1, Words DEF JobRow
      <4>3. QED
        BY <1>1, <2>1, <4>1, <4>2, AsWritten
    <3>2. CASE \E code \in {"auto", "human"} : job' = [job EXCEPT ![a] = Reviewed(@, code)]
      BY <3>2, <1>1, ReviewWritten, Words
    <3>3. QED
      BY <1>5, <3>1, <3>2
  <2>3. WorkersGoOn
    BY <1>2, <1>3, <1>5, WorkersStay
  <2>4. VisitGoesOn /\ visit' \in VisitRow
    BY <1>5, NotedOnward
  <2>5. QED
    BY <1>2, <1>3, <1>5, <2>2, <2>3, <2>4, Here, Onward, SteerStays DEF TaskGoesOn
<1>6. CASE /\ job[a].status = "dispatching" /\ worker[a] = "idle"
           /\ worker' = [worker EXCEPT ![a] = "shell"] /\ StartFails(a, "auto")
  <2>1. ~Settled(a) /\ ~Empty(a)
    BY <1>6, Words, NotSettled
  <2>2. WorkersGoOn /\ worker' \in [Attempt -> WorkerState]
    BY <1>1, <1>2, <1>3, <1>6, <2>1, Here
    DEF WorkersGoOn, WorkerState, Left, Empty, IInv, Rest, Earlier, Stopping
  <2>3. QED
    BY <1>1, <1>2, <1>3, <1>6, <2>1, <2>2, Here, Words, StartFailsWrites, Onward, SteerStays DEF TaskGoesOn
<1>7. QED
  BY <1>4, <1>5, <1>6 DEF Prompted

\* A result that is saved, by the monitor or by a round.
LEMMA SavedWritten ==
    ASSUME IInv, NEW a \in Attempt, a = Current, job' = [job EXCEPT ![a] = Done(@)], task' = Ends("completed")
    PROVE  /\ JobsGoOn /\ job' \in [Attempt -> JobRow]
           /\ task' \in TaskRow /\ task'.max = task.max /\ task'.no = task.no /\ task'.stop = task.stop
           /\ task'.desired = task.desired
<1>1. a \in Nat /\ job[a] \in JobRow
  BY Here
<1>2. job' = [job EXCEPT ![a] = As(job[a], "completed", "none", job[a].steer,
                                         job[a].pane, job[a].sent)]
  <2>1. Done(job[a]) = As(job[a], "completed", "none", job[a].steer,
                                job[a].pane, job[a].sent)
    BY <1>1 DEF Done, JobRow, As
  <2>2. QED
    BY <1>1, <2>1
<1>3. /\ "completed" \in Status /\ "none" \in Code /\ job[a].pane \in BOOLEAN
      /\ job[a].sent \in BOOLEAN /\ "completed" \in Resting /\ "completed" # "cancelled"
      /\ job[a].steer \in {"none", "dispatching", "accepted"}
  BY <1>1, Words DEF JobRow
<1>4. ~(a > Current) /\ a \in Attempt
  BY <1>1
<1>5. JobsGoOn /\ job' \in [Attempt -> JobRow]
  BY ONLY IInv, <1>2, <1>3, <1>4, AsWritten
<1>6. QED
  BY <1>5, EndsRow, Words

LEMMA CompletesWrites ==
    ASSUME IInv, NEW a \in Attempt, Completes(a), ~(a > Current)
    PROVE  /\ JobsGoOn /\ job' \in [Attempt -> JobRow]
           /\ VisitGoesOn /\ visit' \in VisitRow
           /\ task' \in TaskRow /\ task'.max = task.max /\ task'.no = task.no /\ task'.stop = task.stop
<1>1. CASE file[a] = "valid" /\ MaySave(a)
  <2>1. a = Current /\ job' = [job EXCEPT ![a] = Done(@)] /\ task' = Ends("completed") /\ Noted(TRUE)
    BY <1>1 DEF Completes, MaySave
  <2>3. VisitGoesOn /\ visit' \in VisitRow
    BY <2>1, NotedOnward
  <2>4. QED
    BY <2>1, <2>3, SavedWritten
<1>2. CASE ~(file[a] = "valid" /\ MaySave(a))
  <2>1. /\ job' = [job EXCEPT ![a] = IF @.status = "cancelled" THEN @ ELSE Reviewed(@, "invalid")]
        /\ UNCHANGED task /\ Noted(FALSE)
    BY <1>2 DEF Completes
  <2>2. VisitGoesOn /\ visit' \in VisitRow
    BY <2>1, NotedOnward
  <2>3. JobsGoOn /\ job' \in [Attempt -> JobRow]
    <3>1. CASE job[a].status = "cancelled"
      <4>1. UNCHANGED job
        BY <2>1, <3>1, Here
      <4>2. QED
        BY <4>1, JobsStay, Here
    <3>2. CASE job[a].status # "cancelled"
      <4>1. job' = [job EXCEPT ![a] = Reviewed(@, "invalid")]
        BY <2>1, <3>2, Here
      <4>2. QED
        BY <4>1, ReviewWritten, Words
    <3>3. QED
      BY <3>1, <3>2
  <2>4. QED
    BY <2>1, <2>2, <2>3, Here
<1>3. QED
  BY <1>1, <1>2

\* The monitor leaves the agents and their files alone.
LEMMA MonitorKeeps ==
    ASSUME IInv, NEW a \in Attempt, MonitorReads(a) \/ MonitorWaited(a) \/ MonitorEnds(a)
    PROVE  IInv' /\ Decided
<1>1. ~(a > Current) /\ job[a] \in JobRow
  BY Begun, Here DEF MonitorReads, MonitorWaited, MonitorEnds
<1>2. op' \in [Attempt -> OpState] /\ \A b \in Attempt : b > Current => op'[b] = op[b]
  <2>1. OpAt(a, "none") \/ OpAt(a, "wait")
    BY DEF MonitorReads, MonitorWaited, MonitorEnds
  <2>2. QED
    BY <1>1, <2>1, OpMoves DEF OpState
<1>3. used' \in UsedRow /\ used'.closes = used.closes /\ UNCHANGED <<worker, file, steer>>
  BY Counted, Here DEF MonitorReads, MonitorWaited, MonitorEnds
<1>4. WorkersGoOn
  BY <1>2, <1>3, WorkersStay
<1>5. CASE Completes(a)
  BY <1>1, <1>2, <1>3, <1>4, <1>5, Here, CompletesWrites, Onward, SteerStays DEF TaskGoesOn
<1>6. CASE UNCHANGED <<task, job, visit>>
  <2>1. JobsGoOn /\ VisitGoesOn
    BY <1>6, JobsStay, VisitStays
  <2>2. QED
    BY <1>2, <1>3, <1>4, <1>6, <2>1, Here, Onward, SteerStays DEF TaskGoesOn
<1>7. CASE /\ UNCHANGED task /\ Noted(FALSE)
           /\ \/ job' = [job EXCEPT ![a] = Reviewed(@, "auto")]
              \/ /\ job[a].status = "running"
                 /\ job' = [job EXCEPT ![a].status = "blocked", ![a].code = "human"]
  <2>1. VisitGoesOn /\ visit' \in VisitRow
    BY <1>7, NotedOnward
  <2>2. JobsGoOn /\ job' \in [Attempt -> JobRow]
    <3>1. CASE job' = [job EXCEPT ![a] = Reviewed(@, "auto")]
      BY <3>1, <1>1, ReviewWritten, Words
    <3>2. CASE job' = [job EXCEPT ![a].status = "blocked", ![a].code = "human"]
      <4>1. job' = [job EXCEPT ![a] = As(job[a], "blocked", "human", job[a].steer, job[a].pane, job[a].sent)]
        BY <3>2, <1>1 DEF JobRow, As
      <4>2. /\ "blocked" \in Status /\ "human" \in Code /\ job[a].pane \in BOOLEAN /\ job[a].sent \in BOOLEAN
            /\ job[a].steer \in {"none", "dispatching", "accepted"} /\ "blocked" # "cancelled"
            /\ "blocked" \in Resting
        BY <1>1, Words DEF JobRow
      <4>3. QED
        BY <1>1, <4>1, <4>2, AsWritten
    <3>3. QED
      BY <1>7, <3>1, <3>2
  <2>3. QED
    BY <1>2, <1>3, <1>4, <1>7, <2>1, <2>2, Here, Onward, SteerStays DEF TaskGoesOn
<1>8. QED
  BY <1>5, <1>6, <1>7 DEF MonitorReads, MonitorWaited, MonitorEnds

LEMMA StartingKeeps ==
    ASSUME IInv, NEW a \in Attempt, Starting(a)
    PROVE  IInv' /\ Decided
  BY LaunchKeeps, StartCheckedKeeps, PrepareStartsKeeps, PreparedKeeps, PrepareFailsKeeps,
     StartObservedKeeps, PromptReadKeeps, PromptedKeeps, MonitorKeeps DEF Starting

-----------------------------------------------------------------------------
(***************************************************************************)
(* The owner, the steering and a restart                                   *)
(***************************************************************************)

LEMMA ControlKeeps ==
    ASSUME IInv, NEW action \in {"pause", "resume", "cancel"}, Control(action)
    PROVE  IInv' /\ Decided
<1> DEFINE a == Current
           desired == [pause |-> "paused", resume |-> "running", cancel |-> "cancelled"][action]
           reason == [pause |-> "pause_requested", resume |-> "resume_requested",
                      cancel |-> "cancel_requested"][action]
           status == [pause |-> "blocked", resume |-> "queued", cancel |-> "cancelled"][action]
           state == [pause |-> "paused", resume |-> "active", cancel |-> "cancelled"][action]
           code == IF action = "resume" THEN "none" ELSE "human"
<1>1. a \in Attempt /\ job[a] \in JobRow /\ ~(a > Current)
  BY Here
<1>2. /\ desired \in Wish /\ reason \in Reason /\ status \in Status /\ code \in Code /\ status # "dispatching"
      /\ state \in {"active", "waiting", "paused"} \cup Terminal
  BY Words DEF Wish
<1>3. /\ task' \in TaskRow /\ task'.max = task.max /\ task'.no = task.no /\ task'.stop = task.stop
  <2>1. CASE Unstarted
    <3>1. task' = [task EXCEPT !.desired = desired, !.state = state,
                               !.reason = IF action = "pause" THEN "paused" ELSE "none"]
      BY <2>1 DEF Control
    <3>2. (IF action = "pause" THEN "paused" ELSE "none") \in Reason
      BY Words
    <3> HIDE DEF desired, reason, status, state, code
    <3>3. QED
      BY <1>2, <3>1, <3>2, Here DEF TaskRow
  <2>2. CASE ~Unstarted
    <3>1. task' = [task EXCEPT !.desired = desired, !.reason = reason,
                               !.state = IF action = "pause" THEN "paused" ELSE "waiting"]
      BY <2>2 DEF Control
    <3> HIDE DEF desired, reason, status, state, code
    <3>2. QED
      BY <1>2, <3>1, Here DEF TaskRow
  <2>3. QED
    BY <2>1, <2>2
<1>4. JobsGoOn /\ job' \in [Attempt -> JobRow]
  <2>1. CASE Unstarted
    <3>1. job' = [job EXCEPT ![a].status = status, ![a].code = code]
      BY <2>1 DEF Control
    <3>2. ~job[a].sent /\ ~job[a].pane
      BY <2>1 DEF Unstarted
    <3> HIDE DEF desired, reason, status, state, code
    <3>3. ~Settled(a)
      BY <3>2, <1>1 DEF Settled, IInv, Rest, Stopping
    <3>4. /\ job[a].sent \in BOOLEAN /\ job[a].pane \in BOOLEAN
          /\ job[a].steer \in {"none", "dispatching", "accepted"}
      BY <1>1 DEF JobRow
    <3>5. job' = [job EXCEPT ![a] = As(job[a], status, code, job[a].steer, job[a].pane, job[a].sent)]
      BY <1>1, <3>1 DEF JobRow, As
    <3> HIDE DEF a
    <3>6. QED
      BY ONLY IInv, <1>1, <1>2, <3>2, <3>3, <3>4, <3>5, AsWritten
  <2>2. CASE ~Unstarted
    BY <2>2, JobsStay, Here DEF Control
  <2>3. QED
    BY <2>1, <2>2
<1>5. WorkersGoOn
  BY WorkersStay DEF Control
<1>6. VisitGoesOn /\ visit' \in VisitRow
  BY NotedOnward DEF Control
<1>7. QED
  BY <1>3, <1>4, <1>5, <1>6, Here, Counted, SteerStays, Onward DEF Control, TaskGoesOn

LEMMA RetryKeeps ==
    ASSUME IInv, NEW max \in Attempt, Retry(max)
    PROVE  IInv' /\ Decided
<1>1. task' \in TaskRow /\ task'.max >= task.no /\ task'.no = task.no /\ task'.stop = task.stop
  <2>1. /\ task \in TaskRow /\ task.no \in Nat /\ max \in Nat /\ max > task.no
        /\ task' = [task EXCEPT !.max = max, !.state = "waiting", !.reason = "resume_requested"]
        /\ "resume_requested" \in Reason
    BY Here, Words DEF Retry
  <2>2. task'.max = max /\ task'.no = task.no /\ task'.stop = task.stop
    BY <2>1 DEF TaskRow
  <2>3. task' \in TaskRow
    BY <2>1 DEF TaskRow
  <2>4. QED
    BY <2>1, <2>2, <2>3
<1>2. JobsGoOn /\ WorkersGoOn
  BY JobsStay, WorkersStay DEF Retry
<1>3. VisitGoesOn /\ visit' \in VisitRow
  BY NotedOnward DEF Retry
<1>4. QED
  BY <1>1, <1>2, <1>3, Here, Counted, SteerStays, Onward DEF Retry, TaskGoesOn

LEMMA SteerPreparesKeeps ==
    ASSUME IInv, SteerPrepares
    PROVE  IInv' /\ Decided
<1>1. PICK a \in Attempt : a = Current
  BY Here
<1>2. job[a] \in JobRow
  BY Here
<1>3. /\ task' \in TaskRow /\ task'.max = task.max /\ task'.no = task.no /\ task'.stop = task.stop
  BY Here, Words DEF SteerPrepares, TaskRow
<1> DEFINE j == [job[a] EXCEPT !.steer = IF @ = "accepted" THEN "none" ELSE @,
                               !.answer = IF @ = "stored" THEN "asked" ELSE @]
<1>4. job' = [job EXCEPT ![a] = j]
  BY <1>1 DEF SteerPrepares
<1>5. /\ j \in JobRow /\ j.status = job[a].status /\ j.pane = job[a].pane /\ j.sent = job[a].sent
      /\ j.asks = job[a].asks /\ j.answer = IF job[a].answer = "stored" THEN "asked" ELSE job[a].answer
  BY <1>2 DEF JobRow
<1> HIDE DEF j
<1>6. RowGoesOn(a, j)
  <2>1. RowGoesOn(a, job[a]) /\ ~(a > Current)
    BY <1>1, RowStays, Here
  <2>2. job[a].asks = "none" => j.answer = "unread"
    BY <1>5 DEF IInv, Rest, Evidence
  <2>3. QED
    BY <2>1, <2>2, <1>5 DEF RowGoesOn, Asks
<1>7. JobsGoOn /\ job' \in [Attempt -> JobRow]
  BY <1>4, <1>5, <1>6, OneRow, Here
<1>8. WorkersGoOn
  BY WorkersStay DEF SteerPrepares
<1>9. VisitGoesOn /\ visit' \in VisitRow
  BY NotedOnward DEF SteerPrepares
<1>10. SteerGoesOn /\ steer' \in SteerRow
  <2>1. steer' = [NoSteer EXCEPT !.at = "begin", !.of = Current] /\ Current \in Attempt
    BY Here DEF SteerPrepares
  <2>2. steer'.at = "begin" /\ steer'.of = Current
    BY <2>1 DEF NoSteer
  <2>3. steer' \in SteerRow
    BY <2>1, NoVisitRow DEF SteerRow
  <2>4. QED
    BY <2>1, <2>2, <2>3 DEF SteerGoesOn
<1>11. QED
  BY <1>3, <1>7, <1>8, <1>9, <1>10, Here, Counted, Onward DEF SteerPrepares, TaskGoesOn

\* Nothing disturbs an attempt that is being told something: it is the current one,
\* no stop is claimed, and no round is under way.
LEMMA Told ==
    ASSUME IInv, steer.at = "sent"
    PROVE  /\ steer.of = Current /\ task.stop = "none" /\ visit.at = "none"
           /\ ~Settled(steer.of) /\ ~Empty(steer.of) /\ ~(steer.of > Current)
  BY Here DEF IInv, Rest, Earlier, Steered, Stopping, Visited, Settled, Empty, SteerRow

LEMMA SteerReadKeeps ==
    ASSUME IInv, SteerRead
    PROVE  IInv' /\ Decided
<1>1. steer.at = "sent" /\ steer.of = Current /\ ~Empty(steer.of) /\ ~(steer.of > Current)
  BY Told DEF SteerRead
<1>2. WorkersGoOn /\ worker' \in [Attempt -> WorkerState]
  BY <1>1, Here DEF SteerRead, WorkersGoOn, WorkerState, Empty, IInv, Rest, Earlier, Stopping
<1>3. JobsGoOn
  BY JobsStay DEF SteerRead
<1>4. SteerGoesOn /\ steer' \in SteerRow
  <2>1. steer' = [steer EXCEPT !.read = TRUE] /\ steer \in SteerRow /\ Current \in Nat
    BY Here DEF SteerRead
  <2>2. steer'.at = steer.at /\ steer'.of = steer.of
    BY <2>1 DEF SteerRow
  <2>3. steer' \in SteerRow
    BY <2>1 DEF SteerRow
  <2>4. QED
    BY <1>1, <2>1, <2>2, <2>3 DEF SteerGoesOn
<1>5. QED
  BY <1>2, <1>3, <1>4, Here, VisitStays, Onward DEF SteerRead, TaskGoesOn

LEMMA CrashKeeps ==
    ASSUME IInv, Crash
    PROVE  IInv' /\ Decided
<1>1. visit'.at = "none" /\ steer'.at = "none" /\ VisitGoesOn /\ SteerGoesOn
      /\ visit' \in VisitRow /\ steer' \in SteerRow
  BY NoVisitRow DEF Crash, NoVisit, NoSteer, VisitGoesOn, SteerGoesOn
<1>2. job' \in [Attempt -> JobRow] /\ JobsGoOn
  <2> DEFINE new(a) ==
          IF job[a].status = "preparing" THEN [job[a] EXCEPT !.status = "retryable_failed", !.code = "human"]
          ELSE IF job[a].status = "dispatching" \/ job[a].steer = "dispatching"
          THEN [job[a] EXCEPT !.status = "needs_review", !.steer = "none",
                              !.code = IF job[a].status = "dispatching" THEN "auto" ELSE "human"]
          ELSE job[a]
  <2>1. job' = [a \in Attempt |-> new(a)]
    BY DEF Crash
  <2>2. ASSUME NEW a \in Attempt PROVE new(a) \in JobRow /\ RowGoesOn(a, new(a))
    <3>1. job[a] \in JobRow /\ RowGoesOn(a, job[a])
      BY Here, RowStays
    <3>2. a > Current => job[a].status = "none" /\ job[a].steer = "none"
      BY DEF IInv, Rest, Later, NoJob
    <3>3. new(a) \in JobRow /\ new(a).pane = job[a].pane /\ new(a).sent = job[a].sent
          /\ new(a).asks = job[a].asks /\ new(a).answer = job[a].answer
      <4>1. {"retryable_failed", "needs_review"} \subseteq Status /\ {"human", "auto"} \subseteq Code
        BY Words
      <4>2. CASE job[a].status = "preparing"
        BY <3>1, <4>1, <4>2 DEF JobRow
      <4>3. CASE job[a].status = "dispatching"
        BY <3>1, <4>1, <4>3 DEF JobRow
      <4>4. CASE job[a].status \notin {"preparing", "dispatching"}
        BY <3>1, <4>1, <4>4 DEF JobRow
      <4>5. QED
        BY <4>2, <4>3, <4>4
    <3>4. /\ new(a).status = "cancelled" => job[a].status = "cancelled"
          /\ new(a).status # "dispatching"
      BY <3>1 DEF JobRow
    <3>5. a > Current => new(a) = job[a]
      BY <3>2
    <3>6. Settled(a) => new(a).status \in Resting
      BY <3>1, NotSettled, Words DEF JobRow, RowGoesOn
    <3> HIDE DEF new
    <3>7. QED
      BY <3>1, <3>3, <3>4, <3>5, <3>6, <1>1 DEF RowGoesOn, Trusted
  <2> HIDE DEF new
  <2>3. QED
    BY <2>1, <2>2 DEF JobsGoOn
<1>3. op' \in [Attempt -> OpState] /\ \A a \in Attempt : a > Current => op'[a] = op[a]
  BY DEF Crash, OpState, IInv, Rest, Later
<1>4. WorkersGoOn
  BY <1>3, WorkersStay DEF Crash
<1>5. QED
  BY <1>1, <1>2, <1>3, <1>4, Here, Counted, Onward DEF Crash, TaskGoesOn

LEMMA FinishedWritten ==
    ASSUME IInv, NEW a \in Attempt, a = Current, NEW j \in JobRow, RowGoesOn(a, j), FinishSteer(j)
    PROVE  /\ JobsGoOn /\ job' \in [Attempt -> JobRow]
           /\ task' \in TaskRow /\ task'.max = task.max /\ task'.no = task.no /\ task'.stop = task.stop
           /\ task'.desired = task.desired
<1> DEFINE k == [j EXCEPT !.answer = IF @ = "asked" THEN "answered" ELSE @]
<1>1. job' = [job EXCEPT ![a] = k]
  BY DEF FinishSteer
<1>2. /\ k \in JobRow /\ k.status = j.status /\ k.pane = j.pane /\ k.sent = j.sent
      /\ k.asks = j.asks /\ k.answer = IF j.answer = "asked" THEN "answered" ELSE j.answer
  BY DEF JobRow
<1>3. ~(a > Current)
  BY Here
<1> HIDE DEF k
<1>4. RowGoesOn(a, k)
  BY <1>2, <1>3 DEF RowGoesOn, Asks
<1>5. JobsGoOn /\ job' \in [Attempt -> JobRow]
  BY <1>1, <1>2, <1>4, OneRow, Here
<1>6. task' = task \/ task' = [task EXCEPT !.state = "active", !.reason = "none", !.steer = FALSE]
  BY DEF FinishSteer
<1>7. /\ task' \in TaskRow /\ task'.max = task.max /\ task'.no = task.no /\ task'.stop = task.stop
      /\ task'.desired = task.desired
  BY <1>6, Here, Words DEF TaskRow
<1>8. QED
  BY <1>5, <1>7

\* The row of an attempt with another word about its steering.
LEMMA SteerWritten ==
    ASSUME IInv, NEW a \in Attempt, NEW t \in {"none", "dispatching", "accepted"}, ~(a > Current)
    PROVE  /\ [job[a] EXCEPT !.steer = t] \in JobRow /\ RowGoesOn(a, [job[a] EXCEPT !.steer = t])
           /\ [job EXCEPT ![a].steer = t] = [job EXCEPT ![a] = [job[a] EXCEPT !.steer = t]]
<1> DEFINE k == [job[a] EXCEPT !.steer = t]
<1>1. job[a] \in JobRow /\ RowGoesOn(a, job[a])
  BY Here, RowStays
<1>2. /\ k \in JobRow /\ k.status = job[a].status /\ k.pane = job[a].pane /\ k.sent = job[a].sent
      /\ k.asks = job[a].asks /\ k.answer = job[a].answer
  BY <1>1 DEF JobRow
<1>3. [job EXCEPT ![a].steer = t] = [job EXCEPT ![a] = k]
  OBVIOUS
<1> HIDE DEF k
<1>4. RowGoesOn(a, k)
  BY <1>1, <1>2 DEF RowGoesOn, Asks
<1>5. QED
  BY <1>2, <1>3, <1>4 DEF k

LEMMA SteerBeginsKeeps ==
    ASSUME IInv, SteerBegins
    PROVE  IInv' /\ Decided
<1>1. PICK a \in Attempt : a = steer.of
  BY Here DEF SteerRow
<1>2. steer.at = "begin" /\ visit.at = "none" /\ job[a] \in JobRow
  BY <1>1, Here DEF SteerBegins
<1>3. ~(a > Current) /\ Current \in Nat /\ a \in Nat
  BY <1>1, <1>2, Here DEF IInv, Rest, Steered
<1>4. used' = used /\ UNCHANGED <<worker, file, op, visit>> /\ VisitGoesOn
  BY <1>2 DEF SteerBegins, VisitGoesOn
<1>5. WorkersGoOn
  BY <1>4, WorkersStay
<1>6. CASE a = Current /\ FinishSteer([Row EXCEPT !.steer = "accepted"]) /\ steer' = NoSteer
  <2>1. [job[a] EXCEPT !.steer = "accepted"] \in JobRow /\ RowGoesOn(a, [job[a] EXCEPT !.steer = "accepted"])
    BY <1>3, SteerWritten
  <2>2. FinishSteer([job[a] EXCEPT !.steer = "accepted"])
    BY <1>6
  <2>3. /\ JobsGoOn /\ job' \in [Attempt -> JobRow]
        /\ task' \in TaskRow /\ task'.max = task.max /\ task'.no = task.no /\ task'.stop = task.stop
    BY <1>6, <2>1, <2>2, FinishedWritten
  <2>4. SteerGoesOn /\ steer' \in SteerRow
    BY <1>6, NoVisitRow DEF SteerGoesOn, NoSteer
  <2>5. QED
    BY <1>4, <1>5, <2>3, <2>4, Here, Onward DEF TaskGoesOn
<1>7. CASE UNCHANGED <<task, job>> /\ steer' = NoSteer
  <2>1. JobsGoOn
    BY <1>7, JobsStay
  <2>2. SteerGoesOn /\ steer' \in SteerRow
    BY <1>7, NoVisitRow DEF SteerGoesOn, NoSteer
  <2>3. QED
    BY <1>4, <1>5, <1>7, <2>1, <2>2, Here, Onward DEF TaskGoesOn
<1>8. CASE /\ UNCHANGED task /\ steer' = [steer EXCEPT !.at = "sent"]
           /\ job' = [job EXCEPT ![a].steer = "dispatching"]
           /\ \/ job[a].status = "running"
              \/ PendingSteer(a)
  <2>1. JobsGoOn /\ job' \in [Attempt -> JobRow]
    BY <1>3, <1>8, SteerWritten, OneRow, Here
  <2>2. a = Current /\ task.stop = "none"
    <3>1. CASE job[a].status = "running"
      BY <3>1, <1>3, NotSettled, Words DEF Settled
    <3>2. CASE PendingSteer(a)
      BY <3>2 DEF PendingSteer
    <3>3. QED
      BY <1>8, <3>1, <3>2
  <2>3. steer'.of = Current /\ steer' \in SteerRow
    BY <1>1, <1>8, <2>2, Here DEF SteerRow
  <2>4. SteerGoesOn
    BY <1>2, <1>3, <1>4, <2>2, <2>3 DEF SteerGoesOn
  <2>5. QED
    BY <1>4, <1>5, <1>8, <2>1, <2>3, <2>4, Here, Onward DEF TaskGoesOn
<1>9. QED
  BY <1>1, <1>6, <1>7, <1>8 DEF SteerBegins

LEMMA SteerAnsweredKeeps ==
    ASSUME IInv, SteerAnswered
    PROVE  IInv' /\ Decided
<1>1. PICK a \in Attempt : a = steer.of
  BY Here DEF SteerRow
<1>2. /\ steer.at = "sent" /\ a = Current /\ task.stop = "none" /\ visit.at = "none"
      /\ ~Settled(a) /\ ~(a > Current)
  BY <1>1, Told DEF SteerAnswered
<1> DEFINE j == job[a]
           cleared == [j EXCEPT !.steer = IF @ = "dispatching" THEN "none" ELSE @]
           takenUp == PendingSteer(a) /\ j.status \in {"blocked", "needs_review"}
           accepted == [j EXCEPT !.steer = "accepted",
                          !.status = IF PendingSteer(a) /\ @ \in {"blocked", "needs_review"} THEN "running" ELSE @,
                          !.code = IF PendingSteer(a) /\ j.status \in {"blocked", "needs_review"} THEN "none" ELSE @]
<1>3. j \in JobRow /\ RowGoesOn(a, j)
  BY Here, RowStays
<1>4. /\ VisitGoesOn /\ visit' = visit /\ UNCHANGED <<worker, file, op>>
      /\ SteerGoesOn /\ steer' \in SteerRow
  BY <1>2, NoVisitRow DEF SteerAnswered, Noted, VisitGoesOn, SteerGoesOn, NoSteer
<1>5. used' \in UsedRow /\ used'.closes = used.closes
  BY Counted DEF SteerAnswered
<1>6. WorkersGoOn
  BY <1>4, WorkersStay
<1>7. /\ cleared \in JobRow /\ cleared.status = j.status /\ cleared.pane = j.pane /\ cleared.sent = j.sent
      /\ cleared.asks = j.asks /\ cleared.answer = j.answer
  BY <1>3 DEF JobRow
<1>8. ASSUME NEW k \in JobRow, k.pane = j.pane, k.sent = j.sent, k.asks = j.asks, k.answer = j.answer,
             k.status = "cancelled" => j.status = "cancelled",
             k.status = "dispatching" => j.status = "dispatching"
      PROVE  RowGoesOn(a, k)
  BY <1>2, <1>3, <1>8 DEF RowGoesOn, Asks
<1>9. ASSUME NEW k \in JobRow, RowGoesOn(a, k), job' = [job EXCEPT ![a] = k], UNCHANGED task
      PROVE  IInv' /\ Decided
  <2>1. JobsGoOn /\ job' \in [Attempt -> JobRow]
    BY <1>9, OneRow, Here
  <2>2. QED
    BY <1>4, <1>5, <1>6, <1>9, <2>1, Here, Onward DEF TaskGoesOn
<1>10. CASE UNCHANGED <<task, job>>
  <2>1. JobsGoOn
    BY <1>10, JobsStay
  <2>2. QED
    BY <1>4, <1>5, <1>6, <1>10, <2>1, Here, Onward DEF TaskGoesOn
<1>11. CASE FinishSteer(accepted)
  <2>1. PICK s \in Status, c \in Code :
          /\ s = IF takenUp THEN "running" ELSE j.status
          /\ c = IF takenUp THEN "none" ELSE j.code
    BY <1>3, Words DEF JobRow
  <2>2. accepted = [j EXCEPT !.steer = "accepted", !.status = s, !.code = c]
    BY <1>3, <2>1 DEF JobRow
  <2>3. /\ accepted \in JobRow /\ accepted.pane = j.pane /\ accepted.sent = j.sent
        /\ accepted.asks = j.asks /\ accepted.answer = j.answer
        /\ accepted.status = "cancelled" => j.status = "cancelled"
        /\ accepted.status = "dispatching" => j.status = "dispatching"
    BY <1>3, <2>1, <2>2 DEF JobRow
  <2> HIDE DEF accepted, j
  <2>4. RowGoesOn(a, accepted)
    BY <1>8, <2>3
  <2>5. /\ JobsGoOn /\ job' \in [Attempt -> JobRow]
        /\ task' \in TaskRow /\ task'.max = task.max /\ task'.no = task.no /\ task'.stop = task.stop
    BY <1>2, <1>11, <2>3, <2>4, FinishedWritten
  <2>6. QED
    BY <1>4, <1>5, <1>6, <2>5, Here, Onward DEF TaskGoesOn
<1>12. CASE job' = [job EXCEPT ![a] = Reviewed(@, "human")] /\ UNCHANGED task
  <2>1. Reviewed(j, "human") \in JobRow /\ RowGoesOn(a, Reviewed(j, "human"))
    BY <1>3, <1>8, ReviewedRow, Words
  <2>2. QED
    BY <1>9, <1>12, <2>1
<1>13. CASE /\ UNCHANGED task
            /\ job' = [job EXCEPT ![a] = IF @.status = "running"
                                         THEN [cleared EXCEPT !.status = "blocked", !.code = "human"]
                                         ELSE cleared]
  <2> DEFINE k == IF j.status = "running" THEN [cleared EXCEPT !.status = "blocked", !.code = "human"] ELSE cleared
  <2>1. job' = [job EXCEPT ![a] = k]
    BY <1>13
  <2> HIDE DEF cleared, j
  <2>2. k \in JobRow /\ RowGoesOn(a, k)
    <3>1. /\ k \in JobRow /\ k.pane = j.pane /\ k.sent = j.sent /\ k.asks = j.asks /\ k.answer = j.answer
          /\ k.status = "cancelled" => j.status = "cancelled"
          /\ k.status = "dispatching" => j.status = "dispatching"
      BY <1>7, Words DEF JobRow
    <3>2. QED
      BY <1>8, <3>1
  <2> HIDE DEF k
  <2>3. QED
    BY <1>9, <1>13, <2>1, <2>2
<1>14. CASE job' = [job EXCEPT ![a] = Reviewed(cleared, "auto")] /\ UNCHANGED task
  <2> HIDE DEF cleared, j
  <2>1. Reviewed(cleared, "auto") \in JobRow /\ RowGoesOn(a, Reviewed(cleared, "auto"))
    <3>1. Reviewed(cleared, "auto") \in JobRow
      BY <1>7, ReviewedRow, Words
    <3>2. QED
      BY <1>7, <1>8, <3>1, ReviewedRow, Words
  <2>2. QED
    BY <1>9, <1>14, <2>1
<1>15. QED
  BY <1>1, <1>2, <1>10, <1>11, <1>12, <1>13, <1>14 DEF SteerAnswered

-----------------------------------------------------------------------------
(***************************************************************************)
(* reconcileTask                                                           *)
(***************************************************************************)

LEMMA WaitsRow ==
    ASSUME IInv, NEW reason \in Reason, NEW stale \in BOOLEAN, task' = WaitsAt(reason, stale)
    PROVE  /\ task' \in TaskRow /\ task'.max = task.max /\ task'.no = task.no /\ task'.stop = task.stop
           /\ task'.desired = task.desired
<1> DEFINE doubt == reason \in {"observation_unknown", "worker_stop_pending"}
           fails == IF doubt /\ task.fails < 3 THEN task.fails + 1 ELSE task.fails
           told == IF doubt /\ Lasts(fails) THEN "worker_unknown" ELSE reason
           state == IF task.state = "paused" THEN task.state ELSE "waiting"
<1>1. task \in TaskRow
  BY Here
<1>2. fails \in 0..3
  BY <1>1 DEF TaskRow
<1>3. told \in Reason
  BY Words
<1>4. state \in {"active", "waiting", "paused"} \cup Terminal
  BY <1>1 DEF TaskRow
<1>5. \/ task' = task
      \/ task' = [task EXCEPT !.fails = fails]
      \/ task' = [task EXCEPT !.fails = fails, !.reason = told, !.state = state]
  BY DEF WaitsAt
<1> HIDE DEF fails, told, state
<1>6. QED
  BY <1>1, <1>2, <1>3, <1>4, <1>5 DEF TaskRow

\* A round that ends in a wait, or with nothing.
LEMMA RoundWaits ==
    ASSUME IInv, NEW reason \in Reason, VisitWaits(reason), Smooth \/ Disturbed,
           UNCHANGED <<worker, file, op, steer>>
    PROVE  IInv' /\ Decided
<1>1. visit.stale \in BOOLEAN
  BY Here DEF VisitRow
<1>2. /\ task' \in TaskRow /\ task'.max = task.max /\ task'.no = task.no /\ task'.stop = task.stop
  BY <1>1, WaitsRow DEF VisitWaits, Waits
<1>3. VisitGoesOn /\ visit' \in VisitRow
  BY NoVisitRow DEF VisitWaits, VisitEnds, VisitGoesOn, NoVisit
<1>4. JobsGoOn /\ WorkersGoOn
  BY JobsStay, WorkersStay DEF VisitWaits
<1>5. QED
  BY <1>2, <1>3, <1>4, Here, Counted, SteerStays, Onward DEF VisitWaits, TaskGoesOn

LEMMA RoundEnds ==
    ASSUME IInv, VisitEnds, UNCHANGED <<task, job, worker, file, op, steer>>, Smooth \/ Disturbed
    PROVE  IInv' /\ Decided
<1>1. VisitGoesOn /\ visit' \in VisitRow
  BY NoVisitRow DEF VisitEnds, VisitGoesOn, NoVisit
<1>2. JobsGoOn /\ WorkersGoOn
  BY JobsStay, WorkersStay
<1>3. QED
  BY <1>1, <1>2, Here, Counted, SteerStays, Onward DEF TaskGoesOn

LEMMA VisitBeginsKeeps ==
    ASSUME IInv, VisitBegins
    PROVE  IInv' /\ Decided
<1>1. PICK a \in Attempt : a = Current
  BY Here
<1>2. visit.at = "none" /\ steer.at # "sent" /\ UNCHANGED <<worker, file, op, steer, used>> /\ WorkersGoOn
  BY WorkersStay DEF VisitBegins
<1>3. CASE FinishSteer(Row) /\ UNCHANGED visit
  <2>1. job[a] \in JobRow /\ RowGoesOn(a, job[a]) /\ FinishSteer(job[a])
    BY <1>1, <1>3, Here, RowStays
  <2>2. /\ JobsGoOn /\ job' \in [Attempt -> JobRow]
        /\ task' \in TaskRow /\ task'.max = task.max /\ task'.no = task.no /\ task'.stop = task.stop
        /\ task'.desired = task.desired
    BY <1>1, <2>1, FinishedWritten
  <2>3. QED
    BY <1>2, <1>3, <2>2, VisitStays, Here, SteerStays, Onward DEF TaskGoesOn
<1>4. CASE /\ visit' = [NoVisit EXCEPT !.at = "read", !.of = Current, !.desired = task.desired,
                            !.stop = task.stop, !.reason = task.reason, !.why = Recovery(Row)]
           /\ UNCHANGED <<task, job>>
  <2>1. Recovery(Row) \in ForHuman \cup {"observation_unknown"}
    BY DEF Recovery, ForHuman
  <2>2. /\ task.desired \in Wish /\ task.stop \in StopState /\ task.reason \in Reason /\ Current \in Attempt
    BY Here DEF TaskRow
  <2>3. visit' \in VisitRow
    BY <1>4, <2>1, <2>2, NoVisitRow DEF VisitRow
  <2>4. visit'.at = "read" /\ visit'.of = Current /\ visit'.desired = task.desired /\ visit'.stop = task.stop
    BY <1>4 DEF NoVisit
  <2>5. VisitGoesOn
    BY <1>2, <1>4, <2>4 DEF VisitGoesOn
  <2>6. QED
    BY <1>2, <1>4, <2>3, <2>5, JobsStay, Here, SteerStays, Onward DEF TaskGoesOn
<1>5. QED
  BY <1>3, <1>4 DEF VisitBegins

\* replaceStopped adds an attempt.
LEMMA ReplacedKeeps ==
    ASSUME IInv, visit.at # "none", task.stop = "stopped", file[task.no] = "none", task.no < task.max,
           task.desired = "running", task.state \notin Terminal, ~Asking \/ visit.stale,
           job' = [job EXCEPT ![task.no] = Interrupted(@), ![task.no + 1] = Queued],
           task' = [task EXCEPT !.no = task.no + 1, !.state = "active", !.reason = "none",
                                !.stop = "none", !.fails = 0],
           VisitEnds, Smooth, UNCHANGED <<worker, file, op, steer>>
    PROVE  IInv' /\ Decided
<1>1. PICK old \in Attempt, new \in Attempt : old = task.no /\ new = task.no + 1 /\ old \in Nat /\ new \in Nat
  BY Here DEF TaskRow
<1>2. /\ task \in TaskRow /\ job \in [Attempt -> JobRow] /\ \A a \in Attempt : a \in Nat
      /\ task.max \in Nat
  BY Here DEF TaskRow
<1>3. task'.no = new /\ task'.stop = "none" /\ task'.max = task.max /\ task' \in TaskRow
  <2>1. task' = [task EXCEPT !.no = new, !.state = "active", !.reason = "none", !.stop = "none", !.fails = 0]
    BY <1>1
  <2>2. "none" \in Reason /\ "none" \in StopState /\ 0 \in 0..3
    BY Words DEF StopState
  <2>3. QED
    BY <1>2, <2>1, <2>2 DEF TaskRow
<1>4. visit' \in VisitRow /\ visit'.at = "none"
  BY NoVisitRow DEF VisitEnds, NoVisit
<1>5. used' = used
  BY DEF Smooth
<1>6. /\ job'[old] = Interrupted(job[old]) /\ job'[new] = Queued
      /\ \A a \in Attempt : a \notin {old, new} => job'[a] = job[a]
  BY <1>1, <1>2
<1>7. /\ Interrupted(job[old]) \in JobRow /\ Interrupted(job[old]).status = "cancelled"
      /\ Interrupted(job[old]).asks = "none" /\ Interrupted(job[old]).answer = "unread"
  <2>1. job[old] \in JobRow /\ "cancelled" \in Status /\ "human" \in Code
    BY <1>2, Words
  <2>2. QED
    BY <2>1 DEF Interrupted, JobRow
<1>8. Queued \in JobRow /\ ~Queued.sent /\ Queued.status = "queued" /\ Queued.asks = "none" /\ Queued.answer = "unread"
  BY NoJobRow DEF Queued, NoJob
<1>9. TypeOK'
  <2>1. job' \in [Attempt -> JobRow]
    BY <1>1, <1>2, <1>7, <1>8
  <2>2. QED
    BY <2>1, <1>3, <1>4, <1>5, Here
    DEF TypeOK, TaskRow, JobRow, WorkerState, OpState, VisitRow, SteerRow, UsedRow, StopState, Wish
<1>10. worker[old] \in Left /\ steer.at # "sent"
  BY <1>1 DEF IInv, Rest, Stopping, Visited
<1>11. worker[new] = "none" /\ file[new] = "none" /\ used.closes[new] = 0
  BY <1>1 DEF IInv, Rest, Later
<1>12. Later'
  <2> SUFFICES ASSUME NEW a \in Attempt, a > new
               PROVE  job'[a] = NoJob /\ worker'[a] = "none" /\ file'[a] = "none" /\ op'[a] = "none" /\ used'.closes[a] = 0
    BY <1>3 DEF Later
  <2>1. a > Current /\ a \notin {old, new}
    BY <1>1, <1>2
  <2>2. QED
    BY <2>1, <1>5, <1>6 DEF IInv, Rest, Later
<1>13. Earlier'
  <2> SUFFICES ASSUME NEW a \in Attempt, a < new
               PROVE  job'[a].status \in Resting /\ worker'[a] \in Left /\ ~(steer'.at = "sent" /\ steer'.of = a)
    BY <1>3 DEF Earlier
  <2>1. CASE a = old
    <3>1. job'[a].status = "cancelled" /\ "cancelled" \in Resting
      BY <2>1, <1>6, <1>7, Words
    <3>2. worker'[a] \in Left /\ steer'.at # "sent"
      BY <2>1, <1>10
    <3>3. QED
      BY <3>1, <3>2
  <2>2. CASE a # old
    <3>1. a < Current /\ a \notin {old, new}
      BY <2>2, <1>1, <1>2
    <3>2. QED
      BY <3>1, <1>6 DEF IInv, Rest, Earlier
  <2>3. QED
    BY <2>1, <2>2
<1>14. Stopping' /\ Visited'
  BY <1>3, <1>4 DEF Stopping, Visited
<1>15. Steered'
  BY <1>1, <1>2, <1>3, Here DEF IInv, Rest, Steered, SteerRow
<1>16. ClosedOnce'
  BY <1>3, <1>4, <1>5, <1>11 DEF IInv, Rest, ClosedOnce
<1>17. Evidence'
  <2> SUFFICES ASSUME NEW a \in Attempt
               PROVE  /\ ~job'[a].sent => file'[a] = "none"
                      /\ job'[a].status = "cancelled" =>
                           file'[a] = "none" /\ (~job'[a].sent \/ a < new)
                      /\ job'[a].asks = "none" => job'[a].answer = "unread"
    BY <1>3 DEF Evidence
  <2>1. CASE a = old
    BY <2>1, <1>1, <1>6, <1>7
  <2>2. CASE a = new
    BY <2>2, <1>6, <1>8, <1>11
  <2>3. CASE a \notin {old, new}
    <3>1. job'[a] = job[a] /\ file'[a] = file[a]
      BY <2>3, <1>6
    <3>2. /\ ~job[a].sent => file[a] = "none"
          /\ job[a].status = "cancelled" => file[a] = "none"
          /\ job[a].asks = "none" => job[a].answer = "unread"
      BY DEF IInv, Rest, Evidence
    <3>3. a > Current => job[a].status # "cancelled"
      BY DEF IInv, Rest, Later, NoJob
    <3>4. a > Current \/ a < new
      BY <2>3, <1>1, <1>2
    <3>5. QED
      BY <3>1, <3>2, <3>3, <3>4
  <2>4. QED
    BY <2>1, <2>2, <2>3
<1>18. (task.no <= task.max)'
  BY <1>1, <1>2, <1>3
<1>19. QED
  BY <1>9, <1>12, <1>13, <1>14, <1>15, <1>16, <1>17, <1>18 DEF IInv, Rest, Decided

LEMMA ReplacesKeeps ==
    ASSUME IInv, visit.at # "none", Replaces, UNCHANGED <<worker, file, op, steer>>,
           task.desired = "running" => ~Asking \/ visit.stale
    PROVE  IInv' /\ Decided
<1>1. PICK a \in Attempt : a = task.no /\ a \in Nat /\ task.max \in Nat
  BY Here DEF TaskRow
<1>2. CASE \E reason \in {"external_effect_unknown"} : VisitWaits(reason) /\ (Smooth \/ Disturbed)
  BY <1>2, RoundWaits, Words
<1>3. CASE /\ UNCHANGED job /\ VisitEnds /\ Smooth
           /\ task' = [task EXCEPT !.reason = "paused"] \/ task' = WaitsAt("retry_exhausted", FALSE)
  <2>1. task' \in TaskRow /\ task'.max = task.max /\ task'.no = task.no /\ task'.stop = task.stop
    <3>1. CASE task' = [task EXCEPT !.reason = "paused"]
      BY <3>1, Here, Words DEF TaskRow
    <3>2. CASE task' = WaitsAt("retry_exhausted", FALSE)
      BY <3>2, WaitsRow, Words
    <3>3. QED
      BY <1>3, <3>1, <3>2
  <2>2. VisitGoesOn /\ visit' \in VisitRow
    BY <1>3, NoVisitRow DEF VisitEnds, VisitGoesOn, NoVisit
  <2>3. JobsGoOn /\ WorkersGoOn
    BY <1>3, JobsStay, WorkersStay
  <2>4. QED
    BY <1>3, <2>1, <2>2, <2>3, Here, Counted, SteerStays, Onward DEF TaskGoesOn
<1>4. CASE /\ job' = [job EXCEPT ![a].status = "cancelled"] /\ task' = Ends("cancelled") /\ VisitEnds /\ Smooth
           /\ task.stop = "stopped" /\ file[a] = "none"
  <2>1. task' \in TaskRow /\ task'.max = task.max /\ task'.no = task.no /\ task'.stop = task.stop
    BY <1>4, EndsRow, Words
  <2>2. VisitGoesOn /\ visit' \in VisitRow
    BY <1>4, NoVisitRow DEF VisitEnds, VisitGoesOn, NoVisit
  <2>3. job[a] \in JobRow
    BY Here
  <2>4. /\ job[a].code \in Code /\ job[a].sent \in BOOLEAN /\ job[a].pane \in BOOLEAN
        /\ job[a].steer \in {"none", "dispatching", "accepted"} /\ "cancelled" \in Status /\ "cancelled" \in Resting
    BY <2>3, Words DEF JobRow
  <2>5. job' = [job EXCEPT ![a] = As(job[a], "cancelled", job[a].code, job[a].steer, job[a].pane, job[a].sent)]
    BY <1>4, <2>3 DEF JobRow, As
  <2>6. Over(a) /\ ~(a > Current)
    BY <1>1, <1>4 DEF Over
  <2>7. JobsGoOn /\ job' \in [Attempt -> JobRow]
    BY <2>4, <2>5, <2>6, AsWritten
  <2>8. WorkersGoOn
    BY WorkersStay
  <2>9. QED
    BY <1>4, <2>1, <2>2, <2>7, <2>8, Here, Counted, SteerStays, Onward DEF TaskGoesOn
<1>5. CASE /\ task.stop = "stopped" /\ ~HasResult(a) /\ ~Exhausted(a)
           /\ task.desired = "running" /\ task.state \notin Terminal
           /\ job' = [job EXCEPT ![a] = Interrupted(@), ![a + 1] = Queued]
           /\ task' = [task EXCEPT !.no = a + 1, !.state = "active", !.reason = "none",
                                   !.stop = "none", !.fails = 0]
           /\ VisitEnds /\ Smooth
  <2>1. file[task.no] = "none" /\ task.no < task.max
    BY <1>1, <1>5 DEF HasResult, Exhausted
  <2>2. QED
    BY <1>1, <1>5, <2>1, ReplacedKeeps
<1>6. QED
  BY <1>1, <1>2, <1>3, <1>4, <1>5 DEF Replaces, HasResult, VisitWaits

\* A checkpoint that asks for something is kept with the attempt.
Stored(a) == [job EXCEPT ![a].answer = IF job[a].asks # "none" /\ @ = "unread" THEN "stored" ELSE @]

LEMMA StoredWritten ==
    ASSUME IInv, NEW a \in Attempt, a = Current, job' = Stored(a),
           Trusted => ~(job[a].asks = "human" /\ Unanswered(a))
    PROVE  /\ JobsGoOn /\ job' \in [Attempt -> JobRow]
           /\ Trusted => ~Asks(job'[a])
<1> DEFINE j == [job[a] EXCEPT !.answer = IF job[a].asks # "none" /\ @ = "unread" THEN "stored" ELSE @]
<1>1. job[a] \in JobRow /\ RowGoesOn(a, job[a]) /\ ~(a > Current)
  BY Here, RowStays
<1>2. job' = [job EXCEPT ![a] = j]
  BY DEF Stored
<1>3. /\ j \in JobRow /\ j.status = job[a].status /\ j.pane = job[a].pane /\ j.sent = job[a].sent
      /\ j.asks = job[a].asks
      /\ j.answer = job[a].answer \/ (j.answer = "stored" /\ job[a].answer = "unread" /\ job[a].asks # "none")
  BY <1>1 DEF JobRow
<1> HIDE DEF j
<1>4. Trusted => ~Asks(j)
  BY <1>3 DEF Asks, Unanswered
<1>5. RowGoesOn(a, j)
  BY <1>1, <1>3, <1>4 DEF RowGoesOn
<1>6. QED
  BY <1>1, <1>2, <1>3, <1>4, <1>5, OneRow, Here

LEMMA VisitReadsKeeps ==
    ASSUME IInv, VisitReads
    PROVE  IInv' /\ Decided
<1>1. PICK a \in Attempt : a = visit.of
  BY Here DEF VisitRow
<1>2. visit.at = "read" /\ a = Current /\ steer.at # "sent" /\ UNCHANGED <<worker, file, op, steer>>
  BY <1>1 DEF VisitReads, IInv, Rest, Visited
<1>3. WorkersGoOn /\ visit \in VisitRow /\ visit.why \in Reason
  BY <1>2, WorkersStay, Here, Words DEF VisitRow
<1> DEFINE capacity == job[a].asks \in {"limit", "lifted"} /\ Unanswered(a)
<1>4. CASE \E reason \in {"result_conflict", "external_effect_unknown", "steer_acceptance_unknown"} :
             VisitWaits(reason) /\ Smooth
  BY <1>2, <1>4, RoundWaits, Words
<1>5. CASE Smooth /\ VisitEnds /\ job' = [job EXCEPT ![a] = Done(@)] /\ task' = Ends("completed")
  <2>1. /\ JobsGoOn /\ job' \in [Attempt -> JobRow]
        /\ task' \in TaskRow /\ task'.max = task.max /\ task'.no = task.no /\ task'.stop = task.stop
    BY <1>2, <1>5, SavedWritten
  <2>2. VisitGoesOn /\ visit' \in VisitRow
    BY <1>5, NoVisitRow DEF VisitEnds, VisitGoesOn, NoVisit
  <2>3. QED
    BY <1>2, <1>3, <1>5, <2>1, <2>2, Here, Counted, SteerStays, Onward DEF TaskGoesOn
<1>6. CASE \E reason \in {"human_input", "capacity_wait", visit.why} :
             job' = Stored(a) /\ task' = Waits(reason) /\ VisitEnds /\ Smooth
  <2>1. VisitGoesOn /\ visit' \in VisitRow /\ ~Trusted
    BY <1>6, NoVisitRow DEF VisitEnds, VisitGoesOn, NoVisit, Trusted
  <2>2. JobsGoOn /\ job' \in [Attempt -> JobRow]
    BY <1>2, <1>6, <2>1, StoredWritten
  <2>3. visit.stale \in BOOLEAN
    BY Here DEF VisitRow
  <2>4. /\ task' \in TaskRow /\ task'.max = task.max /\ task'.no = task.no /\ task'.stop = task.stop
    BY <1>3, <1>6, <2>3, WaitsRow, Words DEF Waits
  <2>5. QED
    BY <1>2, <1>3, <1>6, <2>1, <2>2, <2>4, Here, Counted, SteerStays, Onward DEF TaskGoesOn
<1>7. CASE Replaces /\ ~(visit.desired = "running" /\ job[a].asks = "human" /\ Unanswered(a))
  <2>1. task.desired = "running" => ~Asking \/ visit.stale
    <3>1. ~visit.stale => visit.desired = task.desired
      BY <1>2 DEF IInv, Rest, Visited
    <3>2. Asking => job[a].asks = "human" /\ Unanswered(a)
      BY <1>2 DEF Asking, Unanswered
    <3>3. QED
      BY <1>7, <3>1, <3>2
  <2>2. QED
    BY <1>2, <1>7, <2>1, ReplacesKeeps
<1>8. CASE /\ job' = Stored(a) /\ Smooth /\ UNCHANGED task
           /\ visit' = [visit EXCEPT !.capacity = capacity,
                           !.at = IF visit.stop = "attempting" THEN "probe" ELSE "observe"]
           /\ visit.desired = "running" => ~(job[a].asks = "human" /\ Unanswered(a))
  <2>1. PICK c \in BOOLEAN, at \in {"probe", "observe"} :
          c = capacity /\ at = IF visit.stop = "attempting" THEN "probe" ELSE "observe"
    OBVIOUS
  <2> HIDE DEF capacity
  <2>2. visit' = [visit EXCEPT !.capacity = c, !.at = at]
    BY <1>8, <2>1
  <2>3. /\ visit' \in VisitRow /\ visit'.at = at /\ visit'.of = visit.of /\ visit'.stale = visit.stale
        /\ visit'.desired = visit.desired /\ visit'.stop = visit.stop
    BY <1>3, <2>2 DEF VisitRow
  <2>4. /\ JobsGoOn /\ job' \in [Attempt -> JobRow]
        /\ Trusted => ~Asks(job'[a])
    <3>1. Trusted => ~(job[a].asks = "human" /\ Unanswered(a))
      BY <1>8, <2>3 DEF Trusted
    <3>2. QED
      BY <1>2, <1>8, <3>1, StoredWritten
  <2>5. VisitGoesOn
    BY <1>1, <1>2, <1>8, <2>3, <2>4 DEF VisitGoesOn, Trusted, IInv, Rest, Visited
  <2>6. QED
    BY <1>2, <1>3, <1>8, <2>3, <2>4, <2>5, Here, Counted, SteerStays, Onward DEF TaskGoesOn
<1> HIDE DEF capacity
<1>9. CASE file[a] = "invalid"
  BY <1>1, <1>4, <1>9 DEF VisitReads
<1>10. CASE file[a] = "valid"
  BY <1>1, <1>4, <1>5, <1>10 DEF VisitReads, VisitWaits
<1>11. CASE file[a] \notin {"invalid", "valid"}
  <2>1. CASE visit.reason = "steer_acceptance_unknown"
    BY <1>1, <1>4, <1>11, <2>1 DEF VisitReads
  <2>2. CASE visit.reason # "steer_acceptance_unknown"
    <3>1. CASE visit.desired = "running" /\ job[a].asks = "human" /\ Unanswered(a)
      BY <1>1, <1>6, <1>11, <2>2, <3>1 DEF VisitReads, Stored
    <3>2. CASE visit.desired = "running" /\ job[a].asks = "limit" /\ Unanswered(a)
      BY <1>1, <1>6, <1>11, <2>2, <3>2 DEF VisitReads, Stored
    <3>3. CASE ~(visit.desired = "running" /\ job[a].asks \in {"human", "limit"} /\ Unanswered(a))
      <4>1. CASE visit.stop = "stopped"
        BY <1>1, <1>7, <1>11, <2>2, <3>3, <4>1 DEF VisitReads
      <4>2. CASE visit.stop # "stopped"
        BY <1>1, <1>6, <1>8, <1>11, <2>2, <3>3, <4>2 DEF VisitReads, Stored, capacity
      <4>3. QED
        BY <4>1, <4>2
    <3>4. QED
      BY <3>1, <3>2, <3>3
  <2>3. QED
    BY <2>1, <2>2
<1>12. QED
  BY <1>9, <1>10, <1>11

\* Rounds that move the intent to stop: the rest of what the invariant says is
\* about rows and agents that they do not touch.
LEMMA StopMoves ==
    ASSUME IInv, NEW a \in Attempt, a = Current, visit.at # "none",
           task' \in TaskRow, task'.no = task.no, task'.max = task.max, task'.desired = task.desired,
           NEW j \in JobRow, job' = [job EXCEPT ![a] = j],
           j.sent = job[a].sent, j.asks = job[a].asks, j.answer = job[a].answer,
           j.status = "cancelled" => job[a].status = "cancelled",
           j.status = "dispatching" => job[a].status = "dispatching",
           task.stop = "stopped" => task'.stop = "stopped" \/ j.status # "cancelled",
           task'.stop # "none" => j.pane /\ j.status \in Resting,
           task'.stop = "stopped" => worker[a] \in Left,
           visit' \in VisitRow,
           \/ visit'.at = "none"
           \/ /\ visit.at # "read" /\ visit'.of = visit.of /\ visit'.desired = visit.desired
              /\ visit'.stale = visit.stale /\ task'.stop # "none",
           task'.stop \in {"none", "not_sent"} => used.closes[a] = 0,
           visit'.at = "close" => task'.stop = "attempting" /\ used.closes[a] = 0,
           Smooth \/ Disturbed, UNCHANGED <<worker, file, op, steer>>
    PROVE  IInv' /\ Decided
<1>1. /\ job \in [Attempt -> JobRow] /\ \A b \in Attempt : b \in Nat
      /\ task' \in TaskRow /\ steer.at # "sent" /\ visit.of = Current
  BY Here DEF IInv, Rest, Visited
<1>2. job'[a] = j /\ \A b \in Attempt : b # a => job'[b] = job[b]
  BY <1>1
<1>3. used' \in UsedRow /\ used'.closes = used.closes
  BY Counted
<1>4. TypeOK'
  <2>1. job' \in [Attempt -> JobRow]
    BY <1>1
  <2>2. QED
    BY <2>1, <1>3, Here
    DEF TypeOK, TaskRow, JobRow, WorkerState, OpState, VisitRow, SteerRow, UsedRow, StopState, Wish
<1>5. Later'
  BY <1>1, <1>2, <1>3 DEF IInv, Rest, Later
<1>6. Earlier'
  BY <1>1, <1>2 DEF IInv, Rest, Earlier
<1>7. Stopping'
  BY <1>1, <1>2 DEF Stopping
<1>8. Visited'
  BY <1>1, <1>2 DEF IInv, Rest, Visited, Asks
<1>9. Steered'
  BY DEF IInv, Rest, Steered
<1>10. ClosedOnce'
  BY <1>3 DEF IInv, Rest, ClosedOnce
<1>11. Evidence'
  <2> SUFFICES ASSUME NEW b \in Attempt
               PROVE  /\ ~job'[b].sent => file[b] = "none"
                      /\ job'[b].status = "cancelled" =>
                           file[b] = "none" /\ (~job'[b].sent \/ b < task.no \/ task'.stop = "stopped")
                      /\ job'[b].asks = "none" => job'[b].answer = "unread"
    BY DEF Evidence
  <2>1. /\ ~job[b].sent => file[b] = "none"
        /\ job[b].status = "cancelled" =>
             file[b] = "none" /\ (~job[b].sent \/ b < task.no \/ task.stop = "stopped")
        /\ job[b].asks = "none" => job[b].answer = "unread"
    BY DEF IInv, Rest, Evidence
  <2>2. CASE b = a
    BY <2>1, <2>2, <1>2
  <2>3. CASE b # a
    <3>1. b > task.no => job[b].status # "cancelled"
      BY DEF IInv, Rest, Later, NoJob
    <3>2. b > task.no \/ b < task.no
      BY <2>3, <1>1, Here
    <3>3. QED
      BY <2>1, <2>3, <3>1, <3>2, <1>2
  <2>4. QED
    BY <2>2, <2>3
<1>12. (task.no <= task.max)'
  BY DEF IInv
<1>13. Decided
  <2>1. ~Replaced /\ ~Dispatched
    BY <1>1, <1>2, Here DEF Replaced, Dispatched
  <2>2. QED
    BY <2>1 DEF Decided
<1>14. QED
  BY <1>4, <1>5, <1>6, <1>7, <1>8, <1>9, <1>10, <1>11, <1>12, <1>13 DEF IInv, Rest

LEMMA ReconnectsKeeps ==
    ASSUME IInv, visit.at # "none", Reconnects, Smooth \/ Disturbed, UNCHANGED <<worker, file, op, steer>>
    PROVE  IInv' /\ Decided
<1>1. PICK a \in Attempt : a = Current /\ a = visit.of
  BY Here DEF IInv, Rest, Visited
<1>2. visit' \in VisitRow /\ visit'.at = "none"
  BY NoVisitRow DEF Reconnects, VisitEnds, NoVisit
<1>3. CASE UNCHANGED <<task, job>>
  BY <1>3, RoundEnds DEF Reconnects
<1>4. CASE /\ task.stop \in {"none", "not_sent"}
           /\ task' = [task EXCEPT !.state = "active", !.reason = "none", !.stop = "none", !.fails = 0]
           /\ job' = [job EXCEPT ![a] = IF @.status \in {"needs_review", "blocked"}
                                        THEN [@ EXCEPT !.status = "running", !.code = "none"] ELSE @]
  <2> DEFINE j == IF job[a].status \in {"needs_review", "blocked"}
                  THEN [job[a] EXCEPT !.status = "running", !.code = "none"] ELSE job[a]
  <2>1. job' = [job EXCEPT ![a] = j]
    BY <1>4
  <2>2. job[a] \in JobRow /\ "running" \in Status /\ "none" \in Code
    BY Here, Words
  <2>3. /\ j \in JobRow /\ j.sent = job[a].sent /\ j.asks = job[a].asks /\ j.answer = job[a].answer
        /\ j.status = "cancelled" => job[a].status = "cancelled"
        /\ j.status = "dispatching" => job[a].status = "dispatching"
    BY <2>2 DEF JobRow
  <2>4. /\ task' \in TaskRow /\ task'.max = task.max /\ task'.no = task.no /\ task'.desired = task.desired
        /\ task'.stop = "none"
    <3>1. task \in TaskRow /\ "none" \in Reason /\ "none" \in StopState /\ 0 \in 0..3
      BY Here, Words DEF StopState
    <3>2. QED
      BY <1>4, <3>1 DEF TaskRow
  <2>5. used.closes[a] = 0
    BY <1>1, <1>4 DEF IInv, Rest, ClosedOnce
  <2> HIDE DEF j
  <2>6. QED
    BY <1>1, <1>2, <1>4, <2>1, <2>3, <2>4, <2>5, StopMoves
<1>5. QED
  BY <1>1, <1>3, <1>4 DEF Reconnects

LEMMA StopsKeeps ==
    ASSUME IInv, NEW seen, visit.at \in {"observe", "again"}, Stops(seen), job[visit.of].pane,
           Smooth \/ Disturbed, UNCHANGED <<worker, file, op, steer>>
    PROVE  IInv' /\ Decided
<1>1. PICK a \in Attempt : a = Current /\ a = visit.of
  BY Here DEF IInv, Rest, Visited
<1> DEFINE claimed == IF task.stop = "none" THEN "not_sent" ELSE task.stop
           closes == seen # "stopped" /\ Begins(claimed)
           stop == Intent(closes, claimed)
           reason == IF visit.stop = "none" THEN "worker_stop_pending" ELSE task.reason
           at == IF closes THEN "close" ELSE "probe"
           j == IF visit.stop = "none" THEN [job[a] EXCEPT !.status = "needs_review", !.code = "stop_pending"]
                ELSE job[a]
<1>2. CASE VisitWaits("external_effect_unknown")
  BY <1>2, RoundWaits, Words
<1>3. CASE /\ job' = IF visit.stop = "none"
                     THEN [job EXCEPT ![a].status = "needs_review", ![a].code = "stop_pending"] ELSE job
           /\ task' = [task EXCEPT !.stop = stop, !.reason = reason]
           /\ VisitAt(at)
  <2>1. /\ job[a] \in JobRow /\ task \in TaskRow /\ visit \in VisitRow
        /\ "needs_review" \in Status /\ "stop_pending" \in Code /\ "needs_review" \in Resting
        /\ "worker_stop_pending" \in Reason
    BY Here, Words
  <2>2. job' = [job EXCEPT ![a] = j]
    BY <1>3, Here
  <2>3. task.stop \in StopState /\ task.reason \in Reason
    BY <2>1 DEF TaskRow
  <2>4. /\ stop \in {"not_sent", "attempting", "stopped"}
        /\ stop = "stopped" <=> task.stop = "stopped"
        /\ stop = "not_sent" => task.stop \in {"none", "not_sent"}
        /\ at = "close" => stop = "attempting" /\ task.stop \in {"none", "not_sent"}
        /\ at \in {"close", "probe"}
    BY <2>3 DEF StopState, Intent, Begins
  <2>5. reason \in Reason
    BY <2>1, <2>3
  <2>6. task.stop # "none" => job[a].status \in Resting
    BY <1>1 DEF IInv, Rest, Stopping
  <2>7. visit.stop # "none" => task.stop # "none"
    BY DEF IInv, Rest, Visited
  <2>8. /\ j \in JobRow /\ j.sent = job[a].sent /\ j.asks = job[a].asks /\ j.answer = job[a].answer
        /\ j.status = "cancelled" => job[a].status = "cancelled"
        /\ j.status = "dispatching" => job[a].status = "dispatching"
        /\ j.pane /\ j.status \in Resting
    BY <1>1, <2>1, <2>6, <2>7 DEF JobRow
  <2> HIDE DEF claimed, closes, stop, reason, at, j
  <2>9. /\ task' \in TaskRow /\ task'.max = task.max /\ task'.no = task.no /\ task'.desired = task.desired
        /\ task'.stop = stop
    BY <1>3, <2>1, <2>4, <2>5 DEF TaskRow, StopState
  <2>10. /\ visit' \in VisitRow /\ visit'.at = at /\ visit'.of = visit.of /\ visit'.desired = visit.desired
         /\ visit'.stale = visit.stale
    BY <1>3, <2>1, <2>4 DEF VisitAt, VisitRow
  <2>11. task.stop = "stopped" => worker[a] \in Left
    BY <1>1 DEF IInv, Rest, Stopping
  <2>12. task.stop \in {"none", "not_sent"} => used.closes[a] = 0
    BY <1>1 DEF IInv, Rest, ClosedOnce
  <2>13. QED
    BY <1>1, <2>2, <2>4, <2>8, <2>9, <2>10, <2>11, <2>12, StopMoves
<1>4. QED
  BY <1>1, <1>2, <1>3 DEF Stops

LEMMA LooksCounted ==
    ASSUME NEW seen, Looks(seen)
    PROVE  (Smooth \/ Disturbed) /\ (seen # "unknown" => seen = Observed(visit.of))
  BY DEF Looks

LEMMA ObservedPane ==
    ASSUME NEW a, job[a].pane \in BOOLEAN, Observed(a) # "unknown"
    PROVE  job[a].pane
  BY DEF Observed

LEMMA VisitObservesKeeps ==
    ASSUME IInv, VisitObserves \/ VisitObservesAgain
    PROVE  IInv' /\ Decided
<1>1. PICK seen \in {"unknown", "working", "waiting", "inactive", "stopped"} :
         /\ Looks(seen) /\ visit.at \in {"observe", "again"} /\ UNCHANGED <<worker, file, op, steer>>
         /\ \/ Reconnects
            \/ \E reason \in {"capacity_wait", "human_input", "observation_unknown"} : VisitWaits(reason)
            \/ VisitEnds /\ UNCHANGED <<task, job>>
            \/ VisitAt("again") /\ UNCHANGED <<task, job>>
            \/ Stops(seen) /\ seen # "unknown"
  <2>1. CASE VisitObserves
    BY <2>1 DEF VisitObserves
  <2>2. CASE VisitObservesAgain
    BY <2>2 DEF VisitObservesAgain
  <2>3. QED
    BY <2>1, <2>2
<1>2. Smooth \/ Disturbed
  BY <1>1, LooksCounted
<1>3. CASE Reconnects
  BY <1>1, <1>2, <1>3, ReconnectsKeeps
<1>4. CASE \E reason \in {"capacity_wait", "human_input", "observation_unknown"} : VisitWaits(reason)
  BY <1>1, <1>2, <1>4, RoundWaits, Words
<1>5. CASE VisitEnds /\ UNCHANGED <<task, job>>
  BY <1>1, <1>2, <1>5, RoundEnds
<1>6. CASE VisitAt("again") /\ UNCHANGED <<task, job>>
  <2>1. /\ visit' \in VisitRow /\ visit'.at = "again" /\ visit'.of = visit.of /\ visit'.desired = visit.desired
        /\ visit'.stale = visit.stale /\ visit'.stop = visit.stop
    BY <1>6, Here DEF VisitAt, VisitRow
  <2>2. VisitGoesOn
    BY <1>1, <1>6, <2>1 DEF VisitGoesOn, IInv, Rest, Visited
  <2>3. JobsGoOn /\ WorkersGoOn
    BY <1>1, <1>6, JobsStay, WorkersStay
  <2>4. QED
    BY <1>1, <1>2, <1>6, <2>1, <2>2, <2>3, Here, Counted, SteerStays, Onward DEF TaskGoesOn
<1>7. CASE Stops(seen) /\ seen # "unknown"
  <2>1. visit.of \in Attempt /\ job[visit.of] \in JobRow
    BY Here DEF VisitRow
  <2>2. job[visit.of].pane \in BOOLEAN /\ Observed(visit.of) # "unknown"
    BY <1>1, <1>7, <2>1, LooksCounted DEF JobRow
  <2>3. job[visit.of].pane
    BY <2>2, ObservedPane
  <2>4. QED
    BY <1>1, <1>2, <1>7, <2>3, StopsKeeps
<1>8. QED
  BY <1>1, <1>3, <1>4, <1>5, <1>6, <1>7

LEMMA VisitClosesKeeps ==
    ASSUME IInv, VisitCloses
    PROVE  IInv' /\ Decided
<1>1. PICK a \in Attempt : a = Current /\ a = visit.of
  BY Here DEF VisitCloses, IInv, Rest, Visited
<1>2. /\ task.stop = "attempting" /\ used.closes[a] = 0 /\ used \in UsedRow /\ visit \in VisitRow
      /\ UNCHANGED <<task, job, file, op, steer>> /\ steer.at # "sent" /\ visit.at = "close"
      /\ job \in [Attempt -> JobRow] /\ \A b \in Attempt : b \in Nat
  BY <1>1, Here DEF VisitCloses, IInv, Rest, ClosedOnce, Visited
<1>3. PICK d \in 0..Disturbances :
         used' = [used EXCEPT !.closes[a] = @ + 1, !.disturbed = d]
  <2>1. used.disturbed \in 0..Disturbances /\ (used.disturbed < Disturbances => used.disturbed + 1 \in 0..Disturbances)
    BY <1>2 DEF UsedRow
  <2>2. CASE used' = [used EXCEPT !.closes[visit.of] = @ + 1]
    <3>1. used' = [used EXCEPT !.closes[a] = @ + 1, !.disturbed = used.disturbed]
      BY <1>1, <1>2, <2>2 DEF UsedRow
    <3>2. QED
      BY <2>1, <3>1
  <2>3. CASE used' = [used EXCEPT !.closes[visit.of] = @ + 1, !.disturbed = @ + 1] /\ used.disturbed < Disturbances
    BY <1>1, <2>1, <2>3
  <2>4. QED
    BY <2>2, <2>3 DEF VisitCloses
<1>4. /\ used' \in UsedRow /\ used'.closes[a] = 1 /\ \A b \in Attempt : b # a => used'.closes[b] = used.closes[b]
  <2> DEFINE c == [used.closes EXCEPT ![a] = @ + 1]
  <2>1. used.closes \in [Attempt -> Nat] /\ used.closes[a] = 0
    BY <1>2 DEF UsedRow
  <2>2. c \in [Attempt -> Nat] /\ c[a] = 1 /\ \A b \in Attempt : b # a => c[b] = used.closes[b]
    BY <2>1
  <2>3. used' = [used EXCEPT !.closes = c, !.disturbed = d]
    BY <1>3
  <2> HIDE DEF c
  <2>4. used' \in UsedRow /\ used'.closes = c
    BY <1>2, <2>2, <2>3 DEF UsedRow
  <2>5. QED
    BY <2>2, <2>4
<1>5. /\ worker' \in [Attempt -> WorkerState] /\ \A b \in Attempt : b # a => worker'[b] = worker[b]
  BY <1>1, Here DEF VisitCloses, WorkerState
<1>6. /\ visit' \in VisitRow /\ visit'.at = "probe" /\ visit'.of = visit.of /\ visit'.desired = visit.desired
      /\ visit'.stale = visit.stale /\ visit'.stop = visit.stop
  BY <1>2 DEF VisitCloses, VisitAt, VisitRow
<1>7. TypeOK'
  BY <1>2, <1>4, <1>5, <1>6, Here
  DEF TypeOK, TaskRow, JobRow, WorkerState, OpState, VisitRow, SteerRow, UsedRow, StopState, Wish
<1>8. Later'
  <2> SUFFICES ASSUME NEW b \in Attempt, b > task.no
               PROVE  job[b] = NoJob /\ worker'[b] = "none" /\ file[b] = "none" /\ op[b] = "none" /\ used'.closes[b] = 0
    BY <1>2 DEF Later
  <2>1. b # a
    BY <1>1, <1>2
  <2>2. QED
    BY <2>1, <1>4, <1>5 DEF IInv, Rest, Later
<1>9. Earlier'
  <2> SUFFICES ASSUME NEW b \in Attempt, b < task.no
               PROVE  job[b].status \in Resting /\ worker'[b] \in Left /\ ~(steer.at = "sent" /\ steer.of = b)
    BY <1>2 DEF Earlier
  <2>1. b # a
    BY <1>1, <1>2
  <2>2. QED
    BY <2>1, <1>5 DEF IInv, Rest, Earlier
<1>10. Stopping' /\ Steered'
  BY <1>1, <1>2, <1>5 DEF IInv, Rest, Stopping, Steered
<1>11. Visited'
  BY <1>2, <1>6 DEF IInv, Rest, Visited
<1>12. ClosedOnce'
  BY <1>1, <1>2, <1>4, <1>6 DEF IInv, Rest, ClosedOnce
<1>13. Evidence'
  BY <1>2 DEF IInv, Rest, Evidence
<1>14. (task.no <= task.max)'
  BY <1>2 DEF IInv
<1>15. Decided
  BY <1>2, Here DEF Decided, Replaced, Dispatched
<1>16. QED
  BY <1>7, <1>8, <1>9, <1>10, <1>11, <1>12, <1>13, <1>14, <1>15 DEF IInv, Rest

LEMMA VisitProbesKeeps ==
    ASSUME IInv, VisitProbes
    PROVE  IInv' /\ Decided
<1>1. PICK a \in Attempt : a = Current /\ a = visit.of
  BY Here DEF VisitProbes, IInv, Rest, Visited
<1>2. visit.at = "probe" /\ UNCHANGED <<worker, file, op, steer>>
  BY DEF VisitProbes
<1>3. CASE \E reason \in {"worker_stop_pending", "external_effect_unknown"} :
             VisitWaits(reason) /\ (Smooth \/ Disturbed)
  BY <1>2, <1>3, RoundWaits, Words
<1>4. CASE /\ worker[a] = "gone" /\ Smooth /\ UNCHANGED job
           /\ task.stop \in {"not_sent", "attempting"}
           /\ task' = [task EXCEPT !.stop = "stopped"] /\ VisitAt("replace")
  <2>1. /\ task' \in TaskRow /\ task'.max = task.max /\ task'.no = task.no /\ task'.desired = task.desired
        /\ task'.stop = "stopped"
    BY <1>4, Here DEF TaskRow, StopState
  <2>2. /\ visit' \in VisitRow /\ visit'.at = "replace" /\ visit'.of = visit.of /\ visit'.desired = visit.desired
        /\ visit'.stale = visit.stale
    BY <1>4, Here DEF VisitAt, VisitRow
  <2>3. /\ job[a] \in JobRow /\ job' = [job EXCEPT ![a] = job[a]] /\ worker[a] \in Left
    BY <1>4, Here DEF Left
  <2>4. job[a].pane /\ job[a].status \in Resting
    BY <1>1, <1>4 DEF IInv, Rest, Stopping
  <2>5. QED
    BY <1>1, <1>2, <1>4, <2>1, <2>2, <2>3, <2>4, StopMoves
<1>5. QED
  BY <1>1, <1>3, <1>4 DEF VisitProbes, Retired, VisitWaits

LEMMA VisitingKeeps ==
    ASSUME IInv, Visiting \/ VisitReplaces
    PROVE  IInv' /\ Decided
<1>1. CASE VisitReplaces
  <2>1. task.desired = "running" => ~Asking \/ visit.stale
    BY <1>1 DEF VisitReplaces, IInv, Rest, Visited, Asks, Asking
  <2>2. QED
    BY <1>1, <2>1, ReplacesKeeps DEF VisitReplaces
<1>2. CASE Visiting
  BY <1>2, VisitBeginsKeeps, VisitReadsKeeps, VisitObservesKeeps, VisitClosesKeeps, VisitProbesKeeps DEF Visiting
<1>3. QED
  BY <1>1, <1>2

-----------------------------------------------------------------------------
(***************************************************************************)
(* The invariant                                                           *)
(***************************************************************************)

LEMMA InitHolds == Init => IInv
<1> SUFFICES ASSUME Init PROVE IInv
  OBVIOUS
<1>1. 1 \in Attempt /\ \A a \in Attempt : a \in Nat
  OBVIOUS
<1>2. PICK max \in Attempt :
        task = [no |-> 1, max |-> max, state |-> "active", desired |-> "running",
                reason |-> "none", stop |-> "none", fails |-> 0, steer |-> FALSE]
  BY DEF Init
<1>3. /\ job = [a \in Attempt |-> IF a = 1 THEN Queued ELSE NoJob] /\ worker = [a \in Attempt |-> "none"]
      /\ file = [a \in Attempt |-> "none"] /\ op = [a \in Attempt |-> "none"]
      /\ visit = NoVisit /\ steer = NoSteer
      /\ used = [disturbed |-> 0, closes |-> [a \in Attempt |-> 0]]
  BY DEF Init
<1>4. TypeOK
  <2>1. task \in TaskRow
    BY <1>1, <1>2, Words DEF TaskRow, Wish, StopState
  <2>2. job \in [Attempt -> JobRow] /\ visit \in VisitRow /\ steer \in SteerRow
    BY <1>1, <1>3, NoJobRow, NoVisitRow
  <2>3. used \in UsedRow
    BY <1>3 DEF UsedRow
  <2>4. worker \in [Attempt -> WorkerState] /\ op \in [Attempt -> OpState]
        /\ file \in [Attempt -> {"none", "valid", "invalid"}]
    BY <1>3 DEF WorkerState, OpState
  <2>5. QED
    BY <2>1, <2>2, <2>3, <2>4, Typed
<1>5. /\ Queued.status = "queued" /\ ~Queued.sent /\ Queued.asks = "none" /\ Queued.answer = "unread"
      /\ NoJob.status = "none" /\ ~NoJob.sent /\ NoJob.asks = "none" /\ NoJob.answer = "unread"
      /\ NoVisit.at = "none" /\ NoSteer.at = "none"
  BY DEF Queued, NoJob, NoVisit, NoSteer
<1>6. Later /\ Earlier
  BY <1>1, <1>2, <1>3 DEF Later, Earlier
<1>7. Stopping /\ Visited /\ Steered /\ ClosedOnce
  BY <1>1, <1>2, <1>3, <1>5 DEF Stopping, Visited, Steered, ClosedOnce
<1>8. Evidence
  BY <1>3, <1>5 DEF Evidence
<1>9. QED
  BY <1>1, <1>2, <1>4, <1>6, <1>7, <1>8 DEF IInv, Rest

LEMMA Inductive == IInv /\ [Next]_vars => IInv' /\ Decided
<1> SUFFICES ASSUME IInv, [Next]_vars PROVE IInv' /\ Decided
  OBVIOUS
<1>1. CASE UNCHANGED vars
  <2>1. JobsGoOn /\ WorkersGoOn /\ VisitGoesOn
    BY <1>1, JobsStay, WorkersStay, VisitStays DEF vars
  <2>2. QED
    BY <1>1, <2>1, Here, SteerStays, Onward DEF vars, TaskGoesOn
<1>2. CASE Next
  BY <1>2, WorkersKeep, StartingKeeps, PromoteKeeps, ControlKeeps, RetryKeeps, SteerPreparesKeeps, SteerBeginsKeeps,
     SteerReadKeeps, SteerAnsweredKeeps, CrashKeeps, VisitingKeeps DEF Next, Owner, Steering
<1>3. QED
  BY <1>1, <1>2

LEMMA Invariant == Spec => []IInv
<1>1. IInv /\ [Next]_vars => IInv'
  BY Inductive
<1>2. QED
  BY <1>1, InitHolds, PTL DEF Spec

-----------------------------------------------------------------------------
(***************************************************************************)
(* What is proved of a task                                                *)
(***************************************************************************)

\* Every row keeps its shape: what saveJobResult, finishSteer, claimStop, replaceStopped and
\* the recovery at start write is what the tables' columns admit, and the number of
\* the current attempt stays within the budget that retry raises.
THEOREM TypeCorrect == Spec => []TypeOK
<1>1. IInv => TypeOK
  BY DEF IInv
<1>2. QED
  BY <1>1, Invariant, PTL

\* At most one attempt has a worker with a prompt, whatever was lost or repeated; a pane is closed
\* at most once; a cancelled attempt had written no result.  The worker of an earlier
\* attempt was seen gone before its successor was added (replaceStopped), and
\* nothing is started or resumed from the claim of a stop on.
THEOREM OneWorker == Spec => []WorkersAccounted
<1>1. IInv => WorkersAccounted
  <2> SUFFICES ASSUME IInv PROVE WorkersAccounted
    OBVIOUS
  <2> DEFINE live == {a \in Attempt : worker[a] \in {"idle", "working", "waiting", "leaving"}}
  <2>1. live \subseteq {Current}
    <3> SUFFICES ASSUME NEW a \in live PROVE a = Current
      OBVIOUS
    <3>1. ~(a > Current) /\ ~(a < Current)
      BY DEF IInv, Rest, Later, Earlier, Left
    <3>2. QED
      BY <3>1, Here
  <2>2. IsFiniteSet({Current}) /\ Cardinality({Current}) = 1
    BY FS_Singleton
  <2>3. Cardinality(live) \in Nat /\ Cardinality(live) <= 1
    <3> HIDE DEF live
    <3>1. IsFiniteSet(live) /\ Cardinality(live) <= Cardinality({Current})
      BY <2>1, <2>2, FS_Subset
    <3>2. Cardinality(live) \in Nat
      BY <3>1, FS_CardinalityType
    <3>3. QED
      BY <2>2, <3>1, <3>2
  <2>4. \A a \in Attempt : used.closes[a] <= 1 /\ (job[a].status = "cancelled" => file[a] = "none")
    BY DEF IInv, Rest, ClosedOnce, Evidence
  <2>5. QED
    BY <2>3, <2>4 DEF WorkersAccounted
<1>2. QED
  BY <1>1, Invariant, PTL

\* Nothing is done against the owner's latest wish: a prompt is sent, and an attempt is added,
\* only while the task is to run, and no question to a person is got round.  The
\* round asks the checkpoint before it goes on (VisitReads), what it has read of
\* the wish holds until the revision moves, and the agent asks for nothing
\* more once its pane is gone.
THEOREM OwnerHasTheLastWord == Spec => OwnerDecides
<1>1. IInv /\ [Next]_vars => [Decided]_vars
  BY Inductive
<1>2. QED
  BY <1>1, Invariant, PTL DEF Spec, OwnerDecides, Decided
=============================================================================
