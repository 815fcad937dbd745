-------------------------- MODULE EventQueueProofs --------------------------
(***************************************************************************)
(* Proofs about the event queue, for any set of events, any attempt limit  *)
(* and any number of operator retries, crashes and shutdowns.              *)
(***************************************************************************)
EXTENDS EventQueue, TLAPS

(***************************************************************************)
(* The inductive invariant                                                 *)
(***************************************************************************)

\* An event has a row exactly when it has a sequence, and sequences grow.
Rows == \A e \in Event :
    /\ status[e] = "none" <=> sequence[e] = 0
    /\ sequence[e] < nextSequence

\* The worker holds a row unless it is in the loop, and only while it runs.
\* Before the prompt nothing is engaged; after it, nothing but the row it holds.
Holds ==
    /\ pc = "idle" <=> cur = NoEvent
    /\ mode = "down" => pc = "idle"
    /\ pc \in {"preflight", "access"} =>
         rowStatus \in Dispatchable /\ \A x \in Event : status[x] \notin Engaged
    /\ pc \in {"prompt", "read", "wait", "final"} =>
         \A x \in Event : status[x] \in Engaged => x = cur

\* A queued event has an attempt and a hand-over left.
Budget == \A e \in Event :
    /\ heard[e] <= sent[e]
    /\ sent[e] <= 1 + retried[e]
    /\ status[e] \in Dispatchable \cup {"none"} =>
         attempts[e] < MaxAttempts /\ sent[e] <= retried[e]

IInv == TypeOK /\ Rows /\ Holds /\ Budget /\ SingleFlight /\ DispatchingIsHeld

USE EventAssumption, LimitAssumption, RepliesAssumption
    DEF Engaged, AgentOwned, Dispatchable, Closed, Status, Results, Reports, ErrorCode, RunState

-----------------------------------------------------------------------------
(***************************************************************************)
(* Shapes of the database writes                                           *)
(***************************************************************************)

GroupState == {"none", "open", "sealed"}

\* What every write of the worker looks like: one row gets a new status.
RowStep(e, to) ==
    /\ status' = [status EXCEPT ![e] = to]
    /\ UNCHANGED <<nextSequence, sequence>>
    /\ attempts' \in [Event -> 0..MaxAttempts]
    /\ \A x \in Event : x # e => attempts'[x] = attempts[x]
    /\ due' \in [Event -> BOOLEAN]
    /\ error' \in [Event -> ErrorCode]
    /\ group' \in [Event -> GroupState]
    /\ run' \in [Event -> RunState]
    /\ access' \in [Event -> {"none", "checked", "consumed"}]

LEMMA HoldsAnEvent ==
    ASSUME TypeOK, Holds, pc # "idle"
    PROVE  cur \in Event
  BY DEF TypeOK, Holds

LEMMA SealType ==
    ASSUME NEW e \in Event, group \in [Event -> GroupState], SealGroup(e)
    PROVE  group' \in [Event -> GroupState]
  BY SMT DEF SealGroup, Sealed, GroupState

LEMMA TransitionType ==
    ASSUME NEW e \in Event, NEW to, group \in [Event -> GroupState], Transition(e, to)
    PROVE  group' \in [Event -> GroupState]
  BY SealType DEF Transition

LEMMA SettleType ==
    ASSUME NEW e \in Event, NEW o \in RunState, run \in [Event -> RunState],
           SettleUndelegated(e, o)
    PROVE  run' \in [Event -> RunState]
  BY SMT DEF SettleUndelegated, RunState

\* An attempt that failed before the prompt leaves the row with an attempt to
\* spare or as a dead letter.
LEMMA FailureShape ==
    ASSUME NEW e \in Event, TypeOK, Budget, RecordPreDispatchFailure(e)
    PROVE  \E to \in {"dead_letter", "retryable_failed"} :
             /\ RowStep(e, to)
             /\ to = "retryable_failed" => attempts'[e] < MaxAttempts
<1>1. /\ status[e] \in Dispatchable
      /\ attempts' = [attempts EXCEPT ![e] = @ + 1]
      /\ attempts[e] \in Nat /\ attempts[e] < MaxAttempts /\ MaxAttempts \in Nat
      /\ attempts \in [Event -> 0..MaxAttempts]
  BY DEF TypeOK, Budget, RecordPreDispatchFailure
<1>2. attempts' \in [Event -> 0..MaxAttempts] /\ attempts'[e] = attempts[e] + 1
  BY <1>1
<1>3. error' \in [Event -> ErrorCode] /\ UNCHANGED <<nextSequence, sequence, access>>
  BY DEF TypeOK, RecordPreDispatchFailure
<1>4. CASE LastAttempt(attempts[e] + 1)
  <2>1. group' \in [Event -> GroupState] /\ run' \in [Event -> RunState]
    BY <1>4, SealType, SettleType DEF TypeOK, RecordPreDispatchFailure, GroupState, RunState
  <2>2. due' \in [Event -> BOOLEAN]
    BY <1>4 DEF RecordPreDispatchFailure, TypeOK
  <2>3. status' = [status EXCEPT ![e] = "dead_letter"]
    BY <1>4 DEF RecordPreDispatchFailure
  <2>4. RowStep(e, "dead_letter")
    BY <1>1, <1>2, <1>3, <2>1, <2>2, <2>3 DEF RowStep, TypeOK
  <2>5. QED
    BY <2>4
<1>5. CASE ~LastAttempt(attempts[e] + 1)
  <2>1. group' \in [Event -> GroupState] /\ run' \in [Event -> RunState]
    BY <1>5 DEF TypeOK, RecordPreDispatchFailure, GroupState, RunState
  <2>2. due' \in [Event -> BOOLEAN]
    BY <1>5 DEF RecordPreDispatchFailure, TypeOK, LastAttempt
  <2>3. status' = [status EXCEPT ![e] = "retryable_failed"]
    BY <1>5 DEF RecordPreDispatchFailure
  <2>4. RowStep(e, "retryable_failed")
    BY <1>1, <1>2, <1>3, <2>1, <2>2, <2>3 DEF RowStep, TypeOK
  <2>5. attempts'[e] < MaxAttempts
    BY <1>1, <1>2, <1>5 DEF LastAttempt
  <2>6. QED
    BY <2>4, <2>5
<1>6. QED
  BY <1>4, <1>5

LEMMA NeedsReviewShape ==
    ASSUME NEW e \in Event, TypeOK, MarkNeedsReview(e)
    PROVE  RowStep(e, "needs_review") /\ status[e] \in AgentOwned
<1>1. group' \in [Event -> GroupState] /\ run' \in [Event -> RunState]
  BY TransitionType, SettleType DEF TypeOK, MarkNeedsReview, GroupState, RunState
<1>2. QED
  BY <1>1 DEF TypeOK, MarkNeedsReview, Transition, RowStep

LEMMA BlockedShape ==
    ASSUME NEW e \in Event, TypeOK, MarkBlocked(e)
    PROVE  /\ \E to \in {"blocked", "needs_review"} : RowStep(e, to)
           /\ status[e] # "none"
<1>1. group' \in [Event -> GroupState] /\ run' \in [Event -> RunState]
  BY TransitionType, SettleType DEF TypeOK, MarkBlocked, GroupState, RunState
<1>2. PICK to \in {"blocked", "needs_review"} : Transition(e, to)
  BY DEF MarkBlocked
<1>3. RowStep(e, to)
  BY <1>1, <1>2 DEF TypeOK, MarkBlocked, Transition, RowStep
<1>4. QED
  BY <1>3 DEF MarkBlocked

\* A report ends the turn.
LEMMA ReportShape ==
    ASSUME IInv, ReadReport
    PROVE  \E to \in {"completed", "needs_review", "dead_letter"} : RowStep(cur, to)
<1>1. cur \in Event
  BY HoldsAnEvent DEF IInv, ReadReport, Reading
<1>2. PICK v \in [to : {"completed", "needs_review", "dead_letter"},
                  run : {"materialized", "needs_review", "failed"}] :
        /\ Transition(cur, v.to)
        /\ SettleUndelegated(cur, v.run)
  <2>1. Verdict(cur, file[cur]) \in [to : {"completed", "needs_review", "dead_letter"},
                                     run : {"materialized", "needs_review", "failed"}]
    BY DEF Verdict
  <2>2. QED
    BY <2>1 DEF ReadReport
<1>3. group' \in [Event -> GroupState] /\ run' \in [Event -> RunState]
  BY <1>1, <1>2, TransitionType, SettleType DEF IInv, TypeOK, GroupState, RunState
<1>4. error' \in [Event -> ErrorCode]
  BY <1>1 DEF IInv, TypeOK, ReadReport
<1>5. RowStep(cur, v.to)
  BY <1>1, <1>2, <1>3, <1>4 DEF IInv, TypeOK, ReadReport, Transition, RowStep
<1>6. QED
  BY <1>5
-----------------------------------------------------------------------------
(***************************************************************************)
(* Every step preserves the invariant                                      *)
(***************************************************************************)

\* The worker gives a row up: it is closed, or it failed before its prompt.
LEMMA Released ==
    ASSUME IInv, pc # "idle", NEW to \in Closed \cup {"retryable_failed"},
           RowStep(cur, to), Return, WorkerStep,
           status[cur] # "none",
           to = "retryable_failed" =>
             status[cur] \in Dispatchable /\ attempts'[cur] < MaxAttempts
    PROVE  IInv'
<1>1. cur \in Event
  BY HoldsAnEvent DEF IInv
<1>2. TypeOK'
  BY <1>1 DEF IInv, TypeOK, RowStep, Return, WorkerStep, agentVars, GroupState, RunState
<1>3. Rows' /\ Holds'
  BY <1>1 DEF IInv, TypeOK, Rows, Holds, RowStep, Return, WorkerStep
<1>4. Budget'
  BY <1>1 DEF IInv, TypeOK, Budget, RowStep, WorkerStep, agentVars
<1>5. \A x \in Event : x # cur => status[x] \notin AgentOwned /\ (status'[cur] = "blocked" => status[x] # "blocked")
  BY <1>1 DEF IInv, TypeOK, Holds
<1>6. SingleFlight' /\ DispatchingIsHeld'
  BY <1>1, <1>5 DEF IInv, TypeOK, SingleFlight, DispatchingIsHeld, Holds, RowStep
<1>7. QED
  BY <1>2, <1>3, <1>4, <1>6 DEF IInv

\* The worker moves on or lets go and no row changes.
LEMMA RowsKept ==
    ASSUME IInv, NoRowChange, WorkerStep, pc # "idle",
           Return \/ (pc' \in {"access", "wait", "final"} /\ UNCHANGED <<cur, rowStatus, rowGone>>),
           pc' = "access" => pc = "preflight",
           pc' \in {"wait", "final"} => pc \in {"read", "wait"},
           pc = "prompt" => status[cur] \notin AgentOwned
    PROVE  IInv'
  BY DEF IInv, TypeOK, Rows, Holds, Budget, SingleFlight, DispatchingIsHeld, Return,
         NoRowChange, WorkerStep, rowVars, ownedVars, agentVars

LEMMA DispatchPreserves ==
    ASSUME IInv, DispatchSteps
    PROVE  IInv'
<1>1. CASE PreflightDropped
  BY <1>1, RowsKept DEF PreflightDropped, Return
<1>2. CASE PreflightFailed \/ AccessFailed
  <2>1. pc # "idle" /\ RecordPreDispatchFailure(cur) /\ Return /\ WorkerStep
    BY <1>2 DEF PreflightFailed, AccessFailed
  <2>2. cur \in Event
    BY <2>1, HoldsAnEvent DEF IInv
  <2>3. status[cur] \in Dispatchable
    BY <2>1 DEF RecordPreDispatchFailure
  <2>4. PICK to \in {"dead_letter", "retryable_failed"} :
          RowStep(cur, to) /\ (to = "retryable_failed" => attempts'[cur] < MaxAttempts)
    BY <2>1, <2>2, FailureShape DEF IInv
  <2>5. QED
    BY <2>1, <2>3, <2>4, Released
<1>3. CASE PreflightBlocked \/ PromptBlocked
  <2>1. pc # "idle" /\ MarkBlocked(cur) /\ Return /\ WorkerStep
    BY <1>3 DEF PreflightBlocked, PromptBlocked
  <2>2. cur \in Event
    BY <2>1, HoldsAnEvent DEF IInv
  <2>3. QED
    BY <2>1, <2>2, BlockedShape, Released DEF IInv
<1>4. CASE PreflightReady
  BY <1>4, RowsKept DEF PreflightReady
<1>5. CASE AccessDropped
  BY <1>5, RowsKept DEF AccessDropped, Return
<1>6. CASE AccessFound
  <2>1. cur \in Event
    BY <1>6, HoldsAnEvent DEF IInv, AccessFound
  <2>2. group' \in [Event -> GroupState] /\ run' \in [Event -> RunState]
    BY <1>6, <2>1, SealType, SettleType DEF IInv, TypeOK, AccessFound, GroupState, RunState
  <2>3. attempts' \in [Event -> 0..MaxAttempts]
    BY <1>6, <2>1 DEF IInv, TypeOK, Budget, AccessFound
  <2>4. RowStep(cur, "needs_review")
    BY <1>6, <2>1, <2>2, <2>3 DEF IInv, TypeOK, AccessFound, RowStep
  <2>5. QED
    BY <1>6, <2>4, Released DEF AccessFound
<1>7. CASE BeginDispatch
  BY <1>7 DEF IInv, TypeOK, Rows, Holds, Budget, SingleFlight, DispatchingIsHeld,
              BeginDispatch, ownedVars, Fresh
<1>8. CASE PromptDropped
  BY <1>8, RowsKept DEF PromptDropped, Held, Return
<1>9. CASE PromptUnknown
  <2>1. cur \in Event
    BY <1>9, HoldsAnEvent DEF IInv, PromptUnknown
  <2>2. QED
    BY <1>9, <2>1, NeedsReviewShape, Released DEF IInv, PromptUnknown
<1>10. CASE PromptRefused
  <2>1. cur \in Event /\ status[cur] = "dispatching" /\ heard[cur] < sent[cur]
    BY <1>10, HoldsAnEvent DEF IInv, PromptRefused, HerdrFindsNoAgent, RecordSafePromptFailure, ProvablyUnsent
  <2>2. PICK to \in {"dead_letter", "retryable_failed"} :
          /\ status' = [status EXCEPT ![cur] = to]
          /\ to = "retryable_failed" => ~LastAttempt(attempts[cur])
    BY <1>10 DEF PromptRefused, RecordSafePromptFailure
  <2>3. /\ group' \in [Event -> GroupState] /\ run' \in [Event -> RunState]
        /\ due' \in [Event -> BOOLEAN]
    <3>1. group' \in [Event -> GroupState]
      BY <1>10, <2>1, SealType DEF IInv, TypeOK, PromptRefused, RecordSafePromptFailure, GroupState
    <3>2. run' \in [Event -> RunState]
      BY <1>10, <2>1, SettleType DEF IInv, TypeOK, PromptRefused, RecordSafePromptFailure, RunState
    <3>3. due' \in [Event -> BOOLEAN]
      BY <1>10, <2>1 DEF IInv, TypeOK, PromptRefused, RecordSafePromptFailure, LastAttempt
    <3>4. QED
      BY <3>1, <3>2, <3>3
  <2>4. TypeOK'
    <3>1. sent' \in [Event -> Nat]
      BY <1>10, <2>1 DEF IInv, TypeOK, PromptRefused
    <3>2. status' \in [Event -> Status] /\ error' \in [Event -> ErrorCode]
      BY <1>10, <2>1, <2>2 DEF IInv, TypeOK, PromptRefused, RecordSafePromptFailure
    <3>3. QED
      BY <1>10, <2>3, <3>1, <3>2 DEF IInv, TypeOK, PromptRefused, RecordSafePromptFailure,
                                     Return, GroupState, RunState
  <2>5. Rows' /\ Holds' /\ SingleFlight' /\ DispatchingIsHeld'
    BY <1>10, <2>1, <2>2 DEF IInv, TypeOK, Rows, Holds, SingleFlight, DispatchingIsHeld,
                             PromptRefused, RecordSafePromptFailure, Return
  <2>6. Budget'
    BY <1>10, <2>1, <2>2 DEF IInv, TypeOK, Budget, PromptRefused, RecordSafePromptFailure, LastAttempt
  <2>7. QED
    BY <2>4, <2>5, <2>6 DEF IInv
<1>11. CASE PromptAccepted
  <2>1. cur \in Event
    BY <1>11, HoldsAnEvent DEF IInv, PromptAccepted
  <2>2. TypeOK'
    <3>1. heard' \in [Event -> Nat] /\ error' \in [Event -> ErrorCode]
      BY <1>11, <2>1 DEF IInv, TypeOK, PromptAccepted
    <3>2. QED
      BY <1>11, <2>1, <3>1 DEF IInv, TypeOK, PromptAccepted, ownedVars
  <2>3. Rows' /\ Holds' /\ Budget' /\ SingleFlight' /\ DispatchingIsHeld'
    BY <1>11, <2>1 DEF IInv, TypeOK, Rows, Holds, Budget, SingleFlight, DispatchingIsHeld,
                       PromptAccepted, ownedVars, Held
  <2>4. QED
    BY <2>2, <2>3 DEF IInv
<1>12. QED
  BY <1>1, <1>2, <1>3, <1>4, <1>5, <1>6, <1>7, <1>8, <1>9, <1>10, <1>11 DEF DispatchSteps

LEMMA ResumePreserves ==
    ASSUME IInv, ResumeSteps
    PROVE  IInv'
<1>0. pc # "idle" /\ cur \in Event
  BY HoldsAnEvent DEF IInv, ResumeSteps, ReadMissing, ReadUnusable, ReadReport, ReadSuppressed,
       ReadOvertaken, WaitDropped, WaitGone, WaitGoneTooLong, WaitFailed, WaitBlocked, WaitIdle, Reading, Waiting
<1>1. CASE ReadMissing
  BY <1>1, RowsKept DEF ReadMissing
<1>2. CASE ReadUnusable \/ WaitGoneTooLong
  <2>1. MarkNeedsReview(cur) /\ Return /\ WorkerStep
    BY <1>2 DEF ReadUnusable, WaitGoneTooLong
  <2>2. QED
    BY <1>0, <2>1, NeedsReviewShape, Released DEF IInv
<1>3. CASE ReadReport
  BY <1>0, <1>3, ReportShape, Released DEF ReadReport
<1>4. CASE ReadOvertaken
  BY <1>4 DEF IInv, TypeOK, Rows, Holds, Budget, SingleFlight, DispatchingIsHeld, ReadOvertaken,
              Return, NoRowChange, rowVars, ownedVars, agentVars
<1>5. CASE WaitDropped \/ ReadSuppressed
  BY <1>0, <1>5, RowsKept DEF WaitDropped, ReadSuppressed, Reading, Return
<1>6. CASE WaitGone \/ WaitFailed
  <2>1. /\ pc = "wait" /\ Return /\ WorkerStep
        /\ UNCHANGED <<nextSequence, sequence, status, attempts, due, ownedVars>>
        /\ error' \in [Event -> ErrorCode]
    BY <1>6 DEF IInv, TypeOK, WaitGone, WaitFailed, Waiting, RecordWaitingError, NoRowChange, rowVars
  <2>2. QED
    BY <2>1 DEF IInv, TypeOK, Rows, Holds, Budget, SingleFlight, DispatchingIsHeld, Return,
                WorkerStep, ownedVars, agentVars
<1>7. CASE WaitBlocked
  BY <1>0, <1>7, BlockedShape, Released DEF IInv, WaitBlocked
<1>8. CASE WaitIdle
  BY <1>0, <1>8, RowsKept DEF WaitIdle, Waiting
<1>9. QED
  BY <1>1, <1>2, <1>3, <1>4, <1>5, <1>6, <1>7, <1>8 DEF ResumeSteps

LEMMA PickPreserves ==
    ASSUME IInv, NEW e \in Event, PickWaiting(e) \/ PickQueued(e)
    PROVE  IInv'
<1>1. CASE PickWaiting(e)
  BY <1>1 DEF IInv, TypeOK, Rows, Holds, Budget, SingleFlight, DispatchingIsHeld, PickWaiting,
              nextWaiting, First, NoRowChange, WorkerStep, rowVars, ownedVars, agentVars
<1>2. CASE PickQueued(e)
  <2>1. \A x \in Event : status[x] \notin Engaged
    BY <1>2 DEF IInv, TypeOK, DispatchingIsHeld, PickQueued, hasBlockedEvent
  <2>2. QED
    BY <1>2, <2>1 DEF IInv, TypeOK, Rows, Holds, Budget, SingleFlight, DispatchingIsHeld, PickQueued,
                      nextAvailable, First, NoRowChange, WorkerStep, rowVars, ownedVars, agentVars
<1>3. QED
  BY <1>1, <1>2

LEMMA ProcessPreserves ==
    ASSUME IInv, Process
    PROVE  IInv'
<1>1. CASE Start
  <2>1. TypeOK'
    BY <1>1 DEF IInv, TypeOK, Start, Recovered, Sealed, agentVars, workerVars
  <2>2. \A x \in Event : status'[x] = IF status[x] = "dispatching" THEN "needs_review" ELSE status[x]
    BY <1>1 DEF Start, Recovered
  <2>3. Rows' /\ Holds' /\ Budget' /\ SingleFlight' /\ DispatchingIsHeld'
    BY <1>1, <2>2 DEF IInv, TypeOK, Rows, Holds, Budget, SingleFlight, DispatchingIsHeld, Start,
                      agentVars, workerVars
  <2>4. QED
    BY <2>1, <2>3 DEF IInv
<1>2. CASE QuiesceAfterCurrent \/ Stop \/ Exit
  BY <1>2 DEF IInv, TypeOK, Rows, Holds, Budget, SingleFlight, DispatchingIsHeld,
              QuiesceAfterCurrent, Stop, Exit, NoRowChange, rowVars, ownedVars, agentVars, workerVars
<1>3. CASE Crash
  <2>1. TypeOK'
    <3>1. pc' = "idle" /\ cur' = NoEvent /\ rowStatus' = "none" /\ rowGone' = FALSE
      BY <1>3 DEF Crash, Return
    <3>2. mode' = "down" /\ outages' \in Nat /\ UNCHANGED <<rowVars, ownedVars, agentVars, retried>>
      BY <1>3 DEF IInv, TypeOK, Crash, NoRowChange
    <3>3. QED
      BY <3>1, <3>2 DEF IInv, TypeOK, rowVars, ownedVars, agentVars
  <2>2. Rows' /\ Holds' /\ Budget' /\ SingleFlight' /\ DispatchingIsHeld'
    BY <1>3 DEF IInv, Rows, Holds, Budget, SingleFlight, DispatchingIsHeld, Crash, Return,
                NoRowChange, rowVars, agentVars
  <2>3. QED
    BY <2>1, <2>2 DEF IInv
<1>4. QED
  BY <1>1, <1>2, <1>3 DEF Process

LEMMA QueuePreserves ==
    ASSUME IInv, NEW e \in Event, Enqueue(e) \/ BecomeDue(e) \/ SuppressSchedule(e)
    PROVE  IInv'
<1>1. CASE Enqueue(e)
  <2>1. TypeOK'
    BY <1>1 DEF IInv, TypeOK, Enqueue, agentVars, workerVars
  <2>2. Rows' /\ Holds' /\ Budget' /\ SingleFlight' /\ DispatchingIsHeld'
    BY <1>1 DEF IInv, TypeOK, Rows, Holds, Budget, SingleFlight, DispatchingIsHeld, Enqueue,
                agentVars, workerVars
  <2>3. QED
    BY <2>1, <2>2 DEF IInv
<1>2. CASE BecomeDue(e)
  BY <1>2 DEF IInv, TypeOK, Rows, Holds, Budget, SingleFlight, DispatchingIsHeld, BecomeDue,
              ownedVars, agentVars, workerVars
<1>3. CASE SuppressSchedule(e)
  <2>1. TypeOK'
    <3>1. status' \in [Event -> Status] /\ error' \in [Event -> ErrorCode]
      BY <1>3 DEF IInv, TypeOK, SuppressSchedule
    <3>2. QED
      BY <1>3, <3>1 DEF IInv, TypeOK, SuppressSchedule, agentVars, workerVars
  <2>2. status[e] # "none" => sequence[e] # 0
    BY DEF IInv, Rows
  <2>3. /\ status'[e] = status[e] \/ (status[e] # "none" /\ status'[e] = "completed")
        /\ \A x \in Event : x # e => status'[x] = status[x]
    BY <1>3 DEF IInv, TypeOK, SuppressSchedule
  <2>4. Rows' /\ Holds' /\ Budget' /\ SingleFlight' /\ DispatchingIsHeld'
    BY <1>3, <2>2, <2>3 DEF IInv, Rows, Holds, Budget, SingleFlight, DispatchingIsHeld,
                            SuppressSchedule, agentVars, workerVars
  <2>5. QED
    BY <2>1, <2>4 DEF IInv
<1>4. QED
  BY <1>1, <1>2, <1>3

LEMMA AgentPreserves ==
    ASSUME IInv, Agent
    PROVE  IInv'
<1>1. PICK e \in Event :
        \/ Hear(e) \/ \E r \in Replies : WriteResult(e, r)
        \/ RecordScheduleJobAccess(e) \/ CreateScheduledJob(e) \/ CreateScheduledJobUnauthorized(e)
        \/ CreateScheduledJobExpired(e) \/ RecordScheduledDelegationRejection(e) \/ CreateJob(e)
  BY DEF Agent
<1>2. CASE Hear(e)
  BY <1>2 DEF IInv, TypeOK, Rows, Holds, Budget, SingleFlight, DispatchingIsHeld, Hear, AgentStep,
              ownedVars, workerVars
<1>3. CASE \E r \in Replies : WriteResult(e, r)
  BY <1>3 DEF IInv, TypeOK, Rows, Holds, Budget, SingleFlight, DispatchingIsHeld, WriteResult,
              AgentStep, ownedVars, workerVars
<1>4. CASE RecordScheduleJobAccess(e)
  BY <1>4 DEF IInv, TypeOK, Rows, Holds, Budget, SingleFlight, DispatchingIsHeld,
              RecordScheduleJobAccess, AgentStep, agentVars, workerVars
<1>5. CASE CreateScheduledJob(e) \/ CreateScheduledJobUnauthorized(e)
  BY <1>5 DEF IInv, TypeOK, Rows, Holds, Budget, SingleFlight, DispatchingIsHeld,
              CreateScheduledJob, CreateScheduledJobUnauthorized, AgentStep, agentVars, workerVars
<1>6. CASE RecordScheduledDelegationRejection(e) \/ CreateJob(e)
  BY <1>6 DEF IInv, TypeOK, Rows, Holds, Budget, SingleFlight, DispatchingIsHeld,
              RecordScheduledDelegationRejection, CreateJob, AgentStep, ownedVars, agentVars, workerVars
<1>7. CASE CreateScheduledJobExpired(e)
  BY <1>7 DEF IInv, TypeOK, Rows, Holds, Budget, SingleFlight, DispatchingIsHeld,
              CreateScheduledJobExpired, AgentStep, agentVars, workerVars
<1>8. QED
  BY <1>1, <1>2, <1>3, <1>4, <1>5, <1>6, <1>7

LEMMA OperatorPreserves ==
    ASSUME IInv, Operator
    PROVE  IInv'
<1>1. PICK e \in Event : ManualRetry(e) \/ ManualComplete(e) \/ ManualDeadLetter(e)
  BY DEF Operator
<1>2. CASE ManualRetry(e)
  <2>1. TypeOK'
    BY <1>2 DEF IInv, TypeOK, ManualRetry, Requeue, workerVars
  <2>2. Rows' /\ Holds' /\ Budget' /\ SingleFlight' /\ DispatchingIsHeld'
    BY <1>2 DEF IInv, TypeOK, Rows, Holds, Budget, SingleFlight, DispatchingIsHeld, ManualRetry, Requeue,
                Retryable, workerVars
  <2>3. QED
    BY <2>1, <2>2 DEF IInv
<1>3. CASE ManualComplete(e) \/ ManualDeadLetter(e)
  <2>1. group' \in [Event -> GroupState] /\ run' \in [Event -> RunState]
    BY <1>3, SealType, SettleType DEF IInv, TypeOK, ManualComplete, ManualDeadLetter, GroupState, RunState
  <2>2. /\ \E to \in {"completed", "dead_letter"} : status' = [status EXCEPT ![e] = to]
        /\ status[e] # "none"
        /\ error' \in [Event -> ErrorCode]
    BY <1>3 DEF IInv, TypeOK, Rows, ManualComplete, ManualDeadLetter
  <2>3. UNCHANGED <<nextSequence, sequence, attempts, due, access, agentVars, retried, mode, outages, workerVars>>
    BY <1>3 DEF ManualComplete, ManualDeadLetter
  <2>4. TypeOK'
    <3>1. status' \in [Event -> Status]
      BY <2>2 DEF IInv, TypeOK
    <3>2. QED
      BY <2>1, <2>2, <2>3, <3>1 DEF IInv, TypeOK, agentVars, workerVars, GroupState, RunState
  <2>5. Rows' /\ Holds' /\ Budget' /\ SingleFlight' /\ DispatchingIsHeld'
    <3>1. PICK to \in {"completed", "dead_letter"} : status' = [status EXCEPT ![e] = to]
      BY <2>2
    <3>2. QED
      BY <2>2, <2>3, <3>1 DEF IInv, TypeOK, Rows, Holds, Budget, SingleFlight, DispatchingIsHeld,
                              agentVars, workerVars
  <2>6. QED
    BY <2>4, <2>5 DEF IInv
<1>4. QED
  BY <1>1, <1>2, <1>3

LEMMA InitInvariant == Init => IInv
<1> SUFFICES ASSUME Init PROVE IInv
  OBVIOUS
<1>1. TypeOK
  <2>1. /\ sequence \in [Event -> Nat] /\ status \in [Event -> Status]
        /\ due \in [Event -> BOOLEAN] /\ error \in [Event -> ErrorCode]
    BY DEF Init
  <2>2. /\ group \in [Event -> GroupState] /\ run \in [Event -> RunState]
        /\ access \in [Event -> {"none", "checked", "consumed"}]
        /\ file \in [Event -> Results \cup {"none"}]
    BY DEF Init, GroupState, RunState
  <2>3. /\ sent \in [Event -> Nat] /\ heard \in [Event -> Nat] /\ retried \in [Event -> Nat]
        /\ attempts \in [Event -> 0..MaxAttempts]
    BY DEF Init
  <2>4. /\ nextSequence \in Nat \ {0} /\ mode = "down" /\ outages \in Nat
        /\ pc = "idle" /\ cur = NoEvent /\ rowStatus = "none" /\ rowGone = FALSE
    BY DEF Init
  <2>5. QED
    BY <2>1, <2>2, <2>3, <2>4 DEF TypeOK, GroupState, RunState
<1>2. Rows /\ Holds /\ Budget /\ SingleFlight /\ DispatchingIsHeld
  <2>1. Rows /\ Holds
    BY DEF Init, Rows, Holds
  <2>2. Budget
    <3>1. 0 < MaxAttempts
      OBVIOUS
    <3>2. \A e \in Event : sent[e] = 0 /\ heard[e] = 0 /\ retried[e] = 0 /\ attempts[e] = 0
      BY DEF Init
    <3>3. ASSUME NEW e \in Event
          PROVE  /\ heard[e] <= sent[e] /\ sent[e] <= 1 + retried[e]
                 /\ attempts[e] < MaxAttempts /\ sent[e] <= retried[e]
      BY <3>1, <3>2
    <3>4. QED
      BY <3>3, Zenon DEF Budget
  <2>3. SingleFlight /\ DispatchingIsHeld
    BY DEF Init, SingleFlight, DispatchingIsHeld
  <2>4. QED
    BY <2>1, <2>2, <2>3
<1>3. QED
  BY <1>1, <1>2 DEF IInv

LEMMA NextInvariant == IInv /\ [Next]_vars => IInv'
<1> SUFFICES ASSUME IInv, [Next]_vars PROVE IInv'
  OBVIOUS
<1>1. CASE \E e \in Event : Enqueue(e) \/ BecomeDue(e) \/ SuppressSchedule(e)
  BY <1>1, QueuePreserves
<1>2. CASE Worker
  BY <1>2, DispatchPreserves, ResumePreserves, PickPreserves DEF Worker
<1>3. CASE Process
  BY <1>3, ProcessPreserves
<1>4. CASE Agent
  BY <1>4, AgentPreserves
<1>5. CASE Operator
  BY <1>5, OperatorPreserves
<1>6. CASE UNCHANGED vars
  BY <1>6 DEF IInv, TypeOK, Rows, Holds, Budget, SingleFlight, DispatchingIsHeld, vars, rowVars,
              ownedVars, agentVars, workerVars
<1>7. QED
  BY <1>1, <1>2, <1>3, <1>4, <1>5, <1>6 DEF Next

LEMMA Invariance == Spec => []IInv
  BY InitInvariant, NextInvariant, PTL DEF Spec

-----------------------------------------------------------------------------
(***************************************************************************)
(* The theorems                                                            *)
(***************************************************************************)

\* The rows and the worker's locals are well formed, and no event is attempted
\* more often than maxAttempts allows.
THEOREM TypeCorrect == Spec => []TypeOK
  BY Invariance, PTL DEF IInv

\* One event at a time is in the agent's hands, and none while one is blocked.
THEOREM OneAtATime == Spec => []SingleFlight
  BY Invariance, PTL DEF IInv

\* Whatever fails, a prompt is read once and once more for each operator retry.
THEOREM NeverResent == Spec => []AtMostOnce
<1>1. IInv => AtMostOnce
  BY DEF IInv, Budget, AtMostOnce
<1>2. QED
  BY <1>1, Invariance, PTL

\* A dispatching row is never stranded in a running process.
THEOREM NoneStranded == Spec => []DispatchingIsHeld
  BY Invariance, PTL DEF IInv

-----------------------------------------------------------------------------
(***************************************************************************)
(* What an event owns                                                      *)
(***************************************************************************)

\* Group and run of every event: as OwnedFollowsEvent, and which events own which.
Owned == \A e \in Event :
    /\ group[e] = "open" => e \in Threaded /\ status[e] \notin Closed
    /\ run[e] # "none" => e \in Scheduled
    /\ run[e] = "materialized" => status[e] \notin Closed
    /\ run[e] \in {"failed", "needs_review"} => status[e] \in Closed

\* Rows whose status stays on its side of Closed keep what they own.
LEMMA OwnedKept ==
    ASSUME Owned, UNCHANGED <<group, run>>,
           \A e \in Event : status'[e] \in Closed <=> status[e] \in Closed
    PROVE  Owned'
  BY DEF Owned

\* A row that leaves the agent's hands in one piece: its group sealed, its run
\* decided unless somebody took it over.
LEMMA ClosedWhole ==
    ASSUME TypeOK, Owned, NEW e \in Event, NEW to \in Closed,
           status' = [status EXCEPT ![e] = to], SealGroup(e),
           NEW o \in RunState, SettleUndelegated(e, o),
           run[e] = "materialized" => o \in {"failed", "needs_review"}
    PROVE  Owned'
  BY DEF TypeOK, Owned, SealGroup, Sealed, SettleUndelegated

LEMMA TransitionCloses ==
    ASSUME TypeOK, Owned, NEW e \in Event, NEW to \in Closed, Transition(e, to),
           NEW o \in RunState, SettleUndelegated(e, o),
           run[e] = "materialized" => o \in {"failed", "needs_review"}
    PROVE  Owned'
<1>1. status' = [status EXCEPT ![e] = to] /\ SealGroup(e)
  BY DEF Transition
<1>2. QED
  BY <1>1, ClosedWhole

LEMMA FailureOwned ==
    ASSUME TypeOK, Owned, NEW e \in Event, RecordPreDispatchFailure(e)
    PROVE  Owned'
<1>1. CASE LastAttempt(attempts[e] + 1)
  <2>1. status' = [status EXCEPT ![e] = "dead_letter"] /\ SealGroup(e) /\ SettleUndelegated(e, "failed")
    BY <1>1 DEF RecordPreDispatchFailure
  <2>2. QED
    BY <2>1, ClosedWhole
<1>2. CASE ~LastAttempt(attempts[e] + 1)
  <2>1. /\ status' = [status EXCEPT ![e] = "retryable_failed"] /\ UNCHANGED <<group, run>>
        /\ status[e] \in Dispatchable
    BY <1>2 DEF RecordPreDispatchFailure
  <2>2. QED
    BY <2>1, OwnedKept DEF TypeOK
<1>3. QED
  BY <1>1, <1>2

LEMMA NeedsReviewOwned ==
    ASSUME TypeOK, Owned, NEW e \in Event, MarkNeedsReview(e)
    PROVE  Owned'
  BY TransitionCloses DEF MarkNeedsReview

LEMMA BlockedOwned ==
    ASSUME TypeOK, Owned, NEW e \in Event, MarkBlocked(e)
    PROVE  Owned'
<1>1. PICK to \in {"blocked", "needs_review"} : Transition(e, to)
  BY DEF MarkBlocked
<1>2. SettleUndelegated(e, "needs_review")
  BY DEF MarkBlocked
<1>3. QED
  BY <1>1, <1>2, TransitionCloses

LEMMA DispatchOwned ==
    ASSUME IInv, Owned, DispatchSteps
    PROVE  Owned'
<1>0. TypeOK /\ cur \in Event
  BY HoldsAnEvent DEF IInv, DispatchSteps, PreflightDropped, PreflightFailed, PreflightBlocked,
       PreflightReady, AccessDropped, AccessFailed, AccessFound, BeginDispatch, PromptDropped,
       PromptUnknown, PromptBlocked, PromptRefused, PromptAccepted
<1>1. CASE PreflightDropped \/ PreflightReady \/ AccessDropped \/ PromptDropped
  BY <1>1, OwnedKept DEF PreflightDropped, PreflightReady, AccessDropped, PromptDropped,
       NoRowChange, rowVars, ownedVars
<1>2. CASE PreflightFailed \/ AccessFailed
  BY <1>0, <1>2, FailureOwned DEF PreflightFailed, AccessFailed
<1>3. CASE PreflightBlocked \/ PromptBlocked
  BY <1>0, <1>3, BlockedOwned DEF PreflightBlocked, PromptBlocked
<1>4. CASE AccessFound
  <2>1. /\ status' = [status EXCEPT ![cur] = "needs_review"]
        /\ SealGroup(cur) /\ SettleUndelegated(cur, "needs_review")
    BY <1>4 DEF AccessFound
  <2>2. QED
    BY <1>0, <2>1, ClosedWhole
<1>5. CASE BeginDispatch
  BY <1>0, <1>5, OwnedKept DEF BeginDispatch, ownedVars, TypeOK
<1>6. CASE PromptUnknown
  BY <1>0, <1>6, NeedsReviewOwned DEF PromptUnknown
<1>7. CASE PromptRefused
  <2>1. CASE LastAttempt(attempts[cur])
    <3>1. status' = [status EXCEPT ![cur] = "dead_letter"] /\ SealGroup(cur) /\ SettleUndelegated(cur, "failed")
      BY <1>7, <2>1 DEF PromptRefused, RecordSafePromptFailure
    <3>2. QED
      BY <1>0, <3>1, ClosedWhole
  <2>2. CASE ~LastAttempt(attempts[cur])
    <3>1. /\ status' = [status EXCEPT ![cur] = "retryable_failed"] /\ SealGroup(cur) /\ UNCHANGED run
          /\ status[cur] = "dispatching"
      BY <1>7, <2>2 DEF PromptRefused, RecordSafePromptFailure, ProvablyUnsent
    <3>2. QED
      BY <1>0, <3>1 DEF TypeOK, Owned, SealGroup, Sealed
  <2>3. QED
    BY <2>1, <2>2
<1>8. CASE PromptAccepted
  BY <1>0, <1>8, OwnedKept DEF PromptAccepted, Held, ownedVars, TypeOK
<1>9. QED
  BY <1>1, <1>2, <1>3, <1>4, <1>5, <1>6, <1>7, <1>8 DEF DispatchSteps

LEMMA ResumeOwned ==
    ASSUME IInv, Owned, ResumeSteps
    PROVE  Owned'
<1>0. TypeOK /\ cur \in Event
  BY HoldsAnEvent DEF IInv, ResumeSteps, ReadMissing, ReadUnusable, ReadReport, ReadSuppressed,
       ReadOvertaken, WaitDropped, WaitGone, WaitGoneTooLong, WaitFailed, WaitBlocked, WaitIdle, Reading, Waiting
<1>1. CASE ReadUnusable \/ WaitGoneTooLong
  BY <1>0, <1>1, NeedsReviewOwned DEF ReadUnusable, WaitGoneTooLong
<1>2. CASE ReadReport
  <2>1. PICK v \in [to : {"completed", "needs_review", "dead_letter"},
                    run : {"materialized", "needs_review", "failed"}] :
          /\ Transition(cur, v.to) /\ SettleUndelegated(cur, v.run)
          /\ Undelegated(cur) => v.run \in {"needs_review", "failed"}
    <3>1. Verdict(cur, file[cur]) \in [to : {"completed", "needs_review", "dead_letter"},
                                       run : {"materialized", "needs_review", "failed"}]
      BY DEF Verdict
    <3>2. Undelegated(cur) => Verdict(cur, file[cur]).run \in {"needs_review", "failed"}
      BY DEF Verdict
    <3>3. QED
      BY <1>2, <3>1, <3>2 DEF ReadReport
  <2>2. run[cur] = "materialized" => Undelegated(cur)
    BY <1>0 DEF Owned, Undelegated
  <2>3. QED
    BY <1>0, <2>1, <2>2, TransitionCloses
<1>3. CASE WaitBlocked
  BY <1>0, <1>3, BlockedOwned DEF WaitBlocked
<1>4. CASE \/ ReadMissing \/ ReadSuppressed \/ ReadOvertaken \/ WaitDropped \/ WaitGone \/ WaitFailed \/ WaitIdle
  BY <1>4, OwnedKept DEF ReadMissing, ReadSuppressed, ReadOvertaken, WaitDropped, WaitGone, WaitFailed,
       WaitIdle, RecordWaitingError, NoRowChange, rowVars, ownedVars
<1>5. QED
  BY <1>1, <1>2, <1>3, <1>4 DEF ResumeSteps

LEMMA AgentOwnedKept ==
    ASSUME IInv, Owned, Agent
    PROVE  Owned'
<1>1. PICK e \in Event :
        \/ Hear(e) \/ \E r \in Replies : WriteResult(e, r)
        \/ RecordScheduleJobAccess(e) \/ CreateScheduledJob(e) \/ CreateScheduledJobUnauthorized(e)
        \/ CreateScheduledJobExpired(e) \/ RecordScheduledDelegationRejection(e) \/ CreateJob(e)
  BY DEF Agent
<1>2. CASE Hear(e) \/ (\E r \in Replies : WriteResult(e, r)) \/ RecordScheduledDelegationRejection(e)
  BY <1>2, OwnedKept DEF Hear, WriteResult, RecordScheduledDelegationRejection, ownedVars
<1>3. CASE RecordScheduleJobAccess(e)
  BY <1>3, OwnedKept DEF RecordScheduleJobAccess, IInv, TypeOK
<1>4. CASE CreateScheduledJob(e) \/ CreateScheduledJobUnauthorized(e)
  BY <1>4 DEF CreateScheduledJob, CreateScheduledJobUnauthorized, IInv, TypeOK, Owned
<1>5. CASE CreateScheduledJobExpired(e)
  BY <1>5 DEF CreateScheduledJobExpired, IInv, TypeOK, Owned
<1>6. CASE CreateJob(e)
  BY <1>6 DEF CreateJob, AdmitsJob, IInv, TypeOK, Owned
<1>7. QED
  BY <1>1, <1>2, <1>3, <1>4, <1>5, <1>6

LEMMA OperatorOwned ==
    ASSUME IInv, Owned, Operator
    PROVE  Owned'
<1>1. PICK e \in Event : ManualRetry(e) \/ ManualComplete(e) \/ ManualDeadLetter(e)
  BY DEF Operator
<1>2. CASE ManualRetry(e)
  BY <1>2 DEF ManualRetry, Requeue, Retryable, RetryNeedsReconciliation, IInv, TypeOK, Owned
<1>3. CASE ManualComplete(e)
  <2>1. /\ status' = [status EXCEPT ![e] = "completed"] /\ SealGroup(e) /\ UNCHANGED run
        /\ run[e] = "none"
    BY <1>3 DEF ManualComplete, Owned
  <2>2. QED
    BY <2>1 DEF IInv, TypeOK, Owned, SealGroup, Sealed
<1>4. CASE ManualDeadLetter(e)
  BY <1>4, ClosedWhole DEF ManualDeadLetter, IInv
<1>5. QED
  BY <1>1, <1>2, <1>3, <1>4

LEMMA NextOwned == IInv /\ Owned /\ [Next]_vars => Owned'
<1> SUFFICES ASSUME IInv, Owned, [Next]_vars PROVE Owned'
  OBVIOUS
<1>1. ASSUME NEW e \in Event, Enqueue(e) PROVE Owned'
  BY <1>1 DEF Enqueue, IInv, TypeOK, Rows, Owned
<1>2. ASSUME NEW e \in Event, BecomeDue(e) PROVE Owned'
  BY <1>2, OwnedKept DEF BecomeDue, ownedVars
<1>3. ASSUME NEW e \in Event, SuppressSchedule(e) PROVE Owned'
  <2>1. e \in Scheduled /\ group[e] # "open"
    BY <1>3 DEF SuppressSchedule, Owned
  <2>2. \/ status' = [status EXCEPT ![e] = "completed"] \/ status' = status
    BY <1>3 DEF SuppressSchedule
  <2>3. run' = [run EXCEPT ![e] = "cancelled"] /\ group' = group
    BY <1>3 DEF SuppressSchedule
  <2>4. QED
    BY <2>1, <2>2, <2>3 DEF IInv, TypeOK, Owned
<1>4. ASSUME NEW e \in Event, PickWaiting(e) \/ PickQueued(e) PROVE Owned'
  BY <1>4, OwnedKept DEF PickWaiting, PickQueued, NoRowChange, rowVars, ownedVars
<1>5. CASE Start
  BY <1>5 DEF Start, Recovered, Sealed, IInv, TypeOK, Owned
<1>6. CASE QuiesceAfterCurrent \/ Stop \/ Exit \/ Crash
  BY <1>6, OwnedKept DEF QuiesceAfterCurrent, Stop, Exit, Crash, NoRowChange, rowVars, ownedVars
<1>7. CASE UNCHANGED vars
  BY <1>7, OwnedKept DEF vars, rowVars, ownedVars
<1>8. QED
  BY <1>1, <1>2, <1>3, <1>4, <1>5, <1>6, <1>7, DispatchOwned, ResumeOwned, AgentOwnedKept, OperatorOwned
     DEF Next, Worker, Process

\* No closed event has a group that admits jobs, and a run nobody delegated is
\* decided with its event: whatever path the row took there, by whoever's hand.
THEOREM OwnedSettled == Spec => []OwnedFollowsEvent
<1>1. Init => Owned
  BY DEF Init, Owned
<1>2. Owned => OwnedFollowsEvent
  BY DEF Owned, OwnedFollowsEvent
<1>3. QED
  BY <1>1, <1>2, Invariance, NextOwned, PTL DEF Spec

-----------------------------------------------------------------------------
(***************************************************************************)
(* The order of prompts                                                    *)
(***************************************************************************)

\* What stands before the row the worker is about to prompt was put back by the
\* operator after the worker had picked.
Picked == pc \in {"preflight", "access"} =>
    /\ sequence[cur] > 0
    /\ \A x \in Event : status[x] \in Dispatchable /\ sequence[x] < sequence[cur] => retried[x] > 0

LEMMA PickedKept ==
    ASSUME Picked, UNCHANGED <<sequence, retried>>,
           pc' \in {"preflight", "access"} => pc \in {"preflight", "access"} /\ cur' = cur,
           \A x \in Event : status'[x] \in Dispatchable => status[x] \in Dispatchable
    PROVE  Picked'
  BY DEF Picked

LEMMA LetGo == ASSUME pc' \notin {"preflight", "access"} PROVE Picked'
  BY DEF Picked

LEMMA DispatchPicked ==
    ASSUME IInv, Picked, DispatchSteps
    PROVE  Picked'
<1>1. CASE PreflightReady
  BY <1>1, PickedKept DEF PreflightReady, NoRowChange, rowVars, WorkerStep
<1>2. CASE BeginDispatch \/ PromptAccepted
  BY <1>2, LetGo DEF BeginDispatch, PromptAccepted
<1>3. ASSUME Return PROVE Picked'
  BY <1>3, LetGo DEF Return
<1>4. QED
  BY <1>1, <1>2, <1>3 DEF DispatchSteps, PreflightDropped, PreflightFailed, PreflightBlocked,
       AccessDropped, AccessFailed, AccessFound, PromptDropped, PromptUnknown, PromptBlocked, PromptRefused

LEMMA ResumePicked ==
    ASSUME ResumeSteps
    PROVE  Picked'
<1>1. pc' \in {"idle", "wait", "final"}
  BY DEF ResumeSteps, ReadMissing, ReadUnusable, ReadReport, ReadSuppressed, ReadOvertaken, WaitDropped,
       WaitGone, WaitGoneTooLong, WaitFailed, WaitBlocked, WaitIdle, Return
<1>2. QED
  BY <1>1, LetGo

LEMMA NextPicked == IInv /\ Picked /\ [Next]_vars => Picked'
<1> SUFFICES ASSUME IInv, Picked, [Next]_vars PROVE Picked'
  OBVIOUS
<1>1. ASSUME NEW e \in Event, Enqueue(e) PROVE Picked'
  <2>1. /\ status' = [status EXCEPT ![e] = "queued"] /\ sequence' = [sequence EXCEPT ![e] = nextSequence]
        /\ UNCHANGED <<pc, cur, retried>> /\ sequence[e] = 0
    BY <1>1 DEF Enqueue, workerVars
  <2>2. CASE pc \in {"preflight", "access"}
    <3>1. cur \in Event /\ cur # e
      BY <2>1, <2>2, HoldsAnEvent DEF IInv, Picked
    <3>2. sequence[cur] < nextSequence /\ nextSequence \in Nat /\ sequence \in [Event -> Nat]
      BY <3>1 DEF IInv, TypeOK, Rows
    <3>3. QED
      BY <2>1, <2>2, <3>1, <3>2 DEF Picked, IInv, TypeOK
  <2>3. CASE pc \notin {"preflight", "access"}
    BY <2>1, <2>3, LetGo
  <2>4. QED
    BY <2>2, <2>3
<1>2. ASSUME NEW e \in Event, BecomeDue(e) PROVE Picked'
  BY <1>2, PickedKept DEF BecomeDue, workerVars
<1>3. ASSUME NEW e \in Event, SuppressSchedule(e) PROVE Picked'
  <2>1. \A x \in Event : status'[x] \in Dispatchable => status[x] \in Dispatchable
    BY <1>3 DEF SuppressSchedule, IInv, TypeOK
  <2>2. QED
    BY <1>3, <2>1, PickedKept DEF SuppressSchedule, workerVars
<1>4. ASSUME NEW e \in Event, PickWaiting(e) PROVE Picked'
  BY <1>4, LetGo DEF PickWaiting
<1>5. ASSUME NEW e \in Event, PickQueued(e) PROVE Picked'
  <2>1. /\ \A x \in Event : status[x] \in Dispatchable => sequence[e] <= sequence[x]
        /\ sequence \in [Event -> Nat] /\ sequence[e] > 0
    BY <1>5 DEF PickQueued, nextAvailable, First, IInv, TypeOK, Rows
  <2>2. cur' = e /\ UNCHANGED <<sequence, status, retried>>
    BY <1>5 DEF PickQueued, NoRowChange, rowVars, WorkerStep
  <2>3. QED
    BY <2>1, <2>2 DEF Picked
<1>6. CASE Start
  <2>1. \A x \in Event : status'[x] \in Dispatchable => status[x] \in Dispatchable
    BY <1>6 DEF Start, Recovered, IInv, TypeOK
  <2>2. QED
    BY <1>6, <2>1, PickedKept DEF Start, workerVars
<1>7. CASE QuiesceAfterCurrent \/ Stop \/ Exit
  BY <1>7, PickedKept DEF QuiesceAfterCurrent, Stop, Exit, NoRowChange, rowVars, workerVars
<1>8. CASE Crash
  BY <1>8, LetGo DEF Crash, Return
<1>9. ASSUME NEW e \in Event, AgentStep, \A x \in Event : status'[x] \in Dispatchable => status[x] \in Dispatchable
      PROVE  Picked'
  BY <1>9, PickedKept DEF AgentStep, workerVars
<1>10. ASSUME NEW e \in Event,
              \/ Hear(e) \/ (\E r \in Replies : WriteResult(e, r))
              \/ CreateScheduledJob(e) \/ CreateScheduledJobUnauthorized(e)
              \/ RecordScheduledDelegationRejection(e) \/ CreateJob(e)
       PROVE  Picked'
  BY <1>9, <1>10 DEF Hear, WriteResult, CreateScheduledJob, CreateScheduledJobUnauthorized,
       RecordScheduledDelegationRejection, CreateJob
<1>11. ASSUME NEW e \in Event, RecordScheduleJobAccess(e) \/ CreateScheduledJobExpired(e) PROVE Picked'
  BY <1>9, <1>11 DEF RecordScheduleJobAccess, CreateScheduledJobExpired, IInv, TypeOK
<1>12. ASSUME NEW e \in Event, ManualRetry(e) PROVE Picked'
  <2>1. /\ retried' = [retried EXCEPT ![e] = @ + 1] /\ retried \in [Event -> Nat]
        /\ status' = [status EXCEPT ![e] = "queued"] /\ status \in [Event -> Status]
        /\ UNCHANGED <<sequence, pc, cur>>
    BY <1>12 DEF ManualRetry, Requeue, IInv, TypeOK, workerVars
  <2>2. QED
    BY <2>1 DEF Picked
<1>13. ASSUME NEW e \in Event, ManualComplete(e) \/ ManualDeadLetter(e) PROVE Picked'
  <2>1. \A x \in Event : status'[x] \in Dispatchable => status[x] \in Dispatchable
    BY <1>13 DEF ManualComplete, ManualDeadLetter, IInv, TypeOK
  <2>2. QED
    BY <1>13, <2>1, PickedKept DEF ManualComplete, ManualDeadLetter, workerVars
<1>14. CASE UNCHANGED vars
  BY <1>14, PickedKept DEF vars, rowVars, workerVars
<1>15. QED
  BY <1>1, <1>2, <1>3, <1>4, <1>5, <1>6, <1>7, <1>8, <1>10, <1>11, <1>12, <1>13, <1>14,
     DispatchPicked, ResumePicked DEF Next, Worker, Process, Agent, Operator

\* Only beginDispatch makes a row dispatching.
LEMMA StepOrdered ==
    ASSUME IInv, Picked, [Next]_vars, NEW e \in Event, NEW x \in Event,
           status[e] # "dispatching", status'[e] = "dispatching",
           status[x] \in Dispatchable, sequence[x] < sequence[e]
    PROVE  retried[x] > 0
<1>1. CASE BeginDispatch
  <2>1. e = cur
    BY <1>1, HoldsAnEvent DEF BeginDispatch, IInv, TypeOK
  <2>2. QED
    BY <1>1, <2>1 DEF Picked, BeginDispatch
<1>2. ASSUME DispatchSteps, ~BeginDispatch PROVE FALSE
  BY <1>2 DEF DispatchSteps, PreflightDropped, PreflightFailed, PreflightBlocked, PreflightReady,
       AccessDropped, AccessFailed, AccessFound, PromptDropped, PromptUnknown, PromptBlocked, PromptRefused,
       PromptAccepted, RecordPreDispatchFailure, RecordSafePromptFailure, MarkBlocked, MarkNeedsReview,
       Transition, NoRowChange, rowVars, IInv, TypeOK
<1>3. ASSUME ResumeSteps PROVE FALSE
  BY <1>3 DEF ResumeSteps, ReadMissing, ReadUnusable, ReadReport, Verdict, ReadSuppressed, ReadOvertaken,
       WaitDropped, WaitGone, WaitGoneTooLong, WaitFailed, WaitBlocked, WaitIdle, RecordWaitingError,
       MarkBlocked, MarkNeedsReview, Transition, NoRowChange, rowVars, IInv, TypeOK
<1>4. ASSUME NEW f \in Event, PickWaiting(f) \/ PickQueued(f) PROVE FALSE
  BY <1>4 DEF PickWaiting, PickQueued, NoRowChange, rowVars
<1>5. ASSUME Process PROVE FALSE
  BY <1>5 DEF Process, Start, Recovered, QuiesceAfterCurrent, Stop, Exit, Crash, NoRowChange, rowVars
<1>6. ASSUME NEW f \in Event, Enqueue(f) \/ BecomeDue(f) \/ SuppressSchedule(f) PROVE FALSE
  BY <1>6 DEF Enqueue, BecomeDue, SuppressSchedule, IInv, TypeOK
<1>7. ASSUME Agent PROVE FALSE
  BY <1>7 DEF Agent, Hear, WriteResult, RecordScheduleJobAccess, CreateScheduledJob,
       CreateScheduledJobUnauthorized, CreateScheduledJobExpired, RecordScheduledDelegationRejection,
       CreateJob, IInv, TypeOK
<1>8. ASSUME Operator PROVE FALSE
  BY <1>8 DEF Operator, ManualRetry, Requeue, ManualComplete, ManualDeadLetter, IInv, TypeOK
<1>9. ASSUME UNCHANGED vars PROVE FALSE
  BY <1>9 DEF vars, rowVars
<1>10. QED
  BY <1>1, <1>2, <1>3, <1>4, <1>5, <1>6, <1>7, <1>8, <1>9 DEF Next, Worker

\* Prompts go out in the order of the sequence; only what the operator put back
\* may be passed, by the one event the worker had already picked.
THEOREM PromptedInOrder == Spec => OrderedDispatch
<1>1. Init => Picked
  BY DEF Init, Picked
<1>2. IInv /\ Picked /\ [Next]_vars =>
        \A e, x \in Event :
            /\ status[e] # "dispatching" /\ status'[e] = "dispatching"
            /\ status[x] \in Dispatchable /\ sequence[x] < sequence[e]
            => retried[x] > 0
  BY StepOrdered
<1>3. Spec => [](IInv /\ Picked)
  BY <1>1, Invariance, NextPicked, PTL DEF Spec
<1>4. QED
  BY <1>2, <1>3, PTL DEF Spec, OrderedDispatch

-----------------------------------------------------------------------------
(***************************************************************************)
(* The refinement of SerialDelivery                                        *)
(***************************************************************************)

\* Where SerialDelivery sees an event, and the hand-overs it grants.
stage == [e \in Event |-> StageOf(status[e])]
allowed == [e \in Event |-> 1 + retried[e]]

LEMMA Stages ==
    /\ StageOf("none") = "absent" /\ StageOf("blocked") = "parked"
    /\ \A s \in Dispatchable : StageOf(s) = "pending"
    /\ \A s \in AgentOwned : StageOf(s) = "held"
    /\ \A s \in Closed \ {"blocked"} : StageOf(s) = "closed"
  BY DEF StageOf

\* The row of one event gets a new status.
LEMMA StageMoves ==
    ASSUME TypeOK, NEW e \in Event, NEW to \in Status, status' = [status EXCEPT ![e] = to]
    PROVE  stage' = [stage EXCEPT ![e] = StageOf(to)] /\ stage[e] = StageOf(status[e])
  BY DEF stage, TypeOK

LEMMA Stutters ==
    ASSUME TypeOK, TypeOK', UNCHANGED <<sent, retried>>,
           \A e \in Event : StageOf(status'[e]) = StageOf(status[e])
    PROVE  UNCHANGED <<stage, sent, allowed>>
  BY DEF stage, allowed

LEMMA Closes ==
    ASSUME TypeOK, NEW e \in Event, status[e] # "none", NEW to \in Closed \ {"blocked"},
           status' = [status EXCEPT ![e] = to], UNCHANGED <<sent, retried>>
    PROVE  Delivery!Next
<1>1. StageOf(to) = "closed" /\ StageOf(status[e]) # "absent"
  BY Stages DEF TypeOK
<1>2. stage[e] # "absent" /\ stage' = [stage EXCEPT ![e] = "closed"]
  <2>1. to \in Status
    OBVIOUS
  <2>2. stage' = [stage EXCEPT ![e] = StageOf(to)] /\ stage[e] = StageOf(status[e])
    BY <2>1, StageMoves
  <2>3. QED
    BY <1>1, <2>2
<1>3. UNCHANGED <<sent, allowed>>
  BY DEF allowed
<1>4. Delivery!Close(e)
  BY <1>2, <1>3 DEF Delivery!Close, stage, allowed
<1>5. QED
  BY <1>4 DEF Delivery!Next

LEMMA Parks ==
    ASSUME TypeOK, NEW e \in Event, status[e] \in Dispatchable \cup AgentOwned,
           \A x \in Event : x # e => status[x] \notin Engaged,
           status' = [status EXCEPT ![e] = "blocked"], UNCHANGED <<sent, retried>>
    PROVE  Delivery!Next
<1>1. stage[e] \in {"pending", "held"} /\ \A x \in Event : x # e => stage[x] \notin {"held", "parked"}
  <2>1. \A x \in Event : stage[x] = StageOf(status[x]) /\ status[x] \in Status
    BY DEF stage, TypeOK
  <2>2. \A s \in Status \ Engaged : StageOf(s) \notin {"held", "parked"}
    BY Stages
  <2>3. QED
    BY <2>1, <2>2, Stages
<1>2. stage' = [stage EXCEPT ![e] = "parked"]
  <2>1. "blocked" \in Status
    OBVIOUS
  <2>2. QED
    BY <2>1, StageMoves, Stages
<1>3. UNCHANGED <<sent, allowed>>
  BY DEF allowed
<1>4. Delivery!Park(e)
  BY <1>1, <1>2, <1>3 DEF Delivery!Park, stage, allowed
<1>5. QED
  BY <1>4 DEF Delivery!Next

\* What the writes of the worker are to SerialDelivery.
LEMMA ReviewDelivers ==
    ASSUME TypeOK, NEW e \in Event, MarkNeedsReview(e), WorkerStep
    PROVE  Delivery!Next
  BY Closes DEF MarkNeedsReview, Transition, WorkerStep, agentVars

LEMMA BlockedDelivers ==
    ASSUME TypeOK, NEW e \in Event, MarkBlocked(e), WorkerStep,
           \A x \in Event : x # e => status[x] \notin Engaged
    PROVE  Delivery!Next
<1>1. /\ status[e] \in Dispatchable \cup AgentOwned /\ UNCHANGED <<sent, retried>>
      /\ \/ status' = [status EXCEPT ![e] = "blocked"]
         \/ status' = [status EXCEPT ![e] = "needs_review"]
  BY DEF MarkBlocked, Transition, WorkerStep, agentVars
<1>2. QED
  BY <1>1, Parks, Closes

LEMMA FailureDelivers ==
    ASSUME TypeOK, TypeOK', NEW e \in Event, RecordPreDispatchFailure(e), WorkerStep
    PROVE  Delivery!Next \/ UNCHANGED <<stage, sent, allowed>>
<1>1. /\ status[e] \in Dispatchable /\ UNCHANGED <<sent, retried>>
      /\ \/ status' = [status EXCEPT ![e] = "retryable_failed"]
         \/ status' = [status EXCEPT ![e] = "dead_letter"]
  BY DEF RecordPreDispatchFailure, WorkerStep, agentVars
<1>2. CASE status' = [status EXCEPT ![e] = "dead_letter"]
  BY <1>1, <1>2, Closes
<1>3. CASE status' = [status EXCEPT ![e] = "retryable_failed"]
  <2>1. \A x \in Event : StageOf(status'[x]) = StageOf(status[x])
    BY <1>1, <1>3, Stages DEF TypeOK
  <2>2. QED
    BY <1>1, <2>1, Stutters
<1>4. QED
  BY <1>1, <1>2, <1>3

LEMMA HandsOver ==
    ASSUME IInv, BeginDispatch
    PROVE  Delivery!Next
<1>1. /\ cur \in Event /\ status[cur] \in Dispatchable
      /\ status' = [status EXCEPT ![cur] = "dispatching"] /\ sent' = [sent EXCEPT ![cur] = @ + 1]
      /\ \A x \in Event : status[x] \notin Engaged
      /\ UNCHANGED retried
  BY HoldsAnEvent DEF BeginDispatch, IInv, Holds
<1>2. sent[cur] < allowed[cur]
  BY <1>1 DEF IInv, TypeOK, Budget, allowed
<1>3. stage[cur] = "pending" /\ \A x \in Event : stage[x] \notin {"held", "parked"}
  <2>1. \A x \in Event : stage[x] = StageOf(status[x]) /\ status[x] \in Status
    BY DEF stage, IInv, TypeOK
  <2>2. \A s \in Status \ Engaged : StageOf(s) \notin {"held", "parked"}
    BY Stages
  <2>3. QED
    BY <1>1, <2>1, <2>2, Stages
<1>4. stage' = [stage EXCEPT ![cur] = "held"]
  <2>1. "dispatching" \in Status /\ "dispatching" \in AgentOwned
    OBVIOUS
  <2>2. QED
    BY <1>1, <2>1, StageMoves, Stages DEF IInv
<1>5. UNCHANGED allowed
  BY <1>1 DEF allowed
<1>6. Delivery!HandOver(cur)
  BY <1>1, <1>2, <1>3, <1>4, <1>5 DEF Delivery!HandOver, stage, allowed
<1>7. QED
  BY <1>1, <1>6 DEF Delivery!Next

LEMMA TakesBack ==
    ASSUME IInv, PromptRefused
    PROVE  Delivery!Next
<1>1. /\ cur \in Event /\ status[cur] = "dispatching" /\ heard[cur] < sent[cur]
      /\ sent' = [sent EXCEPT ![cur] = @ - 1] /\ UNCHANGED retried
  BY HoldsAnEvent DEF IInv, PromptRefused, HerdrFindsNoAgent, RecordSafePromptFailure, ProvablyUnsent
<1>2. PICK to \in {"dead_letter", "retryable_failed"} : status' = [status EXCEPT ![cur] = to]
  BY DEF PromptRefused, RecordSafePromptFailure
<1>3. stage[cur] = "held" /\ sent[cur] > 0
  BY <1>1, Stages DEF stage, IInv, TypeOK
<1>4. stage' = [stage EXCEPT ![cur] = StageOf(to)] /\ StageOf(to) \in {"pending", "closed"}
  <2>1. to \in Status /\ (to \in Dispatchable \/ to \in Closed \ {"blocked"})
    OBVIOUS
  <2>2. QED
    BY <1>1, <1>2, <2>1, StageMoves, Stages DEF IInv
<1>5. UNCHANGED allowed
  BY <1>1 DEF allowed
<1>6. Delivery!TakeBack(cur)
  BY <1>1, <1>3, <1>4, <1>5 DEF Delivery!TakeBack, stage, allowed
<1>7. QED
  BY <1>1, <1>6 DEF Delivery!Next

LEMMA DispatchDelivers ==
    ASSUME IInv, TypeOK', DispatchSteps
    PROVE  Delivery!Next \/ UNCHANGED <<stage, sent, allowed>>
<1>0. TypeOK /\ cur \in Event /\ \A x \in Event : x # cur => status[x] \notin Engaged
  BY HoldsAnEvent DEF IInv, Holds, DispatchSteps, PreflightDropped, PreflightFailed, PreflightBlocked,
       PreflightReady, AccessDropped, AccessFailed, AccessFound, BeginDispatch, PromptDropped,
       PromptUnknown, PromptBlocked, PromptRefused, PromptAccepted
<1>1. CASE PreflightDropped \/ PreflightReady \/ AccessDropped \/ PromptDropped
  BY <1>0, <1>1, Stutters DEF PreflightDropped, PreflightReady, AccessDropped, PromptDropped,
       NoRowChange, rowVars, WorkerStep, agentVars
<1>2. CASE PreflightFailed \/ AccessFailed
  BY <1>0, <1>2, FailureDelivers DEF PreflightFailed, AccessFailed
<1>3. CASE PreflightBlocked \/ PromptBlocked
  BY <1>0, <1>3, BlockedDelivers DEF PreflightBlocked, PromptBlocked
<1>4. CASE AccessFound
  BY <1>0, <1>4, Closes DEF AccessFound, WorkerStep, agentVars
<1>5. CASE BeginDispatch
  BY <1>5, HandsOver
<1>6. CASE PromptUnknown
  BY <1>0, <1>6, ReviewDelivers DEF PromptUnknown
<1>7. CASE PromptRefused
  BY <1>7, TakesBack
<1>8. CASE PromptAccepted
  <2>1. \A x \in Event : StageOf(status'[x]) = StageOf(status[x])
    BY <1>0, <1>8, Stages DEF PromptAccepted, Held, TypeOK
  <2>2. QED
    BY <1>0, <1>8, <2>1, Stutters DEF PromptAccepted
<1>9. QED
  BY <1>1, <1>2, <1>3, <1>4, <1>5, <1>6, <1>7, <1>8 DEF DispatchSteps

LEMMA ResumeDelivers ==
    ASSUME IInv, TypeOK', ResumeSteps
    PROVE  Delivery!Next \/ UNCHANGED <<stage, sent, allowed>>
<1>0. TypeOK /\ cur \in Event /\ \A x \in Event : x # cur => status[x] \notin Engaged
  BY HoldsAnEvent DEF IInv, Holds, ResumeSteps, ReadMissing, ReadUnusable, ReadReport, ReadSuppressed,
       ReadOvertaken, WaitDropped, WaitGone, WaitGoneTooLong, WaitFailed, WaitBlocked, WaitIdle, Reading, Waiting
<1>1. CASE ReadUnusable \/ WaitGoneTooLong
  BY <1>0, <1>1, ReviewDelivers DEF ReadUnusable, WaitGoneTooLong
<1>2. CASE ReadReport
  <2>1. PICK to \in {"completed", "needs_review", "dead_letter"} : Transition(cur, to)
    <3>1. Verdict(cur, file[cur]).to \in {"completed", "needs_review", "dead_letter"}
      BY DEF Verdict
    <3>2. QED
      BY <1>2, <3>1 DEF ReadReport
  <2>2. QED
    BY <1>0, <1>2, <2>1, Closes DEF ReadReport, Transition, WorkerStep, agentVars
<1>3. CASE WaitBlocked
  BY <1>0, <1>3, BlockedDelivers DEF WaitBlocked
<1>4. CASE \/ ReadMissing \/ ReadSuppressed \/ ReadOvertaken \/ WaitDropped \/ WaitGone \/ WaitFailed \/ WaitIdle
  BY <1>0, <1>4, Stutters DEF ReadMissing, ReadSuppressed, ReadOvertaken, WaitDropped, WaitGone, WaitFailed,
       WaitIdle, RecordWaitingError, NoRowChange, rowVars, WorkerStep, agentVars
<1>5. QED
  BY <1>1, <1>2, <1>3, <1>4 DEF ResumeSteps

LEMMA ProcessDelivers ==
    ASSUME IInv, TypeOK', Process
    PROVE  Delivery!Next \/ UNCHANGED <<stage, sent, allowed>>
<1>1. CASE Start
  <2>1. UNCHANGED <<sent, retried>> /\ status' = [x \in Event |-> Recovered(status[x])]
    BY <1>1 DEF Start, agentVars
  <2>2. CASE \A x \in Event : status[x] # "dispatching"
    BY <2>1, <2>2, Stutters DEF IInv, Recovered
  <2>3. CASE \E e \in Event : status[e] = "dispatching"
    <3>1. PICK e \in Event : status[e] = "dispatching"
      BY <2>3
    <3>2. status' = [status EXCEPT ![e] = "needs_review"]
      BY <2>1, <3>1 DEF IInv, TypeOK, SingleFlight, Recovered
    <3>3. QED
      BY <2>1, <3>1, <3>2, Closes DEF IInv
  <2>4. QED
    BY <2>2, <2>3
<1>2. CASE QuiesceAfterCurrent \/ Stop \/ Exit \/ Crash
  BY <1>2, Stutters DEF IInv, QuiesceAfterCurrent, Stop, Exit, Crash, NoRowChange, rowVars, agentVars
<1>3. QED
  BY <1>1, <1>2 DEF Process

LEMMA QueueDelivers ==
    ASSUME IInv, TypeOK', NEW e \in Event, Enqueue(e) \/ BecomeDue(e) \/ SuppressSchedule(e)
    PROVE  Delivery!Next \/ UNCHANGED <<stage, sent, allowed>>
<1>1. CASE Enqueue(e)
  <2>1. status[e] = "none" /\ status' = [status EXCEPT ![e] = "queued"] /\ UNCHANGED <<sent, retried>>
    BY <1>1 DEF Enqueue, IInv, Rows, agentVars
  <2>2. stage[e] = "absent"
    BY <2>1, Stages DEF stage
  <2>3. stage' = [stage EXCEPT ![e] = "pending"]
    BY <2>1, StageMoves, Stages DEF IInv
  <2>4. UNCHANGED <<sent, allowed>>
    BY <2>1 DEF allowed
  <2>5. Delivery!Admit(e)
    BY <2>2, <2>3, <2>4 DEF Delivery!Admit, stage, allowed
  <2>6. QED
    BY <2>5 DEF Delivery!Next
<1>2. CASE BecomeDue(e)
  BY <1>2, Stutters DEF IInv, BecomeDue, agentVars
<1>3. CASE SuppressSchedule(e)
  <2>1. /\ UNCHANGED <<sent, retried>>
        /\ \/ status[e] # "none" /\ status' = [status EXCEPT ![e] = "completed"]
           \/ status' = status
    BY <1>3 DEF SuppressSchedule, agentVars
  <2>2. QED
    BY <2>1, Closes, Stutters DEF IInv
<1>4. QED
  BY <1>1, <1>2, <1>3

LEMMA AgentDelivers ==
    ASSUME IInv, TypeOK', Agent
    PROVE  Delivery!Next \/ UNCHANGED <<stage, sent, allowed>>
<1>1. PICK e \in Event :
        \/ Hear(e) \/ \E r \in Replies : WriteResult(e, r)
        \/ RecordScheduleJobAccess(e) \/ CreateScheduledJob(e) \/ CreateScheduledJobUnauthorized(e)
        \/ CreateScheduledJobExpired(e) \/ RecordScheduledDelegationRejection(e) \/ CreateJob(e)
  BY DEF Agent
<1>2. CASE \/ Hear(e) \/ (\E r \in Replies : WriteResult(e, r)) \/ CreateScheduledJob(e)
           \/ CreateScheduledJobUnauthorized(e) \/ RecordScheduledDelegationRejection(e) \/ CreateJob(e)
  BY <1>2, Stutters DEF IInv, Hear, WriteResult, CreateScheduledJob, CreateScheduledJobUnauthorized,
       RecordScheduledDelegationRejection, CreateJob, AgentStep, agentVars
<1>3. CASE RecordScheduleJobAccess(e)
  <2>1. \A x \in Event : StageOf(status'[x]) = StageOf(status[x])
    BY <1>3, Stages DEF RecordScheduleJobAccess, IInv, TypeOK
  <2>2. QED
    BY <1>3, <2>1, Stutters DEF IInv, RecordScheduleJobAccess, AgentStep, agentVars
<1>4. CASE CreateScheduledJobExpired(e)
  BY <1>4, Closes DEF IInv, CreateScheduledJobExpired, AgentStep, agentVars
<1>5. QED
  BY <1>1, <1>2, <1>3, <1>4

LEMMA OperatorDelivers ==
    ASSUME IInv, Operator
    PROVE  Delivery!Next
<1>1. PICK e \in Event : ManualRetry(e) \/ ManualComplete(e) \/ ManualDeadLetter(e)
  BY DEF Operator
<1>2. CASE ManualRetry(e)
  <2>1. /\ status[e] \in Retryable /\ status' = [status EXCEPT ![e] = "queued"]
        /\ retried' = [retried EXCEPT ![e] = @ + 1] /\ retried \in [Event -> Nat] /\ UNCHANGED sent
    BY <1>2 DEF ManualRetry, Requeue, IInv, TypeOK
  <2>2. stage[e] \in {"pending", "parked", "closed"}
    BY <2>1, Stages DEF stage, Retryable
  <2>3. stage' = [stage EXCEPT ![e] = "pending"]
    BY <2>1, StageMoves, Stages DEF IInv
  <2>4. allowed' = [allowed EXCEPT ![e] = @ + 1]
    <3>1. /\ \A x \in Event : retried[x] \in Nat
          /\ \A x \in Event : retried'[x] = IF x = e THEN retried[e] + 1 ELSE retried[x]
      BY <2>1
    <3>2. \A x \in Event : 1 + retried'[x] = IF x = e THEN (1 + retried[e]) + 1 ELSE 1 + retried[x]
      BY <3>1
    <3>3. QED
      BY <3>2 DEF allowed
  <2>5. Delivery!Reopen(e)
    BY <2>1, <2>2, <2>3, <2>4 DEF Delivery!Reopen, stage, allowed
  <2>6. QED
    BY <2>5 DEF Delivery!Next
<1>3. CASE ManualComplete(e) \/ ManualDeadLetter(e)
  <2>1. /\ status[e] # "none" /\ UNCHANGED <<sent, retried>>
        /\ \/ status' = [status EXCEPT ![e] = "completed"]
           \/ status' = [status EXCEPT ![e] = "dead_letter"]
    BY <1>3 DEF ManualComplete, ManualDeadLetter, IInv, Rows, agentVars
  <2>2. QED
    BY <2>1, Closes DEF IInv
<1>4. QED
  BY <1>1, <1>2, <1>3

LEMMA StepDelivers ==
    ASSUME IInv, IInv', [Next]_vars
    PROVE  Delivery!Next \/ UNCHANGED <<stage, sent, allowed>>
<1>0. TypeOK /\ TypeOK'
  BY DEF IInv
<1>1. ASSUME NEW e \in Event, PickWaiting(e) \/ PickQueued(e)
      PROVE  UNCHANGED <<stage, sent, allowed>>
  BY <1>0, <1>1, Stutters DEF PickWaiting, PickQueued, NoRowChange, rowVars, WorkerStep, agentVars
<1>2. CASE UNCHANGED vars
  BY <1>0, <1>2, Stutters DEF vars, rowVars, agentVars
<1>3. QED
  BY <1>0, <1>1, <1>2, DispatchDelivers, ResumeDelivers, ProcessDelivers, QueueDelivers, AgentDelivers,
     OperatorDelivers DEF Next, Worker

\* The queue, with its worker, its crashes and its operator, implements serial
\* delivery: every step hands over, takes back, parks, closes or reopens one event.
THEOREM QueueDeliversSerially == Spec => DeliversSerially
<1>1. Init => Delivery!Init
  BY DEF Init, Delivery!Init, StageOf
<1>2. IInv /\ IInv' /\ [Next]_vars => [Delivery!Next]_(Delivery!vars)
  BY StepDelivers DEF Delivery!vars, stage, allowed
<1>3. QED
  BY <1>1, <1>2, Invariance, PTL DEF Spec, DeliversSerially, Delivery!Spec
=============================================================================
