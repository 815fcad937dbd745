------------------------ MODULE JobSupervisorProofs ------------------------
(* What holds for every attempt limit and any number of crashes and           *)
(* instructions: rows and locals keep their types (TypeOK), no command that    *)
(* may have been taken is given again (CommandedOnce), nothing works for a     *)
(* cancelled job (CancelledIsQuiet), and a finished job stays what it is       *)
(* (TerminalStays).                                                            *)
(* The prompt and the terminal cleanup's ctrl+c rest on separate state: the    *)
(* one on the row's status and on the start that is under way, the other on    *)
(* the durable claim and on the cleanup operation.  That a cancelled job is    *)
(* quiet needs more: what the row, the control and a prompt on its way know    *)
(* of whether the prompt was read (QuietInv).                                  *)
EXTENDS JobSupervisor, TLAPS

(***************************************************************************)
(* The invariant.                                                           *)
(***************************************************************************)
\* A job that will be started, or is: its prompt is still to come.
Early == {"queued", "retryable_failed", "preparing"}
BeforePrompt == {"access", "prepare", "baseline"}
AtPrompt == {"prompt", "reconcile"}

\* The types of the row and of the operation.
Steer == {"none", "dispatching", "accepted"}
JobRow == [status : Status, code : Code, attempts : Nat, steer : Steer,
           result : Valid \cup {"none"}, sent : BOOLEAN, workspace : BOOLEAN, told : SUBSET Status]
OpRow == [at : {"none"} \cup BeforePrompt \cup AtPrompt \cup {"ingest", "wait"},
          stale : BOOLEAN, made : BOOLEAN, known : BOOLEAN, read : BOOLEAN]

PromptInv ==
    /\ job \in JobRow /\ op \in OpRow
    /\ prompts \in {0, 1}
    /\ job.status \in Early => prompts = 0
    /\ op.at \in BeforePrompt => ~op.read
    /\ op.at \in AtPrompt => job.status \notin Early /\ (~op.read => prompts = 0)

\* The claim precedes the ctrl+c: before it nothing was sent, and the operation
\* that sends is the one that claimed.
CleanInv ==
    /\ keys \in {0, 1}
    /\ cleanup = "pending" => keys = 0
    /\ clean = "look" => cleanup = "pending"
    /\ clean = "send" => keys = 0 /\ cleanup = "attempting"

(***************************************************************************)
(* Writes of the row.  What most actions do to it: they keep its type and do *)
(* not bring it back before the prompt.                                      *)
(***************************************************************************)
Onward(j) == j \in JobRow /\ (j.status \in Early => job.status \in Early)

LEMMA SameOnward == ASSUME job \in JobRow PROVE Onward(job)
  BY DEF Onward

\* The words that the actions write.
LEMMA Words ==
    /\ {"none", "other", "cancelled", "cancel_worker_unverified", "terminal_steer_worker_unverified",
        "stale_preparing", "stale_preparing_agent_unverified", "prompt_interrupted",
        "prompt_acceptance_unknown", "ambiguous_prompt_acceptance", "ambiguous_cancel_acceptance",
        "agent_wait_observation_unknown", "cancel_acceptance_unknown", "cancel_exit_unknown",
        "invalid_result", "workspace_cleanup_failed", "invalid_result_agent_stopped",
        "invalid_result_agent_stop_unknown"} \subseteq Code
    /\ {"blocked", "cancelled", "completed", "failed", "running", "cancelling", "dispatching",
        "needs_review"} \subseteq Status \ Early
    /\ Early \subseteq Status /\ Waiting \subseteq Early
    /\ Valid \subseteq Status \ Early
    /\ {"none", "dispatching", "accepted"} \subseteq Steer
  BY DEF Code, Unprompted, Recoverable, PromptUnknown, CancelUnknown, Status, Terminal, Waiting,
         Early, Valid, Steer

\* Every write of the row sets a status, a code, and perhaps the steer.
LEMMA StatusWritten ==
    ASSUME NEW j \in JobRow, NEW s \in Status, NEW c \in Code
    PROVE  /\ [j EXCEPT !.status = s, !.code = c] \in JobRow
           /\ [j EXCEPT !.status = s, !.code = c].status = s
  BY DEF JobRow

LEMMA SteerWritten ==
    ASSUME NEW j \in JobRow, NEW x \in Steer
    PROVE  /\ [j EXCEPT !.steer = x] \in JobRow
           /\ [j EXCEPT !.steer = x].status = j.status
  BY DEF JobRow

LEMMA UnfinishedRow ==
    ASSUME job \in JobRow, NEW s \in Status, NEW c \in Code
    PROVE  Unfinished(s, c) \in JobRow /\ Unfinished(s, c).status = s
  BY StatusWritten DEF Unfinished

LEMMA NeedsReviewOnward ==
    ASSUME job \in JobRow, NEW c \in Code PROVE Onward(NeedsReview(c))
<1> DEFINE t == [job EXCEPT !.status = "needs_review", !.code = c, !.steer = "none"]
<1>0. "needs_review" \in Status \ Early /\ "none" \in Steer
  BY Words
<1>1. t \in JobRow /\ t.status = "needs_review"
  BY <1>0 DEF JobRow
<1>2. NeedsReview(c) = job \/ NeedsReview(c) = t
  BY DEF NeedsReview
<1> HIDE DEF t
<1> QED
  BY <1>0, <1>1, <1>2 DEF Onward

LEMMA SavedOnward ==
    ASSUME job \in JobRow, file \in Valid PROVE Onward(Saved)
<1> DEFINE told == IF kind = "schedule" THEN job.told \cup {file} ELSE job.told
           code == IF job.status = "cancelling" THEN "cancel_worker_unverified"
                   ELSE IF job.steer # "none" THEN "terminal_steer_worker_unverified"
                   ELSE IF file = "failed" THEN "other" ELSE "none"
           t == [job EXCEPT !.status = file, !.result = file, !.told = told, !.code = code]
<1>1. file \in Status /\ file \notin Early
  BY Words
<1>2. told \in SUBSET Status
  BY <1>1 DEF JobRow
<1>3. code \in {"cancel_worker_unverified", "terminal_steer_worker_unverified", "other", "none"}
  OBVIOUS
<1>4. code \in Code
  BY <1>3, Words
<1>5. Saved = t
  BY DEF Saved
<1> HIDE DEF told, code
<1>6. t \in JobRow /\ t.status = file
  BY <1>1, <1>2, <1>4 DEF JobRow
<1> HIDE DEF t
<1> QED
  BY <1>1, <1>5, <1>6 DEF Onward

LEMMA TryCompleteOnward ==
    ASSUME job \in JobRow, TryComplete PROVE Onward(job')
<1>1. CASE job' = job
  BY <1>1, SameOnward DEF Onward
<1>2. CASE file \in Valid /\ job' = Saved
  BY <1>2, SavedOnward DEF Onward
<1>3. CASE job' = NeedsReview("other") \/ job' = NeedsReview("invalid_result")
  BY <1>3, NeedsReviewOnward, Words DEF Onward
<1> QED
  BY <1>1, <1>2, <1>3 DEF TryComplete

LEMMA RecoveredOnward ==
    ASSUME job \in JobRow PROVE Onward(Recovered)
<1> DEFINE code == CASE job.status = "cancelling" -> "ambiguous_cancel_acceptance"
                     [] job.status = "dispatching" -> "ambiguous_prompt_acceptance"
                     [] OTHER -> "other"
           t == [job EXCEPT !.status = "needs_review", !.steer = "none", !.code = code]
<1>1. code \in {"ambiguous_cancel_acceptance", "ambiguous_prompt_acceptance", "other"}
  OBVIOUS
<1>2. \/ job.status = "preparing" /\ Recovered = Unfinished("retryable_failed", "stale_preparing")
      \/ Recovered = t
      \/ Recovered = job
  BY DEF Recovered
<1>0. code \in Code /\ "needs_review" \in Status /\ "none" \in Steer
  BY <1>1, Words
<1> HIDE DEF code
<1>3. t \in JobRow /\ t.status = "needs_review"
  BY <1>0 DEF JobRow
<1> HIDE DEF t
<1>4. Unfinished("retryable_failed", "stale_preparing") \in JobRow
  BY UnfinishedRow, Words DEF Early
<1>5. "preparing" \in Early /\ "needs_review" \notin Early
  BY DEF Early
<1> QED
  BY <1>2, <1>3, <1>4, <1>5 DEF Onward

LEMMA OthersOnward ==
    ASSUME job \in JobRow
    PROVE  /\ \A from \in Status : Onward(Blocked(from))
           /\ Onward(Cancelled)
           /\ job.status = "preparing" => Onward(Retried("other"))
<1>1. \A from \in Status : Blocked(from) = job \/ Blocked(from) = Unfinished("blocked", "other")
  BY DEF Blocked
<1>2. Cancelled = job \/ Cancelled = Unfinished("cancelled", "cancelled")
  BY DEF Cancelled
<1>3. Retried("other") = Unfinished("failed", "other") \/ Retried("other") = Unfinished("retryable_failed", "other")
  BY DEF Retried
<1>4. "failed" \in Status /\ "retryable_failed" \in Status /\ "preparing" \in Early
  BY Words DEF Early
<1> QED
  BY <1>1, <1>2, <1>3, <1>4, Words, UnfinishedRow DEF Onward

(***************************************************************************)
(* The prompt.                                                              *)
(***************************************************************************)
\* What every action does but those of the start: the row goes onward, no prompt
\* is read, and the operation stays where it is or ends.
Resting == Onward(job') /\ prompts' = prompts /\ (op' = op \/ op' = NoOp)

LEMMA RestingKeeps == ASSUME PromptInv, Resting PROVE PromptInv'
<1>1. CASE op' = op
  BY <1>1 DEF PromptInv, Resting, Onward
<1>2. CASE op' = NoOp
  <2>1. op' \in OpRow /\ op'.at \notin BeforePrompt \cup AtPrompt
    BY <1>2 DEF NoOp, OpRow, BeforePrompt, AtPrompt
  <2> QED
    BY <2>1 DEF PromptInv, Resting, Onward
<1> QED
  BY <1>1, <1>2 DEF Resting

\* The world, the queue, the cleanup and the waits leave row and start alone.
LEMMA OthersRest ==
    ASSUME job \in JobRow,
           \/ Agents \/ Press \/ NoticeTaken \/ NoticeSettled \/ Cleaning
           \/ SteerRead \/ CancelJoins \/ CancelKeys \/ Stop \/ Stopped \/ Crash
           \/ UNCHANGED vars
    PROVE  Resting
<1>1. job' = job /\ prompts' = prompts /\ (op' = op \/ op' = NoOp)
  BY DEF Agents, AgentReports, AgentTurns, AgentVanishes, Press, NoticeTaken, NoticeSettled,
         Cleaning, CleanStart, CleanLooked, CleanSends, CleanObserved, SteerRead, CancelJoins,
         CancelKeys, Stop, Stopped, Crash, Forgotten, vars, row, memory, outside, counts
<1> QED
  BY <1>1, SameOnward DEF Resting

\* A steer, a cancellation, the care for a scheduled job, a notice and a recovery
\* write the row, and never back to before the prompt.
LEMMA SteeringRests == ASSUME job \in JobRow, Steering PROVE Resting
<1> USE DEF row, memory, outside, counts
<1>1. CASE SteerQueued
  <2>1. job' = [job EXCEPT !.steer = "accepted"] /\ prompts' = prompts /\ op' = op
    BY <1>1 DEF SteerQueued
  <2> QED
    BY <2>1, SteerWritten, Words DEF Resting, Onward
<1>2. CASE SteerBegin
  <2>1. job' = [job EXCEPT !.steer = "dispatching"] /\ prompts' = prompts /\ op' = op
    BY <1>2 DEF SteerBegin
  <2> QED
    BY <2>1, SteerWritten, Words DEF Resting, Onward
<1>3. CASE SteerRead
  BY <1>3, OthersRest
<1>4. CASE SteerAnswered
  <2> DEFINE code == IF job.status \in Terminal THEN "terminal_steer_worker_unverified" ELSE job.code
             t == [job EXCEPT !.steer = "accepted", !.code = code]
  <2>1. code \in Code /\ "accepted" \in Steer /\ "none" \in Steer /\ "other" \in Code /\ "running" \in Status
    BY Words DEF JobRow
  <2>2. /\ \/ job' = job
           \/ job' = t
           \/ job' = ClearSteer(Blocked("running"))
           \/ job' = ClearSteer(NeedsReview("other"))
           \/ job' = NeedsReview("other")
        /\ prompts' = prompts /\ op' = op
    BY <1>4 DEF SteerAnswered
  <2> HIDE DEF code
  <2>3. t \in JobRow /\ t.status = job.status
    BY <2>1 DEF JobRow
  <2> HIDE DEF t
  <2>4. \A j \in JobRow : ClearSteer(j) \in JobRow /\ ClearSteer(j).status = j.status
    BY <2>1, SteerWritten DEF ClearSteer
  <2>5. Onward(Blocked("running")) /\ Onward(NeedsReview("other"))
    BY <2>1, OthersOnward, NeedsReviewOnward
  <2>6. Onward(job')
    BY <2>2, <2>3, <2>4, <2>5, SameOnward DEF Onward
  <2> QED
    BY <2>2, <2>6 DEF Resting
<1> QED
  BY <1>1, <1>2, <1>3, <1>4 DEF Steering

LEMMA CancelBeginOnward == ASSUME job \in JobRow, CancelBegin PROVE Onward(job')
<1>1. \/ job' = Unfinished("cancelled", "cancelled")
      \/ job' = Unfinished("cancelling", "cancel_worker_unverified")
  BY DEF CancelBegin
<1>2. /\ "cancelled" \in Status \ Early /\ "cancelling" \in Status \ Early
      /\ "cancelled" \in Code /\ "cancel_worker_unverified" \in Code
  BY Words
<1> QED
  BY <1>1, <1>2, UnfinishedRow DEF Onward

LEMMA CancellingRests == ASSUME job \in JobRow, Cancelling PROVE Resting
<1>1. prompts' = prompts /\ op' = op
  BY DEF Cancelling, CancelRequested, CancelStale, CancelJoins, CancelKeys, CancelAbsent,
         CancelAnswered, CancelWatched, row, outside, counts
<1>2. \/ job' = job \/ job' = Cancelled \/ CancelBegin \/ TryComplete
      \/ \E c \in {"stale_preparing_agent_unverified", "cancel_acceptance_unknown", "cancel_exit_unknown"} :
           job' = NeedsReview(c)
  BY DEF Cancelling, CancelRequested, CancelStale, CancelJoins, CancelKeys, CancelAbsent,
         CancelAnswered, CancelWatched, row, outside, counts
<1>3. Onward(job')
  BY <1>2, SameOnward, OthersOnward, CancelBeginOnward, TryCompleteOnward, NeedsReviewOnward, Words
<1> QED
  BY <1>1, <1>3 DEF Resting

LEMMA CodeWritten ==
    ASSUME NEW j \in JobRow, NEW c \in Code
    PROVE  [j EXCEPT !.code = c] \in JobRow /\ [j EXCEPT !.code = c].status = j.status
  BY DEF JobRow

LEMMA StopNotedOnward ==
    ASSUME job \in JobRow, NEW stopped \in BOOLEAN, StopNoted(stopped) PROVE Onward(job')
<1> DEFINE code == IF stopped THEN "invalid_result_agent_stopped" ELSE "invalid_result_agent_stop_unknown"
           saved == IF file = "failed" THEN "other" ELSE "none"
<1>1. code \in Code /\ saved \in Code
  BY Words
<1>2. \/ job' = job
      \/ file \in Valid /\ job' = [Saved EXCEPT !.code = saved]
      \/ job' = [job EXCEPT !.code = code]
  BY DEF StopNoted
<1> HIDE DEF code, saved
<1>3. CASE file \in Valid /\ job' = [Saved EXCEPT !.code = saved]
  BY <1>1, <1>3, SavedOnward, CodeWritten DEF Onward
<1>4. CASE job' = [job EXCEPT !.code = code]
  BY <1>1, <1>4, CodeWritten DEF Onward
<1> QED
  BY <1>2, <1>3, <1>4, SameOnward

LEMMA CaringRests == ASSUME job \in JobRow, Caring PROVE Resting
<1> USE DEF row, outside, counts, memory
<1>1. prompts' = prompts /\ op' = op
  BY DEF Caring, Reconcile, RecLooked, RecStops, RecStopWatched, RecProbed, PressedOn,
         PressCancels, RuntimeCleaned
<1>2. CASE RuntimeCleaned
  <2> DEFINE code == CASE job.code = "workspace_cleanup_failed" -> "other"
                       [] job.code \in {"terminal_steer_worker_unverified", "cancel_worker_unverified"} -> "none"
                       [] OTHER -> job.code
             t == [job EXCEPT !.workspace = FALSE, !.code = code]
  <2>1. code \in {"other", "none", job.code}
    OBVIOUS
  <2>2. code \in Code
    BY <2>1, Words DEF JobRow
  <2>3. job' = t
    BY <1>2 DEF RuntimeCleaned
  <2> HIDE DEF code
  <2>4. t \in JobRow /\ t.status = job.status
    BY <2>2 DEF JobRow
  <2> HIDE DEF t
  <2> QED
    BY <1>1, <2>3, <2>4 DEF Resting, Onward
<1>3. CASE Settled
  <2>1. job' = job \/ job' = Unfinished("cancelled", "cancelled")
    BY <1>3 DEF Settled
  <2> QED
    BY <1>1, <2>1, SameOnward, UnfinishedRow, Words DEF Resting, Onward
<1>4. CASE Caring /\ ~RuntimeCleaned /\ ~Settled
  <2>1. job' = job \/ TryComplete \/ StopNoted(TRUE) \/ StopNoted(FALSE) \/ CancelBegin
    BY <1>4 DEF Caring, Reconcile, RecLooked, RecStops, RecStopWatched, RecProbed, PressedOn, PressCancels
  <2> QED
    BY <1>1, <2>1, SameOnward, TryCompleteOnward, StopNotedOnward, CancelBeginOnward DEF Resting
<1> QED
  BY <1>2, <1>3, <1>4

LEMMA PublishRests == ASSUME job \in JobRow, Publish PROVE Resting
<1> DEFINE t == [job EXCEPT !.told = @ \cup {job.status}]
<1>1. job' = t /\ prompts' = prompts /\ op' = op
  BY DEF Publish, memory, counts
<1>2. t \in JobRow /\ t.status = job.status
  BY DEF JobRow
<1> HIDE DEF t
<1> QED
  BY <1>1, <1>2 DEF Resting, Onward

LEMMA RestartRests == ASSUME job \in JobRow, Restart PROVE Resting
  BY RecoveredOnward DEF Restart, Resting, memory, counts

\* What follows the prompt's answer: the operation ends or goes on to wait.
LEMMA WatchingKeeps == ASSUME PromptInv, Watching PROVE PromptInv'
<1>1. CASE op' = NoOp
  <2>1. job \in JobRow /\ prompts' = prompts
    BY DEF PromptInv, Watching, MonitorReads, MonitorWaited, counts
  <2>2. \/ job' = job \/ TryComplete \/ job' = Blocked("running")
        \/ \E c \in {"other", "agent_wait_observation_unknown"} : job' = NeedsReview(c)
    BY DEF Watching, MonitorReads, MonitorWaited
  <2>3. Onward(job')
    BY <2>1, <2>2, SameOnward, TryCompleteOnward, OthersOnward, NeedsReviewOnward, Words
  <2> QED
    BY <1>1, <2>1, <2>3, RestingKeeps DEF Resting
<1>2. CASE op' = [op EXCEPT !.at = "wait"] /\ UNCHANGED <<job, prompts>>
  <2>1. op' \in OpRow /\ op'.at = "wait"
    BY <1>2 DEF PromptInv, OpRow
  <2> QED
    BY <1>2, <2>1 DEF PromptInv, BeforePrompt, AtPrompt
<1> QED
  BY <1>1, <1>2 DEF Watching, MonitorReads, MonitorWaited, OpEnds, OpAt, counts

\* The start, action by action.  A job comes back to be started only from an
\* attempt whose prompt was not read, and a prompt is sent by a new operation.
LEMMA StartingKeeps == ASSUME PromptInv, Starting PROVE PromptInv'
<1> USE DEF row, outside, counts, memory
<1>1. job \in JobRow /\ op \in OpRow
  BY DEF PromptInv
<1>2. CASE Promote
  <2> DEFINE t == [job EXCEPT !.status = "queued"]
  <2>1. job' = t /\ job.status \in Early /\ prompts' = prompts /\ op' = op
    BY <1>2 DEF Promote, Early
  <2>2. "queued" \in Status
    BY DEF Status, Waiting
  <2>3. t \in JobRow
    BY <1>1, <2>2 DEF JobRow
  <2> HIDE DEF t
  <2> QED
    BY <2>1, <2>3, RestingKeeps DEF Resting, Onward
<1>3. CASE Launch
  <2>1. job' = job /\ prompts' = prompts
    BY <1>3 DEF Launch
  <2>2. op' \in OpRow /\ op'.at \in {"access", "ingest"} /\ ~op'.read
    BY <1>3 DEF Launch, NoOp, OpRow, BeforePrompt
  <2> QED
    BY <2>1, <2>2 DEF PromptInv, AtPrompt
<1>4. CASE StartChecked
  <2>1. CASE op' = NoOp
    <3>1. prompts' = prompts /\ (job' = NeedsReview("other") \/ job' = job)
      BY <1>4, <2>1 DEF StartChecked, OpAt, NoOp
    <3> QED
      BY <1>1, <2>1, <3>1, SameOnward, NeedsReviewOnward, Words, RestingKeeps DEF Resting
  <2>2. CASE op' # NoOp
    <3> DEFINE t == [job EXCEPT !.status = "preparing", !.code = "none", !.steer = "none", !.attempts = @ + 1]
               o == [op EXCEPT !.at = "prepare"]
    <3>1. /\ op.at = "access" /\ prompts' = prompts /\ job.status \in Waiting
          /\ job' = t /\ op' = o
      BY <1>4, <2>2 DEF StartChecked, OpAt, OpEnds
    <3>2. "preparing" \in Status /\ "none" \in Code /\ "none" \in Steer /\ job.status \in Early
      BY <3>1, Words DEF Early
    <3>3. t \in JobRow
      <4> DEFINE n == job.attempts + 1
      <4>1. n \in Nat
        BY <1>1 DEF JobRow
      <4> HIDE DEF n
      <4>2. [job EXCEPT !.status = "preparing", !.code = "none", !.steer = "none", !.attempts = n] \in JobRow
        BY <1>1, <3>2, <4>1 DEF JobRow
      <4> QED
        BY <4>2 DEF n
    <3>4. o \in OpRow /\ o.at = "prepare" /\ o.read = op.read
      BY <1>1 DEF OpRow, BeforePrompt
    <3> HIDE DEF t, o
    <3> QED
      BY <3>1, <3>2, <3>3, <3>4 DEF PromptInv, BeforePrompt, AtPrompt
  <2> QED
    BY <2>1, <2>2
<1>5. CASE PrepareStarts
  <2> DEFINE o == [op EXCEPT !.made = TRUE]
  <2>1. job' = job /\ prompts' = prompts /\ op' = o
    BY <1>5 DEF PrepareStarts
  <2>2. o \in OpRow /\ o.at = op.at /\ o.read = op.read
    BY <1>1 DEF OpRow
  <2> HIDE DEF o
  <2> QED
    BY <2>1, <2>2 DEF PromptInv
<1>6. CASE Prepared
  <2> DEFINE t == [job EXCEPT !.workspace = TRUE]
             o == [op EXCEPT !.at = "baseline"]
  <2>1. /\ op.at = "prepare" /\ prompts' = prompts
        /\ (job' = t /\ op' = o) \/ (job' = job /\ op' = NoOp)
    BY <1>6 DEF Prepared, OpAt, OpEnds
  <2>2. t \in JobRow /\ t.status = job.status
    BY <1>1 DEF JobRow
  <2>3. o \in OpRow /\ o.at = "baseline" /\ o.read = op.read
    BY <1>1 DEF OpRow, BeforePrompt
  <2> HIDE DEF t, o
  <2>4. CASE job' = t /\ op' = o
    BY <2>1, <2>2, <2>3, <2>4 DEF PromptInv, BeforePrompt, AtPrompt
  <2>5. CASE job' = job /\ op' = NoOp
    BY <1>1, <2>1, <2>5, SameOnward, RestingKeeps DEF Resting
  <2> QED
    BY <2>1, <2>4, <2>5
<1>7. CASE PrepareFails
  <2>1. /\ prompts' = prompts /\ op' = NoOp
        /\ \/ job' = job
           \/ job' = NeedsReview("stale_preparing_agent_unverified")
           \/ job.status = "preparing" /\ job' = Retried("other")
    BY <1>7 DEF PrepareFails, OpEnds
  <2> QED
    BY <1>1, <2>1, SameOnward, NeedsReviewOnward, OthersOnward, Words, RestingKeeps DEF Resting
<1>8. CASE PrepareLeaks
  <2> DEFINE n == NeedsReview("workspace_cleanup_failed")
             t == [n EXCEPT !.workspace = TRUE]
  <2>1. prompts' = prompts /\ op' = NoOp /\ (job' = job \/ job' = t)
    BY <1>8 DEF PrepareLeaks, OpEnds
  <2>2. Onward(n)
    BY <1>1, NeedsReviewOnward, Words
  <2> HIDE DEF n
  <2>3. n \in JobRow => t \in JobRow /\ t.status = n.status
    BY DEF JobRow
  <2> HIDE DEF t
  <2>4. Onward(t)
    BY <2>2, <2>3 DEF Onward
  <2> QED
    BY <1>1, <2>1, <2>4, SameOnward, RestingKeeps DEF Resting
<1>9. CASE BaselineRead
  <2>1. CASE op' = NoOp
    <3>1. prompts' = prompts /\ job' = job
      BY <1>9, <2>1 DEF BaselineRead, OpEnds, NoOp
    <3> QED
      BY <1>1, <2>1, <3>1, SameOnward, RestingKeeps DEF Resting
  <2>2. CASE op' # NoOp
    <3> DEFINE t == [job EXCEPT !.status = "dispatching", !.sent = TRUE]
               o(known) == [op EXCEPT !.at = "prompt", !.known = known]
    <3>1. /\ op.at = "baseline" /\ job.status = "preparing" /\ prompts' = prompts /\ job' = t
          /\ \E known \in BOOLEAN : op' = o(known)
      BY <1>9, <2>2 DEF BaselineRead, OpEnds
    <3>2. "dispatching" \in Status \ Early /\ job.status \in Early
      BY <3>1, Words DEF Early
    <3>3. t \in JobRow /\ t.status = "dispatching"
      BY <1>1, <3>2 DEF JobRow
    <3>4. \A known \in BOOLEAN : o(known) \in OpRow /\ o(known).at = "prompt"
      BY <1>1 DEF OpRow, AtPrompt
    <3> HIDE DEF t, o
    <3> QED
      BY <3>1, <3>2, <3>3, <3>4 DEF PromptInv, BeforePrompt
  <2> QED
    BY <2>1, <2>2
<1>10. CASE PromptRead
  <2> DEFINE o == [op EXCEPT !.read = TRUE]
  <2>1. /\ op.at \in AtPrompt /\ ~op.read /\ job' = job
        /\ op' = o /\ prompts' = prompts + 1
    BY <1>10 DEF PromptRead, AtPrompt
  <2>2. o \in OpRow /\ o.at = op.at /\ o.read = TRUE
    BY <1>1 DEF OpRow
  <2> HIDE DEF o
  <2> QED
    BY <2>1, <2>2 DEF PromptInv, BeforePrompt, AtPrompt
<1>11. CASE PromptAnswered
  <2>1. CASE op' = NoOp
    <3>1. /\ prompts' = prompts
          /\ \/ job' = job
             \/ \E c \in {"prompt_interrupted", "other", "prompt_acceptance_unknown"} : job' = NeedsReview(c)
             \/ op.at \in AtPrompt /\ ~op.read /\ job' = Retried("other")
             \/ job' = Blocked("dispatching")
      BY <1>11, <2>1 DEF PromptAnswered, OpAt, NoOp, AtPrompt
    <3>2. CASE op.at \in AtPrompt /\ ~op.read /\ job' = Retried("other")
      <4>1. Unfinished("failed", "other") \in JobRow /\ Unfinished("retryable_failed", "other") \in JobRow
        BY <1>1, UnfinishedRow, Words DEF Early
      <4>2. job' \in JobRow
        BY <3>2, <4>1 DEF Retried
      <4>3. op' \in OpRow /\ op'.at = "none"
        BY <2>1 DEF NoOp, OpRow
      <4> QED
        BY <3>1, <3>2, <4>2, <4>3 DEF PromptInv, BeforePrompt, AtPrompt
    <3>3. CASE job' = Blocked("dispatching")
      BY <1>1, <2>1, <3>1, <3>3, OthersOnward, Words, RestingKeeps DEF Resting
    <3>4. CASE \E c \in Code : job' = NeedsReview(c)
      BY <1>1, <2>1, <3>1, <3>4, NeedsReviewOnward, RestingKeeps DEF Resting
    <3>5. CASE job' = job
      BY <1>1, <2>1, <3>1, <3>5, SameOnward, RestingKeeps DEF Resting
    <3> QED
      BY <3>1, <3>2, <3>3, <3>4, <3>5, Words
  <2>2. CASE op' # NoOp
    <3> DEFINE o(at) == [op EXCEPT !.at = at]
    <3>1. /\ op.at = "prompt" /\ prompts' = prompts
          /\ \/ op' = o("ingest") /\ job' = Unfinished("running", "none")
             \/ op' = o("reconcile") /\ job' = job
      BY <1>11, <2>2 DEF PromptAnswered, OpAt, OpEnds
    <3>2. /\ o("ingest") \in OpRow /\ o("ingest").at = "ingest"
          /\ o("reconcile") \in OpRow /\ o("reconcile").at = "reconcile" /\ o("reconcile").read = op.read
      BY <1>1 DEF OpRow, AtPrompt
    <3> HIDE DEF o
    <3>3. Unfinished("running", "none") \in JobRow /\ Unfinished("running", "none").status \notin Early
      BY <1>1, UnfinishedRow, Words
    <3> QED
      BY <3>1, <3>2, <3>3 DEF PromptInv, BeforePrompt, AtPrompt
  <2> QED
    BY <2>1, <2>2
<1>12. CASE StalledPrompt
  <2>1. CASE op' = NoOp
    <3>1. /\ prompts' = prompts
          /\ \/ job' = job
             \/ \E c \in {"prompt_interrupted", "other", "invalid_result"} : job' = NeedsReview(c)
             \/ file \in Valid /\ job' = Saved
             \/ job' = Unfinished("blocked", "other")
      BY <1>12, <2>1 DEF StalledPrompt, AcceptLate, OpAt, NoOp
    <3>2. Onward(job')
      BY <1>1, <3>1, SameOnward, NeedsReviewOnward, SavedOnward, UnfinishedRow, Words DEF Onward
    <3> QED
      BY <2>1, <3>1, <3>2, RestingKeeps DEF Resting
  <2>2. CASE op' # NoOp
    <3> DEFINE o == [op EXCEPT !.at = "ingest"]
    <3>1. op' = o /\ job' = Unfinished("running", "none") /\ prompts' = prompts
      BY <1>12, <2>2 DEF StalledPrompt, OpAt, OpEnds
    <3>2. o \in OpRow /\ o.at = "ingest"
      BY <1>1 DEF OpRow
    <3> HIDE DEF o
    <3>3. Unfinished("running", "none") \in JobRow /\ Unfinished("running", "none").status \notin Early
      BY <1>1, UnfinishedRow, Words
    <3> QED
      BY <3>1, <3>2, <3>3 DEF PromptInv, BeforePrompt, AtPrompt
  <2> QED
    BY <2>1, <2>2
<1> QED
  BY <1>2, <1>3, <1>4, <1>5, <1>6, <1>7, <1>8, <1>9, <1>10, <1>11, <1>12 DEF Starting

LEMMA PromptStep == ASSUME PromptInv, [Next]_vars PROVE PromptInv'
<1>1. job \in JobRow
  BY DEF PromptInv
<1> QED
  BY <1>1, OthersRest, SteeringRests, CancellingRests, CaringRests, PublishRests, RestartRests,
     RestingKeeps, StartingKeeps, WatchingKeeps DEF Next, Telling, Running

(***************************************************************************)
(* The terminal cleanup.                                                    *)
(***************************************************************************)
LEMMA CleanStep == ASSUME CleanInv, [Next]_vars PROVE CleanInv'
<1> USE DEF CleanInv
<1>1. CASE UNCHANGED <<cleanup, keys>> /\ (clean' = clean \/ clean' = "none")
  BY <1>1
<1>2. CASE CleanStart
  BY <1>2 DEF CleanStart, CleanAt, row, counts
<1>3. CASE CleanLooked
  BY <1>3 DEF CleanLooked, CleanAt, counts
<1>4. CASE CleanSends
  BY <1>4 DEF CleanSends, CleanAt, row
<1>5. CASE CleanObserved
  BY <1>5 DEF CleanObserved, CleanAt, counts
<1>6. CASE Agents \/ Press \/ Telling
  BY <1>1, <1>6 DEF Agents, AgentReports, AgentTurns, AgentVanishes, Press, Telling, Publish,
     NoticeTaken, NoticeSettled, row, memory, counts
<1>7. CASE Starting
  BY <1>1, <1>7 DEF Starting, Promote, Launch, StartChecked, PrepareStarts, Prepared, PrepareFails,
     PrepareLeaks, BaselineRead, PromptRead, PromptAnswered, StalledPrompt, row, memory, counts
<1>8. CASE Watching \/ Steering
  BY <1>1, <1>8 DEF Watching, MonitorReads, MonitorWaited, Steering, SteerQueued, SteerBegin,
     SteerRead, SteerAnswered, row, memory, counts
<1>9. CASE Cancelling
  BY <1>1, <1>9 DEF Cancelling, CancelRequested, CancelStale, CancelJoins, CancelKeys, CancelAbsent,
     CancelAnswered, CancelWatched, row, counts
<1>10. CASE Caring
  BY <1>1, <1>10 DEF Caring, Reconcile, RecLooked, RecStops, RecStopWatched, RecProbed, PressedOn,
     PressCancels, RuntimeCleaned, row, memory, counts
<1>11. CASE Running
  BY <1>1, <1>11 DEF Running, Stop, Stopped, Crash, Restart, Forgotten, row, memory, counts
<1>12. CASE UNCHANGED vars
  BY <1>1, <1>12 DEF vars, row, memory, counts
<1> QED
  BY <1>1, <1>2, <1>3, <1>4, <1>5, <1>6, <1>7, <1>8, <1>9, <1>10, <1>11, <1>12 DEF Next, Cleaning

(***************************************************************************)
(* The other types, and the attempts.                                       *)
(***************************************************************************)
Notice == [at : {"none", "queued", "held", "done"}, of : Status \cup {"none"}]
CtlRow == [at : {"none", "steer", "stale", "join", "send", "sent", "watch"},
           unprompted : BOOLEAN, read : BOOLEAN]
RecAts == {"none", "look", "stop", "stopWatch", "probe", "press", "cancel"}
AgentStates == {"absent", "idle", "working", "blocked"}

OtherTypes ==
    /\ kind \in {"slack", "schedule"}
    /\ notice \in Notice
    /\ cleanup \in {"pending", "attempting", "stopped", "unknown"}
    /\ file \in Valid \cup {"none", "invalid"}
    /\ agent \in AgentStates
    /\ pressed \in {"none", "withdrawn", "overdue"}
    /\ process \in {"up", "stopping", "down"}
    /\ ctl \in CtlRow
    /\ rec \in RecAts
    /\ clean \in {"none", "look", "send", "observe"}
    /\ steers \in 0..SteerLimit /\ crashes \in 0..CrashLimit

\* An attempt is spent when the preparation begins.  A job that waits, and a row
\* that a restart may return to waiting, has one left.
Attempted ==
    /\ job.attempts <= MaxAttempts + crashes
    /\ job.status \in Waiting \/ process # "up" => job.attempts < MaxAttempts + crashes

LEMMA NoCtlTyped == NoCtl \in CtlRow /\ NoCtl.at = "none" /\ ~NoCtl.unprompted
  BY DEF NoCtl, CtlRow

LEMMA CtlWritten ==
    ASSUME ctl \in CtlRow,
           NEW at \in {"none", "steer", "stale", "join", "send", "sent", "watch"}
    PROVE  /\ [ctl EXCEPT !.at = at] \in CtlRow
           /\ [ctl EXCEPT !.at = at].at = at
           /\ [ctl EXCEPT !.at = at].unprompted = ctl.unprompted
  BY DEF CtlRow

LEMMA NoticeWritten ==
    ASSUME job \in JobRow
    PROVE  /\ NoNotice \in Notice /\ SupersededNotice \in Notice
           /\ file \in Valid => SavedNotice \in Notice
           /\ [at |-> "queued", of |-> job.status] \in Notice
           /\ \A at \in {"held", "done"} : notice \in Notice => [notice EXCEPT !.at = at] \in Notice
<1>1. job.status \in Status /\ Valid \subseteq Status
  BY Words DEF JobRow
<1> QED
  BY <1>1 DEF Notice, NoNotice, SupersededNotice, SavedNotice

LEMMA TryCompleteNotice ==
    ASSUME job \in JobRow, notice \in Notice, TryComplete PROVE notice' \in Notice
  BY NoticeWritten DEF TryComplete

LEMMA CancelBeginOthers ==
    ASSUME job \in JobRow, CancelBegin PROVE notice' \in Notice /\ ctl' \in CtlRow
<1> DEFINE stale == job.status = "retryable_failed" /\ job.code = "stale_preparing"
           at == IF stale THEN "stale"
                 ELSE IF job.status \in {"preparing", "dispatching"} THEN "join" ELSE "send"
           un == job.status = "preparing" \/ job.code \in Unprompted
<1>1. /\ notice' = SupersededNotice
      /\ ctl' = NoCtl \/ ctl' = [at |-> at, unprompted |-> un, read |-> FALSE]
  BY DEF CancelBegin
<1>2. at \in {"stale", "join", "send"} /\ un \in BOOLEAN
  OBVIOUS
<1> HIDE DEF at, un
<1>3. [at |-> at, unprompted |-> un, read |-> FALSE] \in CtlRow
  BY <1>2 DEF CtlRow
<1> QED
  BY <1>1, <1>3, NoticeWritten, NoCtlTyped

LEMMA StopNotedNotice ==
    ASSUME job \in JobRow, notice \in Notice, NEW stopped \in BOOLEAN, StopNoted(stopped)
    PROVE  notice' \in Notice
  BY NoticeWritten DEF StopNoted

LEMMA InterruptedAgent ==
    agent \in AgentStates => Interrupted \subseteq AgentStates
  BY DEF Interrupted, AgentStates

LEMMA StartingFrame ==
    ASSUME Starting
    PROVE  /\ UNCHANGED <<kind, notice, cleanup, file, pressed, process, ctl, rec, clean, keys, steers, crashes>>
           /\ agent' \in {agent, "idle", "absent", "working"}
<1> USE DEF row, outside, memory, counts
<1>1. CASE Promote \/ Launch \/ StartChecked
  BY <1>1 DEF Promote, Launch, StartChecked
<1>2. CASE PrepareStarts \/ Prepared
  BY <1>2 DEF PrepareStarts, Prepared
<1>3. CASE PrepareFails
  <2>1. agent' = IF op.made THEN "absent" ELSE agent
    BY <1>3 DEF PrepareFails
  <2> QED
    BY <1>3, <2>1 DEF PrepareFails
<1>4. CASE PrepareLeaks
  BY <1>4 DEF PrepareLeaks
<1>5. CASE BaselineRead
  BY <1>5 DEF BaselineRead
<1>7. CASE PromptRead
  BY <1>7 DEF PromptRead
<1>6. CASE PromptAnswered \/ StalledPrompt
  BY <1>6 DEF PromptAnswered, StalledPrompt
<1> QED
  BY <1>1, <1>2, <1>3, <1>4, <1>5, <1>6, <1>7 DEF Starting

LEMMA OtherTypesStep == ASSUME job \in JobRow, OtherTypes, [Next]_vars PROVE OtherTypes'
<1> USE Limits DEF OtherTypes, row, outside, memory, counts
<1>1. CASE Agents
  BY <1>1 DEF Agents, AgentReports, AgentTurns, AgentVanishes, AgentStates
<1>2. CASE Press
  BY <1>2 DEF Press
<1>3. CASE NoticeTaken \/ NoticeSettled \/ Publish
  <2>1. notice' \in Notice
    BY <1>3, NoticeWritten DEF NoticeTaken, NoticeSettled, Publish
  <2> QED
    BY <1>3, <2>1 DEF NoticeTaken, NoticeSettled, Publish
<1>4. CASE Starting
  <2>1. /\ UNCHANGED <<kind, notice, cleanup, file, pressed, process, ctl, rec, clean, steers, crashes>>
        /\ agent' \in {agent, "idle", "absent", "working"}
    BY <1>4, StartingFrame DEF AgentStates
  <2> QED
    BY <2>1 DEF AgentStates
<1>5. CASE Watching
  <2>1. notice' = notice \/ TryComplete
    BY <1>5 DEF Watching, MonitorReads, MonitorWaited
  <2>2. notice' \in Notice
    BY <2>1, TryCompleteNotice
  <2> QED
    BY <1>5, <2>2 DEF Watching, MonitorReads, MonitorWaited
<1>6. CASE Steering
  <2>1. CASE SteerQueued
    BY <2>1 DEF SteerQueued
  <2>2. CASE SteerBegin
    <3>1. ctl' \in CtlRow
      BY <2>2, CtlWritten, NoCtlTyped DEF SteerBegin, CtlAt
    <3> QED
      BY <2>2, <3>1 DEF SteerBegin
  <2>3. CASE SteerRead
    <3>1. ctl' \in CtlRow
      BY <2>3 DEF SteerRead, CtlRow
    <3> QED
      BY <2>3, <3>1 DEF SteerRead, AgentStates
  <2>4. CASE SteerAnswered
    BY <2>4, CtlWritten, NoCtlTyped DEF SteerAnswered, CtlEnds, RecAts
  <2> QED
    BY <1>6, <2>1, <2>2, <2>3, <2>4 DEF Steering
<1>7. CASE Cancelling
  <2>1. /\ UNCHANGED <<kind, cleanup, file, pressed, process, clean, steers, crashes>>
        /\ rec' \in {rec, "none"}
        /\ agent' = agent \/ agent' \in Interrupted
        /\ notice' = notice \/ TryComplete \/ CancelBegin
        /\ CancelBegin \/ ctl' \in {ctl, NoCtl}
             \/ \E at \in {"send", "sent", "watch"} : ctl' = [ctl EXCEPT !.at = at]
    BY <1>7 DEF Cancelling, CancelRequested, CancelStale, CancelJoins, CancelKeys, CancelAbsent,
       CancelAnswered, CancelWatched, CtlEnds, CtlAt
  <2>2. notice' \in Notice
    BY <2>1, TryCompleteNotice, CancelBeginOthers
  <2>3. ctl' \in CtlRow
    BY <2>1, CtlWritten, NoCtlTyped, CancelBeginOthers
  <2>4. agent' \in AgentStates
    BY <2>1, InterruptedAgent
  <2> QED
    BY <2>1, <2>2, <2>3, <2>4 DEF RecAts
<1>8. CASE Caring
  <2>1. /\ UNCHANGED <<kind, cleanup, file, pressed, process, clean, steers, crashes>>
        /\ agent' = agent \/ agent' \in Interrupted \/ agent' = "absent"
    BY <1>8 DEF Caring, Reconcile, RecLooked, RecStops, RecStopWatched, RecProbed, PressedOn,
       PressCancels, RuntimeCleaned
  <2>2. \/ notice' = notice \/ notice' = NoNotice \/ TryComplete \/ CancelBegin
        \/ StopNoted(TRUE) \/ StopNoted(FALSE)
    BY <1>8 DEF Caring, Reconcile, RecLooked, RecStops, RecStopWatched, RecProbed, PressedOn,
       PressCancels, RuntimeCleaned, Settled
  <2>3. notice' \in Notice
    BY <2>2, TryCompleteNotice, CancelBeginOthers, StopNotedNotice, NoticeWritten
  <2>4. ctl' \in CtlRow
    BY <1>8, CancelBeginOthers DEF Caring, Reconcile, RecLooked, RecStops, RecStopWatched,
       RecProbed, PressedOn, PressCancels, RuntimeCleaned
  <2>5. rec' \in RecAts
    BY <1>8 DEF Caring, Reconcile, RecLooked, RecStops, RecStopWatched, RecProbed, PressedOn,
       PressCancels, RuntimeCleaned, RecAt, RecAts
  <2>6. agent' \in AgentStates
    BY <2>1, InterruptedAgent DEF AgentStates
  <2> QED
    BY <2>1, <2>3, <2>4, <2>5, <2>6
<1>9. CASE Cleaning
  <2>1. agent' = agent \/ agent' \in Interrupted
    BY <1>9 DEF Cleaning, CleanStart, CleanLooked, CleanSends, CleanObserved
  <2>2. agent' \in AgentStates
    BY <2>1, InterruptedAgent
  <2> QED
    BY <1>9, <2>2 DEF Cleaning, CleanStart, CleanLooked, CleanSends, CleanObserved, CleanAt
<1>10. CASE Running
  BY <1>10, CtlWritten, NoCtlTyped DEF Running, Stop, Stopped, Crash, Restart, Forgotten, RecAts
<1>11. CASE UNCHANGED vars
  BY <1>11 DEF vars
<1> QED
  BY <1>1, <1>2, <1>3, <1>4, <1>5, <1>6, <1>7, <1>8, <1>9, <1>10, <1>11 DEF Next, Telling

LEMMA AttemptsOf ==
    ASSUME job \in JobRow
    PROVE  /\ \A s, c : Unfinished(s, c).attempts = job.attempts
           /\ \A c : NeedsReview(c).attempts = job.attempts
           /\ Saved.attempts = job.attempts
           /\ Recovered.attempts = job.attempts
  BY DEF Unfinished, NeedsReview, Saved, Recovered, JobRow

\* Whatever moves a row onward leaves its attempts; none but the start, and the
\* restart, makes it wait.
Spends(j) == j.attempts = job.attempts /\ (j.status \in Waiting => job.status \in Waiting)

LEMMA SpendsNone ==
    ASSUME job \in JobRow
    PROVE  /\ Spends(job)
           /\ \A s \in Status, c \in Code : s \notin Waiting => Spends(Unfinished(s, c))
           /\ \A c \in Code : Spends(NeedsReview(c))
           /\ file \in Valid => Spends(Saved)
           /\ \A from \in Status : Spends(Blocked(from))
           /\ Spends(Cancelled)
           /\ TryComplete => Spends(job')
           /\ CancelBegin => Spends(job')
           /\ \A b \in BOOLEAN : StopNoted(b) => Spends(job')
<1>1. \A s \in Status, c \in Code : s \notin Waiting => Spends(Unfinished(s, c))
  BY AttemptsOf, UnfinishedRow DEF Spends
<1>2. ASSUME NEW c \in Code PROVE Spends(NeedsReview(c))
  <2>1. Onward(NeedsReview(c))
    BY NeedsReviewOnward
  <2>2. NeedsReview(c).status \in {job.status, "needs_review"}
    BY DEF NeedsReview, JobRow
  <2> QED
    BY <2>2, AttemptsOf DEF Spends, Waiting
<1>3. ASSUME file \in Valid PROVE Spends(Saved)
  <2>1. Saved.status = file
    BY DEF Saved, JobRow
  <2> QED
    BY <1>3, <2>1, AttemptsOf DEF Spends, Waiting, Valid
<1>4. Spends(job)
  BY DEF Spends
<1>5. \A s \in {"blocked", "cancelled", "cancelling"} : s \in Status /\ s \notin Waiting
  BY Words
<1>6. {"other", "cancelled", "cancel_worker_unverified", "invalid_result"} \subseteq Code
  BY Words
<1>7. \A from \in Status : Spends(Blocked(from))
  BY <1>1, <1>4, <1>5, <1>6 DEF Blocked
<1>8. Spends(Cancelled)
  BY <1>1, <1>4, <1>5, <1>6 DEF Cancelled
<1>9. TryComplete => Spends(job')
  BY <1>2, <1>3, <1>4, <1>6 DEF TryComplete
<1>10. CancelBegin => Spends(job')
  BY <1>1, <1>5, <1>6 DEF CancelBegin
<1>11. ASSUME NEW b \in BOOLEAN, StopNoted(b) PROVE Spends(job')
  <2> DEFINE code == IF b THEN "invalid_result_agent_stopped" ELSE "invalid_result_agent_stop_unknown"
             saved == IF file = "failed" THEN "other" ELSE "none"
  <2>1. \/ job' = job
        \/ file \in Valid /\ job' = [Saved EXCEPT !.code = saved]
        \/ job' = [job EXCEPT !.code = code]
    BY <1>11 DEF StopNoted
  <2> HIDE DEF code, saved
  <2>2. \A j \in JobRow : \A c : /\ [j EXCEPT !.code = c].status = j.status
                             /\ [j EXCEPT !.code = c].attempts = j.attempts
    BY DEF JobRow
  <2>3. file \in Valid => Saved \in JobRow
    BY SavedOnward DEF Onward
  <2>4. CASE file \in Valid /\ job' = [Saved EXCEPT !.code = saved]
    BY <1>3, <2>2, <2>3, <2>4 DEF Spends
  <2>5. CASE job' = [job EXCEPT !.code = code]
    BY <2>2, <2>5 DEF Spends
  <2> QED
    BY <1>4, <2>1, <2>4, <2>5
<1> QED
  BY <1>1, <1>2, <1>3, <1>4, <1>7, <1>8, <1>9, <1>10, <1>11

LEMMA AttemptedStep ==
    ASSUME job \in JobRow, OtherTypes, Attempted, [Next]_vars PROVE Attempted'
<1> USE Limits DEF row, outside, memory, counts
<1>1. job.attempts \in Nat /\ crashes \in Nat
  BY DEF JobRow, OtherTypes
<1> DEFINE Quietly == /\ Spends(job') /\ crashes' = crashes
                      /\ process' = process \/ process # "up"
           Again == /\ crashes' = crashes /\ process' = process /\ job'.attempts = job.attempts
                    /\ job'.status \in Waiting => job.attempts < MaxAttempts
<1>2. CASE Quietly
  BY <1>1, <1>2 DEF Attempted, Spends
<1>3. CASE Again
  BY <1>1, <1>3 DEF Attempted
<1>4. ASSUME job' = Retried("other"), UNCHANGED <<crashes, process>> PROVE Again
  <2>1. /\ Unfinished("failed", "other").status = "failed"
        /\ Unfinished("failed", "other").attempts = job.attempts
        /\ Unfinished("retryable_failed", "other").attempts = job.attempts
    BY AttemptsOf, UnfinishedRow, Words
  <2> QED
    BY <1>1, <1>4, <2>1 DEF Retried, Waiting
<1>5. CASE Agents \/ Press \/ NoticeTaken \/ NoticeSettled \/ Cleaning
  <2>1. UNCHANGED <<job, crashes, process>>
    BY <1>5 DEF Agents, AgentReports, AgentTurns, AgentVanishes, Press, NoticeTaken, NoticeSettled,
       Cleaning, CleanStart, CleanLooked, CleanSends, CleanObserved
  <2> QED
    BY <1>2, <2>1, SpendsNone
<1>6. CASE Starting
  <2>1. UNCHANGED <<crashes, process>>
    BY <1>6, StartingFrame
  <2>2. CASE Promote
    <3>1. job'.attempts = job.attempts /\ job.status \in Waiting
      BY <2>2 DEF Promote, JobRow, Waiting
    <3> QED
      BY <1>2, <2>1, <3>1 DEF Spends
  <2>3. CASE StartChecked
    <3>1. CASE job' = job \/ job' = NeedsReview("other")
      BY <1>2, <2>1, <3>1, SpendsNone, Words
    <3>2. CASE job' # job /\ job' # NeedsReview("other")
      <4>1. /\ job' = [job EXCEPT !.status = "preparing", !.code = "none", !.steer = "none", !.attempts = @ + 1]
            /\ job.status \in Waiting /\ Alive /\ ~Stopping
        BY <2>3, <3>2 DEF StartChecked
      <4>2. job'.attempts = job.attempts + 1 /\ job'.status = "preparing"
        BY <4>1 DEF JobRow
      <4> QED
        BY <1>1, <2>1, <4>1, <4>2 DEF Attempted, Waiting, Stopping, Alive, OtherTypes
    <3> QED
      BY <3>1, <3>2
  <2>4. CASE Launch \/ PrepareStarts \/ PromptRead
    BY <1>2, <2>1, <2>4, SpendsNone DEF Launch, PrepareStarts, PromptRead
  <2>5. CASE Prepared \/ BaselineRead
    <3>1. \/ job' = job \/ job' = [job EXCEPT !.workspace = TRUE]
          \/ job' = [job EXCEPT !.status = "dispatching", !.sent = TRUE]
      <4>1. CASE Prepared
        BY <4>1 DEF Prepared
      <4>2. CASE BaselineRead
        BY <4>2 DEF BaselineRead
      <4> QED
        BY <2>5, <4>1, <4>2
    <3>2. Spends(job')
      BY <3>1 DEF Spends, JobRow, Waiting
    <3> QED
      BY <1>2, <2>1, <3>2
  <2>6. CASE PrepareFails
    BY <1>2, <1>3, <1>4, <2>1, <2>6, SpendsNone, Words DEF PrepareFails
  <2>7. CASE PrepareLeaks
    <3> DEFINE n == NeedsReview("workspace_cleanup_failed")
    <3>1. n \in JobRow /\ Spends(n)
      BY NeedsReviewOnward, SpendsNone, Words DEF Onward
    <3>2. job' = job \/ job' = [n EXCEPT !.workspace = TRUE]
      BY <2>7 DEF PrepareLeaks
    <3> HIDE DEF n
    <3>3. Spends(job')
      BY <3>1, <3>2 DEF Spends, JobRow
    <3> QED
      BY <1>2, <2>1, <3>3
  <2>8. CASE PromptAnswered
    <3>1. \/ job' = Retried("other")
          \/ job' = job \/ job' = Unfinished("running", "none") \/ job' = Blocked("dispatching")
          \/ \E c \in {"prompt_interrupted", "other", "prompt_acceptance_unknown"} : job' = NeedsReview(c)
      BY <2>8 DEF PromptAnswered
    <3>2. job' = Retried("other") \/ Spends(job')
      BY <3>1, SpendsNone, Words DEF Waiting
    <3> QED
      BY <1>2, <1>3, <1>4, <2>1, <3>2
  <2>9. CASE StalledPrompt
    <3>1. \/ job' = job \/ job' = Unfinished("running", "none") \/ job' = Unfinished("blocked", "other")
          \/ file \in Valid /\ job' = Saved
          \/ \E c \in {"prompt_interrupted", "other", "invalid_result"} : job' = NeedsReview(c)
      BY <2>9 DEF StalledPrompt, AcceptLate
    <3>2. Spends(job')
      BY <3>1, SpendsNone, Words DEF Waiting
    <3> QED
      BY <1>2, <2>1, <3>2
  <2> QED
    BY <1>6, <2>2, <2>3, <2>4, <2>5, <2>6, <2>7, <2>8, <2>9 DEF Starting
<1>7. CASE Watching \/ Cancelling
  <2>1. UNCHANGED <<crashes, process>>
    BY <1>7 DEF Watching, MonitorReads, MonitorWaited, Cancelling, CancelRequested, CancelStale,
       CancelJoins, CancelKeys, CancelAbsent, CancelAnswered, CancelWatched
  <2>2. \/ job' = job \/ TryComplete \/ CancelBegin \/ job' = Cancelled \/ job' = Blocked("running")
        \/ \E c \in {"other", "agent_wait_observation_unknown", "stale_preparing_agent_unverified",
                    "cancel_acceptance_unknown", "cancel_exit_unknown"} : job' = NeedsReview(c)
    BY <1>7 DEF Watching, MonitorReads, MonitorWaited, Cancelling, CancelRequested, CancelStale,
       CancelJoins, CancelKeys, CancelAbsent, CancelAnswered, CancelWatched
  <2>3. Spends(job')
    BY <2>2, SpendsNone, Words
  <2> QED
    BY <1>2, <2>1, <2>3
<1>8. CASE Steering
  <2>1. UNCHANGED <<crashes, process>>
    BY <1>8 DEF Steering, SteerQueued, SteerBegin, SteerRead, SteerAnswered
  <2> DEFINE code == IF job.status \in Terminal THEN "terminal_steer_worker_unverified" ELSE job.code
  <2>2. \/ job' = job \/ job' = [job EXCEPT !.steer = "accepted"]
        \/ job' = [job EXCEPT !.steer = "dispatching"]
        \/ job' = [job EXCEPT !.steer = "accepted", !.code = code]
        \/ job' = ClearSteer(Blocked("running")) \/ job' = ClearSteer(NeedsReview("other"))
        \/ job' = NeedsReview("other")
    BY <1>8 DEF Steering, SteerQueued, SteerBegin, SteerRead, SteerAnswered
  <2> HIDE DEF code
  <2>3. /\ Blocked("running") \in JobRow /\ Spends(Blocked("running"))
        /\ NeedsReview("other") \in JobRow /\ Spends(NeedsReview("other"))
    BY SpendsNone, OthersOnward, NeedsReviewOnward, Words DEF Onward
  <2>4. \A j \in JobRow : Spends(j) => Spends(ClearSteer(j))
    BY DEF Spends, ClearSteer, JobRow
  <2>5. CASE job' = ClearSteer(Blocked("running")) \/ job' = ClearSteer(NeedsReview("other"))
          \/ job' = NeedsReview("other") \/ job' = job
    BY <1>2, <2>1, <2>3, <2>4, <2>5, SpendsNone
  <2>6. CASE job' = [job EXCEPT !.steer = "accepted"] \/ job' = [job EXCEPT !.steer = "dispatching"]
          \/ job' = [job EXCEPT !.steer = "accepted", !.code = code]
    <3>1. Spends(job')
      BY <2>6 DEF Spends, JobRow
    <3> QED
      BY <1>2, <2>1, <3>1
  <2> QED
    BY <2>2, <2>5, <2>6
<1>9. CASE Caring \/ Publish
  <2>1. UNCHANGED <<crashes, process>>
    BY <1>9 DEF Caring, Reconcile, RecLooked, RecStops, RecStopWatched, RecProbed, PressedOn,
       PressCancels, RuntimeCleaned, Publish
  <2>2. \/ job' = job \/ TryComplete \/ CancelBegin \/ StopNoted(TRUE) \/ StopNoted(FALSE)
        \/ job' = Unfinished("cancelled", "cancelled")
        \/ RuntimeCleaned \/ Publish
    BY <1>9 DEF Caring, Reconcile, RecLooked, RecStops, RecStopWatched, RecProbed, PressedOn,
       PressCancels, Settled
  <2>3. CASE RuntimeCleaned \/ Publish
    <3> DEFINE code == CASE job.code = "workspace_cleanup_failed" -> "other"
                         [] job.code \in {"terminal_steer_worker_unverified", "cancel_worker_unverified"} -> "none"
                         [] OTHER -> job.code
    <3>1. \/ job' = [job EXCEPT !.workspace = FALSE, !.code = code]
          \/ job' = [job EXCEPT !.told = @ \cup {job.status}]
      BY <2>3 DEF RuntimeCleaned, Publish
    <3> HIDE DEF code
    <3>2. Spends(job')
      BY <3>1 DEF Spends, JobRow
    <3> QED
      BY <1>2, <2>1, <3>2
  <2>4. CASE ~(RuntimeCleaned \/ Publish)
    <3>1. Spends(job')
      BY <2>2, <2>4, SpendsNone, Words DEF Waiting
    <3> QED
      BY <1>2, <2>1, <3>1
  <2> QED
    BY <2>3, <2>4
<1>10. CASE Running
  <2>1. CASE Stopped
    BY <1>2, <2>1, SpendsNone DEF Stopped
  <2>2. CASE Stop \/ Crash
    BY <1>1, <2>2 DEF Stop, Crash, Attempted
  <2>3. CASE Restart
    BY <1>1, <2>3, AttemptsOf DEF Restart, Attempted
  <2> QED
    BY <1>10, <2>1, <2>2, <2>3 DEF Running
<1>11. CASE UNCHANGED vars
  BY <1>2, <1>11, SpendsNone DEF vars
<1> QED
  BY <1>5, <1>6, <1>7, <1>8, <1>9, <1>10, <1>11 DEF Next, Telling

(***************************************************************************)
(* A finished job.                                                          *)
(***************************************************************************)
\* The guards of the writes: on a finished job none of them does anything.
LEMMA FinishedWrites ==
    ASSUME job.status \in Terminal
    PROVE  /\ \A c : NeedsReview(c) = job
           /\ \A from \in {"running", "dispatching"} : Blocked(from) = job
           /\ Cancelled = job
           /\ TryComplete => job' = job
           /\ ~CancelBegin
           /\ \A b \in BOOLEAN : StopNoted(b) => job' = job
           /\ Settled => job' = job
  BY DEF Terminal, NeedsReview, Blocked, Cancelled, TryComplete, MaySave, CancelBegin, Cancellable,
         StopNoted, Settled

LEMMA FinishedStays ==
    ASSUME job \in JobRow, [Next]_vars, job.status \in Terminal
    PROVE  job'.status = job.status \/ job.steer = "dispatching"
<1> USE DEF row, outside, memory, counts
<1>1. \A j \in JobRow : ClearSteer(j).status = j.status
  BY DEF ClearSteer, JobRow
<1>2. CASE Agents \/ Press \/ NoticeTaken \/ NoticeSettled \/ Cleaning \/ Stop \/ Stopped \/ Crash
             \/ UNCHANGED vars
  <2>1. job' = job
    BY <1>2 DEF Agents, AgentReports, AgentTurns, AgentVanishes, Press, NoticeTaken, NoticeSettled,
       Cleaning, CleanStart, CleanLooked, CleanSends, CleanObserved, Stop, Stopped, Crash, vars
  <2> QED
    BY <2>1
<1>3. CASE Promote \/ Launch \/ StartChecked \/ PrepareStarts \/ PromptRead
  <2>1. job' = job
    BY <1>3, FinishedWrites DEF Promote, Launch, StartChecked, PrepareStarts, PromptRead, Waiting, Terminal
  <2> QED
    BY <2>1
<1>4. CASE Prepared \/ PrepareFails \/ PrepareLeaks \/ BaselineRead
  <2>1. job' = job
    <3>1. job.status \notin {"preparing", "cancelling"}
      BY DEF Terminal
    <3>2. CASE Prepared
      BY <3>1, <3>2 DEF Prepared
    <3>3. CASE PrepareFails \/ PrepareLeaks
      BY <3>1, <3>3 DEF PrepareFails, PrepareLeaks
    <3>4. CASE BaselineRead
      BY <3>1, <3>4 DEF BaselineRead
    <3> QED
      BY <1>4, <3>2, <3>3, <3>4
  <2> QED
    BY <2>1
<1>5. CASE PromptAnswered \/ StalledPrompt
  <2>1. job' = job
    BY <1>5, FinishedWrites DEF PromptAnswered, StalledPrompt, AcceptLate, Terminal
  <2> QED
    BY <2>1
<1>6. CASE Watching
  <2>1. job' = job
    BY <1>6, FinishedWrites DEF Watching, MonitorReads, MonitorWaited
  <2> QED
    BY <2>1
<1>7. CASE Steering
  <2> DEFINE code == IF job.status \in Terminal THEN "terminal_steer_worker_unverified" ELSE job.code
  <2>1. \/ job' = job \/ job' = ClearSteer(job)
        \/ job' = [job EXCEPT !.steer = "accepted", !.code = code]
    BY <1>7, FinishedWrites DEF Steering, SteerQueued, SteerBegin, SteerRead, SteerAnswered,
       Waiting, Terminal
  <2> HIDE DEF code
  <2> QED
    BY <1>1, <2>1 DEF JobRow
<1>8. CASE Cancelling
  <2>1. ~CancelRequested
    BY FinishedWrites DEF CancelRequested
  <2>2. CASE CancelStale \/ CancelAnswered
    BY <2>2, FinishedWrites DEF CancelStale, CancelAnswered
  <2>3. CASE CancelJoins \/ CancelKeys
    BY <2>3 DEF CancelJoins, CancelKeys
  <2>4. CASE CancelAbsent \/ CancelWatched
    BY <2>4, FinishedWrites DEF CancelAbsent, CancelWatched
  <2> QED
    BY <1>8, <2>1, <2>2, <2>3, <2>4 DEF Cancelling
<1>9. CASE RuntimeCleaned \/ Publish
  <2> DEFINE code == CASE job.code = "workspace_cleanup_failed" -> "other"
                       [] job.code \in {"terminal_steer_worker_unverified", "cancel_worker_unverified"} -> "none"
                       [] OTHER -> job.code
  <2>1. \/ job' = [job EXCEPT !.workspace = FALSE, !.code = code]
        \/ job' = [job EXCEPT !.told = @ \cup {job.status}]
    BY <1>9 DEF RuntimeCleaned, Publish
  <2> HIDE DEF code
  <2> QED
    BY <2>1 DEF JobRow
<1>10. CASE Caring /\ ~RuntimeCleaned
  <2>1. job' = job
    BY <1>10, FinishedWrites DEF Caring, Reconcile, RecLooked, RecStops, RecStopWatched, RecProbed,
       PressedOn, PressCancels
  <2> QED
    BY <2>1
<1>11. CASE Restart
  BY <1>11 DEF Restart, Recovered, Terminal
<1> QED
  BY <1>2, <1>3, <1>4, <1>5, <1>6, <1>7, <1>8, <1>9, <1>10, <1>11
     DEF Next, Starting, Caring, Telling, Running

(***************************************************************************)
(* A cancelled job.  Nothing works for a job whose prompt was not read, and a *)
(* prompt that still may be read is one that the cancellation waits for.      *)
(***************************************************************************)
\* The prompt is on its way.
Unread == op.at \in AtPrompt /\ ~op.read

\* Beyond the read of the prompt, what the row and the control know of it.
ReadInv ==
    /\ prompts = 0 => agent \in Quiet /\ file = "none"
    /\ op.at \in AtPrompt /\ op.read => prompts = 1
    /\ job.status = "running" => prompts = 1
    /\ ctl.at = "steer" => prompts = 1 /\ kind = "slack"
    /\ job.code \in Unprompted => prompts = 0
    /\ ctl.unprompted => ctl.at # "none" /\ prompts = 0
    /\ ctl.at = "stale" => prompts = 0

\* The cancellation of a job whose start is under way joins the start.
JoinInv ==
    /\ Unread => \/ job.status = "dispatching"
                 \/ job.status = "cancelling" /\ ctl.at = "join" /\ ~ctl.unprompted
    /\ job.status \in Early \cup {"dispatching"} => ctl.at = "none"
    /\ job.status \in {"preparing", "dispatching", "cancelling"} => job.code \notin Unprompted
    /\ rec # "none" => kind = "schedule"
    /\ process = "down" => op.at = "none" /\ ctl.at = "none"

QuietInv ==
    /\ ReadInv /\ JoinInv
    /\ job.status = "cancelled" => ctl.at # "steer" /\ agent \in Quiet /\ file = "none"

\* What most actions do to the row: it keeps its status, is settled, or waits
\* again before its prompt was read.
Later(j) ==
    /\ \/ j.status = job.status
       \/ j.status \in Valid \cup {"needs_review", "blocked"}
       \/ j.status = "cancelled" /\ agent \in Quiet /\ file = "none" /\ ctl.at # "steer"
       \/ /\ j.status \in Early /\ prompts = 0 /\ ctl.at = "none"
          /\ j.status = "preparing" => j.code \notin Unprompted
    /\ \/ j.code = job.code \/ j.code \notin Unprompted
       \/ prompts = 0 /\ j.status \notin {"preparing", "dispatching", "cancelling"}

\* ... to the control: it keeps its place, goes on with the cancellation or ends.
CtlLater == \/ ctl' = ctl \/ ctl' = NoCtl
            \/ ctl.at # "none" /\ ctl'.at \in {"send", "sent", "watch"} /\ ctl'.unprompted = ctl.unprompted

Calm ==
    /\ Later(job') /\ CtlLater
    /\ prompts' = prompts /\ file' = file /\ kind' = kind
    /\ agent' = agent \/ agent' \in Quiet
    /\ op' = op \/ op'.at \notin AtPrompt
    /\ rec' # "none" => kind = "schedule"
    /\ process' = "down" => op'.at = "none" /\ ctl'.at = "none"
    /\ Unread' => job'.status = job.status /\ ctl' = ctl

LEMMA CalmKeeps == ASSUME QuietInv, Calm PROVE QuietInv'
<1> USE DEF QuietInv, Calm, Later
<1>1. ReadInv'
  BY NoCtlTyped DEF ReadInv, CtlLater, JoinInv, Valid, Early, Waiting, AtPrompt
<1>2. JoinInv'
  BY NoCtlTyped DEF JoinInv, CtlLater, Unread, Valid, Early, Waiting, AtPrompt
<1>3. (job.status = "cancelled" => ctl.at # "steer" /\ agent \in Quiet /\ file = "none")'
  BY NoCtlTyped DEF CtlLater, Valid, Early, Waiting
<1> QED
  BY <1>1, <1>2, <1>3

\* A prompt on its way: nothing happened yet, and only a join waits.
LEMMA UnreadMeans ==
    ASSUME PromptInv, QuietInv, Unread
    PROVE  /\ prompts = 0 /\ file = "none" /\ agent \in Quiet
           /\ job.status \in {"dispatching", "cancelling"}
           /\ ctl.at \in {"none", "join"}
           /\ process # "down"
  BY DEF PromptInv, QuietInv, ReadInv, JoinInv, Unread, AtPrompt, Early

LEMMA LaterWrites ==
    ASSUME job \in JobRow
    PROVE  /\ Later(job)
           /\ \A c \in Code : c \notin Unprompted => Later(NeedsReview(c))
           /\ prompts = 0 => Later(NeedsReview("stale_preparing_agent_unverified"))
           /\ file \in Valid => Later(Saved)
           /\ \A from \in Status : Later(Blocked(from))
           /\ agent \in Quiet /\ file = "none" /\ ctl.at # "steer" =>
                Later(Cancelled) /\ Later(Unfinished("cancelled", "cancelled"))
           /\ TryComplete => Later(job')
           /\ \A b \in BOOLEAN : StopNoted(b) => Later(job')
<1>1. Later(job)
  BY DEF Later
<1>2. \A c : NeedsReview(c) = job \/ (NeedsReview(c).status = "needs_review" /\ NeedsReview(c).code = c)
  BY DEF NeedsReview, JobRow
<1>3. \A c \in Code : c \notin Unprompted => Later(NeedsReview(c))
  BY <1>1, <1>2 DEF Later
<1>4. prompts = 0 => Later(NeedsReview("stale_preparing_agent_unverified"))
  BY <1>1, <1>2 DEF Later
<1>5. ASSUME file \in Valid
      PROVE  Saved \in JobRow /\ Saved.status = file /\ Saved.code \notin Unprompted
  <2> DEFINE code == IF job.status = "cancelling" THEN "cancel_worker_unverified"
                     ELSE IF job.steer # "none" THEN "terminal_steer_worker_unverified"
                     ELSE IF file = "failed" THEN "other" ELSE "none"
  <2>1. code \notin Unprompted
    BY DEF Unprompted
  <2>2. Saved.code = code /\ Saved.status = file
    BY DEF Saved, JobRow
  <2>3. Saved \in JobRow
    BY <1>5, SavedOnward DEF Onward
  <2> QED
    BY <2>1, <2>2, <2>3
<1>6. file \in Valid => Later(Saved)
  BY <1>5 DEF Later
<1>7. /\ {"blocked", "cancelled"} \subseteq Status
      /\ {"other", "cancelled", "invalid_result"} \subseteq Code \ Unprompted
  BY Words DEF Unprompted
<1>8. \A s \in {"blocked", "cancelled"}, c \in {"other", "cancelled"} :
        Unfinished(s, c).status = s /\ Unfinished(s, c).code = c
  BY <1>7 DEF Unfinished, JobRow
<1>9. \A from \in Status : Later(Blocked(from))
  BY <1>1, <1>7, <1>8 DEF Blocked, Later
<1>10. agent \in Quiet /\ file = "none" /\ ctl.at # "steer" =>
         Later(Cancelled) /\ Later(Unfinished("cancelled", "cancelled"))
  BY <1>1, <1>7, <1>8 DEF Cancelled, Later
<1>11. TryComplete => Later(job')
  BY <1>1, <1>3, <1>6, <1>7 DEF TryComplete
<1>12. ASSUME NEW b \in BOOLEAN, StopNoted(b) PROVE Later(job')
  <2> DEFINE code == IF b THEN "invalid_result_agent_stopped" ELSE "invalid_result_agent_stop_unknown"
             saved == IF file = "failed" THEN "other" ELSE "none"
  <2>1. \/ job' = job
        \/ file \in Valid /\ job' = [Saved EXCEPT !.code = saved]
        \/ job' = [job EXCEPT !.code = code]
    BY <1>12 DEF StopNoted
  <2>2. code \notin Unprompted /\ saved \notin Unprompted
    BY DEF Unprompted
  <2> HIDE DEF code, saved
  <2>3. \A j \in JobRow : \A c : /\ [j EXCEPT !.code = c].status = j.status
                             /\ [j EXCEPT !.code = c].code = c
    BY DEF JobRow
  <2>4. CASE file \in Valid /\ job' = [Saved EXCEPT !.code = saved]
    BY <1>5, <2>2, <2>3, <2>4 DEF Later
  <2>5. CASE job' = [job EXCEPT !.code = code]
    BY <2>2, <2>3, <2>5 DEF Later
  <2> QED
    BY <1>1, <2>1, <2>4, <2>5
<1> QED
  BY <1>1, <1>3, <1>4, <1>6, <1>9, <1>10, <1>11, <1>12

\* The actions that leave row, start and control alone.
LEMMA QuietOthers ==
    ASSUME QuietInv, OtherTypes,
           \/ AgentVanishes \/ Press \/ NoticeTaken \/ NoticeSettled \/ Cleaning
           \/ Stop \/ Stopped \/ Crash \/ UNCHANGED vars
    PROVE  QuietInv'
<1> USE DEF row, outside, memory, counts
<1>1. Interrupted \subseteq Quiet \cup {agent}
  BY DEF Interrupted, Quiet
<1>2. /\ job' = job /\ prompts' = prompts /\ file' = file /\ kind' = kind
      /\ agent' = agent \/ agent' \in Quiet
  BY <1>1 DEF AgentVanishes, Press, NoticeTaken, NoticeSettled, Cleaning, CleanStart, CleanLooked,
     CleanSends, CleanObserved, Stop, Stopped, Crash, vars, Quiet
<1>3. CASE Stopped \/ Crash
  BY <1>2, <1>3 DEF Stopped, Crash, Forgotten, NoOp, NoCtl, QuietInv, ReadInv, JoinInv, Unread, AtPrompt
<1>4. CASE ~(Stopped \/ Crash)
  <2>1. /\ op' = op /\ ctl' = ctl /\ rec' = rec
        /\ process' = process \/ process' # "down"
    BY <1>4 DEF AgentVanishes, Press, NoticeTaken, NoticeSettled, Cleaning, CleanStart, CleanLooked,
       CleanSends, CleanObserved, Stop, vars
  <2> QED
    BY <1>2, <2>1, CalmKeeps DEF Calm, Later, CtlLater, QuietInv, JoinInv, Unread
<1> QED
  BY <1>3, <1>4

LEMMA QuietAgents == ASSUME PromptInv, QuietInv, AgentReports \/ AgentTurns PROVE QuietInv'
  BY DEF AgentReports, AgentTurns, row, memory, counts, PromptInv, QuietInv, ReadInv, JoinInv, Unread, Quiet

\* What the start keeps while it goes on.
LEMMA StartKeeps ==
    ASSUME PromptInv, QuietInv, Alive, Later(job'), op' = op \/ op'.at \notin AtPrompt,
           UNCHANGED <<kind, prompts, file, process, ctl, rec>>,
           agent' = agent \/ agent' \in Quiet,
           op' = op => job'.status = job.status
    PROVE  QuietInv'
  BY CalmKeeps DEF Calm, CtlLater, QuietInv, JoinInv, Unread, Alive

LEMMA QuietStarting == ASSUME PromptInv, OtherTypes, QuietInv, Starting PROVE QuietInv'
<1> USE DEF row, outside, counts, memory
<1>1. job \in JobRow /\ op \in OpRow
  BY DEF PromptInv
<1>2. /\ UNCHANGED <<kind, file, process, ctl, rec>>
      /\ NoOp.at \notin AtPrompt
  BY StartingFrame DEF NoOp, AtPrompt
<1>3. op.at \notin AtPrompt => ~Unread
  BY DEF Unread
<1>4. CASE Promote
  <2>1. /\ job' = [job EXCEPT !.status = "queued"] /\ job.status = "retryable_failed"
        /\ UNCHANGED <<op, agent, prompts>>
    BY <1>4 DEF Promote
  <2>2. job'.status = "queued" /\ job'.code = job.code
    BY <1>1, <2>1 DEF JobRow
  <2>3. prompts = 0 /\ ctl.at = "none" /\ ~Unread
    BY <2>1 DEF PromptInv, QuietInv, JoinInv, Early, Unread, AtPrompt
  <2>4. Later(job')
    BY <2>2, <2>3 DEF Later, Early
  <2> QED
    BY <1>2, <2>1, <2>3, <2>4, CalmKeeps DEF Calm, CtlLater, QuietInv, JoinInv, Unread
<1>5. CASE Launch
  <2>1. op'.at \in {"access", "ingest"} /\ UNCHANGED <<job, agent, prompts>> /\ Alive
    BY <1>5 DEF Launch, NoOp, Alive
  <2> QED
    BY <1>1, <1>2, <2>1, StartKeeps, LaterWrites DEF AtPrompt
<1>6. CASE StartChecked
  <2>1. op'.at \notin AtPrompt /\ UNCHANGED <<agent, prompts>> /\ Alive
    BY <1>1, <1>2, <1>6 DEF StartChecked, OpAt, OpEnds, OpRow, AtPrompt
  <2>4. op' # op
    BY <1>1, <1>6 DEF StartChecked, OpAt, OpEnds, OpRow, NoOp
  <2>2. CASE job' = job \/ job' = NeedsReview("other")
    <3>1. Later(job')
      BY <1>1, <2>2, LaterWrites, Words DEF Unprompted
    <3> QED
      BY <1>2, <2>1, <2>4, <3>1, StartKeeps
  <2>3. CASE job' # job /\ job' # NeedsReview("other")
    <3>1. /\ job' = [job EXCEPT !.status = "preparing", !.code = "none", !.steer = "none", !.attempts = @ + 1]
          /\ job.status \in Waiting
      BY <1>6, <2>3 DEF StartChecked
    <3>2. job'.status = "preparing" /\ job'.code = "none"
      BY <1>1, <3>1 DEF JobRow
    <3>3. prompts = 0 /\ ctl.at = "none"
      BY <3>1 DEF PromptInv, QuietInv, JoinInv, Early, Waiting
    <3>4. Later(job')
      BY <3>2, <3>3 DEF Later, Early, Unprompted
    <3> QED
      BY <1>2, <2>1, <2>4, <3>4, StartKeeps
  <2> QED
    BY <2>2, <2>3
<1>7. CASE PrepareStarts
  <2>1. UNCHANGED <<job, prompts>> /\ agent' \in Quiet /\ Alive /\ op'.at = "prepare"
    BY <1>1, <1>7 DEF PrepareStarts, OpRow, Quiet
  <2> QED
    BY <1>1, <1>2, <2>1, StartKeeps, LaterWrites DEF AtPrompt
<1>8. CASE Prepared
  <2>1. /\ op'.at \in {"baseline", "none"} /\ UNCHANGED <<agent, prompts>> /\ Alive
        /\ job' = job \/ job' = [job EXCEPT !.workspace = TRUE]
    BY <1>1, <1>8 DEF Prepared, OpAt, OpEnds, OpRow, NoOp
  <2>2. job'.status = job.status /\ job'.code = job.code
    BY <1>1, <2>1 DEF JobRow
  <2>3. Later(job')
    BY <2>2 DEF Later
  <2> QED
    BY <1>2, <2>1, <2>2, <2>3, StartKeeps DEF AtPrompt
<1>9. CASE PrepareFails
  <2>1. agent' = IF op.made THEN "absent" ELSE agent
    BY <1>9 DEF PrepareFails
  <2>2. op' = NoOp /\ prompts' = prompts /\ Alive /\ op.at = "prepare"
    BY <1>9 DEF PrepareFails, OpEnds
  <2>3. Later(job')
    <3>1. \/ job' = job
          \/ job.status = "preparing" /\ job' = NeedsReview("stale_preparing_agent_unverified")
          \/ job.status = "preparing" /\ job' = Retried("other")
      BY <1>9 DEF PrepareFails
    <3>2. job.status = "preparing" => prompts = 0 /\ ctl.at = "none"
      BY DEF PromptInv, QuietInv, JoinInv, Early
    <3>3. \A s \in {"failed", "retryable_failed"} : Unfinished(s, "other").status = s /\ Unfinished(s, "other").code = "other"
      BY <1>1 DEF Unfinished, JobRow
    <3>4. CASE job.status = "preparing" /\ job' = Retried("other")
      BY <3>2, <3>3, <3>4 DEF Retried, Later, Early, Waiting, Valid, Unprompted
    <3> QED
      BY <1>1, <3>1, <3>2, <3>4, LaterWrites
  <2> QED
    BY <1>2, <2>1, <2>2, <2>3, StartKeeps DEF Quiet, NoOp
<1>10. CASE PrepareLeaks
  <2> DEFINE n == NeedsReview("workspace_cleanup_failed")
  <2>1. op' = NoOp /\ UNCHANGED <<agent, prompts>> /\ Alive /\ op.at = "prepare"
    BY <1>10 DEF PrepareLeaks, OpEnds
  <2>2. job' = job \/ job' = [n EXCEPT !.workspace = TRUE]
    BY <1>10 DEF PrepareLeaks
  <2>3. n \in JobRow /\ Later(n)
    BY <1>1, NeedsReviewOnward, LaterWrites, Words DEF Onward, Unprompted
  <2> HIDE DEF n
  <2>4. Later(job')
    BY <1>1, <2>2, <2>3, LaterWrites DEF Later, JobRow
  <2> QED
    BY <1>2, <2>1, <2>4, StartKeeps DEF NoOp
<1>11. CASE BaselineRead
  <2>1. UNCHANGED <<agent, prompts>> /\ Alive /\ op.at = "baseline"
    BY <1>11 DEF BaselineRead
  <2>2. CASE op' = NoOp
    <3>1. job' = job
      BY <1>11, <2>2 DEF BaselineRead, OpEnds, NoOp
    <3> QED
      BY <1>1, <1>2, <2>1, <2>2, <3>1, StartKeeps, LaterWrites
  <2>3. CASE op' # NoOp
    <3> DEFINE o(known) == [op EXCEPT !.at = "prompt", !.known = known]
               j == [job EXCEPT !.status = "dispatching", !.sent = TRUE]
    <3>1. /\ op.at = "baseline" /\ job.status = "preparing" /\ prompts' = prompts /\ job' = j
          /\ \E known \in BOOLEAN : op' = o(known)
      <4> HIDE DEF o, j
      <4>1. /\ op.at = "baseline" /\ prompts' = prompts
            /\ \E known \in BOOLEAN :
                  IF Stopping \/ job.status # "preparing" THEN UNCHANGED job /\ OpEnds
                  ELSE job' = j /\ op' = o(known)
        BY <1>11, Zenon DEF BaselineRead, o, j
      <4> QED
        BY <2>3, <4>1, Zenon DEF OpEnds
    <3>2. job'.status = "dispatching" /\ job'.code = job.code /\ op'.at = "prompt" /\ op'.read = op.read
      BY <1>1, <3>1 DEF JobRow, OpRow
    <3>3. prompts = 0 /\ ctl.at = "none" /\ ~op.read /\ job.code \notin Unprompted /\ process # "down"
      BY <2>1, <3>1 DEF PromptInv, QuietInv, JoinInv, Early, BeforePrompt, Alive
    <3> QED
      BY <1>2, <2>1, <3>2, <3>3 DEF QuietInv, ReadInv, JoinInv, Unread, Early, Waiting
  <2> QED
    BY <2>2, <2>3
<1>12. CASE PromptRead
  <2>1. /\ Unread /\ job' = job /\ agent' = "working" /\ prompts' = prompts + 1
        /\ op' = [op EXCEPT !.read = TRUE]
    BY <1>12 DEF PromptRead, Unread, AtPrompt
  <2>2. op'.at = op.at /\ op'.read
    BY <1>1, <2>1 DEF OpRow
  <2>3. prompts' = 1
    BY <2>1, UnreadMeans
  <2>4. ctl.at # "none" => ctl.at = "join" /\ ~ctl.unprompted
    BY <2>1 DEF QuietInv, JoinInv
  <2>5. job.status \in {"dispatching", "cancelling"} /\ process # "down"
    BY <2>1, UnreadMeans
  <2> QED
    BY <1>2, <2>1, <2>2, <2>3, <2>4, <2>5 DEF QuietInv, ReadInv, JoinInv, Unread
<1>13. ASSUME job' = Unfinished("running", "none"), job.status = "dispatching", op' = [op EXCEPT !.at = "ingest"],
              UNCHANGED <<agent, prompts>>, op.at \in AtPrompt, op.read, Alive
       PROVE  QuietInv'
  <2>1. op'.at = "ingest" /\ job'.status = "running" /\ job'.code = "none"
    BY <1>1, <1>13 DEF OpRow, JobRow, Unfinished
  <2>2. prompts = 1 /\ ctl.at = "none"
    BY <1>13 DEF QuietInv, ReadInv, JoinInv
  <2> QED
    BY <1>2, <1>13, <2>1, <2>2 DEF QuietInv, ReadInv, JoinInv, Unread, AtPrompt, Early, Waiting, Unprompted, Alive
<1>14. CASE PromptAnswered
  <2>1. UNCHANGED <<agent, prompts>> /\ Alive /\ op.at = "prompt"
    BY <1>14 DEF PromptAnswered
  <2>2. CASE op' = NoOp
    <3>1. \/ job' = job \/ job' = Blocked("dispatching")
          \/ \E c \in {"prompt_interrupted", "other", "prompt_acceptance_unknown"} : job' = NeedsReview(c)
          \/ job.status = "dispatching" /\ ~op.read /\ job' = Retried("other")
      BY <1>14, <2>2 DEF PromptAnswered, OpAt, NoOp
    <3>2. CASE job.status = "dispatching" /\ ~op.read /\ job' = Retried("other")
      <4>1. \A s \in {"failed", "retryable_failed"} : Unfinished(s, "other").status = s /\ Unfinished(s, "other").code = "other"
        BY <1>1 DEF Unfinished, JobRow
      <4>2. prompts = 0 /\ ctl.at = "none"
        BY <2>1, <3>2 DEF PromptInv, QuietInv, JoinInv, AtPrompt
      <4> QED
        BY <3>2, <4>1, <4>2, <1>2, <2>1, <2>2, StartKeeps DEF Retried, Later, Early, Waiting, Valid, Unprompted, NoOp
    <3>3. CASE ~(job.status = "dispatching" /\ ~op.read /\ job' = Retried("other"))
      <4>1. Later(job')
        BY <1>1, <3>1, <3>3, LaterWrites, Words DEF Unprompted
      <4> QED
        BY <1>2, <2>1, <2>2, <4>1, StartKeeps DEF NoOp
    <3> QED
      BY <3>2, <3>3
  <2>3. CASE op' # NoOp
    <3>1. /\ job.status = "dispatching"
          /\ \/ op.read /\ job' = Unfinished("running", "none") /\ op' = [op EXCEPT !.at = "ingest"]
             \/ job' = job /\ op' = [op EXCEPT !.at = "reconcile"]
      BY <1>14, <2>3 DEF PromptAnswered, OpAt, OpEnds
    <3>2. CASE op.read /\ job' = Unfinished("running", "none") /\ op' = [op EXCEPT !.at = "ingest"]
      BY <1>13, <2>1, <3>1, <3>2 DEF AtPrompt
    <3>3. CASE job' = job /\ op' = [op EXCEPT !.at = "reconcile"]
      <4>1. op'.at = "reconcile" /\ op'.read = op.read
        BY <1>1, <3>3 DEF OpRow
      <4> QED
        BY <1>2, <2>1, <3>1, <3>3, <4>1 DEF QuietInv, ReadInv, JoinInv, Unread, AtPrompt, Alive
    <3> QED
      BY <3>1, <3>2, <3>3
  <2> QED
    BY <2>2, <2>3
<1>15. CASE StalledPrompt
  <2>1. UNCHANGED <<agent, prompts>> /\ Alive /\ op.at = "reconcile"
    BY <1>15 DEF StalledPrompt
  <2>2. CASE op' = NoOp
    <3>1. \/ job' = job
          \/ job' = Unfinished("blocked", "other")
          \/ file \in Valid /\ job' = Saved
          \/ \E c \in {"prompt_interrupted", "other", "invalid_result"} : job' = NeedsReview(c)
      BY <1>15, <2>2 DEF StalledPrompt, AcceptLate, OpAt, NoOp
    <3>2. Unfinished("blocked", "other").status = "blocked" /\ Unfinished("blocked", "other").code = "other"
      BY <1>1 DEF Unfinished, JobRow
    <3>3. Later(Unfinished("blocked", "other"))
      BY <3>2 DEF Later, Unprompted
    <3>4. Later(job')
      BY <1>1, <3>1, <3>3, LaterWrites, Words DEF Unprompted
    <3> QED
      BY <1>2, <2>1, <2>2, <3>4, StartKeeps DEF NoOp
  <2>3. CASE op' # NoOp
    <3>1. /\ job.status = "dispatching" /\ op.read /\ job' = Unfinished("running", "none")
          /\ op' = [op EXCEPT !.at = "ingest"]
      BY <1>15, <2>3 DEF StalledPrompt, OpAt, OpEnds
    <3> QED
      BY <1>13, <2>1, <3>1 DEF AtPrompt
  <2> QED
    BY <2>2, <2>3
<1> QED
  BY <1>4, <1>5, <1>6, <1>7, <1>8, <1>9, <1>10, <1>11, <1>12, <1>14, <1>15 DEF Starting

\* What follows the answer to the prompt.
LEMMA QuietWatching == ASSUME PromptInv, QuietInv, Watching PROVE QuietInv'
<1>1. job \in JobRow /\ op \in OpRow
  BY DEF PromptInv
<1>2. UNCHANGED <<kind, prompts, file, agent, process, ctl, rec>> /\ Alive /\ op.at \in {"ingest", "wait"}
  BY DEF Watching, MonitorReads, MonitorWaited, outside, counts
<1>7. op' = NoOp \/ (op.at = "ingest" /\ op' = [op EXCEPT !.at = "wait"] /\ job' = job)
  BY DEF Watching, MonitorReads, MonitorWaited, OpEnds, OpAt
<1>3. op'.at \notin AtPrompt
  BY <1>1, <1>7 DEF OpRow, NoOp, AtPrompt
<1>4. \/ job' = job \/ TryComplete \/ job' = Blocked("running")
      \/ \E c \in {"other", "agent_wait_observation_unknown"} : job' = NeedsReview(c)
  BY DEF Watching, MonitorReads, MonitorWaited
<1>5. Later(job')
  BY <1>1, <1>4, LaterWrites, Words DEF Unprompted
<1>6. op' # op \/ job' = job
  BY <1>1, <1>2, <1>7 DEF OpRow, NoOp
<1> QED
  BY <1>2, <1>3, <1>5, <1>6, StartKeeps

LEMMA QuietSteering == ASSUME PromptInv, OtherTypes, QuietInv, Steering PROVE QuietInv'
<1> USE DEF row, outside, memory, counts
<1>1. job \in JobRow /\ ctl \in CtlRow
  BY DEF PromptInv, OtherTypes
<1>2. CASE SteerQueued
  <2>1. job' = [job EXCEPT !.steer = "accepted"] /\ UNCHANGED <<kind, outside, process, memory, prompts>>
    BY <1>2 DEF SteerQueued
  <2>2. job'.status = job.status /\ job'.code = job.code
    BY <1>1, <2>1 DEF JobRow
  <2> QED
    BY <2>1, <2>2, CalmKeeps DEF Calm, Later, CtlLater, QuietInv, JoinInv
<1>3. CASE SteerBegin
  <2>1. /\ job' = [job EXCEPT !.steer = "dispatching"] /\ ctl' = [ctl EXCEPT !.at = "steer"]
        /\ job.status = "running" /\ process = "up" /\ kind = "slack" /\ ctl.at = "none"
        /\ UNCHANGED <<kind, outside, process, op, rec, prompts>>
    BY <1>3 DEF SteerBegin, CtlAt
  <2>2. job'.status = "running" /\ job'.code = job.code /\ ctl'.at = "steer"
    BY <1>1, <2>1 DEF JobRow, CtlRow
  <2>3. prompts = 1
    BY <2>1 DEF QuietInv, ReadInv
  <2> QED
    BY <2>1, <2>2, <2>3 DEF QuietInv, ReadInv, JoinInv, Unread, Early, Waiting
<1>4. CASE SteerRead
  <2>1. /\ ctl.at = "steer" /\ ctl' = [ctl EXCEPT !.read = TRUE] /\ agent' = "working"
        /\ UNCHANGED <<kind, job, file, process, op, rec, prompts>>
    BY <1>4 DEF SteerRead
  <2>2. ctl'.at = ctl.at /\ ctl'.unprompted = ctl.unprompted
    BY <1>1, <2>1 DEF CtlRow
  <2> QED
    BY <2>1, <2>2 DEF QuietInv, ReadInv, JoinInv, Unread
<1>5. CASE SteerAnswered
  <2> DEFINE code == IF job.status \in Terminal THEN "terminal_steer_worker_unverified" ELSE job.code
  <2>1. /\ ctl.at = "steer" /\ ctl' = NoCtl /\ Alive /\ rec' = (IF rec = "cancel" THEN "none" ELSE rec)
        /\ UNCHANGED <<kind, outside, process, op, prompts>>
    BY <1>5 DEF SteerAnswered, CtlEnds
  <2>2. \/ job' = job
        \/ job' = [job EXCEPT !.steer = "accepted", !.code = code]
        \/ job' = ClearSteer(Blocked("running"))
        \/ job' = ClearSteer(NeedsReview("other"))
        \/ job' = NeedsReview("other")
    BY <1>5 DEF SteerAnswered
  <2>3. code = job.code \/ code \notin Unprompted
    BY DEF Unprompted
  <2> HIDE DEF code
  <2>4. /\ Blocked("running") \in JobRow /\ Later(Blocked("running"))
        /\ NeedsReview("other") \in JobRow /\ Later(NeedsReview("other"))
    BY <1>1, LaterWrites, OthersOnward, NeedsReviewOnward, Words DEF Onward, Unprompted
  <2>5. \A j \in JobRow : ClearSteer(j).status = j.status /\ ClearSteer(j).code = j.code
    BY DEF ClearSteer, JobRow
  <2>6. CASE job' = [job EXCEPT !.steer = "accepted", !.code = code]
    <3>1. job'.status = job.status /\ job'.code = code
      BY <1>1, <2>6 DEF JobRow
    <3>2. Later(job')
      BY <2>3, <3>1 DEF Later
    <3> QED
      BY <2>1, <3>1, <3>2, CalmKeeps, UnreadMeans, NoCtlTyped DEF Calm, CtlLater, QuietInv, JoinInv, Alive, Unread
  <2>7. CASE job' # [job EXCEPT !.steer = "accepted", !.code = code]
    <3>1. Later(job')
      BY <2>2, <2>4, <2>5, <2>7 DEF Later
    <3> QED
      BY <2>1, <3>1, CalmKeeps, UnreadMeans, NoCtlTyped DEF Calm, CtlLater, QuietInv, JoinInv, Alive, Unread
  <2> QED
    BY <2>6, <2>7
<1> QED
  BY <1>2, <1>3, <1>4, <1>5 DEF Steering

\* The cancellation begins: a job that waits has no agent at work, and one whose
\* start is under way is joined.
LEMMA QuietBegins ==
    ASSUME PromptInv, QuietInv, CancelBegin, rec' # "none" => kind = "schedule", process = "up",
           UNCHANGED <<kind, outside, process, op, prompts>>
    PROVE  QuietInv'
<1> USE DEF outside
<1>1. job \in JobRow
  BY DEF PromptInv
<1> DEFINE stale == job.status = "retryable_failed" /\ job.code = "stale_preparing"
           at == IF stale THEN "stale"
                 ELSE IF job.status \in {"preparing", "dispatching"} THEN "join" ELSE "send"
           un == job.status = "preparing" \/ job.code \in Unprompted
<1>2. CASE job.status \in Waiting /\ ~stale
  <2>1. job' = Unfinished("cancelled", "cancelled") /\ ctl' = NoCtl
    BY <1>2 DEF CancelBegin
  <2>2. job'.status = "cancelled" /\ job'.code = "cancelled"
    BY <1>1, <2>1 DEF Unfinished, JobRow
  <2>3. prompts = 0 /\ agent \in Quiet /\ file = "none" /\ ~Unread
    BY <1>2 DEF PromptInv, QuietInv, ReadInv, Unread, Waiting, Early, AtPrompt
  <2> QED
    BY <2>1, <2>2, <2>3, NoCtlTyped DEF QuietInv, ReadInv, JoinInv, Unread, Early, Waiting, Unprompted
<1>3. CASE ~(job.status \in Waiting /\ ~stale)
  <2>1. /\ job' = Unfinished("cancelling", "cancel_worker_unverified")
        /\ ctl' = [at |-> at, unprompted |-> un, read |-> FALSE]
    BY <1>3 DEF CancelBegin
  <2>2. /\ job'.status = "cancelling" /\ job'.code = "cancel_worker_unverified"
        /\ ctl'.at = at
    BY <1>1, <2>1 DEF Unfinished, JobRow
  <2>3. ctl'.unprompted <=> un
    BY <2>1
  <2>4. un => prompts = 0
    BY DEF PromptInv, QuietInv, ReadInv, Early
  <2>5. at = "stale" => prompts = 0
    BY DEF PromptInv, Early, Waiting
  <2>6. Unread => at = "join" /\ ~un
    BY DEF QuietInv, JoinInv, CancelBegin, Cancellable
  <2>7. at \in {"stale", "join", "send"}
    OBVIOUS
  <2> HIDE DEF at, un
  <2> QED
    BY <2>2, <2>3, <2>4, <2>5, <2>6, <2>7 DEF QuietInv, ReadInv, JoinInv, Unread, Early, Waiting, Unprompted
<1> QED
  BY <1>2, <1>3

\* A cancellation goes on or ends once the start is over; it ends with cancelled
\* only when it saw the agent idle or gone, and no result.
LEMMA CancelKeeps ==
    ASSUME PromptInv, QuietInv, Later(job'), CtlLater, ctl.at \notin {"none", "join"},
           UNCHANGED <<kind, prompts, file, process, op>>, process # "down",
           agent' = agent \/ agent' \in Quiet, rec' = rec \/ rec' = "none"
    PROVE  QuietInv'
  BY CalmKeeps, UnreadMeans DEF Calm, QuietInv, JoinInv, Unread

LEMMA QuietCancelling == ASSUME PromptInv, OtherTypes, QuietInv, Cancelling PROVE QuietInv'
<1> USE DEF row, outside, counts
<1>1. job \in JobRow /\ ctl \in CtlRow
  BY DEF PromptInv, OtherTypes
<1>2. Interrupted \subseteq Quiet \cup {agent}
  BY DEF Interrupted, Quiet
<1>3. CASE CancelRequested
  BY <1>3, QuietBegins DEF CancelRequested, QuietInv, JoinInv
<1>4. ASSUME NEW at \in {"send", "sent", "watch"}, CtlAt(at), ctl.at # "none" PROVE CtlLater
  BY <1>1, <1>4, CtlWritten DEF CtlAt, CtlLater
<1>5. CtlEnds => CtlLater /\ rec' \in {rec, "none"}
  BY NoCtlTyped DEF CtlEnds, CtlLater
<1>6. \A c \in {"stale_preparing_agent_unverified", "cancel_acceptance_unknown", "cancel_exit_unknown"} :
        c # "stale_preparing_agent_unverified" \/ prompts = 0 => Later(NeedsReview(c))
  BY <1>1, LaterWrites, Words DEF Unprompted
<1>7. CASE CancelStale
  <2>1. prompts = 0 /\ ctl.at = "stale"
    BY <1>7 DEF CancelStale, QuietInv, ReadInv
  <2>2. agent \in Quiet /\ file = "none"
    BY <2>1 DEF QuietInv, ReadInv
  <2>3. Later(job') /\ CtlLater /\ rec' \in {rec, "none"}
    BY <1>1, <1>4, <1>5, <1>6, <1>7, <2>1, <2>2, LaterWrites DEF CancelStale
  <2> QED
    BY <1>7, <2>1, <2>3, CancelKeeps DEF CancelStale, Alive
<1>8. CASE CancelJoins
  <2>1. /\ ctl.at = "join" /\ op.at = "none" /\ CtlAt("send") /\ Alive
        /\ UNCHANGED <<kind, job, outside, process, op, rec, prompts>>
    BY <1>8 DEF CancelJoins
  <2>2. CtlLater
    BY <1>4, <2>1
  <2> QED
    BY <1>1, <2>1, <2>2, LaterWrites, CalmKeeps DEF Calm, QuietInv, JoinInv, Unread, AtPrompt, Alive
<1>9. CASE CancelKeys
  <2>1. /\ ctl.at = "send" /\ agent' \in Interrupted /\ CtlAt("sent")
        /\ UNCHANGED <<kind, job, file, process, op, rec, prompts>>
    BY <1>9 DEF CancelKeys
  <2>2. CtlLater /\ process # "down"
    BY <1>4, <2>1 DEF QuietInv, JoinInv
  <2> QED
    BY <1>1, <1>2, <2>1, <2>2, LaterWrites, CancelKeeps
<1>10. CASE CancelAbsent
  <2>1. /\ ctl.at = "send" /\ agent = "absent" /\ CtlEnds /\ Alive
        /\ UNCHANGED <<kind, outside, process, op, prompts>>
    BY <1>10 DEF CancelAbsent
  <2>2. TryComplete \/ (job' = Cancelled /\ file = "none")
    BY <1>10 DEF CancelAbsent, Completes, QuietInv, ReadInv
  <2>3. Later(job')
    BY <1>1, <2>1, <2>2, LaterWrites DEF Quiet
  <2> QED
    BY <1>5, <2>1, <2>3, CancelKeeps DEF Alive
<1>11. CASE CancelAnswered
  <2>1. /\ ctl.at \in {"send", "sent"} /\ Alive
        /\ UNCHANGED <<kind, outside, process, op, prompts>>
    BY <1>11 DEF CancelAnswered
  <2>2. \/ CtlAt("watch") /\ UNCHANGED <<job, rec>>
        \/ job' = NeedsReview("cancel_acceptance_unknown") /\ CtlEnds
    BY <1>11 DEF CancelAnswered
  <2>3. Later(job') /\ CtlLater /\ rec' \in {rec, "none"}
    BY <1>1, <1>4, <1>5, <1>6, <2>1, <2>2, LaterWrites
  <2> QED
    BY <2>1, <2>3, CancelKeeps DEF Alive
<1>12. CASE CancelWatched
  <2>1. /\ ctl.at = "watch" /\ CtlEnds /\ Alive
        /\ UNCHANGED <<kind, outside, process, op, prompts>>
    BY <1>12 DEF CancelWatched
  <2>2. \/ TryComplete
        \/ (job' = Cancelled /\ file = "none" /\ agent \in Quiet)
        \/ job' = NeedsReview("cancel_exit_unknown")
    BY <1>12 DEF CancelWatched, Completes
  <2>3. Later(job')
    BY <1>1, <1>6, <2>1, <2>2, LaterWrites
  <2> QED
    BY <1>5, <2>1, <2>3, CancelKeeps DEF Alive
<1> QED
  BY <1>3, <1>7, <1>8, <1>9, <1>10, <1>11, <1>12 DEF Cancelling

LEMMA QuietCaring == ASSUME PromptInv, OtherTypes, QuietInv, Caring PROVE QuietInv'
<1> USE DEF row, outside, counts, memory
<1>1. job \in JobRow
  BY DEF PromptInv
<1>2. CASE PressCancels /\ Cancellable
  BY <1>2, QuietBegins DEF PressCancels, QuietInv, JoinInv
<1>3. ASSUME Later(job'), UNCHANGED <<kind, prompts, file, process, op, ctl>>, process # "down",
             agent' = agent \/ agent' \in Quiet, rec' # "none" => kind = "schedule",
             Unread => job'.status = job.status
      PROVE  QuietInv'
  BY <1>3, CalmKeeps DEF Calm, CtlLater, QuietInv, JoinInv, Unread
<1>4. Interrupted \subseteq Quiet \cup {agent}
  BY DEF Interrupted, Quiet
<1>5. CASE RuntimeCleaned \/ (PressCancels /\ ~Cancellable)
  <2> DEFINE code == CASE job.code = "workspace_cleanup_failed" -> "other"
                       [] job.code \in {"terminal_steer_worker_unverified", "cancel_worker_unverified"} -> "none"
                       [] OTHER -> job.code
  <2>1. /\ UNCHANGED <<kind, prompts, file, process, op, ctl>> /\ process = "up"
        /\ agent' = agent \/ agent' \in Quiet
        /\ rec' = rec \/ rec' = "none"
        /\ job' = job \/ job' = [job EXCEPT !.workspace = FALSE, !.code = code]
    BY <1>5 DEF RuntimeCleaned, PressCancels, RecAt, Quiet
  <2>2. code = job.code \/ code \notin Unprompted
    BY DEF Unprompted
  <2> HIDE DEF code
  <2>3. job'.status = job.status /\ (job'.code = job.code \/ job'.code = code)
    BY <1>1, <2>1 DEF JobRow
  <2>4. Later(job')
    BY <2>2, <2>3 DEF Later
  <2> QED
    BY <1>3, <2>1, <2>3, <2>4 DEF QuietInv, JoinInv
<1>6. CASE Reconcile \/ PressedOn
  <2>1. /\ UNCHANGED <<kind, prompts, file, agent, process, op, ctl>> /\ process = "up" /\ kind = "schedule"
        /\ job' = job \/ (TryComplete /\ file # "none")
    BY <1>6 DEF Reconcile, PressedOn, Ambiguous, Pressing, Completes
  <2> QED
    BY <1>1, <1>3, <2>1, LaterWrites, UnreadMeans
<1>7. CASE RecLooked
  <2>1. /\ UNCHANGED <<kind, prompts, file, agent, process, op, ctl>> /\ rec = "look" /\ rec' = "none" /\ Alive
        /\ \/ TryComplete /\ file # "none"
           \/ /\ agent \in Quiet /\ file = "none" /\ job.status = "needs_review"
              /\ job' = Unfinished("cancelled", "cancelled")
           \/ job' = job
    BY <1>7 DEF RecLooked, RecAt, Completes, Settled
  <2>2. ctl.at # "steer"
    BY <2>1 DEF QuietInv, ReadInv, JoinInv
  <2>3. Later(job')
    BY <1>1, <2>1, <2>2, LaterWrites
  <2> QED
    BY <1>3, <2>1, <2>3, UnreadMeans DEF Alive
<1>8. CASE RecStops \/ RecStopWatched \/ RecProbed
  <2>1. /\ UNCHANGED <<kind, prompts, file, process, op, ctl>> /\ Alive /\ rec # "none"
        /\ agent' = agent \/ agent' \in Quiet
    BY <1>4, <1>8 DEF RecStops, RecStopWatched, RecProbed, Quiet
  <2>2. job' = job \/ StopNoted(TRUE) \/ StopNoted(FALSE)
    BY <1>8 DEF RecStops, RecStopWatched, RecProbed
  <2>3. job' = job \/ job.status = "needs_review"
    BY <2>2 DEF StopNoted
  <2>4. Later(job')
    BY <1>1, <2>2, LaterWrites
  <2> QED
    BY <1>3, <2>1, <2>3, <2>4, UnreadMeans DEF Alive, QuietInv, JoinInv
<1> QED
  BY <1>2, <1>5, <1>6, <1>7, <1>8 DEF Caring

LEMMA QuietRestart == ASSUME PromptInv, QuietInv, Restart PROVE QuietInv'
<1>1. job \in JobRow
  BY DEF PromptInv
<1>2. /\ UNCHANGED <<kind, outside, memory, prompts>> /\ process = "down" /\ process' = "up" /\ job' = Recovered
  BY DEF Restart, counts
<1>3. op.at = "none" /\ ctl.at = "none"
  BY <1>2 DEF QuietInv, JoinInv
<1>4. Later(Recovered)
  <2>1. CASE job.status = "preparing"
    <3>1. Recovered.status = "retryable_failed" /\ Recovered.code = "stale_preparing" /\ prompts = 0
      BY <1>1, <2>1 DEF Recovered, Unfinished, JobRow, PromptInv, Early
    <3> QED
      BY <1>3, <3>1 DEF Later, Early
  <2>2. CASE job.status # "preparing"
    <3> DEFINE code == CASE job.status = "cancelling" -> "ambiguous_cancel_acceptance"
                         [] job.status = "dispatching" -> "ambiguous_prompt_acceptance"
                         [] OTHER -> "other"
    <3>1. code \notin Unprompted
      BY DEF Unprompted
    <3>2. Recovered = job \/ Recovered = [job EXCEPT !.status = "needs_review", !.steer = "none", !.code = code]
      BY <2>2 DEF Recovered
    <3> HIDE DEF code
    <3>3. Recovered = job \/ (Recovered.status = "needs_review" /\ Recovered.code = code)
      BY <1>1, <3>2 DEF JobRow
    <3> QED
      BY <3>1, <3>3 DEF Later
  <2> QED
    BY <2>1, <2>2
<1> QED
  BY <1>2, <1>3, <1>4, CalmKeeps DEF Calm, CtlLater, outside, memory, QuietInv, JoinInv, Unread, AtPrompt

LEMMA QuietPublish == ASSUME PromptInv, QuietInv, Publish PROVE QuietInv'
<1>1. job \in JobRow
  BY DEF PromptInv
<1>2. /\ job' = [job EXCEPT !.told = @ \cup {job.status}]
      /\ UNCHANGED <<kind, outside, process, memory, prompts>>
  BY DEF Publish, counts
<1>3. job'.status = job.status /\ job'.code = job.code
  BY <1>1, <1>2 DEF JobRow
<1> QED
  BY <1>2, <1>3, CalmKeeps DEF Calm, Later, CtlLater, outside, memory, QuietInv, JoinInv

LEMMA QuietStep == ASSUME PromptInv, OtherTypes, QuietInv, [Next]_vars PROVE QuietInv'
  BY QuietOthers, QuietAgents, QuietStarting, QuietWatching, QuietSteering, QuietCancelling,
     QuietCaring, QuietRestart, QuietPublish DEF Next, Agents, Telling, Running

(***************************************************************************)
(* The theorems.                                                            *)
(***************************************************************************)
IInv == PromptInv /\ CleanInv /\ OtherTypes /\ Attempted /\ QuietInv

LEMMA InitInv == ASSUME Init PROVE IInv
<1> USE Limits
<1>1. job \in JobRow /\ job.status = "queued" /\ job.attempts = 0 /\ job.code = "none"
  <2>1. "queued" \in Status /\ "none" \in Code /\ "none" \in Steer
    BY Words DEF Early
  <2> QED
    BY <2>1 DEF Init, JobRow
<1>2. op \in OpRow /\ op.at = "none"
  BY DEF Init, NoOp, OpRow
<1>3. ctl \in CtlRow /\ ctl.at = "none" /\ ~ctl.unprompted
  BY NoCtlTyped DEF Init
<1>4. notice \in Notice
  BY DEF Init, NoNotice, Notice
<1>5. PromptInv /\ CleanInv
  BY <1>1, <1>2 DEF Init, PromptInv, CleanInv, BeforePrompt, AtPrompt
<1>6. OtherTypes
  BY <1>3, <1>4 DEF Init, OtherTypes, AgentStates, RecAts
<1>7. Attempted
  BY <1>1 DEF Init, Attempted
<1>8. QuietInv
  BY <1>1, <1>2, <1>3 DEF Init, QuietInv, ReadInv, JoinInv, Unread, AtPrompt, Quiet, Unprompted
<1> QED
  BY <1>5, <1>6, <1>7, <1>8 DEF IInv

LEMMA StepInv == ASSUME IInv, [Next]_vars PROVE IInv'
<1>1. job \in JobRow
  BY DEF IInv, PromptInv
<1> QED
  BY <1>1, PromptStep, CleanStep, OtherTypesStep, AttemptedStep, QuietStep DEF IInv

LEMMA Invariance == Spec => []IInv
  BY InitInv, StepInv, PTL DEF Spec

\* Rows, files, controls and counters have the values that columns and code allow,
\* for every attempt limit; a job is given no more attempts than the limit and one
\* for each shutdown or crash (prepareFailed, recoverStaleJobs).
THEOREM TypeCorrect == Spec => []TypeOK
<1>1. IInv => TypeOK
  <2> SUFFICES ASSUME IInv PROVE TypeOK
    OBVIOUS
  <2> USE Limits
  <2>1. /\ job \in JobRow /\ job.attempts \in 0..(MaxAttempts + CrashLimit)
        /\ job.attempts <= MaxAttempts + crashes
    <3>1. /\ job \in JobRow /\ job.attempts \in Nat /\ crashes \in 0..CrashLimit
          /\ job.attempts <= MaxAttempts + crashes
      BY DEF IInv, PromptInv, OtherTypes, Attempted, JobRow
    <3> QED
      BY <3>1
  <2>2. job \in [status : Status, code : Code, attempts : 0..(MaxAttempts + CrashLimit),
                 steer : {"none", "dispatching", "accepted"}, result : Valid \cup {"none"},
                 sent : BOOLEAN, workspace : BOOLEAN, told : SUBSET Status]
    BY <2>1 DEF JobRow, Steer
  <2>3. op \in [at : {"none", "access", "prepare", "baseline", "prompt", "reconcile", "ingest", "wait"},
                stale : BOOLEAN, made : BOOLEAN, known : BOOLEAN, read : BOOLEAN]
    BY DEF IInv, PromptInv, OpRow, BeforePrompt, AtPrompt
  <2>4. prompts \in 0..(MaxAttempts + CrashLimit) /\ keys \in Nat
    BY DEF IInv, PromptInv, CleanInv
  <2> QED
    BY <2>1, <2>2, <2>3, <2>4 DEF IInv, OtherTypes, TypeOK, Notice, CtlRow, RecAts, AgentStates
<1> QED
  BY <1>1, Invariance, PTL

\* A job's prompt is read at most once, and the terminal cleanup sends its ctrl+c
\* at most once, whatever answer, crash, retry, steer or stale preparation lies
\* between: startJob, reconcileStalledPrompt, recoverStaleJobs and
\* claimTerminalWorkerCleanup never repeat what may have been taken.
THEOREM NeverCommandedTwice == Spec => []CommandedOnce
<1>1. IInv => CommandedOnce
  BY DEF IInv, PromptInv, CleanInv, CommandedOnce
<1> QED
  BY <1>1, Invariance, PTL

\* Every path to cancelled saw the agent idle or gone and no result, after the start
\* that was under way was over: a prompt that still could be read is joined first
\* (beginJobCancellation), and a result outweighs the cancellation (tryComplete).
THEOREM NothingWorksForTheCancelled == Spec => []CancelledIsQuiet
<1>1. IInv => CancelledIsQuiet
  BY DEF IInv, QuietInv, CancelledIsQuiet, Quiet, Valid
<1> QED
  BY <1>1, Invariance, PTL

\* Late answers do not rewrite a finished job: markJobNeedsReview, markJobBlocked,
\* markJobCancelled, saveJobResult and beginJobCancellation leave it, and the start
\* and the steer that were under way find it changed.  Only recoverStaleJobs moves
\* it, when a steer's answer was lost.
THEOREM FinishedForGood == Spec => TerminalStays
<1>1. IInv /\ [Next]_vars =>
        [job.status \in Terminal => job'.status = job.status \/ job.steer = "dispatching"]_vars
  BY FinishedStays DEF IInv, PromptInv
<1> QED
  BY <1>1, Invariance, PTL DEF Spec, TerminalStays
=============================================================================
