------------------------- MODULE UpdateNotification -------------------------
(* How the end of an update is told in its Slack thread.  The updater's      *)
(* completion event waits in the Dispatcher's queue; a worker of its own      *)
(* keeps a row for it in a second database, asks the Slack Adapter to post    *)
(* and to set the session, writes the result file, closes the event and then  *)
(* the row.  The two databases, the file and Slack are written one after the  *)
(* other: a crash may come between any two, an answer may be lost, and the    *)
(* adapter goes on with a request its caller no longer waits for.             *)
EXTENDS Naturals, FiniteSets

CONSTANTS Events,       \* bound: completion events
          FaultLimit,   \* bound: failed calls and refusals
          OutageLimit,  \* bound: crashes of the Dispatcher
          HandLimit     \* bound: what the operator does by hand

VARIABLES
    event,    \* events: status, whether it can be rendered, whether it names its result file
    row,      \* update_notifications
    file,     \* the result file
    worker,   \* the worker's await and the event in its hands
    call,     \* requests in the adapter: one that is waited for, one that is not
    slack,    \* of each event: posts with its block, posts on their way, session set
    crossed,  \* events that two requests worked on at a time
    used      \* faults, outages and operations by hand so far

vars == <<event, row, file, worker, call, slack, crossed, used>>

Event == 1..Events     \* in the order of their sequence
Slot == {"awaited", "orphan"}

\* "by_hand": completed, with the result that manualComplete writes.
Done == {"completed", "by_hand"}
Closed == Done \cup {"needs_review", "dead_letter"}
NoRow == [status |-> "none", refused |-> FALSE, post |-> "none", due |-> TRUE]
NoFile == <<"none", "none">>
Aside == <<"aside", "none">>    \* no result file: it was put aside
Free == [at |-> "free", of |-> 0, post |-> "none"]
Idle == [at |-> "loop", of |-> 0]

Init ==
    /\ event = [e \in Event |-> [status |-> "absent", valid |-> TRUE, filed |-> FALSE]]
    /\ row = [e \in Event |-> NoRow]
    /\ file = [e \in Event |-> NoFile]
    /\ worker = Idle /\ call = [k \in Slot |-> Free]
    /\ slack = [e \in Event |-> [posts |-> 0, coming |-> 0, session |-> FALSE]]
    /\ crossed = {}
    /\ used = [faults |-> 0, outages |-> 0, hand |-> 0]

(***************************************************************************)
(* The Dispatcher's events and rows.                                        *)
(***************************************************************************)
\* handleInternalUpdate: a delivery that is repeated finds the event, see UpdateLedger.
Arrive(e) ==
    /\ event[e].status = "absent" /\ \A d \in 1..(e - 1) : event[d].status # "absent"
    /\ \E valid \in BOOLEAN :
           event' = [event EXCEPT ![e] = [status |-> "queued", valid |-> valid, filed |-> FALSE]]
    /\ UNCHANGED <<row, file, worker, call, slack, crossed, used>>

\* updateEventsNeedingNotification lists it and it has no row.
Unseen(e) == event[e].status = "queued" /\ row[e].status = "none"

\* ensure, or quarantineUpdateNotification when it cannot be rendered.
Ensure(e) ==
    /\ worker = Idle /\ Unseen(e) /\ \A d \in 1..(e - 1) : ~Unseen(d)
    /\ IF event[e].valid
       THEN row' = [row EXCEPT ![e].status = "pending"] /\ UNCHANGED event
       ELSE event' = [event EXCEPT ![e].status = "dead_letter"] /\ UNCHANGED row
    /\ UNCHANGED <<file, worker, call, slack, crossed, used>>

\* nextAvailable.
Available(e) == row[e].status \in {"pending", "posted"} /\ row[e].due
Chosen(e) == /\ worker = Idle /\ \A d \in Event : ~Unseen(d)
            /\ Available(e) /\ \A d \in 1..(e - 1) : ~Available(d)

\* retryAt: 5 s to 10 min.
Postponed(e) == [row EXCEPT ![e].status = "pending", ![e].due = FALSE]
Due(e) == /\ ~row[e].due /\ row' = [row EXCEPT ![e].due = TRUE]
          /\ UNCHANGED <<event, file, worker, call, slack, crossed, used>>

Faulty == used.faults < FaultLimit /\ used' = [used EXCEPT !.faults = @ + 1]

(***************************************************************************)
(* The worker: deliver.                                                     *)
(***************************************************************************)
Open(e) == event[e].status \notin Done \cup {"needs_review"}

\* The event was closed before the row, by hand or with a crash in between.
CatchUp(e) ==
    /\ Chosen(e) /\ ~Open(e)
    /\ row' = [row EXCEPT ![e].status = IF event[e].status \in Done THEN "reported" ELSE "needs_review"]
    /\ UNCHANGED <<event, file, worker, call, slack, crossed, used>>

FinishPosted(e) ==
    /\ Chosen(e) /\ Open(e) /\ row[e].status = "posted"
    /\ worker' = [at |-> "publish", of |-> e]
    /\ UNCHANGED <<event, row, file, call, slack, crossed, used>>

\* A request or a post for e that nobody waits for any more.
Straying(e) == (\E k \in Slot : call[k].at # "free" /\ call[k].of = e) \/ slack[e].coming > 0

\* beginDelivery, SlackAdapterNotificationClient.deliver.
Deliver(e) ==
    /\ Chosen(e) /\ Open(e) /\ row[e].status = "pending"
    /\ row' = [row EXCEPT ![e].status = "delivering"]
    /\ worker' = [at |-> "wait", of |-> e]
    /\ call' = [call EXCEPT !["awaited"] = [Free EXCEPT !.at = "look", !.of = e]]
    /\ crossed' = IF Straying(e) THEN crossed \cup {e} ELSE crossed
    /\ UNCHANGED <<event, file, slack, used>>

\* The adapter's answer, when someone waits for it: markPending, markPermanentPosted
\* or markPosted.  A fault is counted with the call that fails.
Postpone == worker' = Idle /\ row' = Postponed(worker.of)
Accept(refused, post) ==
    /\ worker' = [worker EXCEPT !.at = "publish"]
    /\ row' = [row EXCEPT ![worker.of].status = "posted", ![worker.of].refused = refused,
                          ![worker.of].post = IF post = "none" THEN @ ELSE post]
Answer(k, outcome, post) ==
    /\ call' = [call EXCEPT ![k] = Free]
    /\ IF k = "orphan" THEN UNCHANGED <<worker, row>>
       ELSE IF outcome = "retryable" THEN Postpone ELSE Accept(outcome = "permanent", post)

\* The adapter is down, stopping, or refuses the request.
Unserved ==
    /\ worker.at = "wait" /\ call["awaited"].at = "look" /\ Faulty
    /\ \E outcome \in {"retryable", "permanent"} : Answer("awaited", outcome, "none")
    /\ UNCHANGED <<event, file, slack, crossed>>

\* udsRequest gives up after jobCommandTimeoutMs; the adapter does not.
TimeOut ==
    /\ worker.at = "wait" /\ call["orphan"].at = "free" /\ Faulty
    /\ Postpone
    /\ call' = [awaited |-> Free, orphan |-> call["awaited"]]
    /\ UNCHANGED <<event, file, slack, crossed>>

\* Mutant: every result says that the update was reported.
ResultClaims(e) == <<"completed", row[e].post>>

\* finalizeReported, finalizePermanent: the result depends on the row alone.
Result(e) == <<IF row[e].refused THEN "failed" ELSE "completed", row[e].post>>

\* publishResult: a file that is there must say the same.
Publish ==
    /\ worker.at = "publish"
    /\ IF file[worker.of] \in {NoFile, Aside, Result(worker.of)}
       THEN file' = [file EXCEPT ![worker.of] = Result(worker.of)] /\ worker' = [worker EXCEPT !.at = "save"]
       ELSE worker' = Idle /\ UNCHANGED file
    /\ UNCHANGED <<event, row, call, slack, crossed, used>>

\* saveDeterministicCompleted, saveDeterministicFailure: an event that was put in the dead
\* letters meanwhile is refused, and its row stays as it is.
Save ==
    /\ worker.at = "save"
    /\ LET e == worker.of
           to == IF Result(e)[1] = "completed" THEN "completed" ELSE "needs_review"
       IN \/ /\ event[e].status = "queued" /\ worker' = [worker EXCEPT !.at = "mark"]
             /\ event' = [event EXCEPT ![e].status = to, ![e].filed = TRUE]
          \/ /\ event[e].status \in Done \cup {to} /\ worker' = [worker EXCEPT !.at = "mark"]
             /\ UNCHANGED event
          \/ /\ event[e].status \notin Done \cup {"queued", to} /\ worker' = Idle
             /\ UNCHANGED event
    /\ UNCHANGED <<row, file, call, slack, crossed, used>>

\* markReported, markNeedsReview.
Mark ==
    /\ worker.at = "mark"
    /\ row' = [row EXCEPT ![worker.of].status =
                  IF Result(worker.of)[1] = "completed" THEN "reported" ELSE "needs_review"]
    /\ worker' = Idle
    /\ UNCHANGED <<event, file, call, slack, crossed, used>>

(***************************************************************************)
(* The Slack Adapter: SlackUpdateNotificationReporter.deliver.              *)
(***************************************************************************)
At(k, step) == call[k].at = step
Goes(k, step, post) == call' = [call EXCEPT ![k].at = step, ![k].post = post] /\ UNCHANGED <<worker, row>>
Posts(k) == slack[call[k].of].posts

\* Mutant: the thread is not read before the post.
LookSkipped(k) == Goes(k, "post", "created") /\ UNCHANGED used

\* existingMessage, before the post.
Look(k) ==
    \/ Posts(k) = 0 /\ Goes(k, "post", "created") /\ UNCHANGED used
    \/ Posts(k) = 1 /\ Goes(k, "session", "existing") /\ UNCHANGED used
    \/ Posts(k) > 1 /\ Answer(k, "permanent", "none") /\ UNCHANGED used
    \/ Answer(k, "retryable", "none") /\ Faulty

\* postMessage: it is there, it never arrives, or it arrives later, and without an
\* answer the thread is read again; or Slack has dropped its block.
Post(k) ==
    \/ /\ slack' = [slack EXCEPT ![call[k].of].posts = @ + 1]
       /\ \/ Goes(k, "session", "created") /\ UNCHANGED used
          \/ Goes(k, "search", "created") /\ Faulty
    \/ UNCHANGED slack /\ (Goes(k, "search", "created") \/ Goes(k, "session", "created")) /\ Faulty
    \/ slack' = [slack EXCEPT ![call[k].of].coming = @ + 1] /\ Goes(k, "search", "created") /\ Faulty

\* existingMessage, after a post without an answer.
Search(k) ==
    \/ Posts(k) = 1 /\ Goes(k, "session", "created")
    \/ Answer(k, "permanent", "none")

\* setAgentSessionStatus.
Session(k) ==
    \/ /\ slack' = [slack EXCEPT ![call[k].of].session = TRUE] /\ UNCHANGED used
       /\ IF call[k].post = "created" THEN Goes(k, "verify", "created")
                                      ELSE Answer(k, "reported", "existing")
    \/ Answer(k, "retryable", "none") /\ Faulty /\ UNCHANGED slack

\* The read-back: another post beside it, or no block.
Verify(k) ==
    \/ Posts(k) = 1 /\ Answer(k, "reported", "created") /\ UNCHANGED used
    \/ Posts(k) > 1 /\ Answer(k, "permanent", "none") /\ UNCHANGED used
    \/ Posts(k) = 0 /\ Answer(k, "permanent", "created") /\ UNCHANGED used
    \/ Answer(k, "retryable", "none") /\ Faulty

Adapter(k) ==
    /\ \/ At(k, "look") /\ Look(k) /\ UNCHANGED slack
       \/ At(k, "post") /\ Post(k)
       \/ At(k, "search") /\ Search(k) /\ UNCHANGED <<slack, used>>
       \/ At(k, "session") /\ Session(k)
       \/ At(k, "verify") /\ Verify(k) /\ UNCHANGED slack
    /\ UNCHANGED <<event, file, crossed>>

\* Slack shows a post whose answer was given up.
Lands(e) ==
    /\ slack[e].coming > 0
    /\ slack' = [slack EXCEPT ![e].coming = @ - 1, ![e].posts = @ + 1]
    /\ UNCHANGED <<event, row, file, worker, call, crossed, used>>

(***************************************************************************)
(* Crash and restart, and the operator.                                     *)
(***************************************************************************)
Crash ==
    /\ worker.at # "down" /\ call["orphan"].at = "free"
    /\ used.outages < OutageLimit /\ used' = [used EXCEPT !.outages = @ + 1]
    /\ worker' = [at |-> "down", of |-> 0]
    /\ call' = [awaited |-> Free, orphan |-> call["awaited"]]
    /\ UNCHANGED <<event, row, file, slack, crossed>>

\* Mutant: what was being delivered stays so.
RecoveredNot(e) == row[e]

\* recoverDelivering.
Recovered(e) == IF row[e].status = "delivering" THEN [row[e] EXCEPT !.status = "pending", !.due = TRUE] ELSE row[e]

Restart ==
    /\ worker.at = "down" /\ worker' = Idle
    /\ row' = [e \in Event |-> Recovered(e)]
    /\ UNCHANGED <<event, file, call, slack, crossed, used>>

\* The operator's command line, a process of its own, knows nothing of the rows.
ByHand(e, status, filed) ==
    /\ used.hand < HandLimit /\ used' = [used EXCEPT !.hand = @ + 1]
    /\ event' = [event EXCEPT ![e].status = status, ![e].filed = filed]
    /\ UNCHANGED <<row, worker, call, slack, crossed>>

\* manualRetry: the event is queued again; a result file that it names is put aside.
Retry(e) ==
    /\ event[e].status \in {"needs_review", "dead_letter"} /\ ByHand(e, "queued", FALSE)
    /\ file' = IF event[e].filed THEN [file EXCEPT ![e] = Aside] ELSE file

\* manualComplete: an event that is completed stays as it is.
Complete(e) ==
    /\ event[e].status \notin Done \cup {"absent"} /\ ByHand(e, "by_hand", event[e].filed)
    /\ UNCHANGED file

\* manualDeadLetter: of whatever status.
DeadLetter(e) ==
    /\ event[e].status \notin {"absent", "dead_letter"} /\ ByHand(e, "dead_letter", event[e].filed)
    /\ UNCHANGED file

\* All that the running services and Slack do by themselves.
Work ==
    \/ \E e \in Event : Ensure(e) \/ CatchUp(e) \/ FinishPosted(e) \/ Deliver(e) \/ Lands(e)
    \/ Publish \/ Save \/ Mark \/ Restart
    \/ \E k \in Slot : Adapter(k)
Waiting == \E e \in Event : Due(e)
Next == \/ Work \/ Waiting \/ Unserved \/ TimeOut \/ Crash
        \/ \E e \in Event : Arrive(e) \/ Retry(e) \/ Complete(e) \/ DeadLetter(e)

Spec == Init /\ [][Next]_vars
\* The worker polls, the adapter's calls have timeouts, launchd restarts; no other step of
\* Work than those of a row that is stuck can be repeated for ever, and time goes on.
FairSpec == Spec /\ WF_vars(Work) /\ WF_vars(Waiting)

(***************************************************************************)
(* Properties.                                                              *)
(***************************************************************************)
\* See PostsPaid.
MostPosts == (3 + FaultLimit + OutageLimit) \div 2

Results == {NoFile, Aside} \cup ({"completed", "failed"} \X {"none", "created", "existing"})
TypeOK ==
    /\ event \in [Event -> [status : {"absent", "queued"} \cup Closed, valid : BOOLEAN, filed : BOOLEAN]]
    /\ row \in [Event -> [status : {"none", "pending", "delivering", "posted", "reported", "needs_review"},
                          refused : BOOLEAN, post : {"none", "created", "existing"}, due : BOOLEAN]]
    /\ file \in [Event -> Results]
    /\ worker \in [at : {"loop", "wait", "publish", "save", "mark", "down"}, of : Event \cup {0}]
    /\ call \in [Slot -> [at : {"free", "look", "post", "search", "session", "verify"},
                          of : Event \cup {0}, post : {"none", "created", "existing"}]]
    /\ slack \in [Event -> [posts : 0..MostPosts, coming : 0..FaultLimit, session : BOOLEAN]]
    /\ crossed \subseteq Event

\* deliver, existingMessage: lost answers, timeouts, crashes and repeated events
\* lead to a second post only if a request was still under way when the next began.
PostedOnce == \A e \in Event : slack[e].posts + slack[e].coming > 1 => e \in crossed

\* existingMessage, the timeout, recoverDelivering: requests that cross do not post
\* without end.  Each post after the first has cost a failed call or a crash; and since
\* a request reads the thread before it posts, all but two have come late, which has
\* cost one more.
PostsPaid == \A e \in Event :
    2 * (slack[e].posts + slack[e].coming) <= 3 + used.faults + used.outages

\* finalizeReported: an event is completed, other than by hand, when its post is in the
\* thread, the session is set and the result file says so, or was put aside by an operator
\* who had the event queued again in the middle.
CompletedIsPosted == \A e \in Event : event[e].status = "completed" =>
    slack[e].posts > 0 /\ slack[e].session /\ file[e][1] \in {"completed", "aside"}

\* loop, recoverDelivering, quarantineUpdateNotification: every event is closed, whatever
\* came before it in the queue, unless its row was closed by then (the operator's retry of
\* a closed report does not deliver it again), or a row stands before it whose event the
\* operator put in the dead letters: a posted row is refused for ever and is never put back.
Stuck(e) == event[e].status = "dead_letter" /\ row[e].status = "posted"
Through(e) ==
    \/ event[e].status \in Closed \/ row[e].status \in {"reported", "needs_review"}
    \/ \E d \in 1..(e - 1) : Stuck(d)
EveryEventCloses == \A e \in Event : event[e].status = "queued" ~> Through(e)
=============================================================================
