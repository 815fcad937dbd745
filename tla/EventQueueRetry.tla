-------------------------- MODULE EventQueueRetry --------------------------
(***************************************************************************)
(* The queue, with the operator's retry as the two steps it is: the        *)
(* command reads the row and decides, then moves the old result away and   *)
(* writes, and the write does not look at the status again.  The worker of *)
(* the running Dispatcher, another process, acts in between.               *)
(***************************************************************************)
EXTENDS EventQueue

VARIABLE admitted   \* the event the command decided to retry, or NoEvent

RetryAdmitted(e) ==
    /\ admitted = NoEvent
    /\ status[e] \in Retryable
    /\ ~RetryNeedsReconciliation(e)
    /\ retried[e] < RetryLimit
    /\ admitted' = e
    /\ UNCHANGED vars

RetryWritten(e) ==
    /\ admitted = e
    /\ admitted' = NoEvent
    /\ Requeue(e)

QInit == Init /\ admitted = NoEvent

QNext == \/ Next /\ UNCHANGED admitted
         \/ \E e \in Event : RetryAdmitted(e) \/ RetryWritten(e)

QSpec == QInit /\ [][QNext]_<<vars, admitted>>

\* A retry does not take an event out of the agent's hands: manualRetry says
\* that an event in such a status cannot be retried (database.ts:3265-3267).
NoRetryWhileOwned ==
    [][\A e \in Event : retried'[e] # retried[e] => status[e] \notin AgentOwned]_<<vars, admitted>>
=============================================================================
