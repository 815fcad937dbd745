---------------------------- MODULE EventQueueMC ----------------------------
(* One instance of EventQueue for two questions: scheduled work alone with    *)
(* retries and two outages; a Slack event and a notice, with one thing out of  *)
(* the ordinary: a reply other than "completed", a second attempt, an outage   *)
(* or an operator's retry.                                                    *)
EXTENDS EventQueue, FiniteSets

CONSTANTS slack, notice, work

Enqueued(e) == status[e] # "none"
Special(e) == file[e] \notin {"none", "completed"} \/ attempts[e] > 1
WorkAlone == ~Enqueued(slack) /\ ~Enqueued(notice)
Pair ==
    /\ ~Enqueued(work)
    /\ outages + retried[slack] + retried[notice] + Cardinality({e \in Event : Special(e)}) <= 1

\* Only steps that nothing makes happen are cut off: arrivals, retries, outages,
\* which reply the agent chooses, and a prompt that is refused a first time.
Bounds == (WorkAlone \/ Pair)'
=============================================================================
