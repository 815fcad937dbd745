---------------------------- MODULE SchedulerMC ----------------------------
(* An instance of Scheduler with two services and two senders, in which one   *)
(* disturbance at a time meets the rest: the second service with a batch, the *)
(* second sender with a row, a crash, a replaced revision, an authorization   *)
(* that ended.                                                               *)
EXTENDS Scheduler

CONSTANTS first, second,   \* the services
          one, two,        \* the senders
          Disturbances     \* bound: disturbances at a time

Bit(b) == IF b THEN 1 ELSE 0
Disturbed == Bit(batch[second] # NoBatch) + Bit(sender[two].at # "idle")
             + crashes + (db.rev - 1) + Cardinality(lapsed)

\* Two that are idle are alike: the first one claims.  The second of each joins
\* for the first occurrence only.
InTurn == /\ batch'[second] # NoBatch => batch[first] # NoBatch \/ batch[second] # NoBatch
          /\ sender'[two].at # "idle" => sender[one].at # "idle" \/ sender[two].at # "idle"
          /\ batch'[second].occ <= 1 /\ sender'[two].occ <= 1

\* Nothing that must happen is cut off for good: the first service or sender
\* does it when it is free.
Bounds == InTurn /\ Disturbed' <= Disturbances
=============================================================================
