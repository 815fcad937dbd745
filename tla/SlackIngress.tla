---------------------------- MODULE SlackIngress ----------------------------
(* How a Slack event becomes an event of the Dispatcher: a Socket Mode         *)
(* connection that is kept up, envelopes that are acknowledged only when the   *)
(* Dispatcher has stored the event, Slack that sends an unacknowledged one     *)
(* again, and a shutdown that waits for what is in flight.                     *)
EXTENDS Naturals, FiniteSets

CONSTANTS Events,      \* bound: events that Slack has for the app
          FaultLimit,  \* bound: failed posts, acks and connections
          StopLimit    \* bound: shutdowns, orderly or not

VARIABLES
    nature,   \* of each event: delivered, ignored or malformed
    slack,    \* events that Slack regards as acknowledged
    stored,   \* how often the Dispatcher stored each event
    handler,  \* envelopes in the adapter: handleEnvelope at its awaits
    stray,    \* posts that the adapter gave up and the Dispatcher still reads
    op,       \* another tracked operation (a reminder, a confirmation)
    socket,   \* the client, our view of it, connect() and the reconnect timers
    process,  \* running, stopping, drained as the updater was told, down
    broken,   \* a start of the client that should not have been
    used      \* faults and stops so far

vars == <<nature, slack, stored, handler, stray, op, socket, process, broken, used>>

Event == 1..Events
Slot == 1..2      \* Slack sends an envelope again while the first is in flight
Free == [at |-> "free", of |-> 0]
\* client: of @slack/socket-mode; promise: of the start() that connect awaits.
Closed == [client |-> "idle", state |-> "disconnected", promise |-> "none", timers |-> 0]

\* What Slack sends: a mention comes twice, as app_mention and as a message.
Kind == {"app_mention", "message", "mention_copy", "bot_message", "unused_type", "malformed"}

\* normalizeSlackEvent.
Normalized(kind) ==
    CASE kind \in {"app_mention", "message"} -> "delivered"
      [] kind \in {"mention_copy", "bot_message", "unused_type"} -> "ignored"
      [] OTHER -> "malformed"

Init ==
    /\ nature \in {[e \in Event |-> Normalized(kind[e])] : kind \in [Event -> Kind]}
    /\ slack = {} /\ stored = [e \in Event |-> 0]
    /\ handler = [k \in Slot |-> Free] /\ stray = {} /\ op = "none"
    /\ socket = Closed /\ process = "down" /\ broken = FALSE
    /\ used = [faults |-> 0, stops |-> 0]

Faulty == used.faults < FaultLimit /\ used' = [used EXCEPT !.faults = @ + 1]
Up == process # "down"
Stopping == process \in {"quiescing", "drained"}

\* inFlight.
InFlight == {k \in Slot : handler[k] # Free}
Quiet == InFlight = {} /\ op = "none"

(***************************************************************************)
(* The connection.                                                          *)
(***************************************************************************)
\* connect, up to its await.
Connected(s) ==
    IF Stopping \/ s.promise # "none" \/ s.state = "authentication_failed" THEN s
    ELSE [s EXCEPT !.promise = "pending", !.client = "starting", !.state = "connecting"]

\* client.start() is for a client that is neither starting nor connected, and
\* never again after a permanent refusal.
Misused(s) ==
    /\ Connected(s) # s
    /\ s.client # "idle" \/ s.state = "authentication_failed"

\* Mutant: a second reconnect is scheduled beside the first.
ScheduledTwice(s) ==
    IF Stopping \/ s.state = "authentication_failed" THEN s
    ELSE [s EXCEPT !.timers = IF @ < 2 THEN @ + 1 ELSE @, !.state = "reconnecting"]

\* scheduleReconnect.
Scheduled(s) ==
    IF Stopping \/ s.timers > 0 \/ s.state = "authentication_failed" THEN s
    ELSE [s EXCEPT !.timers = 1, !.state = "reconnecting"]

\* main: a new process starts its adapter.
Start ==
    /\ process = "down" /\ process' = "running"
    /\ socket' = [Closed EXCEPT !.promise = "pending", !.client = "starting", !.state = "connecting"]
    /\ UNCHANGED <<nature, slack, stored, handler, stray, op, broken, used>>

\* A promise that is settled goes on before any timer fires.
Timer ==
    /\ socket.timers > 0 /\ socket.promise \in {"none", "pending"}
    /\ LET s == [socket EXCEPT !.timers = @ - 1]
       IN socket' = Connected(s) /\ broken' = (broken \/ Misused(s))
    /\ UNCHANGED <<nature, slack, stored, handler, stray, op, process, used>>

\* The client says connected; what connect awaits is settled.
Open ==
    /\ socket.client = "starting"
    /\ socket' = [socket EXCEPT !.client = "connected", !.state = "connected",
                                !.promise = IF @ = "pending" THEN "fulfilled" ELSE @]
    /\ UNCHANGED <<nature, slack, stored, handler, stray, op, process, broken, used>>

\* The connection is lost, or it never came up: onLifecycle("disconnected").
Lose ==
    /\ socket.client # "idle" /\ Faulty
    /\ socket' = Scheduled([socket EXCEPT !.client = "idle", !.state = "disconnected",
                                          !.promise = IF @ = "pending" THEN "rejected" ELSE @])
    /\ UNCHANGED <<nature, slack, stored, handler, stray, op, process, broken>>

\* Slack cannot be reached, or refuses the token for good.
Refuse ==
    /\ socket.client = "starting" /\ socket.promise = "pending" /\ Faulty
    /\ \E answer \in {"rejected", "forbidden"} :
         socket' = [socket EXCEPT !.client = "idle", !.promise = answer]
    /\ UNCHANGED <<nature, slack, stored, handler, stray, op, process, broken>>

\* Mutant: a start that fails is not tried again.
SettleOnce ==
    /\ socket.promise \in {"fulfilled", "rejected", "forbidden"}
    /\ socket' = [socket EXCEPT !.promise = "none"]
    /\ UNCHANGED <<nature, slack, stored, handler, stray, op, process, broken, used>>

\* connect after its await.
Settle ==
    /\ socket.promise \in {"fulfilled", "rejected", "forbidden"}
    /\ socket' = LET s == [socket EXCEPT !.promise = "none"]
                 IN CASE socket.promise = "fulfilled" -> s
                      [] socket.promise = "rejected" -> Scheduled(s)
                      [] OTHER -> [s EXCEPT !.timers = 0, !.state = "authentication_failed"]
    /\ UNCHANGED <<nature, slack, stored, handler, stray, op, process, broken, used>>

(***************************************************************************)
(* An envelope: handleEnvelope.                                             *)
(***************************************************************************)
At(k, step) == [handler EXCEPT ![k].at = step]

\* Mutant: an envelope is taken whatever the adapter is doing.
HandlingAlways(e) ==
    CASE nature[e] = "malformed" -> Free
      [] nature[e] = "ignored" -> [at |-> "ack", of |-> e]
      [] OTHER -> [at |-> "post", of |-> e]

\* What becomes of an envelope before the first await: left alone while the
\* adapter stops, acknowledged when nobody needs it, not acknowledged when it
\* cannot be read, else posted.
Handling(e) ==
    CASE Stopping -> Free
      [] ~Stopping /\ nature[e] = "malformed" -> Free
      [] ~Stopping /\ nature[e] = "ignored" -> [at |-> "ack", of |-> e]
      [] OTHER -> [at |-> "post", of |-> e]

\* Slack sends what it has no acknowledgement for, again and again.
Receive(e, k) ==
    /\ socket.client = "connected" /\ e \notin slack /\ handler[k] = Free
    /\ handler' = [handler EXCEPT ![k] = Handling(e)]
    /\ UNCHANGED <<nature, slack, stored, stray, op, socket, process, broken, used>>

\* Mutant: an event that comes again is a new one.
StoredAgain(e) == [stored EXCEPT ![e] = @ + 1]

\* enqueue of the Dispatcher: the Slack event id is unique, see EventQueue.
StoredNow(e) == [stored EXCEPT ![e] = 1]

Store(k) ==
    /\ handler[k].at = "post" /\ stored' = StoredNow(handler[k].of)
    /\ handler' = At(k, "stored")
    /\ UNCHANGED <<nature, slack, stray, op, socket, process, broken, used>>

\* 200 and 202.
Persisted(k) ==
    /\ handler[k].at = "stored" /\ handler' = At(k, "ack")
    /\ UNCHANGED <<nature, slack, stored, stray, op, socket, process, broken, used>>

\* Mutant: whatever the Dispatcher answers, the envelope is acknowledged.
NotPersistedAcked(k) ==
    /\ handler[k].at = "post" /\ Faulty /\ handler' = At(k, "ack") /\ UNCHANGED stray
    /\ UNCHANGED <<nature, slack, stored, op, socket, process, broken>>

\* Another status, no Dispatcher, or a timeout: it may still store the event.
NotPersisted(k) ==
    /\ handler[k].at \in {"post", "stored"} /\ Faulty
    /\ handler' = [handler EXCEPT ![k] = Free]
    /\ stray' \in IF handler[k].at = "post" THEN {stray, stray \cup {handler[k].of}} ELSE {stray}
    /\ UNCHANGED <<nature, slack, stored, op, socket, process, broken>>

StrayArrives(e) ==
    /\ e \in stray /\ stray' = stray \ {e} /\ stored' = StoredNow(e)
    /\ UNCHANGED <<nature, slack, handler, op, socket, process, broken, used>>

\* envelope.ack, ackIgnored; an ack that fails is only logged.
Ack(k) ==
    /\ handler[k].at = "ack" /\ socket.client = "connected"
    /\ handler' = [handler EXCEPT ![k] = Free] /\ slack' = slack \cup {handler[k].of}
    /\ UNCHANGED <<nature, stored, stray, op, socket, process, broken, used>>
AckFails(k) ==
    /\ handler[k].at = "ack"
    /\ IF socket.client = "connected" THEN Faulty ELSE UNCHANGED used
    /\ handler' = [handler EXCEPT ![k] = Free]
    /\ UNCHANGED <<nature, slack, stored, stray, op, socket, process, broken>>

(***************************************************************************)
(* Shutdown.                                                                *)
(***************************************************************************)
\* trackOperation: a request is counted before it is looked at.
OpArrives ==
    /\ Up /\ op = "none" /\ op' = "checking"
    /\ UNCHANGED <<nature, slack, stored, handler, stray, socket, process, broken, used>>
\* rejectStopping.
OpChecked ==
    /\ op = "checking" /\ op' = IF Stopping THEN "none" ELSE "working"
    /\ UNCHANGED <<nature, slack, stored, handler, stray, socket, process, broken, used>>
OpEnds ==
    /\ op = "working" /\ op' = "none"
    /\ UNCHANGED <<nature, slack, stored, handler, stray, socket, process, broken, used>>

\* quiesce: no reconnect, then a wait that may run out of its grace.
Quiesce ==
    /\ process = "running" /\ used.stops < StopLimit
    /\ process' = "quiescing" /\ used' = [used EXCEPT !.stops = @ + 1]
    /\ socket' = [socket EXCEPT !.timers = 0]
    /\ UNCHANGED <<nature, slack, stored, handler, stray, op, broken>>

Disconnect ==
    /\ process = "quiescing" /\ socket.client # "idle"
    /\ socket' = [socket EXCEPT !.client = "idle", !.state = "disconnected",
                                !.promise = IF @ = "pending" THEN "rejected" ELSE @]
    /\ UNCHANGED <<nature, slack, stored, handler, stray, op, process, broken, used>>

\* Mutant: the wait was long enough.
ReportHopeful ==
    /\ process = "quiescing" /\ process' = "drained"
    /\ UNCHANGED <<nature, slack, stored, handler, stray, op, socket, broken, used>>

\* drainStatus, as the answer to the updater.
Report ==
    /\ process = "quiescing" /\ Quiet /\ process' = "drained"
    /\ UNCHANGED <<nature, slack, stored, handler, stray, op, socket, broken, used>>

\* The process ends, of itself or not; what it had posted may still be read.
End ==
    /\ Up /\ process' = "down"
    /\ IF process = "running" THEN used.stops < StopLimit /\ used' = [used EXCEPT !.stops = @ + 1]
                              ELSE UNCHANGED used
    /\ handler' = [k \in Slot |-> Free] /\ op' = "none" /\ socket' = Closed
    /\ stray' = stray \cup {handler[k].of : k \in {k \in Slot : handler[k].at = "post"}}
    /\ UNCHANGED <<nature, slack, stored, broken>>

(***************************************************************************)
(* The specification.                                                       *)
(***************************************************************************)
Connecting == Start \/ Timer \/ Open \/ Settle
Handle(k) == Store(k) \/ Persisted(k) \/ Ack(k) \/ AckFails(k)
Tracked == OpChecked \/ OpEnds
Leaving == Report \/ (process # "running" /\ End)

Next ==
    \/ Connecting \/ Lose \/ Refuse \/ Tracked \/ OpArrives
    \/ Quiesce \/ Disconnect \/ Report \/ End
    \/ \E k \in Slot : Handle(k) \/ NotPersisted(k) \/ \E e \in Event : Receive(e, k)
    \/ \E e \in Event : StrayArrives(e)

Spec == Init /\ [][Next]_vars

\* The adapter's event loop goes on, launchd starts it again, and Slack does not
\* give up an event before the faults end.
FairSpec ==
    /\ Spec /\ WF_vars(Connecting) /\ WF_vars(Tracked) /\ WF_vars(Leaving)
    /\ \A k \in Slot : WF_vars(Handle(k))
    /\ \A e \in Event : SF_vars(\E k \in Slot : Receive(e, k))

(***************************************************************************)
(* Properties.                                                              *)
(***************************************************************************)
TypeOK ==
    /\ nature \in [Event -> {"delivered", "ignored", "malformed"}]
    /\ slack \subseteq Event /\ stray \subseteq Event /\ stored \in [Event -> Nat]
    /\ handler \in [Slot -> [at : {"free", "post", "stored", "ack"}, of : 0..Events]]
    /\ op \in {"none", "checking", "working"} /\ broken \in BOOLEAN
    /\ socket.client \in {"idle", "starting", "connected"} /\ socket.timers \in 0..2
    /\ socket.promise \in {"none", "pending", "fulfilled", "rejected", "forbidden"}
    /\ socket.state \in {"connecting", "connected", "reconnecting", "disconnected", "authentication_failed"}
    /\ process \in {"down", "running", "quiescing", "drained"}

\* What Slack will not send again is stored, once, whatever was sent twice, lost
\* or answered late.  An event nobody needs, or nobody can read, is not stored.
AckedIsStored ==
    /\ \A e \in Event : nature[e] = "delivered" /\ e \in slack => stored[e] > 0
    /\ \A e \in Event : stored[e] <= 1 /\ (nature[e] # "delivered" => stored[e] = 0)

\* After the updater was told that the adapter has drained, nothing that it
\* counted goes on: no envelope, no delivery.  Only a post that timed out may
\* still be read by the Dispatcher.
DrainedIsQuiet == process = "drained" => InFlight = {} /\ op # "working"

\* The client is never started beside itself: a lost connection and a failed
\* start both ask for a reconnect.
OneSocket == ~broken

\* An event that Slack keeps sending is stored in the end, over reconnects,
\* failed posts and restarts, unless Slack refuses the app's token for good.
Arrived(e) == stored[e] = 1 \/ socket.state = "authentication_failed"
EventIsStored == \A e \in Event : nature[e] = "delivered" ~> Arrived(e)
=============================================================================
