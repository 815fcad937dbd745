------------------------- MODULE SlackIngressProofs -------------------------
(* What SlackIngress promises holds for any number of events, faults and       *)
(* shutdowns: what Slack counts as delivered is stored once, the client is      *)
(* never started beside itself, and a drain that was reported is true.          *)
(* The three rest on separate state (the envelopes, the socket, the shutdown),  *)
(* so each part of the invariant is preserved on its own.                       *)
EXTENDS SlackIngress, TLAPS

(***************************************************************************)
(* The invariant.                                                           *)
(***************************************************************************)
\* The types of what the envelopes rest on, for every value of Events.
IntakeTyped ==
    /\ nature \in [Event -> {"delivered", "ignored", "malformed"}]
    /\ stored \in [Event -> {0, 1}]
    /\ handler \in [Slot -> [at : {"free", "post", "stored", "ack"}, of : Event \cup {0}]]
    /\ stray \subseteq Event

\* An envelope that is posted, or was, is of an event somebody needs; one whose
\* answer is in, or that is acknowledged for its sake, is stored.
EnvelopeTrue(k) ==
    /\ handler[k].at # "free" => handler[k].of \in Event
    /\ handler[k].at \in {"post", "stored"} => nature[handler[k].of] = "delivered"
    /\ handler[k].at = "stored" => stored[handler[k].of] = 1
    /\ handler[k].at = "ack" /\ nature[handler[k].of] = "delivered" => stored[handler[k].of] = 1

IntakeInv ==
    /\ IntakeTyped
    /\ \A k \in Slot : EnvelopeTrue(k)
    /\ \A e \in stray : nature[e] = "delivered"
    /\ AckedIsStored

\* A reconnect is scheduled, and then only once, while the client is idle; so it
\* is when connect learns that its start failed.
Socket ==
    [client : {"idle", "starting", "connected"},
     state : {"connecting", "connected", "reconnecting", "disconnected", "authentication_failed"},
     promise : {"none", "pending", "fulfilled", "rejected", "forbidden"},
     timers : {0, 1}]

SocketInv ==
    /\ socket \in Socket
    /\ socket.timers = 1 => socket.client = "idle"
    /\ socket.promise \in {"rejected", "forbidden"} => socket.client = "idle"
    /\ OneSocket

(***************************************************************************)
(* The envelopes.                                                           *)
(***************************************************************************)
\* Everything but the envelopes and their posts.
Elsewhere ==
    \/ Connecting \/ Lose \/ Refuse \/ Tracked \/ OpArrives
    \/ Quiesce \/ Disconnect \/ Report

\* The connection and the shutdown leave the envelopes alone, up to the end of
\* the process.
LEMMA ElsewhereKeeps == Elsewhere => UNCHANGED <<nature, slack, stored, handler, stray>>
  BY DEF Elsewhere, Connecting, Start, Timer, Open, Settle, Lose, Refuse, Tracked, OpArrives,
         OpChecked, OpEnds, Quiesce, Disconnect, Report

\* Every step of an envelope, a post or the process keeps what is said of them.
LEMMA IntakeStep == ASSUME IntakeInv, [Next]_vars PROVE IntakeInv'
<1> USE DEF IntakeInv, IntakeTyped, EnvelopeTrue, AckedIsStored, Slot, Free
<1>1. CASE UNCHANGED <<nature, slack, stored, handler, stray>>
  BY <1>1
<1>2. ASSUME NEW k \in Slot, NEW e \in Event, Receive(e, k) PROVE IntakeInv'
  BY <1>2 DEF Receive, Handling
<1>3. ASSUME NEW k \in Slot, Store(k) PROVE IntakeInv'
  BY <1>3 DEF Store, StoredNow, At
<1>4. ASSUME NEW k \in Slot, Persisted(k) PROVE IntakeInv'
  BY <1>4 DEF Persisted, At
<1>5. ASSUME NEW k \in Slot, NotPersisted(k) PROVE IntakeInv'
  BY <1>5 DEF NotPersisted
<1>6. ASSUME NEW k \in Slot, Ack(k) \/ AckFails(k) PROVE IntakeInv'
  BY <1>6 DEF Ack, AckFails
<1>7. ASSUME NEW e \in Event, StrayArrives(e) PROVE IntakeInv'
  BY <1>7 DEF StrayArrives, StoredNow
<1>8. CASE End
  BY <1>8 DEF End
<1>9. CASE UNCHANGED vars
  BY <1>1, <1>9 DEF vars
<1> QED
  BY <1>1, <1>2, <1>3, <1>4, <1>5, <1>6, <1>7, <1>8, <1>9, ElsewhereKeeps
  DEF Next, Handle, Elsewhere

(***************************************************************************)
(* The socket.                                                              *)
(***************************************************************************)
\* A reconnect asked for while the client is idle leaves it so.
LEMMA SchedulingIdles ==
    ASSUME NEW s \in Socket, s.client = "idle"
    PROVE  Scheduled(s) \in Socket /\ Scheduled(s).client = "idle"
<1> DEFINE t == [s EXCEPT !.timers = 1, !.state = "reconnecting"]
<1>1. t \in Socket /\ t.client = "idle"
  BY DEF Socket
<1>2. Scheduled(s) = s \/ Scheduled(s) = t
  BY DEF Scheduled
<1> QED
  BY <1>1, <1>2

\* A connection begins without a timer; one that does not leaves all as it is.
LEMMA ConnectingStarts ==
    ASSUME NEW s \in Socket, s.timers = 0, s.client = "idle"
    PROVE  /\ Connected(s) \in Socket /\ Connected(s).timers = 0
           /\ Connected(s) = s \/ Connected(s).promise = "pending"
           /\ ~Misused(s)
<1> DEFINE t == [s EXCEPT !.promise = "pending", !.client = "starting", !.state = "connecting"]
<1>1. t \in Socket /\ t.timers = 0 /\ t.promise = "pending"
  BY DEF Socket
<1>2. Connected(s) = s \/ (Connected(s) = t /\ s.state # "authentication_failed")
  BY DEF Connected
<1> QED
  BY <1>1, <1>2 DEF Misused

\* A timer fires, a start is answered, a connection is lost: whoever asks for a
\* reconnect finds the client idle, and at most one timer.
LEMMA SocketStep == ASSUME SocketInv, [Next]_vars PROVE SocketInv'
<1> USE DEF SocketInv, OneSocket
<1>1. CASE UNCHANGED <<socket, broken>>
  BY <1>1
<1>2. CASE Start
  <2>1. socket' = [client |-> "starting", state |-> "connecting", promise |-> "pending", timers |-> 0]
    BY <1>2 DEF Start, Closed
  <2>2. socket' \in Socket /\ socket'.timers = 0 /\ socket'.promise = "pending"
    BY <2>1 DEF Socket
  <2>3. broken' = broken
    BY <1>2 DEF Start
  <2> QED
    BY <2>2, <2>3
<1>3. CASE Timer
  <2> DEFINE s == [socket EXCEPT !.timers = @ - 1]
  <2>1. s \in Socket /\ s.timers = 0 /\ s.client = "idle"
    BY <1>3 DEF Timer, Socket
  <2>2. socket' = Connected(s) /\ broken' = (broken \/ Misused(s))
    BY <1>3 DEF Timer
  <2>3. socket.promise \in {"none", "pending"} /\ s.promise = socket.promise
    BY <1>3 DEF Timer, Socket
  <2> HIDE DEF s
  <2>4. ~Misused(s) /\ ~broken
    BY <2>1, ConnectingStarts
  <2>5. OneSocket'
    BY <2>2, <2>4, Zenon
  <2> QED
    BY <2>1, <2>2, <2>3, <2>5, ConnectingStarts
<1>4. CASE Open
  BY <1>4 DEF Open, Socket
<1>5. CASE Settle
  <2> DEFINE s == [socket EXCEPT !.promise = "none"]
             t == [s EXCEPT !.timers = 0, !.state = "authentication_failed"]
  <2>1. /\ s \in Socket /\ s.client = socket.client /\ s.timers = socket.timers
        /\ s.promise = "none" /\ t \in Socket /\ t.timers = 0 /\ t.promise = "none"
    BY DEF Socket
  <2>2. /\ broken' = broken
        /\ \/ socket' = s
           \/ socket' = t
           \/ socket.promise = "rejected" /\ socket' = Scheduled(s)
    BY <1>5 DEF Settle
  <2> HIDE DEF s, t
  <2>3. CASE socket' = Scheduled(s)
    BY <2>1, <2>2, <2>3, SchedulingIdles
  <2> QED
    BY <2>1, <2>2, <2>3
<1>6. CASE Lose
  <2> DEFINE s == [socket EXCEPT !.client = "idle", !.state = "disconnected",
                                 !.promise = IF @ = "pending" THEN "rejected" ELSE @]
  <2>1. s \in Socket /\ s.client = "idle"
    BY DEF Socket
  <2>2. socket' = Scheduled(s) /\ broken' = broken
    BY <1>6 DEF Lose
  <2> HIDE DEF s
  <2> QED
    BY <2>1, <2>2, SchedulingIdles
<1>7. CASE Refuse
  BY <1>7 DEF Refuse, Socket
<1>8. CASE Quiesce
  BY <1>8 DEF Quiesce, Socket
<1>9. CASE Disconnect
  BY <1>9 DEF Disconnect, Socket
<1>10. CASE End
  BY <1>10 DEF End, Closed, Socket
<1>11. CASE Tracked \/ OpArrives \/ Report
  BY <1>1, <1>11 DEF Tracked, OpArrives, OpChecked, OpEnds, Report
<1>12. ASSUME NEW k \in Slot, NEW e \in Event,
              Handle(k) \/ NotPersisted(k) \/ Receive(e, k) \/ StrayArrives(e)
       PROVE UNCHANGED <<socket, broken>>
  BY <1>12 DEF Handle, Store, Persisted, Ack, AckFails, NotPersisted, Receive, StrayArrives
<1>13. ASSUME NEW k \in Slot, Handle(k) \/ NotPersisted(k) PROVE UNCHANGED <<socket, broken>>
  BY <1>13 DEF Handle, Store, Persisted, Ack, AckFails, NotPersisted
<1>14. ASSUME NEW e \in Event, StrayArrives(e) PROVE UNCHANGED <<socket, broken>>
  BY <1>14 DEF StrayArrives
<1>15. CASE UNCHANGED vars
  BY <1>1, <1>15 DEF vars
<1> QED
  BY <1>1, <1>2, <1>3, <1>4, <1>5, <1>6, <1>7, <1>8, <1>9, <1>10, <1>11, <1>12, <1>13, <1>14, <1>15
  DEF Next, Connecting

(***************************************************************************)
(* The shutdown.                                                            *)
(***************************************************************************)
\* A drain is reported when nothing is counted; from then on an envelope is left
\* alone and a request that was let in is turned away.
LEMMA DrainStep ==
    ASSUME IntakeTyped, DrainedIsQuiet, [Next]_vars PROVE DrainedIsQuiet'
<1> USE DEF DrainedIsQuiet, InFlight, IntakeTyped, Slot, Free
<1>1. CASE UNCHANGED <<handler, op, process>>
  BY <1>1
<1>2. ASSUME NEW k \in Slot, NEW e \in Event, Receive(e, k) PROVE DrainedIsQuiet'
  BY <1>2 DEF Receive, Handling, Stopping
<1>3. ASSUME NEW k \in Slot, Handle(k) \/ NotPersisted(k) PROVE DrainedIsQuiet'
  BY <1>3 DEF Handle, Store, Persisted, Ack, AckFails, NotPersisted
<1>4. ASSUME NEW e \in Event, StrayArrives(e) PROVE UNCHANGED <<handler, op, process>>
  BY <1>4 DEF StrayArrives
<1>5. CASE Tracked \/ OpArrives
  BY <1>5 DEF Tracked, OpArrives, OpChecked, OpEnds, Stopping
<1>6. CASE Report
  BY <1>6 DEF Report, Quiet
<1>7. CASE Start \/ Quiesce \/ End
  BY <1>7 DEF Start, Quiesce, End
<1>8. CASE Timer \/ Open \/ Settle \/ Lose \/ Refuse \/ Disconnect
  BY <1>1, <1>8 DEF Timer, Open, Settle, Lose, Refuse, Disconnect
<1>9. CASE UNCHANGED vars
  BY <1>1, <1>9 DEF vars
<1> QED
  BY <1>1, <1>2, <1>3, <1>4, <1>5, <1>6, <1>7, <1>8, <1>9 DEF Next, Connecting

(***************************************************************************)
(* The types of all the state.                                              *)
(***************************************************************************)
\* What neither the envelopes nor the socket say.
RestTyped ==
    /\ slack \subseteq Event /\ op \in {"none", "checking", "working"} /\ broken \in BOOLEAN
    /\ process \in {"down", "running", "quiescing", "drained"}

\* Slack takes note of the events of envelopes only.
LEMMA RestStep == ASSUME IntakeInv, RestTyped, [Next]_vars PROVE RestTyped'
<1> USE DEF RestTyped
<1>1. CASE UNCHANGED <<slack, op, broken, process>>
  BY <1>1
<1>2. ASSUME NEW k \in Slot, Ack(k) PROVE RestTyped'
  BY <1>2 DEF Ack, IntakeInv, EnvelopeTrue
<1>3. CASE Tracked \/ OpArrives
  BY <1>3 DEF Tracked, OpChecked, OpEnds, OpArrives
<1>4. CASE Start \/ Quiesce \/ Report \/ End
  BY <1>4 DEF Start, Quiesce, Report, End
<1>5. CASE Timer
  BY <1>5 DEF Timer
<1>6. CASE Open \/ Settle \/ Lose \/ Refuse \/ Disconnect
  BY <1>1, <1>6 DEF Open, Settle, Lose, Refuse, Disconnect
<1>7. ASSUME NEW k \in Slot, NEW e \in Event, Receive(e, k) PROVE RestTyped'
  BY <1>1, <1>7 DEF Receive
<1>8. ASSUME NEW k \in Slot, Store(k) \/ Persisted(k) \/ AckFails(k) \/ NotPersisted(k) PROVE RestTyped'
  BY <1>1, <1>8 DEF Store, Persisted, AckFails, NotPersisted
<1>9. ASSUME NEW e \in Event, StrayArrives(e) PROVE RestTyped'
  BY <1>1, <1>9 DEF StrayArrives
<1>10. CASE UNCHANGED vars
  BY <1>1, <1>10 DEF vars
<1> QED
  BY <1>2, <1>3, <1>4, <1>5, <1>6, <1>7, <1>8, <1>9, <1>10 DEF Next, Connecting, Handle

\* The parts together are the types; of the counter of what was stored, and of the
\* timers, they say more.
LEMMA TypesOfParts ==
    ASSUME Events \in Nat, IntakeInv, SocketInv, RestTyped PROVE TypeOK
<1>1. Event \cup {0} \subseteq 0..Events
  BY DEF Event
<1>2. \A k \in Slot : handler[k].of \in 0..Events
  BY <1>1 DEF IntakeInv, IntakeTyped
<1>3. handler \in [Slot -> [at : {"free", "post", "stored", "ack"}, of : 0..Events]]
  BY <1>2 DEF IntakeInv, IntakeTyped
<1>4. stored \in [Event -> Nat]
  BY DEF IntakeInv, IntakeTyped
<1>5. /\ socket.client \in {"idle", "starting", "connected"} /\ socket.timers \in 0..2
      /\ socket.promise \in {"none", "pending", "fulfilled", "rejected", "forbidden"}
      /\ socket.state \in {"connecting", "connected", "reconnecting", "disconnected", "authentication_failed"}
  BY DEF SocketInv, Socket
<1> QED
  BY <1>3, <1>4, <1>5 DEF TypeOK, IntakeInv, IntakeTyped, RestTyped

(***************************************************************************)
(* The theorems.                                                            *)
(***************************************************************************)
\* What Slack regards as acknowledged is stored, every event at most once, and one
\* that nobody needs or can read never: handleEnvelope acknowledges only after the
\* Dispatcher's answer, over every lost answer, second delivery and restart.
THEOREM AckedAlwaysStored == Spec => []AckedIsStored
<1>1. Init => IntakeInv
  BY DEF Init, IntakeInv, IntakeTyped, EnvelopeTrue, AckedIsStored, Free, Slot, Normalized, Kind
<1>2. IntakeInv /\ [Next]_vars => IntakeInv'
  BY IntakeStep
<1>3. IntakeInv => AckedIsStored
  BY DEF IntakeInv
<1> QED
  BY <1>1, <1>2, <1>3, PTL DEF Spec

\* connect and scheduleReconnect never start the client beside itself or after a
\* permanent refusal, however the answers and the lifecycle events interleave.
THEOREM OneSocketAlways == Spec => []OneSocket
<1>1. Init => SocketInv
  BY DEF Init, SocketInv, OneSocket, Closed, Socket
<1>2. SocketInv /\ [Next]_vars => SocketInv'
  BY SocketStep
<1>3. SocketInv => OneSocket
  BY DEF SocketInv
<1> QED
  BY <1>1, <1>2, <1>3, PTL DEF Spec

\* After drainStatus told the updater that the adapter is drained, no envelope and
\* no tracked delivery goes on until the process ends.
THEOREM DrainedStaysQuiet == Spec => []DrainedIsQuiet
<1> DEFINE Inv == IntakeInv /\ DrainedIsQuiet
<1>1. Init => Inv
  BY DEF Init, IntakeInv, IntakeTyped, EnvelopeTrue, AckedIsStored, DrainedIsQuiet, Free, Slot, Normalized, Kind
<1>2. Inv /\ [Next]_vars => Inv'
  BY IntakeStep, DrainStep DEF IntakeInv
<1>3. Inv => DrainedIsQuiet
  OBVIOUS
<1> QED
  BY <1>1, <1>2, <1>3, PTL DEF Spec

\* Every variable keeps its type, for any number of events: of the reconnect timers
\* there is never more than one.
THEOREM TypesAlways == ASSUME Events \in Nat PROVE Spec => []TypeOK
<1> DEFINE Inv == IntakeInv /\ SocketInv /\ RestTyped
<1>1. Init => Inv
  <2> SUFFICES ASSUME Init PROVE Inv
    OBVIOUS
  <2>1. IntakeInv
    BY DEF Init, IntakeInv, IntakeTyped, EnvelopeTrue, AckedIsStored, Free, Slot, Normalized, Kind
  <2>2. SocketInv
    BY DEF Init, SocketInv, OneSocket, Closed, Socket
  <2>3. RestTyped
    BY DEF Init, RestTyped
  <2> QED
    BY <2>1, <2>2, <2>3
<1>2. Inv /\ [Next]_vars => Inv'
  BY IntakeStep, SocketStep, RestStep
<1>3. Inv => TypeOK
  BY TypesOfParts
<1> QED
  BY <1>1, <1>2, <1>3, PTL DEF Spec
=============================================================================
