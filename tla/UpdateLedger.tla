---------------------------- MODULE UpdateLedger ----------------------------
(***************************************************************************)
(* The update requests of the stable updater: their states, the lease and  *)
(* fence that say who may write, the one controller, and the outbox that   *)
(* reports each decision to the Dispatcher.                                *)
(*                                                                         *)
(* The updater is one process.  Its service loop (processNext, then        *)
(* deliverOutbox) and the reconcile and rollback requests of its API run   *)
(* interleaved, with the same lease owner: every await is a value of pc.   *)
(* What a claimed request does to the running release, and what it learns  *)
(* from it, is left open here: a runner may take each step that some       *)
(* outcome of its calls allows.                                            *)
(***************************************************************************)
EXTENDS Integers

CONSTANTS
    Request,       \* the plans that may be made
    NoRequest,
    MaxFence,      \* bound: claims and reopenings of all requests together
    RollbackLimit, \* bound: rollbacks ordered by the operator
    OutageLimit    \* bound: ends of the process

ASSUME RequestAssumption == NoRequest \notin Request
ASSUME BoundAssumption == MaxFence \in Nat /\ RollbackLimit \in Nat /\ OutageLimit \in Nat

VARIABLES
    \* update_requests
    state,
    fence,
    lease,      \* whose the lease is, and whether it has expired
    why,        \* the class of last_error_code, of a request in review
    deferred,   \* reconcile_after lies ahead
    deadline,   \* reconcile_deadline
    \* controller_state
    active,
    \* update_outbox, by request and fence
    notice,
    \* the Dispatcher
    approval,   \* the approval event of the request is completed
    wire,       \* notices posted that may still arrive
    event,      \* the Dispatcher's copy of a notice
    \* the process
    mode, outages, rollbacks, claims,
    pc, req, fen,  \* of each runner: the await, the request and the fence it claimed
    hand,          \* and the state of the row in its hand
    batch, note    \* deliverOutbox: the rows it read and the one it is at

rowVars   == <<state, fence, lease, why, deferred, deadline, active, notice>>
peerVars  == <<approval, wire, event>>
modeVars  == <<mode, outages, rollbacks, claims>>
runVars   == <<pc, req, fen, hand>>
batchVars == <<batch, note>>
vars == <<rowVars, peerVars, modeVars, runVars, batchVars>>

\* The service loop, and a reconcile or rollback request to the API.
Runner == {"loop", "call"}

Undecided == {"awaiting_approval", "approved", "preparing", "staged"}
Mutating  == {"quiescing", "activating", "restarting", "verifying", "rolling_back"}
Final     == {"succeeded", "failed", "rolled_back", "cancelled"}
Terminal  == Final \cup {"needs_review"}
Open      == Undecided \cup Mutating
Runnable  == (Undecided \ {"awaiting_approval"}) \cup Mutating
State     == Open \cup Terminal \cup {"none"}

\* assertTransition.  "requested" and "planning" are never entered.
Allowed ==
    [awaiting_approval |-> {"approved", "cancelled", "failed"},
     approved          |-> {"preparing", "cancelled", "failed", "needs_review"},
     preparing         |-> {"staged", "failed", "needs_review", "cancelled"},
     staged            |-> {"quiescing", "cancelled", "failed", "needs_review"},
     quiescing         |-> {"activating", "failed", "needs_review"},
     activating        |-> {"restarting", "rolling_back", "failed", "needs_review"},
     restarting        |-> {"verifying", "rolling_back", "needs_review"},
     verifying         |-> {"succeeded", "rolling_back", "needs_review"},
     rolling_back      |-> {"rolled_back", "needs_review"},
     needs_review      |-> {"rolling_back", "verifying"},
     succeeded |-> {}, failed |-> {}, rolled_back |-> {}, cancelled |-> {}, none |-> {}]

\* transitionInternal lets a state be written again.
CanBecome(r, to) == state[r] = to \/ to \in Allowed[state[r]]

Fence == 0..MaxFence
Notices == Request \X Fence
NoNote == <<NoRequest, 0>>

NoNotice == [status |-> "none", tried |-> FALSE, superseded |-> FALSE, says |-> "none"]
Drafted(to) == [status |-> "pending", tried |-> FALSE, superseded |-> FALSE, says |-> to]

Status(n) == notice[n[1]][n[2]].status

Init ==
    /\ state = [r \in Request |-> "none"]
    /\ fence = [r \in Request |-> 0]
    /\ lease = [r \in Request |-> "none"]
    /\ why = [r \in Request |-> "none"]
    /\ deferred = [r \in Request |-> FALSE]
    /\ deadline = [r \in Request |-> "none"]
    /\ active = NoRequest
    /\ notice = [r \in Request |-> [f \in Fence |-> NoNotice]]
    /\ approval = [r \in Request |-> FALSE]
    /\ wire = {}
    /\ event = [r \in Request |-> [f \in Fence |-> "absent"]]
    /\ mode = "down" /\ outages = 0 /\ rollbacks = 0 /\ claims = 0
    /\ pc = [k \in Runner |-> "idle"]
    /\ req = [k \in Runner |-> NoRequest]
    /\ fen = [k \in Runner |-> 0]
    /\ hand = [k \in Runner |-> "none"]
    /\ batch = {} /\ note = NoNote

-----------------------------------------------------------------------------
(***************************************************************************)
(* Reads and writes of the database                                        *)
(***************************************************************************)

\* hasUnreportedTerminalNotification: "delivered" is not yet reported to Slack.
InFlight(x) == ~x.superseded /\ x.status \in {"pending", "delivering", "delivered"}
Unreported == \E r \in Request, f \in Fence : InFlight(notice[r][f])

Written(r) == {f \in Fence : notice[r][f].status # "none"}
Newest(r, f) == f \in Written(r) /\ \A g \in Written(r) : g <= f

\* terminalOutboxSettledForCorrection
SettledForCorrection(r) == \E f \in Fence :
    /\ Newest(r, f)
    /\ ~notice[r][f].superseded
    /\ \/ notice[r][f].status = "pending" /\ ~notice[r][f].tried
       \/ notice[r][f].status \in {"needs_review", "reported"}

\* insertOutbox: one row for a request and fence; a decision not yet sent is
\* superseded by the next one of the same request.
InsertOutbox(r, f, to) ==
    notice' = [notice EXCEPT ![r] = [g \in Fence |->
        IF g = f THEN IF @[g].status = "none" THEN Drafted(to) ELSE @[g]
        ELSE IF @[g].status = "pending" THEN [@[g] EXCEPT !.superseded = TRUE] ELSE @[g]]]

\* completeInternal: the decision, its report and the release of the controller
\* are one transaction.
Complete(r, f, to, code) ==
    /\ state' = [state EXCEPT ![r] = to]
    /\ fence' = [fence EXCEPT ![r] = f]
    /\ lease' = [lease EXCEPT ![r] = "none"]
    /\ why' = [why EXCEPT ![r] = IF to = "needs_review" THEN code ELSE "none"]
    /\ deferred' = [deferred EXCEPT ![r] = FALSE]
    /\ deadline' = [deadline EXCEPT ![r] = "none"]
    /\ active' = IF active = r THEN NoRequest ELSE active
    /\ InsertOutbox(r, f, to)

\* transition
MoveTo(r, to) ==
    /\ state' = [state EXCEPT ![r] = to]
    /\ UNCHANGED <<fence, lease, why, deferred, deadline, active, notice>>

Unexpired == {"mine", "foreign"}

\* The last process still holds the lease, or another request is being worked on.
ClaimRefused(r) ==
    \/ lease[r] = "foreign"
    \/ active \notin {NoRequest, r} /\ lease[active] \in Unexpired /\ state[active] \notin Terminal

\* Mutant: a claim by the owner of the lease keeps the fence.
NextFenceOfOwner(r) == IF lease[r] = "mine" THEN fence[r] ELSE fence[r] + 1

NextFence(r) == fence[r] + 1

\* Mutant: a decided request is opened again under the fence of its decision.
SameFence(r) == fence[r]

FenceOfReopening(r) == fence[r] + 1

CountClaim == claims < MaxFence /\ claims' = claims + 1

\* claim takes the row as it is: only "approved" moves, and nothing asks
\* whether the request is already decided.
Claim(k, r, to) ==
    /\ ~ClaimRefused(r) /\ CountClaim
    /\ fence' = [fence EXCEPT ![r] = NextFence(r)]
    /\ state' = [state EXCEPT ![r] = IF @ = "approved" THEN "preparing" ELSE @]
    /\ lease' = [lease EXCEPT ![r] = "mine"]
    /\ active' = r
    /\ pc' = [pc EXCEPT ![k] = to]
    /\ req' = [req EXCEPT ![k] = r]
    /\ fen' = [fen EXCEPT ![k] = NextFence(r)]
    /\ hand' = [hand EXCEPT ![k] = state'[r]]
    /\ UNCHANGED <<why, deferred, deadline, notice, batch>>

Holds(k) == req[k] # NoRequest /\ fen[k] = fence[req[k]]

\* Mutant: the assertion does not look at completed_at.
AssertedByFence(k) == Holds(k)

\* assertLease
Asserted(k) == Holds(k) /\ lease[req[k]] = "mine" /\ state[req[k]] \notin Terminal

\* What is also written after an await with no assertLease in between: there
\* transition and terminal compare the fence, and no more.
FenceSuffices == {"activating", "restarting", "needs_review"}

MayEnter(k, to) == IF to \in FenceSuffices THEN Holds(k) ELSE Asserted(k)

Leave(k, to) ==
    /\ pc' = [pc EXCEPT ![k] = to]
    /\ req' = [req EXCEPT ![k] = NoRequest]
    /\ fen' = [fen EXCEPT ![k] = 0]
    /\ hand' = [hand EXCEPT ![k] = "none"]

\* Mutant: a notice whose answer was lost is not read again.
DueUnlessSending(n) == InFlight(notice[n[1]][n[2]]) /\ Status(n) # "delivering"

Due(n) == InFlight(notice[n[1]][n[2]])

\* The runner is done: the request is answered, the loop reads the reports due.
Return(k) == IF k = "call" THEN Leave(k, "idle") /\ UNCHANGED batch
    ELSE /\ batch' = {n \in Notices : Due(n)'}
         /\ Leave(k, IF batch' = {} THEN "idle" ELSE "outbox")

\* An error out of processNext also skips deliverOutbox.
Throw(k) == Leave(k, "idle") /\ UNCHANGED batch

StepTo(k, to) == pc' = [pc EXCEPT ![k] = to] /\ UNCHANGED <<req, fen, hand, batch>>

-----------------------------------------------------------------------------
(***************************************************************************)
(* The API: plan, apply, cancel                                            *)
(***************************************************************************)

ApiStep == mode = "serve" /\ UNCHANGED <<peerVars, modeVars, runVars, batchVars>>

\* Mutant: a request that touched the runtime no longer counts as open.
IsUndecided(x) == state[x] \in Undecided

IsOpen(x) == state[x] \in Open

CreatePlan(r) ==
    /\ state[r] = "none"
    /\ \A x \in Request : ~IsOpen(x)
    /\ ~Unreported
    /\ MoveTo(r, "awaiting_approval")
    /\ ApiStep

Approve(r) ==
    /\ state[r] = "awaiting_approval"
    /\ MoveTo(r, "approved")
    /\ ApiStep

\* Before the runtime was touched this cancels; afterwards somebody must look.
RequestCancellation(r) ==
    /\ state[r] \in Open
    /\ Complete(r, fence[r], IF state[r] \in Undecided THEN "cancelled" ELSE "needs_review", "other")
    /\ ApiStep

-----------------------------------------------------------------------------
(***************************************************************************)
(* processNext and reconcile                                               *)
(***************************************************************************)

Candidate(r) == state[r] \in Runnable /\ ~deferred[r]

\* With several candidates the code takes the oldest: here, any.
LoopReady == mode = "serve" /\ pc["loop"] = "idle"
LoopStep  == UNCHANGED <<peerVars, mode, outages, rollbacks, note>>
Unclaimed == UNCHANGED claims

\* Nothing to do, or the report of the last decision stands in the way.  The
\* bound on claims must not keep the loop from its reports.
ProcessNothing ==
    /\ LoopReady
    /\ \/ \E r \in Request : Candidate(r) /\ (Unreported \/ claims = MaxFence)
       \/ /\ \A r \in Request : ~Candidate(r)
          /\ \A r \in Request : state[r] = "needs_review" /\ why[r] = "reconcilable" => claims = MaxFence
    /\ UNCHANGED rowVars /\ Return("loop")
    /\ Unclaimed /\ LoopStep

\* The approval event must be completed: ask the Dispatcher first.
ProcessApproved(r) ==
    /\ LoopReady /\ Candidate(r) /\ ~Unreported
    /\ state[r] = "approved"
    /\ pc' = [pc EXCEPT !["loop"] = "barrier"]
    /\ req' = [req EXCEPT !["loop"] = r]
    /\ UNCHANGED <<fen, hand, batch, rowVars>> /\ Unclaimed /\ LoopStep

BarrierRefused ==
    /\ pc["loop"] = "barrier"
    /\ UNCHANGED rowVars
    /\ \/ ~approval[req["loop"]] /\ Return("loop")
       \/ ClaimRefused(req["loop"]) /\ Return("loop")
       \/ Throw("loop")   \* the Dispatcher does not answer
    /\ Unclaimed /\ LoopStep

BarrierPassed ==
    /\ pc["loop"] = "barrier"
    /\ approval[req["loop"]]
    /\ Claim("loop", req["loop"], "attempt")
    /\ LoopStep

ProcessPrepared(r) ==
    /\ LoopReady /\ Candidate(r) /\ ~Unreported
    /\ state[r] \in {"preparing", "staged"}
    /\ \/ Claim("loop", r, "attempt")
       \/ ClaimRefused(r) /\ UNCHANGED rowVars /\ Return("loop") /\ Unclaimed
    /\ LoopStep

ProcessMutating(r) ==
    /\ LoopReady /\ Candidate(r) /\ ~Unreported
    /\ state[r] \in Mutating
    /\ ~ClaimRefused(r)
    /\ Claim("loop", r, "reconcile")
    /\ LoopStep

\* Only when no request is open; the report of this one need not be settled yet.
ProcessReview(r) ==
    /\ LoopReady
    /\ \A x \in Request : ~Candidate(x)
    /\ state[r] = "needs_review" /\ why[r] = "reconcilable"
    /\ pc' = [pc EXCEPT !["loop"] = "evidence"]
    /\ req' = [req EXCEPT !["loop"] = r]
    /\ UNCHANGED <<fen, hand, batch, rowVars>> /\ Unclaimed /\ LoopStep

\* A request to the API.
CallReconcile(r) ==
    /\ mode = "serve" /\ pc["call"] = "idle"
    /\ \/ /\ state[r] \in Open
          /\ Claim("call", r, "reconcile")
       \/ /\ state[r] = "needs_review"
          /\ pc' = [pc EXCEPT !["call"] = "evidence"]
          /\ req' = [req EXCEPT !["call"] = r]
          /\ UNCHANGED <<fen, hand, batch, rowVars>> /\ Unclaimed
    /\ LoopStep

\* beginOperatorRollback asks whether another update is active, not whether
\* another one is open.
CallRollback(r) ==
    /\ mode = "serve" /\ pc["call"] = "idle"
    /\ state[r] = "needs_review" /\ active \in {NoRequest, r}
    /\ rollbacks < RollbackLimit /\ CountClaim
    /\ rollbacks' = rollbacks + 1
    /\ state' = [state EXCEPT ![r] = "rolling_back"]
    /\ fence' = [fence EXCEPT ![r] = FenceOfReopening(r)]
    /\ lease' = [lease EXCEPT ![r] = "mine"]
    /\ active' = r
    /\ pc' = [pc EXCEPT !["call"] = "reconcile"]
    /\ req' = [req EXCEPT !["call"] = r]
    /\ fen' = [fen EXCEPT !["call"] = FenceOfReopening(r)]
    /\ hand' = [hand EXCEPT !["call"] = "rolling_back"]
    /\ why' = [why EXCEPT ![r] = "none"]
    /\ UNCHANGED <<deferred, deadline, notice, mode, outages, peerVars, batchVars>>

-----------------------------------------------------------------------------
(***************************************************************************)
(* A claimed request at work                                               *)
(***************************************************************************)

\* In runClaimed: an attempt of the loop, or the reconcile of a request that
\* already touched the runtime.  A reconcile of an earlier state only observes.
Working(k) == \/ pc[k] = "attempt"
              \/ pc[k] = "reconcile" /\ hand[k] \in Mutating

WorkStep == Unclaimed /\ LoopStep

Advances ==
    [preparing |-> {"staged"}, staged |-> {"quiescing"}, quiescing |-> {"activating"},
     activating |-> {"restarting"}, restarting |-> {"verifying", "rolling_back"},
     verifying |-> {"rolling_back"}]

Advance(k) ==
    /\ Working(k) /\ hand[k] \in DOMAIN Advances
    /\ \E to \in Advances[hand[k]] :
          /\ MayEnter(k, to)
          /\ to = "quiescing" => approval[req[k]]
          /\ CanBecome(req[k], to)
          /\ MoveTo(req[k], to)
          /\ hand' = [hand EXCEPT ![k] = to]
    /\ UNCHANGED <<pc, req, fen, batch>> /\ WorkStep

Outcomes ==
    [preparing |-> {"needs_review"}, staged |-> {"failed", "needs_review"},
     quiescing |-> {"failed", "needs_review"}, activating |-> {"failed", "needs_review"},
     restarting |-> {"needs_review"}, verifying |-> {"succeeded", "needs_review"},
     rolling_back |-> {"rolled_back", "needs_review"}]

Decide(k) ==
    /\ Working(k) /\ hand[k] \in DOMAIN Outcomes
    /\ \E to \in Outcomes[hand[k]], code \in {"reconcilable", "other"} :
          /\ MayEnter(k, to)
          /\ CanBecome(req[k], to)
          /\ Complete(req[k], fence[req[k]], to, code)
    /\ Return(k) /\ WorkStep

\* deferOrReview: nothing is proved yet.  The first one sets the deadline, and
\* one after the deadline gives up.
DeferOrReview(k) ==
    LET r == req[k] IN
    /\ Working(k) /\ hand[k] \in Mutating
    /\ Holds(k) /\ state[r] \notin Terminal
    /\ IF deadline[r] = "expired"
         THEN Complete(r, fence[r], "needs_review", "reconcilable")
         ELSE /\ deferred' = [deferred EXCEPT ![r] = TRUE]
              /\ deadline' = [deadline EXCEPT ![r] = "open"]
              /\ lease' = [lease EXCEPT ![r] = "none"]
              /\ UNCHANGED <<state, fence, why, active, notice>>
    /\ Return(k) /\ WorkStep

\* An error inside the attempt reaches handleUnexpected: a lost lease, a failed
\* call, an approval that is not complete.  Elsewhere it leaves the runner.
Unexpected(k) ==
    LET r == req[k] IN
    /\ pc[k] = "attempt"
    /\ IF ~Holds(k) \/ state[r] \in Terminal
         THEN UNCHANGED rowVars /\ Return(k)
         ELSE IF state[r] \in Mutating
              THEN Complete(r, fence[r], "needs_review", "other") /\ Return(k)
              ELSE StepTo(k, "unexpected") /\ UNCHANGED rowVars
    /\ WorkStep

\* The runtime was looked at meanwhile; terminal checks fence and transition.
UnexpectedSettled(k) ==
    LET r == req[k] IN
    /\ pc[k] = "unexpected"
    /\ \/ \E to \in {"failed", "needs_review"} :
             /\ Holds(k) /\ CanBecome(r, to)
             /\ Complete(r, fence[r], to, "other") /\ Return(k)
       \/ /\ ~Holds(k) \/ state[r] \in Terminal
          /\ Throw(k) /\ UNCHANGED rowVars
    /\ WorkStep

ReconcileThrows(k) ==
    /\ pc[k] = "reconcile"
    /\ Throw(k) /\ UNCHANGED rowVars /\ WorkStep

\* reconcile's own reading of the pointers: neither release is current, or there
\* is nothing to do.  No lease assertion stands before the write.
ReconcileObserves(k) ==
    LET r == req[k] IN
    /\ pc[k] = "reconcile"
    /\ \/ /\ Holds(k) /\ CanBecome(r, "needs_review")
          /\ Complete(r, fence[r], "needs_review", "other")
       \/ hand[k] \notin Mutating /\ UNCHANGED rowVars
    /\ Return(k) /\ WorkStep

\* observeTerminal proved nothing, or a report of this request is still out.
EvidenceMissing(k) ==
    /\ pc[k] = "evidence"
    /\ UNCHANGED rowVars /\ Return(k) /\ WorkStep

EvidenceUnavailable(k) ==
    /\ pc[k] = "evidence"
    /\ Throw(k) /\ UNCHANGED rowVars /\ WorkStep

Correctable(r) ==
    /\ state[r] = "needs_review" /\ why[r] = "reconcilable"
    /\ active \in {NoRequest, r}

\* completeEvidenceReconcile reopens under a new fence and closes in one
\* transaction.
EvidenceProved(k) ==
    LET r == req[k] IN
    /\ pc[k] = "evidence" /\ SettledForCorrection(r)
    /\ IF Correctable(r)
         THEN /\ CountClaim
              /\ \E to \in {"succeeded", "rolled_back"} : Complete(r, FenceOfReopening(r), to, "other")
              /\ Return(k)
         ELSE Throw(k) /\ UNCHANGED rowVars /\ Unclaimed
    /\ LoopStep

-----------------------------------------------------------------------------
(***************************************************************************)
(* deliverOutbox and the Dispatcher                                        *)
(***************************************************************************)

Mark(n, s) == notice' = [notice EXCEPT ![n[1]][n[2]].status = s]
OutboxStep == UNCHANGED <<state, fence, lease, why, deferred, deadline, active, approval, modeVars, req, fen, hand>>

\* What was read may have been superseded since: it is sent all the same.
Deliver(n) ==
    /\ pc["loop"] = "outbox" /\ n \in batch /\ Status(n) = "pending"
    /\ notice' = [notice EXCEPT ![n[1]][n[2]].status = "delivering", ![n[1]][n[2]].tried = TRUE]
    /\ wire' = wire \cup {n}
    /\ pc' = [pc EXCEPT !["loop"] = "sending"] /\ note' = n
    /\ UNCHANGED <<event, batch>> /\ OutboxStep

\* A notice that may have arrived is looked up before anything is sent again.
LookUp(n) ==
    /\ pc["loop"] = "outbox" /\ n \in batch /\ Status(n) \in {"delivering", "delivered"}
    /\ pc' = [pc EXCEPT !["loop"] = "asking"] /\ note' = n
    /\ UNCHANGED <<notice, wire, event, batch>> /\ OutboxStep

NextNote ==
    /\ batch' = batch \ {note} /\ note' = NoNote
    /\ pc' = [pc EXCEPT !["loop"] = IF batch' = {} THEN "idle" ELSE "outbox"]

EventOf(n) == event[n[1]][n[2]]
Store(n) == event' = [event EXCEPT ![n[1]][n[2]] = IF @ = "absent" THEN "stored" ELSE @]

DeliverAccepted ==
    /\ pc["loop"] = "sending" /\ (note \in wire \/ EventOf(note) # "absent")
    /\ Store(note) /\ wire' = wire \ {note} /\ Mark(note, "delivered")
    /\ NextNote /\ OutboxStep

DeliverRejected ==
    /\ pc["loop"] = "sending"
    /\ wire' = wire \ {note} /\ Mark(note, "needs_review")
    /\ NextNote /\ UNCHANGED event /\ OutboxStep

DeliverUnknown ==
    /\ pc["loop"] = "sending"
    /\ Mark(note, "delivering")
    /\ NextNote /\ UNCHANGED <<wire, event>> /\ OutboxStep

DeliverRefused ==
    /\ pc["loop"] = "sending"
    /\ wire' = wire \ {note} /\ Mark(note, "pending")
    /\ NextNote /\ UNCHANGED event /\ OutboxStep

\* Mutant: the status of the event is written down as it is.
LookUpVerbatim == EventOf(note)

\* Mutant: the Dispatcher's copy counts as the report.
LookUpOfTheCopy == IF EventOf(note) = "absent" THEN "pending" ELSE "reported"

LookUpAnswer == CASE EventOf(note) = "absent" -> "pending"
                  [] EventOf(note) = "stored" -> "delivered"
                  [] EventOf(note) = "completed" -> "reported"
                  [] EventOf(note) = "review" -> "needs_review"

LookUpAnswered ==
    /\ pc["loop"] = "asking"
    /\ Mark(note, LookUpAnswer)
    /\ NextNote /\ UNCHANGED <<wire, event>> /\ OutboxStep

LookUpUnknown ==
    /\ pc["loop"] = "asking"
    /\ Mark(note, "delivering")
    /\ NextNote /\ UNCHANGED <<wire, event>> /\ OutboxStep

DispatcherStep == UNCHANGED <<rowVars, modeVars, runVars, batchVars>>

\* A request given up by the updater arrives late, or not at all.
Arrive(n) ==
    /\ n \in wire
    /\ wire' = wire \ {n}
    /\ Store(n) \/ UNCHANGED event
    /\ UNCHANGED approval /\ DispatcherStep

\* The notification worker of the Dispatcher settles the event.
SettleEvent(n) ==
    /\ EventOf(n) = "stored"
    /\ \E s \in {"completed", "review"} : event' = [event EXCEPT ![n[1]][n[2]] = s]
    /\ UNCHANGED <<approval, wire>> /\ DispatcherStep

CompleteApproval(r) ==
    /\ state[r] # "none" /\ state[r] # "awaiting_approval" /\ ~approval[r]
    /\ approval' = [approval EXCEPT ![r] = TRUE]
    /\ UNCHANGED <<wire, event>> /\ DispatcherStep

-----------------------------------------------------------------------------
(***************************************************************************)
(* Time and the process                                                    *)
(***************************************************************************)

ClockStep == UNCHANGED <<state, fence, why, active, notice, peerVars, modeVars, runVars, batchVars>>

ReconcileTime(r) ==
    /\ deferred[r]
    /\ deferred' = [deferred EXCEPT ![r] = FALSE]
    /\ UNCHANGED <<lease, deadline>> /\ ClockStep

DeadlinePasses(r) ==
    /\ deadline[r] = "open"
    /\ deadline' = [deadline EXCEPT ![r] = "expired"]
    /\ UNCHANGED <<lease, deferred>> /\ ClockStep

\* Nobody renewed the lease in time: its runner is gone, or the machine slept.
LeaseExpires(r) ==
    /\ lease[r] \in Unexpired
    /\ lease' = [lease EXCEPT ![r] = IF @ = "mine" THEN "lapsed" ELSE "none"]
    /\ UNCHANGED <<deferred, deadline>> /\ ClockStep

\* The heartbeat of a runner does not ask whether the lease has expired.
RenewLease(k) ==
    /\ pc[k] \in {"attempt", "reconcile"} /\ Holds(k)
    /\ state[req[k]] \notin Terminal /\ lease[req[k]] = "lapsed"
    /\ lease' = [lease EXCEPT ![req[k]] = "mine"]
    /\ UNCHANGED <<deferred, deadline>> /\ ClockStep

Start ==
    /\ mode = "down"
    /\ mode' = "serve"
    /\ UNCHANGED <<rowVars, peerVars, outages, rollbacks, claims, runVars, batchVars>>

\* Stop or crash: the next process is another lease owner.
End ==
    /\ mode = "serve" /\ outages < OutageLimit
    /\ mode' = "down" /\ outages' = outages + 1
    /\ lease' = [r \in Request |-> CASE lease[r] = "mine" -> "foreign"
                                     [] lease[r] = "lapsed" -> "none"
                                     [] OTHER -> lease[r]]
    /\ pc' = [k \in Runner |-> "idle"]
    /\ req' = [k \in Runner |-> NoRequest]
    /\ fen' = [k \in Runner |-> 0]
    /\ hand' = [k \in Runner |-> "none"]
    /\ batch' = {} /\ note' = NoNote
    /\ UNCHANGED <<state, fence, why, deferred, deadline, active, notice, peerVars, rollbacks, claims>>

-----------------------------------------------------------------------------
Api == \E r \in Request : CreatePlan(r) \/ Approve(r) \/ RequestCancellation(r)

ProcessNext ==
    \/ ProcessNothing \/ BarrierRefused \/ BarrierPassed
    \/ \E r \in Request : ProcessApproved(r) \/ ProcessPrepared(r) \/ ProcessMutating(r) \/ ProcessReview(r)

Call == \E r \in Request : CallReconcile(r) \/ CallRollback(r)

Work(k) ==
    \/ Advance(k) \/ Decide(k) \/ DeferOrReview(k) \/ Unexpected(k) \/ UnexpectedSettled(k)
    \/ ReconcileThrows(k) \/ ReconcileObserves(k)
    \/ EvidenceMissing(k) \/ EvidenceUnavailable(k) \/ EvidenceProved(k)

Outbox ==
    \/ DeliverAccepted \/ DeliverRejected \/ DeliverUnknown \/ DeliverRefused
    \/ LookUpAnswered \/ LookUpUnknown
    \/ \E n \in Notices : Deliver(n) \/ LookUp(n)

Dispatcher == (\E n \in Notices : Arrive(n) \/ SettleEvent(n)) \/ (\E r \in Request : CompleteApproval(r))

Clock == \/ \E r \in Request : ReconcileTime(r) \/ DeadlinePasses(r) \/ LeaseExpires(r)
         \/ \E k \in Runner : RenewLease(k)

Next == Api \/ ProcessNext \/ Call \/ (\E k \in Runner : Work(k)) \/ Outbox \/ Dispatcher
          \/ Clock \/ Start \/ End

Spec == Init /\ [][Next]_vars

LoopNext == ProcessNext \/ Work("loop") \/ Outbox

\* The loop never stops by itself, launchd starts the process again, and every
\* question to the Dispatcher and to the releases is answered some day if it is
\* asked again and again.
Fairness ==
    /\ WF_vars(LoopNext) /\ WF_vars(Start)
    /\ SF_vars(EvidenceMissing("loop") \/ EvidenceProved("loop"))
    /\ SF_vars(DeliverAccepted \/ DeliverRejected)
    /\ SF_vars(LookUpAnswered)
    /\ \A n \in Notices : WF_vars(SettleEvent(n))

FairSpec == Spec /\ Fairness

-----------------------------------------------------------------------------
Pc == {"idle", "barrier", "attempt", "reconcile", "evidence", "unexpected",
       "outbox", "sending", "asking"}
NoticeRow == [status : {"none", "pending", "delivering", "delivered", "reported", "needs_review"},
              tried : BOOLEAN, superseded : BOOLEAN, says : Terminal \cup {"none"}]

\* Every column and local keeps to its values.
TypeOK ==
    /\ state \in [Request -> State]
    /\ fence \in [Request -> Fence]
    /\ lease \in [Request -> {"none", "mine", "lapsed", "foreign"}]
    /\ why \in [Request -> {"none", "reconcilable", "other"}]
    /\ deferred \in [Request -> BOOLEAN]
    /\ deadline \in [Request -> {"none", "open", "expired"}]
    /\ active \in Request \cup {NoRequest}
    /\ notice \in [Request -> [Fence -> NoticeRow]]
    /\ approval \in [Request -> BOOLEAN]
    /\ wire \subseteq Notices
    /\ event \in [Request -> [Fence -> {"absent", "stored", "completed", "review"}]]
    /\ mode \in {"down", "serve"} /\ outages \in Nat /\ rollbacks \in Nat /\ claims \in Fence
    /\ pc \in [Runner -> Pc]
    /\ req \in [Runner -> Request \cup {NoRequest}]
    /\ fen \in [Runner -> Fence]
    /\ hand \in [Runner -> State]
    /\ batch \subseteq Notices /\ note \in Notices \cup {NoNote}

Writes(k) == pc[k] \in {"attempt", "reconcile", "unexpected"} /\ Holds(k)

\* claim and assertLease: of two runners that claimed the same request, only the
\* later one can still write to it.
OneWriter == \A k, l \in Runner : Writes(k) /\ Writes(l) /\ req[k] = req[l] => k = l

Mutates(k) == Working(k) /\ Asserted(k) /\ hand[k] \in Mutating

\* controller_state: never two runners that may both stop services or switch the
\* release, for the same request or for two.
RuntimeSingleFlight == \A k, l \in Runner : Mutates(k) /\ Mutates(l) => k = l

\* completeInternal: the report a decided request waits for tells its latest
\* decision, however often it was reopened.
DecisionReported == \A r \in Request : state[r] \in Terminal =>
    \E f \in Fence : Newest(r, f) /\ ~notice[r][f].superseded /\ notice[r][f].says = state[r]

\* assertLease, transition: a runner whose request was decided behind its back
\* cannot reopen it; that takes a new fence, and only needs_review is reopened.
ReopenedByNewFence == [][\A r \in Request : state[r] \in Terminal /\ state'[r] # state[r] =>
    state[r] = "needs_review" /\ fence'[r] > fence[r]]_vars

Settled(n) == Status(n) \in {"reported", "needs_review"} \/ notice[n[1]][n[2]].superseded

\* deliverOutbox: every decision is reported in the end, handed to a person or
\* superseded by a later one, through lost answers, errors and restarts.
NoticeSettles == \A n \in Notices : Status(n) = "pending" ~> Settled(n)

=============================================================================
