------------------------- MODULE UpdateLedgerProofs -------------------------
(***************************************************************************)
(* Proofs about the update ledger, for any set of plans and any number of  *)
(* claims, operator rollbacks and ends of the process.                     *)
(*                                                                         *)
(* A step of the updater does one of three things to a request: it leaves  *)
(* it or moves it on undecided, it raises its fence, or it decides it.     *)
(* The theorems are proved about these shapes, and each action is shown to *)
(* have one of them.  The last part does the same for the requests that    *)
(* are open at a time.                                                     *)
(***************************************************************************)
EXTENDS UpdateLedger, TLAPS

(***************************************************************************)
(* The inductive invariant                                                 *)
(***************************************************************************)

WriterPc == {"attempt", "reconcile", "unexpected"}
BusyPc == WriterPc \cup {"barrier", "evidence"}

\* A fence is counted when it is taken, and the fence in a runner's hand was
\* that of its request at some time.
FencesPast ==
    /\ \A r \in Request : fence[r] <= claims
    /\ \A k \in Runner : pc[k] \in BusyPc => req[k] \in Request
    /\ \A k \in Runner : pc[k] \in WriterPc => fen[k] <= fence[req[k]]

\* No notice is ahead of the fence, and a request that is open under its fence
\* has none there yet.
NoticesPast == \A r \in Request :
    /\ \A f \in Fence : notice[r][f].status # "none" => f <= fence[r]
    /\ state[r] \notin Terminal => notice[r][fence[r]].status = "none"

\* The notice the loop awaits an answer about has a row.
NoteWritten == pc["loop"] \in {"sending", "asking"} => note \in Notices /\ Status(note) # "none"

IInv == TypeOK /\ FencesPast /\ NoticesPast /\ NoteWritten /\ OneWriter /\ DecisionReported

USE RequestAssumption, BoundAssumption
    DEF Fence, Runner, Undecided, Mutating, Final, Terminal, Open, Runnable, State, WriterPc, BusyPc

-----------------------------------------------------------------------------
(***************************************************************************)
(* Types                                                                   *)
(***************************************************************************)

RowType ==
    /\ state \in [Request -> State]
    /\ fence \in [Request -> Fence]
    /\ lease \in [Request -> {"none", "mine", "lapsed", "foreign"}]
    /\ why \in [Request -> {"none", "reconcilable", "other"}]
    /\ deferred \in [Request -> BOOLEAN]
    /\ deadline \in [Request -> {"none", "open", "expired"}]
    /\ active \in Request \cup {NoRequest}
    /\ notice \in [Request -> [Fence -> NoticeRow]]

PeerType ==
    /\ approval \in [Request -> BOOLEAN]
    /\ wire \subseteq Notices
    /\ event \in [Request -> [Fence -> {"absent", "stored", "completed", "review"}]]

ModeType == mode \in {"down", "serve"} /\ outages \in Nat /\ rollbacks \in Nat /\ claims \in Fence

RunType ==
    /\ pc \in [Runner -> Pc]
    /\ req \in [Runner -> Request \cup {NoRequest}]
    /\ fen \in [Runner -> Fence]
    /\ hand \in [Runner -> State]

BatchType == batch \subseteq Notices /\ note \in Notices \cup {NoNote}

LEMMA TypeParts ==
    /\ TypeOK <=> RowType /\ PeerType /\ ModeType /\ RunType /\ BatchType
    /\ TypeOK' <=> RowType' /\ PeerType' /\ ModeType' /\ RunType' /\ BatchType'
  BY DEF TypeOK, RowType, PeerType, ModeType, RunType, BatchType

LEMMA NoticeParts ==
    ASSUME NEW x \in NoticeRow
    PROVE  /\ [x EXCEPT !.superseded = TRUE] \in NoticeRow
           /\ [x EXCEPT !.superseded = TRUE].status = x.status
           /\ [x EXCEPT !.superseded = TRUE].says = x.says
  BY DEF NoticeRow

LEMMA DraftedType ==
    ASSUME NEW to \in Terminal
    PROVE  Drafted(to) \in NoticeRow
  BY DEF Drafted, NoticeRow

\* What the table of notices holds after a decision.
LEMMA InsertEffect ==
    ASSUME NEW r \in Request, NEW f \in Fence, NEW to \in Terminal, RowType,
           InsertOutbox(r, f, to)
    PROVE  /\ notice' \in [Request -> [Fence -> NoticeRow]]
           /\ \A x \in Request \ {r} : notice'[x] = notice[x]
           /\ \A g \in Fence \ {f} :
                /\ notice'[r][g].status = notice[r][g].status
                /\ notice'[r][g].says = notice[r][g].says
           /\ notice'[r][f] = IF notice[r][f].status = "none" THEN Drafted(to) ELSE notice[r][f]
<1>1. notice \in [Request -> [Fence -> NoticeRow]]
  BY DEF RowType
<1> DEFINE Row(g) == IF g = f THEN IF notice[r][g].status = "none" THEN Drafted(to) ELSE notice[r][g]
                     ELSE IF notice[r][g].status = "pending"
                          THEN [notice[r][g] EXCEPT !.superseded = TRUE] ELSE notice[r][g]
<1>2. notice' = [notice EXCEPT ![r] = [g \in Fence |-> Row(g)]]
  BY DEF InsertOutbox
<1>3. \A g \in Fence : /\ Row(g) \in NoticeRow
                       /\ g # f => Row(g).status = notice[r][g].status /\ Row(g).says = notice[r][g].says
  <2> TAKE g \in Fence
  <2>1. notice[r][g] \in NoticeRow
    BY <1>1
  <2>2. QED
    BY <2>1, NoticeParts, DraftedType
<1> HIDE DEF Row
<1>4. [g \in Fence |-> Row(g)] \in [Fence -> NoticeRow]
  BY <1>3
<1>5. notice' \in [Request -> [Fence -> NoticeRow]] /\ \A x \in Request \ {r} : notice'[x] = notice[x]
  BY <1>1, <1>2, <1>4
<1>6. \A g \in Fence : notice'[r][g] = Row(g)
  BY <1>1, <1>2
<1>7. Row(f) = IF notice[r][f].status = "none" THEN Drafted(to) ELSE notice[r][f]
  BY DEF Row
<1>8. QED
  BY <1>3, <1>5, <1>6, <1>7

LEMMA CompleteType ==
    ASSUME NEW r \in Request, NEW f \in Fence, NEW to \in Terminal,
           NEW code \in {"reconcilable", "other"}, RowType, Complete(r, f, to, code)
    PROVE  RowType'
<1>1. notice' \in [Request -> [Fence -> NoticeRow]]
  BY InsertEffect DEF Complete
<1>2. QED
  BY <1>1 DEF RowType, Complete

\* The table of notices with one of them marked.
Marked(r, f, s) ==
    /\ notice' \in [Request -> [Fence -> NoticeRow]]
    /\ \A x \in Request, g \in Fence :
          /\ notice'[x][g].superseded = notice[x][g].superseded
          /\ notice'[x][g].says = notice[x][g].says
          /\ notice'[x][g].status = IF x = r /\ g = f THEN s ELSE notice[x][g].status

LEMMA MarkEffect ==
    ASSUME NEW r \in Request, NEW f \in Fence, RowType,
           NEW s \in {"pending", "delivering", "delivered", "reported", "needs_review"},
           Mark(<<r, f>>, s)
    PROVE  Marked(r, f, s)
<1>1. notice' = [notice EXCEPT ![r][f].status = s]
  BY DEF Mark
<1>2. notice \in [Request -> [Fence -> NoticeRow]]
  BY DEF RowType
<1>3. \A x \in Request, g \in Fence : notice[x][g] \in NoticeRow
  BY <1>2
<1>4. [notice[r][f] EXCEPT !.status = s] \in NoticeRow
  BY <1>3 DEF NoticeRow
<1>5. notice' \in [Request -> [Fence -> NoticeRow]]
  BY <1>1, <1>2, <1>4
<1>6. \A x \in Request, g \in Fence :
        notice'[x][g] = IF x = r /\ g = f THEN [notice[r][f] EXCEPT !.status = s] ELSE notice[x][g]
  BY <1>1, <1>2
<1>7. QED
  BY <1>3, <1>5, <1>6 DEF NoticeRow, Marked

LEMMA AdvancesRange ==
    ASSUME NEW s \in DOMAIN Advances
    PROVE  Advances[s] \subseteq Open
  BY DEF Advances

LEMMA OutcomesRange ==
    ASSUME NEW s \in DOMAIN Outcomes
    PROVE  Outcomes[s] \subseteq Terminal
  BY DEF Outcomes

\* A decision is never replaced by another one under the same fence.
LEMMA DecisionStays ==
    ASSUME NEW r \in Request, NEW to \in Terminal, CanBecome(r, to), state[r] \in Terminal
    PROVE  state[r] = to
  BY DEF CanBecome, Allowed

\* What is written on the strength of the fence alone opens no decided request:
\* assertTransition refuses it.
LEMMA WrittenWhileOpen ==
    ASSUME NEW k \in Runner, req[k] \in Request, NEW to \in Open,
           MayEnter(k, to), CanBecome(req[k], to)
    PROVE  state[req[k]] \notin Terminal
<1>1. CASE to \in FenceSuffices
  BY <1>1 DEF FenceSuffices, CanBecome, Allowed
<1>2. CASE to \notin FenceSuffices
  BY <1>2 DEF MayEnter, Asserted
<1>3. QED
  BY <1>1, <1>2

LEMMA LeaveType ==
    ASSUME NEW k \in Runner, NEW to \in Pc, RunType, Leave(k, to)
    PROVE  RunType'
  BY DEF RunType, Leave

LEMMA ReturnType ==
    ASSUME NEW k \in Runner, RunType, BatchType, UNCHANGED note, Return(k)
    PROVE  RunType' /\ BatchType'
<1>1. CASE k = "call"
  BY <1>1, LeaveType DEF Return, BatchType, Pc
<1>2. CASE k # "call"
  <2>1. batch' \subseteq Notices
    BY <1>2 DEF Return
  <2>2. (IF batch' = {} THEN "idle" ELSE "outbox") \in Pc
    BY DEF Pc
  <2>3. RunType'
    BY <1>2, <2>2, LeaveType DEF Return
  <2>4. QED
    BY <2>1, <2>3 DEF BatchType
<1>3. QED
  BY <1>1, <1>2

LEMMA ThrowType ==
    ASSUME NEW k \in Runner, RunType, BatchType, UNCHANGED note, Throw(k)
    PROVE  RunType' /\ BatchType'
  BY LeaveType DEF Throw, BatchType, Pc

\* The fence of a claim stays within the bound, because every claim is counted.
LEMMA ClaimType ==
    ASSUME NEW k \in Runner, NEW r \in Request, NEW to \in {"attempt", "reconcile"},
           RowType, RunType, BatchType, ModeType, FencesPast, Claim(k, r, to), UNCHANGED note
    PROVE  /\ RowType' /\ RunType' /\ BatchType'
           /\ claims' \in Fence /\ fence'[r] = fence[r] + 1
<1>1. /\ fence[r] \in Nat /\ fence[r] <= claims /\ claims < MaxFence /\ claims' = claims + 1
      /\ fence' = [fence EXCEPT ![r] = fence[r] + 1]
  BY DEF RowType, FencesPast, Claim, CountClaim, NextFence
<1>2. fence[r] + 1 \in Fence /\ claims' \in Fence
  BY <1>1 DEF ModeType
<1>3. fence' \in [Request -> Fence] /\ fence'[r] = fence[r] + 1
  BY <1>1, <1>2 DEF RowType
<1>4. state' \in [Request -> State]
  BY DEF RowType, Claim
<1>5. RowType'
  BY <1>3, <1>4 DEF RowType, Claim
<1>6. RunType'
  BY <1>1, <1>2, <1>4 DEF RunType, Claim, Pc, NextFence
<1>7. BatchType'
  BY DEF BatchType, Claim
<1>8. QED
  BY <1>2, <1>3, <1>5, <1>6, <1>7

-----------------------------------------------------------------------------
(***************************************************************************)
(* The shapes of a step                                                    *)
(***************************************************************************)

\* The same notices, but for their delivery.
SameNotes(r) == \A g \in Fence :
    /\ notice'[r][g].status = "none" <=> notice[r][g].status = "none"
    /\ notice'[r][g].says = notice[r][g].says
    /\ notice'[r][g].superseded = notice[r][g].superseded

\* A step left the request alone or moved it on, undecided before and after.
Kept(r) ==
    /\ fence'[r] = fence[r] /\ SameNotes(r)
    /\ state'[r] = state[r] \/ (state[r] \notin Terminal /\ state'[r] \notin Terminal)

\* It was claimed, or reopened out of review.
Raised(r) ==
    /\ fence'[r] = fence[r] + 1 /\ claims' = claims + 1 /\ SameNotes(r)
    /\ \/ state'[r] = state[r]
       \/ state'[r] \notin Terminal /\ state[r] \notin Final

\* It was decided, under its fence or by evidence under the next.
Decided(r) ==
    /\ state'[r] \in Terminal
    /\ \/ fence'[r] = fence[r] /\ (state[r] \notin Terminal \/ state[r] = state'[r])
       \/ fence'[r] = fence[r] + 1 /\ claims' = claims + 1 /\ state[r] = "needs_review"
    /\ \A g \in Fence \ {fence'[r]} :
          /\ notice'[r][g].status = notice[r][g].status
          /\ notice'[r][g].says = notice[r][g].says
    /\ notice'[r][fence'[r]] = IF notice[r][fence'[r]].status = "none"
                               THEN Drafted(state'[r]) ELSE notice[r][fence'[r]]

RowsStep == claims' >= claims /\ \A r \in Request : Kept(r) \/ Raised(r) \/ Decided(r)

\* A runner that may write afterwards could write before, under the same fence.
Rests(k) ==
    /\ pc'[k] \in BusyPc => req'[k] \in Request
    /\ pc'[k] \in WriterPc => pc[k] \in WriterPc /\ req'[k] = req[k] /\ fen'[k] = fen[k]

\* Or it has just claimed its request.
Claimed(k) == req'[k] \in Request /\ fen'[k] = fence'[req'[k]] /\ fence'[req'[k]] > fence[req'[k]]

RunnersStep == (\A k \in Runner : Rests(k))
    \/ \E k \in Runner : Claimed(k) /\ \A l \in Runner \ {k} : Rests(l)

\* The loop awaits an answer about a notice that has a row.
Awaiting == pc'["loop"] \in {"sending", "asking"} =>
    note' \in Notices /\ notice[note'[1]][note'[2]].status # "none"

LEMMA NoticeFields ==
    ASSUME RowType, NEW r \in Request, NEW f \in Fence
    PROVE  notice[r][f] \in NoticeRow
  BY DEF RowType

LEMMA NoticesPastStep ==
    ASSUME RowType, RowType', NoticesPast, RowsStep
    PROVE  NoticesPast'
<1> SUFFICES ASSUME NEW r \in Request
             PROVE  /\ \A f \in Fence : notice'[r][f].status # "none" => f <= fence'[r]
                    /\ state'[r] \notin Terminal => notice'[r][fence'[r]].status = "none"
  BY DEF NoticesPast
<1>1. fence[r] \in Fence /\ fence'[r] \in Fence
  BY DEF RowType
<1>2. /\ \A f \in Fence : notice[r][f].status # "none" => f <= fence[r]
      /\ state[r] \notin Terminal => notice[r][fence[r]].status = "none"
  BY DEF NoticesPast
<1>3. CASE Kept(r)
  BY <1>1, <1>2, <1>3 DEF Kept, SameNotes
<1>4. CASE Raised(r)
  BY <1>1, <1>2, <1>4 DEF Raised, SameNotes
<1>5. CASE Decided(r)
  BY <1>1, <1>2, <1>5 DEF Decided
<1>6. QED
  BY <1>3, <1>4, <1>5 DEF RowsStep

LEMMA DecisionReportedStep ==
    ASSUME RowType, RowType', NoticesPast, DecisionReported, RowsStep
    PROVE  DecisionReported'
<1> SUFFICES ASSUME NEW r \in Request, state'[r] \in Terminal
             PROVE  \E f \in Fence : Newest(r, f)' /\ ~notice'[r][f].superseded
                                     /\ notice'[r][f].says = state'[r]
  BY DEF DecisionReported
<1>1. fence[r] \in Fence /\ fence'[r] \in Fence
  BY DEF RowType
<1>2. ASSUME state[r] \in Terminal
      PROVE  \E f \in Fence : /\ notice[r][f].status # "none"
                              /\ \A g \in Fence : notice[r][g].status # "none" => g <= f
                              /\ ~notice[r][f].superseded /\ notice[r][f].says = state[r]
  BY <1>2 DEF DecisionReported, Newest, Written
<1>3. \A f \in Fence : Newest(r, f)' <=> /\ notice'[r][f].status # "none"
                                         /\ \A g \in Fence : notice'[r][g].status # "none" => g <= f
  BY DEF Newest, Written
<1>4. CASE Kept(r) \/ Raised(r)
  <2>1. state[r] \in Terminal /\ state'[r] = state[r] /\ SameNotes(r)
    BY <1>4 DEF Kept, Raised
  <2>2. PICK f \in Fence : /\ notice[r][f].status # "none"
                           /\ \A g \in Fence : notice[r][g].status # "none" => g <= f
                           /\ ~notice[r][f].superseded /\ notice[r][f].says = state[r]
    BY <1>2, <2>1
  <2>3. /\ notice'[r][f].status # "none"
        /\ \A g \in Fence : notice'[r][g].status # "none" => g <= f
        /\ ~notice'[r][f].superseded /\ notice'[r][f].says = state'[r]
    BY <2>1, <2>2 DEF SameNotes
  <2>4. QED
    BY <1>3, <2>3
<1>5. CASE Decided(r)
  <2> DEFINE f == fence'[r]
  <2>1. f >= fence[r] /\ \A g \in Fence : notice[r][g].status # "none" => g <= fence[r]
    BY <1>1, <1>5 DEF Decided, NoticesPast
  <2>2. \A g \in Fence : notice'[r][g].status # "none" => g <= f
    BY <1>1, <1>5, <2>1 DEF Decided
  <2>3. CASE notice[r][f].status = "none"
    <3>1. notice'[r][f] = Drafted(state'[r])
      BY <1>5, <2>3 DEF Decided
    <3>2. /\ notice'[r][f].status # "none" /\ ~notice'[r][f].superseded
          /\ notice'[r][f].says = state'[r]
      BY <3>1 DEF Drafted
    <3>3. QED
      BY <1>1, <1>3, <2>2, <3>2
  <2>4. CASE notice[r][f].status # "none"
    <3>1. notice'[r][f] = notice[r][f]
      BY <1>5, <2>4 DEF Decided
    <3>2. f = fence[r]
      BY <1>1, <2>1, <2>4
    <3>3. state[r] \in Terminal /\ state[r] = state'[r]
      BY <1>5, <2>4, <3>2, <1>1 DEF Decided, NoticesPast
    <3>4. PICK h \in Fence : /\ notice[r][h].status # "none"
                             /\ \A g \in Fence : notice[r][g].status # "none" => g <= h
                             /\ ~notice[r][h].superseded /\ notice[r][h].says = state[r]
      BY <1>2, <3>3
    <3>5. h = f
      BY <1>1, <2>1, <2>4, <3>2, <3>4
    <3>6. QED
      BY <1>1, <1>3, <2>2, <2>4, <3>1, <3>3, <3>4, <3>5
  <2>5. QED
    BY <2>3, <2>4
<1>6. QED
  BY <1>4, <1>5 DEF RowsStep

LEMMA FencesGrow ==
    ASSUME RowType, RowType', RowsStep, NEW r \in Request
    PROVE  fence'[r] >= fence[r]
<1>1. fence[r] \in Nat /\ fence'[r] \in Nat
  BY DEF RowType
<1>2. QED
  BY <1>1 DEF RowsStep, Kept, Raised, Decided

LEMMA FencesPastStep ==
    ASSUME TypeOK, TypeOK', FencesPast, RowsStep, RunnersStep
    PROVE  FencesPast'
<1>1. RowType /\ RowType' /\ RunType /\ RunType' /\ claims \in Nat /\ claims' \in Nat
  BY TypeParts DEF ModeType
<1>2. \A r \in Request : fence[r] \in Nat /\ fence'[r] \in Nat
  BY <1>1 DEF RowType
<1>3. \A r \in Request : fence'[r] <= claims'
  BY <1>1, <1>2 DEF FencesPast, RowsStep, Kept, Raised, Decided
<1>4. \A k \in Runner : fen[k] \in Nat /\ fen'[k] \in Nat
  BY <1>1 DEF RunType
<1>5. ASSUME NEW k \in Runner, Rests(k)
      PROVE  /\ pc'[k] \in BusyPc => req'[k] \in Request
             /\ pc'[k] \in WriterPc => fen'[k] <= fence'[req'[k]]
  <2>1. pc'[k] \in BusyPc => req'[k] \in Request
    BY <1>5 DEF Rests
  <2>2. ASSUME pc'[k] \in WriterPc
        PROVE  fen'[k] <= fence'[req'[k]]
    <3>1. req[k] \in Request /\ req'[k] = req[k] /\ fen'[k] = fen[k] /\ fen[k] <= fence[req[k]]
      BY <1>5, <2>2 DEF Rests, FencesPast
    <3>2. fence'[req[k]] >= fence[req[k]]
      BY <1>1, <3>1, FencesGrow
    <3>3. QED
      BY <1>2, <1>4, <3>1, <3>2
  <2>3. QED
    BY <2>1, <2>2
<1>6. ASSUME NEW k \in Runner, Claimed(k)
      PROVE  /\ pc'[k] \in BusyPc => req'[k] \in Request
             /\ pc'[k] \in WriterPc => fen'[k] <= fence'[req'[k]]
  BY <1>2, <1>4, <1>6 DEF Claimed
<1>7. \A k \in Runner : /\ pc'[k] \in BusyPc => req'[k] \in Request
                        /\ pc'[k] \in WriterPc => fen'[k] <= fence'[req'[k]]
  <2> TAKE k \in Runner
  <2> QED
    BY <1>5, <1>6 DEF RunnersStep
<1>8. QED
  BY <1>3, <1>7 DEF FencesPast

\* A fence is taken anew with every claim, so the runners of earlier claims hold
\* a smaller one.
LEMMA OneWriterStep ==
    ASSUME TypeOK, TypeOK', FencesPast, FencesPast', OneWriter, RowsStep, RunnersStep
    PROVE  OneWriter'
<1>1. RowType /\ RowType' /\ RunType /\ RunType'
  BY TypeParts
<1>2. \A r \in Request : fence[r] \in Nat /\ fence'[r] \in Nat /\ fence'[r] >= fence[r]
  BY <1>1, FencesGrow DEF RowType
<1>3. \A k \in Runner : fen[k] \in Nat /\ fen'[k] \in Nat
  BY <1>1 DEF RunType
<1> SUFFICES ASSUME NEW k \in Runner, NEW l \in Runner,
                    Writes(k)', Writes(l)', req'[k] = req'[l]
             PROVE  k = l
  BY DEF OneWriter
<1>4. /\ pc'[k] \in WriterPc /\ pc'[l] \in WriterPc /\ req'[k] \in Request
      /\ fen'[k] = fence'[req'[k]] /\ fen'[l] = fence'[req'[k]]
  BY DEF Writes, Holds, FencesPast
<1>5. ASSUME NEW j \in Runner, Rests(j), pc'[j] \in WriterPc, req'[j] = req'[k],
             fen'[j] = fence'[req'[k]]
      PROVE  Writes(j) /\ req[j] = req'[k] /\ fence'[req'[k]] = fence[req'[k]]
  <2>1. pc[j] \in WriterPc /\ req'[j] = req[j] /\ fen'[j] = fen[j] /\ fen[j] <= fence[req[j]]
    BY <1>5 DEF Rests, FencesPast
  <2>2. fen[j] = fence[req[j]] /\ fence'[req'[k]] = fence[req'[k]]
    BY <1>2, <1>3, <1>4, <1>5, <2>1
  <2>3. req[j] # NoRequest
    BY <1>4, <1>5, <2>1
  <2>4. QED
    BY <1>5, <2>1, <2>2, <2>3 DEF Writes, Holds
<1>6. CASE Rests(k) /\ Rests(l)
  BY <1>4, <1>5, <1>6 DEF OneWriter
<1>7. ASSUME NEW i \in Runner, NEW j \in Runner, Claimed(i), Rests(j), i # j, i \in {k, l}, j \in {k, l}
      PROVE  FALSE
  <2>1. fence'[req'[k]] > fence[req'[k]]
    BY <1>7 DEF Claimed
  <2>2. fence'[req'[k]] = fence[req'[k]]
    BY <1>4, <1>5, <1>7
  <2>3. QED
    BY <1>2, <1>4, <2>1, <2>2
<1>8. QED
  BY <1>6, <1>7 DEF RunnersStep

LEMMA NoteWrittenStep ==
    ASSUME RowType, RowType', RowsStep, Awaiting
    PROVE  NoteWritten'
<1> SUFFICES ASSUME pc'["loop"] \in {"sending", "asking"}
             PROVE  note' \in Notices /\ Status(note)' # "none"
  BY DEF NoteWritten
<1>1. note' \in Notices /\ notice[note'[1]][note'[2]].status # "none"
  BY DEF Awaiting
<1>2. PICK r \in Request, f \in Fence : note' = <<r, f>>
  BY <1>1 DEF Notices
<1>3. notice[r][f].status # "none"
  BY <1>1, <1>2
<1>4. CASE Kept(r) \/ Raised(r)
  BY <1>1, <1>2, <1>3, <1>4 DEF Kept, Raised, SameNotes, Status
<1>5. CASE Decided(r)
  BY <1>1, <1>2, <1>3, <1>5 DEF Decided, Status
<1>6. QED
  BY <1>4, <1>5 DEF RowsStep

\* A step of these shapes keeps the invariant.
LEMMA ShapesKeepIInv ==
    ASSUME IInv, TypeOK', RowsStep, RunnersStep, Awaiting
    PROVE  IInv'
<1>1. RowType /\ RowType'
  BY TypeParts DEF IInv
<1>2. NoticesPast' /\ DecisionReported' /\ FencesPast' /\ NoteWritten'
  BY <1>1, NoticesPastStep, DecisionReportedStep, FencesPastStep, NoteWrittenStep DEF IInv
<1>3. OneWriter'
  BY <1>2, OneWriterStep DEF IInv
<1>4. QED
  BY <1>2, <1>3 DEF IInv

-----------------------------------------------------------------------------
(***************************************************************************)
(* The parts of a step                                                     *)
(***************************************************************************)

LEMMA RowsAlone ==
    ASSUME RowType, UNCHANGED <<state, fence, notice>>, claims' = claims, claims \in Nat
    PROVE  RowsStep
  BY DEF RowsStep, Kept, SameNotes

LEMMA RunnersAlone ==
    ASSUME FencesPast, NoteWritten, UNCHANGED <<pc, req, fen, note>>
    PROVE  RunnersStep /\ Awaiting
<1>1. \A k \in Runner : Rests(k)
  BY DEF FencesPast, Rests
<1>2. Awaiting
  BY DEF NoteWritten, Awaiting, Status
<1>3. QED
  BY <1>1, <1>2 DEF RunnersStep

\* A runner that leaves its request, or only waits, writes no more.
LEMMA RunnersLeave ==
    ASSUME RunType, FencesPast, NoteWritten, NEW k \in Runner, NEW to \in Pc \ BusyPc,
           Leave(k, to), UNCHANGED note, k = "loop" => to \notin {"sending", "asking"}
    PROVE  RunnersStep /\ Awaiting
<1>1. \A l \in Runner : /\ pc'[l] = IF l = k THEN to ELSE pc[l]
                        /\ l # k => req'[l] = req[l] /\ fen'[l] = fen[l]
  BY DEF RunType, Leave
<1>2. \A l \in Runner : Rests(l)
  BY <1>1 DEF FencesPast, Rests
<1>3. Awaiting
  BY <1>1 DEF NoteWritten, Awaiting, Status
<1>4. QED
  BY <1>2, <1>3 DEF RunnersStep

LEMMA RunnersReturn ==
    ASSUME RunType, FencesPast, NoteWritten, NEW k \in Runner, Return(k), UNCHANGED note
    PROVE  RunnersStep /\ Awaiting
<1>1. CASE k = "call"
  BY <1>1, RunnersLeave DEF Return, Pc
<1>2. CASE k # "call"
  <2>1. (IF batch' = {} THEN "idle" ELSE "outbox") \in Pc \ BusyPc
    BY DEF Pc
  <2>2. Leave(k, IF batch' = {} THEN "idle" ELSE "outbox")
    BY <1>2 DEF Return
  <2>3. (IF batch' = {} THEN "idle" ELSE "outbox") \notin {"sending", "asking"}
    OBVIOUS
  <2> HIDE DEF Runner, BusyPc
  <2>4. QED
    BY <2>1, <2>2, <2>3, RunnersLeave
<1>3. QED
  BY <1>1, <1>2

LEMMA RunnersThrow ==
    ASSUME RunType, FencesPast, NoteWritten, NEW k \in Runner, Throw(k), UNCHANGED note
    PROVE  RunnersStep /\ Awaiting
  BY RunnersLeave DEF Throw, Pc

LEMMA Moves ==
    ASSUME RowType, NEW r \in Request, NEW to \in Open, state[r] \notin Terminal,
           MoveTo(r, to), claims' = claims, claims \in Nat
    PROVE  RowType' /\ RowsStep
<1>1. state' \in [Request -> State] /\ state' = [state EXCEPT ![r] = to]
  BY DEF RowType, MoveTo
<1>2. RowType'
  BY <1>1 DEF RowType, MoveTo
<1>3. \A x \in Request : Kept(x)
  BY <1>1 DEF RowType, MoveTo, Kept, SameNotes
<1>4. QED
  BY <1>2, <1>3 DEF RowsStep

LEMMA Decides ==
    ASSUME RowType, claims \in Nat, NEW r \in Request, NEW f \in Fence, NEW to \in Terminal,
           NEW code \in {"reconcilable", "other"}, Complete(r, f, to, code),
           \/ f = fence[r] /\ claims' = claims /\ (state[r] \notin Terminal \/ state[r] = to)
           \/ f = fence[r] + 1 /\ claims' = claims + 1 /\ state[r] = "needs_review"
    PROVE  RowType' /\ RowsStep
<1>1. InsertOutbox(r, f, to)
  BY DEF Complete
<1>2. /\ \A x \in Request \ {r} : notice'[x] = notice[x]
      /\ \A g \in Fence \ {f} : /\ notice'[r][g].status = notice[r][g].status
                                /\ notice'[r][g].says = notice[r][g].says
      /\ notice'[r][f] = IF notice[r][f].status = "none" THEN Drafted(to) ELSE notice[r][f]
  BY <1>1, InsertEffect
<1>3. \A x \in Request : /\ state'[x] = IF x = r THEN to ELSE state[x]
                         /\ fence'[x] = IF x = r THEN f ELSE fence[x]
  BY DEF RowType, Complete
<1>4. \A x \in Request \ {r} : Kept(x)
  BY <1>2, <1>3 DEF Kept, SameNotes
<1>5. Decided(r)
  BY <1>2, <1>3 DEF Decided
<1>6. claims' >= claims
  OBVIOUS
<1>7. QED
  BY <1>4, <1>5, <1>6, CompleteType DEF RowsStep

LEMMA Claims ==
    ASSUME IInv, NEW k \in Runner, NEW r \in Request, NEW to \in {"attempt", "reconcile"},
           Claim(k, r, to), UNCHANGED <<peerVars, mode, outages, rollbacks, note>>
    PROVE  TypeOK' /\ RowsStep /\ RunnersStep /\ Awaiting
<1>1. /\ RowType /\ PeerType /\ ModeType /\ RunType /\ BatchType /\ claims \in Nat
      /\ FencesPast /\ NoteWritten
  BY TypeParts DEF IInv, ModeType
<1>2. RowType' /\ RunType' /\ BatchType' /\ claims' \in Fence /\ fence'[r] = fence[r] + 1
  BY <1>1, ClaimType
<1>3. PeerType' /\ ModeType'
  BY <1>1, <1>2 DEF PeerType, ModeType, peerVars
<1>4. /\ claims' = claims + 1 /\ notice' = notice
      /\ fence' = [fence EXCEPT ![r] = fence[r] + 1] /\ fen' = [fen EXCEPT ![k] = fence[r] + 1]
      /\ state' = [state EXCEPT ![r] = IF state[r] = "approved" THEN "preparing" ELSE state[r]]
      /\ pc' = [pc EXCEPT ![k] = to] /\ req' = [req EXCEPT ![k] = r]
  BY DEF Claim, CountClaim, NextFence
<1>5. RowsStep
  <2>1. Raised(r)
    BY <1>1, <1>4 DEF RowType, Raised, SameNotes
  <2>2. \A x \in Request \ {r} : Kept(x)
    BY <1>1, <1>4 DEF RowType, Kept, SameNotes
  <2>3. QED
    BY <1>1, <1>4, <2>1, <2>2 DEF RowsStep
<1>6. RunnersStep
  <2>1. fence[r] \in Nat
    BY <1>1 DEF RowType
  <2>2. Claimed(k)
    BY <1>1, <1>2, <1>4, <2>1 DEF RunType, Claimed
  <2>3. \A l \in Runner \ {k} : Rests(l)
    BY <1>1, <1>4 DEF RunType, FencesPast, Rests
  <2>4. QED
    BY <2>2, <2>3 DEF RunnersStep
<1>7. Awaiting
  BY <1>1, <1>4 DEF RunType, NoteWritten, Awaiting, Status
<1>8. QED
  BY <1>2, <1>3, <1>5, <1>6, <1>7, TypeParts

-----------------------------------------------------------------------------
(***************************************************************************)
(* The actions                                                             *)
(***************************************************************************)

Fits == TypeOK' /\ RowsStep /\ RunnersStep /\ Awaiting

\* What the invariant says of the current state, in the parts the steps use.
LEMMA Before ==
    ASSUME IInv
    PROVE  /\ RowType /\ PeerType /\ ModeType /\ RunType /\ BatchType /\ claims \in Nat
           /\ FencesPast /\ NoteWritten
  BY TypeParts DEF IInv, ModeType

LEMMA ApiFits == ASSUME IInv, Api PROVE Fits
<1>1. /\ RowType /\ PeerType /\ ModeType /\ RunType /\ BatchType /\ claims \in Nat
      /\ FencesPast /\ NoteWritten
  BY Before
<1>2. PICK r \in Request : CreatePlan(r) \/ Approve(r) \/ RequestCancellation(r)
  BY DEF Api
<1>3. UNCHANGED <<peerVars, modeVars, runVars, batchVars>>
  BY <1>2 DEF CreatePlan, Approve, RequestCancellation, ApiStep
<1>4. claims' = claims /\ UNCHANGED <<pc, req, fen, note>>
  BY <1>3 DEF modeVars, runVars, batchVars
<1>5. PeerType' /\ ModeType' /\ RunType' /\ BatchType'
  BY <1>1, <1>3 DEF PeerType, ModeType, RunType, BatchType, peerVars, modeVars, runVars, batchVars
<1>6. RunnersStep /\ Awaiting
  BY <1>1, <1>4, RunnersAlone
<1>7. RowType' /\ RowsStep
  <2>1. CASE CreatePlan(r)
    BY <1>1, <1>4, <2>1, Moves DEF CreatePlan
  <2>2. CASE Approve(r)
    BY <1>1, <1>4, <2>2, Moves DEF Approve
  <2>3. CASE RequestCancellation(r)
    <3> DEFINE to == IF state[r] \in Undecided THEN "cancelled" ELSE "needs_review"
    <3>1. /\ Complete(r, fence[r], to, "other") /\ state[r] \notin Terminal
          /\ to \in Terminal /\ fence[r] \in Fence
      BY <1>1, <2>3 DEF RequestCancellation, RowType
    <3> HIDE DEF to
    <3>2. QED
      BY <1>1, <1>4, <3>1, Decides
  <2>4. QED
    BY <1>2, <2>1, <2>2, <2>3
<1>8. QED
  BY <1>5, <1>6, <1>7, TypeParts DEF Fits

\* A runner that goes to ask a question takes the request but no fence.
LEMMA AsksFits ==
    ASSUME IInv, NEW k \in Runner, NEW r \in Request, NEW to \in {"barrier", "evidence"},
           pc[k] = "idle", pc' = [pc EXCEPT ![k] = to], req' = [req EXCEPT ![k] = r],
           UNCHANGED <<fen, hand, batch, rowVars, claims>>, LoopStep
    PROVE  Fits
<1>1. /\ RowType /\ PeerType /\ ModeType /\ RunType /\ BatchType /\ claims \in Nat
      /\ FencesPast /\ NoteWritten
  BY Before
<1>2. RowType' /\ PeerType' /\ ModeType' /\ BatchType'
  BY <1>1 DEF RowType, PeerType, ModeType, BatchType, LoopStep, rowVars, peerVars
<1>3. RunType'
  BY <1>1 DEF RunType, Pc
<1>4. RowsStep
  BY <1>1, RowsAlone DEF rowVars
<1>5. \A l \in Runner : Rests(l)
  BY <1>1 DEF RunType, FencesPast, Rests
<1>6. Awaiting
  BY <1>1 DEF RunType, NoteWritten, Awaiting, Status, LoopStep
<1>7. QED
  BY <1>2, <1>3, <1>4, <1>5, <1>6, TypeParts DEF Fits, RunnersStep

\* A runner that ends without a word about its request.
LEMMA EndsFits ==
    ASSUME IInv, NEW k \in Runner, Return(k) \/ Throw(k), UNCHANGED <<rowVars, claims>>, LoopStep
    PROVE  Fits
<1>1. /\ RowType /\ PeerType /\ ModeType /\ RunType /\ BatchType /\ claims \in Nat
      /\ FencesPast /\ NoteWritten /\ UNCHANGED note
  BY Before DEF LoopStep
<1>2. RowType' /\ PeerType' /\ ModeType'
  BY <1>1 DEF RowType, PeerType, ModeType, LoopStep, rowVars, peerVars
<1>3. RunType' /\ BatchType'
  BY <1>1, ReturnType, ThrowType
<1>4. RowsStep
  BY <1>1, RowsAlone DEF rowVars
<1>5. RunnersStep /\ Awaiting
  BY <1>1, RunnersReturn, RunnersThrow
<1>6. QED
  BY <1>2, <1>3, <1>4, <1>5, TypeParts DEF Fits

\* A runner that decides its request and ends.
LEMMA DecidesFits ==
    ASSUME IInv, NEW k \in Runner, NEW r \in Request, NEW f \in Fence, NEW to \in Terminal,
           NEW code \in {"reconcilable", "other"}, Complete(r, f, to, code), Return(k), LoopStep,
           claims' \in Fence,
           \/ f = fence[r] /\ claims' = claims /\ (state[r] \notin Terminal \/ state[r] = to)
           \/ f = fence[r] + 1 /\ claims' = claims + 1 /\ state[r] = "needs_review"
    PROVE  Fits
<1>1. /\ RowType /\ PeerType /\ ModeType /\ RunType /\ BatchType /\ claims \in Nat
      /\ FencesPast /\ NoteWritten /\ UNCHANGED note
  BY Before DEF LoopStep
<1>2. RowType' /\ RowsStep
  BY <1>1, Decides
<1>3. RunType' /\ BatchType'
  BY <1>1, ReturnType
<1>4. RunnersStep /\ Awaiting
  BY <1>1, RunnersReturn
<1>5. PeerType' /\ ModeType'
  BY <1>1 DEF PeerType, ModeType, LoopStep, peerVars
<1>6. QED
  BY <1>2, <1>3, <1>4, <1>5, TypeParts DEF Fits

LEMMA ProcessFits == ASSUME IInv, ProcessNext PROVE Fits
<1>1. CASE ProcessNothing
  BY <1>1, EndsFits DEF ProcessNothing, Unclaimed, LoopStep
<1>2. CASE BarrierRefused
  BY <1>2, EndsFits DEF BarrierRefused, Unclaimed, LoopStep
<1>3. CASE BarrierPassed
  <2>1. req["loop"] \in Request
    BY <1>3 DEF BarrierPassed, IInv, FencesPast
  <2>2. QED
    BY <1>3, <2>1, Claims DEF BarrierPassed, LoopStep, Fits
<1>4. ASSUME NEW r \in Request, ProcessApproved(r) PROVE Fits
  BY <1>4, AsksFits DEF ProcessApproved, LoopReady, Unclaimed
<1>5. ASSUME NEW r \in Request, ProcessPrepared(r) PROVE Fits
  <2>1. CASE Claim("loop", r, "attempt")
    BY <1>5, <2>1, Claims DEF ProcessPrepared, LoopStep, Fits
  <2>2. CASE UNCHANGED rowVars /\ Return("loop") /\ Unclaimed
    BY <1>5, <2>2, EndsFits DEF ProcessPrepared, Unclaimed
  <2>3. QED
    BY <1>5, <2>1, <2>2 DEF ProcessPrepared
<1>6. ASSUME NEW r \in Request, ProcessMutating(r) PROVE Fits
  BY <1>6, Claims DEF ProcessMutating, LoopStep, Fits
<1>7. ASSUME NEW r \in Request, ProcessReview(r) PROVE Fits
  BY <1>7, AsksFits DEF ProcessReview, LoopReady, Unclaimed
<1>8. QED
  BY <1>1, <1>2, <1>3, <1>4, <1>5, <1>6, <1>7 DEF ProcessNext

LEMMA CallReconcileFits == ASSUME IInv, NEW r \in Request, CallReconcile(r) PROVE Fits
<1>1. CASE Claim("call", r, "reconcile")
  BY <1>1, Claims DEF CallReconcile, LoopStep, Fits
<1>2. CASE /\ pc' = [pc EXCEPT !["call"] = "evidence"]
           /\ req' = [req EXCEPT !["call"] = r]
           /\ UNCHANGED <<fen, hand, batch, rowVars>> /\ Unclaimed
  BY <1>2, AsksFits DEF CallReconcile, Unclaimed
<1>3. QED
  BY <1>1, <1>2 DEF CallReconcile

\* The operator's rollback takes a request out of review under a fence of its own.
LEMMA CallRollbackFits == ASSUME IInv, NEW r \in Request, CallRollback(r) PROVE Fits
<1>1. /\ RowType /\ PeerType /\ ModeType /\ RunType /\ BatchType /\ claims \in Nat
      /\ FencesPast /\ NoteWritten
  BY Before
<1>2. /\ state[r] = "needs_review" /\ claims < MaxFence /\ claims' = claims + 1
      /\ rollbacks' = rollbacks + 1 /\ notice' = notice
      /\ state' = [state EXCEPT ![r] = "rolling_back"]
      /\ fence' = [fence EXCEPT ![r] = fence[r] + 1]
      /\ pc' = [pc EXCEPT !["call"] = "reconcile"] /\ req' = [req EXCEPT !["call"] = r]
      /\ fen' = [fen EXCEPT !["call"] = fence[r] + 1]
      /\ hand' = [hand EXCEPT !["call"] = "rolling_back"]
      /\ UNCHANGED <<mode, outages, peerVars, batch, note>>
  BY DEF CallRollback, CountClaim, FenceOfReopening, batchVars
<1>3. fence[r] \in Nat /\ fence[r] + 1 \in Fence /\ claims' \in Fence
  BY <1>1, <1>2 DEF RowType, ModeType, FencesPast
<1>4. state' \in [Request -> State] /\ fence' \in [Request -> Fence] /\ fence'[r] = fence[r] + 1
  BY <1>1, <1>2, <1>3 DEF RowType
<1>5. RowType'
  BY <1>1, <1>2, <1>4 DEF RowType, CallRollback
<1>6. PeerType' /\ ModeType' /\ RunType' /\ BatchType'
  BY <1>1, <1>2, <1>3 DEF PeerType, ModeType, RunType, BatchType, peerVars, Pc
<1>7. RowsStep
  <2>1. Raised(r)
    BY <1>1, <1>2, <1>4 DEF RowType, Raised, SameNotes
  <2>2. \A x \in Request \ {r} : Kept(x)
    BY <1>1, <1>2 DEF RowType, Kept, SameNotes
  <2>3. QED
    BY <1>1, <1>2, <2>1, <2>2 DEF RowsStep
<1>8. RunnersStep
  <2>1. Claimed("call")
    BY <1>1, <1>2, <1>3, <1>4 DEF RunType, Claimed
  <2>2. \A l \in Runner \ {"call"} : Rests(l)
    BY <1>1, <1>2 DEF RunType, FencesPast, Rests
  <2>3. QED
    BY <2>1, <2>2 DEF RunnersStep
<1>9. Awaiting
  BY <1>1, <1>2 DEF RunType, NoteWritten, Awaiting, Status
<1>10. QED
  BY <1>5, <1>6, <1>7, <1>8, <1>9, TypeParts DEF Fits

\* A runner in the attempt or the reconcile has its request.
LEMMA WorkerHasRequest ==
    ASSUME IInv, NEW k \in Runner, pc[k] \in BusyPc
    PROVE  req[k] \in Request /\ fence[req[k]] \in Fence /\ RowType /\ claims \in Fence
  BY TypeParts DEF IInv, FencesPast, RowType, ModeType

LEMMA AdvanceFits == ASSUME IInv, NEW k \in Runner, Advance(k) PROVE Fits
<1> DEFINE r == req[k]
<1>1. /\ RowType /\ PeerType /\ ModeType /\ RunType /\ BatchType /\ claims \in Nat
      /\ FencesPast /\ NoteWritten
  BY Before
<1>2. PICK to \in Open : /\ MayEnter(k, to) /\ CanBecome(r, to)
                        /\ MoveTo(r, to) /\ hand' = [hand EXCEPT ![k] = to]
  BY AdvancesRange DEF Advance
<1>3. r \in Request /\ state[r] \notin Terminal
  <2>1. pc[k] \in BusyPc
    BY DEF Advance, Working
  <2>2. r \in Request
    BY <2>1, WorkerHasRequest
  <2>3. QED
    BY <1>2, <2>2, WrittenWhileOpen
<1>4. UNCHANGED <<pc, req, fen, batch, note, claims, peerVars, mode, outages, rollbacks>>
  BY DEF Advance, WorkStep, Unclaimed, LoopStep
<1>5. RowType' /\ RowsStep
  BY <1>1, <1>2, <1>3, <1>4, Moves
<1>6. PeerType' /\ ModeType' /\ RunType' /\ BatchType'
  BY <1>1, <1>2, <1>4 DEF PeerType, ModeType, RunType, BatchType, peerVars
<1>7. RunnersStep /\ Awaiting
  BY <1>1, <1>4, RunnersAlone
<1>8. QED
  BY <1>5, <1>6, <1>7, TypeParts DEF Fits

LEMMA DecideFits == ASSUME IInv, NEW k \in Runner, Decide(k) PROVE Fits
<1> DEFINE r == req[k]
<1>1. pc[k] \in BusyPc
  BY DEF Decide, Working
<1>2. r \in Request /\ fence[r] \in Fence /\ claims \in Fence
  BY <1>1, WorkerHasRequest
<1>3. PICK to \in Terminal, code \in {"reconcilable", "other"} :
         CanBecome(r, to) /\ Complete(r, fence[r], to, code)
  BY OutcomesRange DEF Decide
<1>4. Return(k) /\ LoopStep /\ claims' = claims
  BY DEF Decide, WorkStep, Unclaimed
<1>5. state[r] \notin Terminal \/ state[r] = to
  BY <1>2, <1>3, DecisionStays
<1> HIDE DEF r
<1>6. QED
  BY <1>2, <1>3, <1>4, <1>5, DecidesFits

LEMMA DeferOrReviewFits == ASSUME IInv, NEW k \in Runner, DeferOrReview(k) PROVE Fits
<1> DEFINE r == req[k]
<1>1. pc[k] \in BusyPc
  BY DEF DeferOrReview, Working
<1>2. r \in Request /\ fence[r] \in Fence /\ claims \in Fence /\ state[r] \notin Terminal
  BY <1>1, WorkerHasRequest DEF DeferOrReview
<1>3. Return(k) /\ LoopStep /\ claims' = claims
  BY DEF DeferOrReview, WorkStep, Unclaimed
<1>4. CASE deadline[r] = "expired"
  <2>1. Complete(r, fence[r], "needs_review", "reconcilable")
    BY <1>4 DEF DeferOrReview
  <2> HIDE DEF r
  <2>2. QED
    BY <1>2, <1>3, <2>1, DecidesFits
<1>5. CASE deadline[r] # "expired"
  <2>1. /\ RowType /\ PeerType /\ ModeType /\ RunType /\ BatchType /\ claims \in Nat
        /\ FencesPast /\ NoteWritten
    BY Before
  <2>2. /\ deferred' = [deferred EXCEPT ![r] = TRUE] /\ deadline' = [deadline EXCEPT ![r] = "open"]
        /\ lease' = [lease EXCEPT ![r] = "none"]
        /\ UNCHANGED <<state, fence, why, active, notice>>
    BY <1>5 DEF DeferOrReview
  <2>3. RowType'
    BY <2>1, <2>2 DEF RowType
  <2>4. RowsStep
    BY <2>1, <2>2, <1>3, RowsAlone
  <2>5. PeerType' /\ ModeType' /\ UNCHANGED note
    BY <2>1, <1>3 DEF PeerType, ModeType, LoopStep, peerVars
  <2>6. RunType' /\ BatchType' /\ RunnersStep /\ Awaiting
    BY <2>1, <1>3, <2>5, ReturnType, RunnersReturn
  <2>7. QED
    BY <2>3, <2>4, <2>5, <2>6, TypeParts DEF Fits
<1>6. QED
  BY <1>4, <1>5

LEMMA UnexpectedFits == ASSUME IInv, NEW k \in Runner, Unexpected(k) PROVE Fits
<1> DEFINE r == req[k]
<1>1. pc[k] = "attempt" /\ LoopStep /\ claims' = claims
  BY DEF Unexpected, WorkStep, Unclaimed
<1>2. r \in Request /\ fence[r] \in Fence /\ claims \in Fence
  BY <1>1, WorkerHasRequest
<1>3. CASE UNCHANGED rowVars /\ Return(k)
  BY <1>1, <1>3, EndsFits
<1>4. CASE state[r] \notin Terminal /\ Complete(r, fence[r], "needs_review", "other") /\ Return(k)
  <2> HIDE DEF r
  <2>1. QED
    BY <1>1, <1>2, <1>4, DecidesFits
<1>5. CASE StepTo(k, "unexpected") /\ UNCHANGED rowVars
  <2>1. /\ RowType /\ PeerType /\ ModeType /\ RunType /\ BatchType /\ claims \in Nat
        /\ FencesPast /\ NoteWritten
    BY Before
  <2>2. pc' = [pc EXCEPT ![k] = "unexpected"] /\ UNCHANGED <<req, fen, hand, batch, note>>
    BY <1>1, <1>5 DEF StepTo, LoopStep
  <2>3. RowType' /\ PeerType' /\ ModeType' /\ BatchType'
    BY <1>1, <1>5, <2>1, <2>2 DEF RowType, PeerType, ModeType, BatchType, LoopStep, rowVars, peerVars
  <2>4. RunType'
    BY <2>1, <2>2 DEF RunType, Pc
  <2>5. RowsStep
    BY <1>1, <1>5, <2>1, RowsAlone DEF rowVars
  <2>6. \A l \in Runner : Rests(l)
    BY <1>1, <2>1, <2>2 DEF RunType, FencesPast, Rests
  <2>7. Awaiting
    BY <2>1, <2>2 DEF RunType, NoteWritten, Awaiting, Status
  <2>8. QED
    BY <2>3, <2>4, <2>5, <2>6, <2>7, TypeParts DEF Fits, RunnersStep
<1>6. QED
  BY <1>3, <1>4, <1>5 DEF Unexpected

LEMMA UnexpectedSettledFits == ASSUME IInv, NEW k \in Runner, UnexpectedSettled(k) PROVE Fits
<1> DEFINE r == req[k]
<1>1. pc[k] = "unexpected" /\ LoopStep /\ claims' = claims
  BY DEF UnexpectedSettled, WorkStep, Unclaimed
<1>2. r \in Request /\ fence[r] \in Fence /\ claims \in Fence
  BY <1>1, WorkerHasRequest
<1>3. ASSUME NEW to \in {"failed", "needs_review"}, CanBecome(r, to),
             Complete(r, fence[r], to, "other"), Return(k)
      PROVE  Fits
  <2>1. to \in Terminal /\ (state[r] \notin Terminal \/ state[r] = to)
    BY <1>2, <1>3, DecisionStays
  <2> HIDE DEF r
  <2>2. QED
    BY <1>1, <1>2, <1>3, <2>1, DecidesFits
<1>4. CASE Throw(k) /\ UNCHANGED rowVars
  BY <1>1, <1>4, EndsFits
<1>5. QED
  BY <1>3, <1>4 DEF UnexpectedSettled

LEMMA ReconcileObservesFits == ASSUME IInv, NEW k \in Runner, ReconcileObserves(k) PROVE Fits
<1> DEFINE r == req[k]
<1>1. pc[k] = "reconcile" /\ Return(k) /\ LoopStep /\ claims' = claims
  BY DEF ReconcileObserves, WorkStep, Unclaimed
<1>2. r \in Request /\ fence[r] \in Fence /\ claims \in Fence
  BY <1>1, WorkerHasRequest
<1>3. CASE CanBecome(r, "needs_review") /\ Complete(r, fence[r], "needs_review", "other")
  <2>1. state[r] \notin Terminal \/ state[r] = "needs_review"
    BY <1>2, <1>3, DecisionStays
  <2> HIDE DEF r
  <2>2. QED
    BY <1>1, <1>2, <1>3, <2>1, DecidesFits
<1>4. CASE UNCHANGED rowVars
  BY <1>1, <1>4, EndsFits
<1>5. QED
  BY <1>3, <1>4 DEF ReconcileObserves

LEMMA EvidenceProvedFits == ASSUME IInv, NEW k \in Runner, EvidenceProved(k) PROVE Fits
<1> DEFINE r == req[k]
<1>1. pc[k] = "evidence" /\ LoopStep
  BY DEF EvidenceProved
<1>2. r \in Request /\ fence[r] \in Fence /\ claims \in Fence /\ fence[r] <= claims
  BY <1>1, WorkerHasRequest DEF IInv, FencesPast
<1>3. ASSUME NEW to \in {"succeeded", "rolled_back"}, state[r] = "needs_review", CountClaim,
             Complete(r, fence[r] + 1, to, "other"), Return(k)
      PROVE  Fits
  <2>1. fence[r] + 1 \in Fence /\ claims' \in Fence /\ claims' = claims + 1
    BY <1>2, <1>3 DEF CountClaim
  <2> HIDE DEF r
  <2>2. QED
    BY <1>1, <1>2, <1>3, <2>1, DecidesFits
<1>4. CASE Throw(k) /\ UNCHANGED rowVars /\ Unclaimed
  BY <1>1, <1>4, EndsFits DEF Unclaimed
<1>5. QED
  BY <1>3, <1>4 DEF EvidenceProved, Correctable, FenceOfReopening

LEMMA WorkFits == ASSUME IInv, NEW k \in Runner, Work(k) PROVE Fits
<1>1. CASE ReconcileThrows(k) \/ EvidenceMissing(k) \/ EvidenceUnavailable(k)
  BY <1>1, EndsFits DEF ReconcileThrows, EvidenceMissing, EvidenceUnavailable, WorkStep, Unclaimed
<1>2. QED
  BY <1>1, AdvanceFits, DecideFits, DeferOrReviewFits, UnexpectedFits, UnexpectedSettledFits,
     ReconcileObservesFits, EvidenceProvedFits DEF Work

\* The outbox changes the delivery of one notice that has a row.
LEMMA MarksFits ==
    ASSUME IInv, NEW r \in Request, NEW f \in Fence, notice[r][f].status # "none",
           NEW s \in {"pending", "delivering", "delivered", "reported", "needs_review"},
           Marked(r, f, s), PeerType', BatchType', NEW to \in {"idle", "outbox", "sending"},
           pc' = [pc EXCEPT !["loop"] = to], to = "sending" => note' = <<r, f>>,
           OutboxStep
    PROVE  Fits
<1>1. /\ RowType /\ PeerType /\ ModeType /\ RunType /\ BatchType /\ claims \in Nat
      /\ FencesPast /\ NoteWritten
  BY Before
<1>2. UNCHANGED <<state, fence, lease, why, deferred, deadline, active, claims, mode, outages,
                  rollbacks, req, fen, hand>>
  BY DEF OutboxStep, modeVars
<1>3. RowType' /\ ModeType'
  BY <1>1, <1>2 DEF RowType, ModeType, Marked
<1>4. RunType'
  BY <1>1, <1>2 DEF RunType, Pc
<1>5. \A x \in Request : Kept(x)
  BY <1>1, <1>2 DEF Kept, SameNotes, Marked
<1>6. \A l \in Runner : Rests(l)
  BY <1>1, <1>2 DEF RunType, FencesPast, Rests
<1>7. Awaiting
  BY <1>1 DEF RunType, Awaiting, Notices
<1>8. QED
  BY <1>1, <1>2, <1>3, <1>4, <1>5, <1>6, <1>7, TypeParts DEF Fits, RowsStep, RunnersStep

LEMMA NextNoteType ==
    ASSUME BatchType, NextNote
    PROVE  /\ BatchType'
           /\ \E to \in {"idle", "outbox"} : pc' = [pc EXCEPT !["loop"] = to]
  BY DEF BatchType, NextNote

LEMMA OutboxFits == ASSUME IInv, Outbox PROVE Fits
<1>1. /\ RowType /\ PeerType /\ ModeType /\ RunType /\ BatchType /\ claims \in Nat
      /\ FencesPast /\ NoteWritten
  BY Before
<1>2. ASSUME NEW n \in Notices, Deliver(n) PROVE Fits
  <2>1. PICK r \in Request, f \in Fence : n = <<r, f>>
    BY DEF Notices
  <2>2. /\ notice[r][f].status = "pending" /\ wire' = wire \cup {n} /\ note' = n
        /\ notice' = [notice EXCEPT ![r][f].status = "delivering", ![r][f].tried = TRUE]
        /\ pc' = [pc EXCEPT !["loop"] = "sending"] /\ UNCHANGED <<event, batch>> /\ OutboxStep
    BY <1>2, <2>1 DEF Deliver, Status
  <2>3. /\ notice \in [Request -> [Fence -> NoticeRow]]
        /\ \A x \in Request, g \in Fence : notice[x][g] \in NoticeRow
    BY <1>1 DEF RowType
  <2> DEFINE sent == [[notice[r][f] EXCEPT !.status = "delivering"] EXCEPT !.tried = TRUE]
  <2>4. /\ sent \in NoticeRow /\ sent.status = "delivering"
        /\ sent.says = notice[r][f].says /\ sent.superseded = notice[r][f].superseded
    BY <2>3 DEF NoticeRow
  <2>5. notice' = [notice EXCEPT ![r] = [notice[r] EXCEPT ![f] = sent]]
    BY <2>2, <2>3
  <2> HIDE DEF sent
  <2>6. notice' \in [Request -> [Fence -> NoticeRow]]
    BY <2>3, <2>4, <2>5
  <2>7. \A x \in Request, g \in Fence : notice'[x][g] = IF x = r /\ g = f THEN sent ELSE notice[x][g]
    BY <2>3, <2>5
  <2>8. Marked(r, f, "delivering")
    BY <2>4, <2>6, <2>7 DEF Marked
  <2>9. PeerType' /\ BatchType'
    BY <1>1, <1>2, <2>2 DEF PeerType, BatchType, OutboxStep
  <2>10. QED
    BY <2>1, <2>2, <2>8, <2>9, MarksFits
<1>3. ASSUME NEW n \in Notices, LookUp(n) PROVE Fits
  <2>1. /\ Status(n) # "none" /\ note' = n /\ pc' = [pc EXCEPT !["loop"] = "asking"]
        /\ UNCHANGED <<notice, wire, event, batch>> /\ OutboxStep
    BY <1>3 DEF LookUp
  <2>2. UNCHANGED <<state, fence, lease, why, deferred, deadline, active, notice, approval, wire, event,
                    mode, outages, rollbacks, claims, req, fen, hand, batch>>
    BY <2>1 DEF OutboxStep, modeVars
  <2>3. RowType' /\ PeerType' /\ ModeType' /\ BatchType'
    BY <1>1, <1>3, <2>1, <2>2 DEF RowType, PeerType, ModeType, BatchType
  <2>4. RunType'
    BY <1>1, <2>1, <2>2 DEF RunType, Pc
  <2>5. RowsStep
    BY <1>1, <2>2, RowsAlone
  <2>6. \A l \in Runner : Rests(l)
    BY <1>1, <2>1, <2>2 DEF RunType, FencesPast, Rests
  <2>7. Awaiting
    BY <1>3, <2>1 DEF Awaiting, Status
  <2>8. QED
    BY <2>3, <2>4, <2>5, <2>6, <2>7, TypeParts DEF Fits, RunnersStep
<1>4. ASSUME NEW s \in {"pending", "delivering", "delivered", "reported", "needs_review"},
             pc["loop"] \in {"sending", "asking"}, Mark(note, s), NextNote, OutboxStep,
             wire' \subseteq wire, UNCHANGED event \/ Store(note)
      PROVE  Fits
  <2>1. PICK r \in Request, f \in Fence : note = <<r, f>> /\ notice[r][f].status # "none"
    BY <1>1, <1>4 DEF NoteWritten, Notices, Status
  <2>2. Marked(r, f, s)
    BY <1>1, <1>4, <2>1, MarkEffect
  <2>3. PICK to \in {"idle", "outbox"} : pc' = [pc EXCEPT !["loop"] = to]
    BY <1>1, <1>4, NextNoteType
  <2>4. event' \in [Request -> [Fence -> {"absent", "stored", "completed", "review"}]]
    <3>1. event \in [Request -> [Fence -> {"absent", "stored", "completed", "review"}]]
      BY <1>1 DEF PeerType
    <3>2. CASE UNCHANGED event
      BY <3>1, <3>2
    <3>3. CASE Store(note)
      <4>1. event' = [event EXCEPT ![r][f] = IF event[r][f] = "absent" THEN "stored" ELSE event[r][f]]
        BY <2>1, <3>1, <3>3 DEF Store
      <4>2. event[r][f] \in {"absent", "stored", "completed", "review"}
        BY <3>1
      <4>3. QED
        BY <3>1, <4>1, <4>2
    <3>4. QED
      BY <1>4, <3>2, <3>3
  <2>5. PeerType'
    BY <1>1, <1>4, <2>4 DEF PeerType, OutboxStep
  <2>6. BatchType'
    BY <1>1, <1>4, NextNoteType
  <2>7. to \in {"idle", "outbox", "sending"} /\ (to = "sending" => note' = <<r, f>>)
    OBVIOUS
  <2>8. notice[r][f].status # "none" /\ OutboxStep
    BY <1>4, <2>1
  <2>9. QED
    BY <1>4, <2>2, <2>3, <2>5, <2>6, <2>7, <2>8, MarksFits
<1>5. CASE DeliverAccepted
  BY <1>4, <1>5 DEF DeliverAccepted
<1>6. CASE DeliverRejected
  BY <1>4, <1>6 DEF DeliverRejected
<1>7. CASE DeliverUnknown \/ LookUpUnknown
  BY <1>4, <1>7 DEF DeliverUnknown, LookUpUnknown
<1>8. CASE DeliverRefused
  BY <1>4, <1>8 DEF DeliverRefused
<1>9. CASE LookUpAnswered
  <2>1. PICK r \in Request, f \in Fence : note = <<r, f>>
    BY <1>1, <1>9 DEF LookUpAnswered, NoteWritten, Notices
  <2>2. EventOf(note) \in {"absent", "stored", "completed", "review"}
    BY <1>1, <2>1 DEF PeerType, EventOf
  <2>3. LookUpAnswer \in {"pending", "delivering", "delivered", "reported", "needs_review"}
    BY <2>2 DEF LookUpAnswer
  <2>4. QED
    BY <1>4, <1>9, <2>3 DEF LookUpAnswered
<1>10. QED
  BY <1>2, <1>3, <1>5, <1>6, <1>7, <1>8, <1>9 DEF Outbox

LEMMA DispatcherFits == ASSUME IInv, Dispatcher PROVE Fits
<1>1. /\ RowType /\ PeerType /\ ModeType /\ RunType /\ BatchType /\ claims \in Nat
      /\ FencesPast /\ NoteWritten
  BY Before
<1>2. UNCHANGED <<rowVars, modeVars, runVars, batchVars>>
  BY DEF Dispatcher, Arrive, SettleEvent, CompleteApproval, DispatcherStep
<1>3. RowType' /\ ModeType' /\ RunType' /\ BatchType'
  BY <1>1, <1>2 DEF RowType, ModeType, RunType, BatchType, rowVars, modeVars, runVars, batchVars
<1>4. PeerType'
  <2>1. ASSUME NEW n \in Notices, NEW s \in {"absent", "stored", "completed", "review"},
               event' = [event EXCEPT ![n[1]][n[2]] = s]
        PROVE  event' \in [Request -> [Fence -> {"absent", "stored", "completed", "review"}]]
    BY <1>1, <2>1 DEF PeerType, Notices
  <2>2. ASSUME NEW n \in Notices, Arrive(n) PROVE PeerType'
    <3>1. event[n[1]][n[2]] \in {"absent", "stored", "completed", "review"}
      BY <1>1 DEF PeerType, Notices
    <3>2. Store(n) => event' = [event EXCEPT ![n[1]][n[2]] =
                                  IF event[n[1]][n[2]] = "absent" THEN "stored" ELSE event[n[1]][n[2]]]
      BY <1>1 DEF Store, PeerType, Notices
    <3>3. QED
      BY <1>1, <2>1, <2>2, <3>1, <3>2 DEF PeerType, Arrive
  <2>3. ASSUME NEW n \in Notices, SettleEvent(n) PROVE PeerType'
    BY <1>1, <2>1, <2>3 DEF PeerType, SettleEvent
  <2>4. ASSUME NEW r \in Request, CompleteApproval(r) PROVE PeerType'
    BY <1>1, <2>4 DEF PeerType, CompleteApproval
  <2>5. QED
    BY <2>2, <2>3, <2>4 DEF Dispatcher
<1>5. RowsStep
  BY <1>1, <1>2, RowsAlone DEF rowVars, modeVars
<1>6. RunnersStep /\ Awaiting
  BY <1>1, <1>2, RunnersAlone DEF runVars, batchVars
<1>7. QED
  BY <1>3, <1>4, <1>5, <1>6, TypeParts DEF Fits

LEMMA ClockFits == ASSUME IInv, Clock PROVE Fits
<1>1. /\ RowType /\ PeerType /\ ModeType /\ RunType /\ BatchType /\ claims \in Nat
      /\ FencesPast /\ NoteWritten
  BY Before
<1>2. ClockStep
  BY DEF Clock, ReconcileTime, DeadlinePasses, LeaseExpires, RenewLease
<1>3. UNCHANGED <<state, fence, why, active, notice, peerVars, modeVars, runVars, batchVars>>
  BY <1>2 DEF ClockStep
<1>4. PeerType' /\ ModeType' /\ RunType' /\ BatchType'
  BY <1>1, <1>3 DEF PeerType, ModeType, RunType, BatchType, peerVars, modeVars, runVars, batchVars
<1>5. RowType'
  <2>1. ASSUME NEW r \in Request, ReconcileTime(r) \/ DeadlinePasses(r) \/ LeaseExpires(r)
        PROVE  RowType'
    BY <1>1, <1>3, <2>1 DEF RowType, ReconcileTime, DeadlinePasses, LeaseExpires
  <2>2. ASSUME NEW k \in Runner, RenewLease(k)
        PROVE  RowType'
    BY <1>1, <1>3, <2>2 DEF RowType, RenewLease
  <2>3. QED
    BY <2>1, <2>2 DEF Clock
<1>6. RowsStep
  BY <1>1, <1>3, RowsAlone DEF modeVars
<1>7. RunnersStep /\ Awaiting
  BY <1>1, <1>3, RunnersAlone DEF runVars, batchVars
<1>8. QED
  BY <1>4, <1>5, <1>6, <1>7, TypeParts DEF Fits

LEMMA StartFits == ASSUME IInv, Start PROVE Fits
<1>1. /\ RowType /\ PeerType /\ ModeType /\ RunType /\ BatchType /\ claims \in Nat
      /\ FencesPast /\ NoteWritten
  BY Before
<1>2. /\ RowType' /\ PeerType' /\ RunType' /\ BatchType'
  BY <1>1 DEF Start, RowType, PeerType, RunType, BatchType, rowVars, peerVars, runVars, batchVars
<1>3. ModeType'
  BY <1>1 DEF Start, ModeType
<1>4. RowsStep
  BY <1>1, RowsAlone DEF Start, rowVars
<1>5. RunnersStep /\ Awaiting
  BY <1>1, RunnersAlone DEF Start, runVars, batchVars
<1>6. QED
  BY <1>2, <1>3, <1>4, <1>5, TypeParts DEF Fits

\* The next process has no runner at work.
LEMMA EndFits == ASSUME IInv, End PROVE Fits
<1>1. /\ RowType /\ PeerType /\ ModeType /\ RunType /\ BatchType /\ claims \in Nat
      /\ FencesPast /\ NoteWritten
  BY Before
<1>2. RowType' /\ PeerType' /\ ModeType'
  BY <1>1 DEF End, RowType, PeerType, ModeType, peerVars
<1>3. RunType' /\ BatchType'
  BY DEF End, RunType, BatchType, Pc
<1>4. RowsStep
  BY <1>1, RowsAlone DEF End
<1>5. RunnersStep /\ Awaiting
  BY DEF End, RunnersStep, Rests, Awaiting
<1>6. QED
  BY <1>2, <1>3, <1>4, <1>5, TypeParts DEF Fits

LEMMA NextFits ==
    ASSUME IInv, Next
    PROVE  Fits
<1>1. CASE Call
  BY <1>1, CallReconcileFits, CallRollbackFits DEF Call
<1>2. QED
  BY <1>1, ApiFits, ProcessFits, WorkFits, OutboxFits, DispatcherFits, ClockFits, StartFits, EndFits
     DEF Next

-----------------------------------------------------------------------------
(***************************************************************************)
(* Theorems                                                                *)
(***************************************************************************)

LEMMA InitHolds == Init => IInv
<1> SUFFICES ASSUME Init PROVE IInv
  OBVIOUS
<1>1. TypeOK
  <2>1. NoNotice \in NoticeRow
    BY DEF NoNotice, NoticeRow
  <2>2. RowType
    BY <2>1 DEF Init, RowType
  <2>3. PeerType /\ ModeType /\ RunType /\ BatchType
    BY DEF Init, PeerType, ModeType, RunType, BatchType, Pc
  <2>4. QED
    BY <2>2, <2>3, TypeParts
<1>2. FencesPast /\ NoteWritten /\ OneWriter
  BY DEF Init, FencesPast, NoteWritten, OneWriter, Writes
<1>3. \A r \in Request : state[r] \notin Terminal /\ \A f \in Fence : notice[r][f].status = "none"
  BY DEF Init, NoNotice
<1>4. \A r \in Request : fence[r] \in Fence
  BY <1>1, TypeParts DEF RowType
<1>5. NoticesPast /\ DecisionReported
  BY <1>3, <1>4 DEF NoticesPast, DecisionReported
<1>6. QED
  BY <1>1, <1>2, <1>5 DEF IInv

LEMMA StepKeeps == IInv /\ [Next]_vars => IInv'
<1> SUFFICES ASSUME IInv, [Next]_vars PROVE IInv'
  OBVIOUS
<1>1. CASE Next
  BY <1>1, NextFits, ShapesKeepIInv DEF Fits
<1>2. CASE UNCHANGED vars
  <2>1. UNCHANGED <<state, fence, lease, why, deferred, deadline, active, notice, approval, wire, event,
                    mode, outages, rollbacks, claims, pc, req, fen, hand, batch, note>>
    BY <1>2 DEF vars, rowVars, peerVars, modeVars, runVars, batchVars
  <2>2. Fits
    <3>1. /\ RowType /\ PeerType /\ ModeType /\ RunType /\ BatchType /\ claims \in Nat
          /\ FencesPast /\ NoteWritten
      BY Before
    <3>2. RowType' /\ PeerType' /\ ModeType' /\ RunType' /\ BatchType'
      BY <2>1, <3>1 DEF RowType, PeerType, ModeType, RunType, BatchType
    <3>3. RowsStep /\ RunnersStep /\ Awaiting
      BY <2>1, <3>1, RowsAlone, RunnersAlone
    <3>4. QED
      BY <3>2, <3>3, TypeParts DEF Fits
  <2>3. QED
    BY <2>2, ShapesKeepIInv DEF Fits
<1>3. QED
  BY <1>1, <1>2

LEMMA Invariant == Spec => []IInv
<1>1. QED
  BY InitHolds, StepKeeps, PTL DEF Spec

\* TypeOK: every column and local of the updater keeps to its values, through
\* every claim, decision, restart and delivery.
THEOREM TypeCorrect == Spec => []TypeOK
<1>1. IInv => TypeOK
  BY DEF IInv
<1>2. QED
  BY <1>1, Invariant, PTL

\* OneWriter: of the loop and the API request that claimed the same update, only
\* the one that claimed it last can write to it (assertLease).
THEOREM FencedWriter == Spec => []OneWriter
<1>1. IInv => OneWriter
  BY DEF IInv
<1>2. QED
  BY <1>1, Invariant, PTL

\* DecisionReported: the newest report of a decided update, which no other has
\* superseded, tells the decision that stands (completeInternal, insertOutbox).
THEOREM LatestDecisionReported == Spec => []DecisionReported
<1>1. IInv => DecisionReported
  BY DEF IInv
<1>2. QED
  BY <1>1, Invariant, PTL

\* ReopenedByNewFence: a decision is replaced only out of review, and only under
\* a fence that no runner of an earlier claim holds (transition, assertLease).
THEOREM NeverReopened == Spec => ReopenedByNewFence
<1>1. ASSUME IInv, [Next]_vars
      PROVE  [\A r \in Request : state[r] \in Terminal /\ state'[r] # state[r] =>
                 state[r] = "needs_review" /\ fence'[r] > fence[r]]_vars
  <2>1. CASE Next
    <3> SUFFICES ASSUME NEW r \in Request, state[r] \in Terminal, state'[r] # state[r]
                 PROVE  state[r] = "needs_review" /\ fence'[r] > fence[r]
      OBVIOUS
    <3>1. fence[r] \in Nat
      BY <1>1, Before DEF RowType
    <3>2. Raised(r) \/ Decided(r)
      BY <1>1, <2>1, NextFits DEF Fits, RowsStep, Kept
    <3>3. QED
      BY <3>1, <3>2 DEF Raised, Decided
  <2>2. CASE UNCHANGED vars
    BY <2>2
  <2>3. QED
    BY <1>1, <2>1, <2>2
<1>2. QED
  BY <1>1, Invariant, PTL DEF Spec, ReopenedByNewFence

-----------------------------------------------------------------------------
(***************************************************************************)
(* One request at a time                                                   *)
(*                                                                         *)
(* createPlan refuses a plan while another request is open, and a decided  *)
(* request opens again only by the operator's rollback.  Until one is      *)
(* ordered, the runners that may work on an open request work on the same  *)
(* one, and the fence leaves one of them.                                  *)
(***************************************************************************)

OneOpen == \A x, y \in Request : IsOpen(x) /\ IsOpen(y) => x = y

\* A runner is at work only on a request that was planned.
Begun == \A k \in Runner : pc[k] \in BusyPc => state[req[k]] # "none"

FlightInv == Begun /\ (rollbacks = 0 => OneOpen)

\* No request is opened, and none that was planned is forgotten.
Narrows == \A r \in Request : /\ state'[r] \in Open => state[r] \in Open
                              /\ state'[r] = "none" => state[r] = "none"

\* A plan is made while none is open.
Opens == /\ \A x \in Request : ~IsOpen(x)
         /\ \E r \in Request : state'[r] # "none" /\ \A x \in Request \ {r} : state'[x] = state[x]

\* The operator orders a rollback of a request in review.
Reopens == rollbacks' = rollbacks + 1 /\ \A r \in Request : state'[r] = "none" => state[r] = "none"

\* A runner at work afterwards was at work on it before, or took one that was planned.
Stays(k) == pc'[k] \in BusyPc => \/ pc[k] \in BusyPc /\ req'[k] = req[k]
                                 \/ req'[k] \in Request /\ state[req'[k]] # "none"

\* Every runner's step stays, the rows narrow or one opens in its turn.
Flies == /\ Narrows \/ Opens \/ Reopens
         /\ rollbacks' >= rollbacks
         /\ \A k \in Runner : Stays(k)

LEMMA FliesKeeps ==
    ASSUME IInv, FlightInv, Flies
    PROVE  FlightInv'
<1>1. RowType /\ FencesPast /\ rollbacks \in Nat
  BY Before DEF IInv, ModeType
<1>2. \A r \in Request : state'[r] = "none" => state[r] = "none"
  <2>1. CASE Opens
    BY <2>1 DEF Opens
  <2>2. QED
    BY <2>1 DEF Flies, Narrows, Reopens
<1>3. Begun'
  <2> SUFFICES ASSUME NEW k \in Runner, pc'[k] \in BusyPc
               PROVE  state'[req'[k]] # "none"
    BY DEF Begun
  <2>1. req'[k] \in Request /\ state[req'[k]] # "none"
    BY <1>1 DEF Flies, Stays, FlightInv, Begun, FencesPast
  <2>2. QED
    BY <1>2, <2>1
<1>4. ASSUME rollbacks' = 0
      PROVE  OneOpen'
  <2>1. rollbacks = 0 /\ ~Reopens
    BY <1>1, <1>4 DEF Flies, Reopens
  <2>2. \A x, y \in Request : state[x] \in Open /\ state[y] \in Open => x = y
    BY <2>1 DEF FlightInv, OneOpen, IsOpen
  <2>3. CASE Narrows
    BY <2>2, <2>3 DEF Narrows, OneOpen, IsOpen
  <2>4. CASE Opens
    BY <2>4 DEF Opens, OneOpen, IsOpen
  <2>5. QED
    BY <2>1, <2>3, <2>4 DEF Flies
<1>5. QED
  BY <1>3, <1>4 DEF FlightInv

\* What a step does to the rows.

LEMMA NarrowsAlone == ASSUME UNCHANGED state PROVE Narrows
  BY DEF Narrows

LEMMA NarrowsByMove ==
    ASSUME RowType, NEW r \in Request, NEW to \in Open, state[r] \in Open, MoveTo(r, to)
    PROVE  Narrows
  BY DEF RowType, MoveTo, Narrows

LEMMA NarrowsByDecision ==
    ASSUME RowType, NEW r \in Request, NEW f, NEW to \in Terminal, NEW code, Complete(r, f, to, code)
    PROVE  Narrows
  BY DEF RowType, Complete, Narrows

\* What it does to the runners.

LEMMA StaysAlone == ASSUME UNCHANGED <<pc, req>>, NEW k \in Runner PROVE Stays(k)
  BY DEF Stays

LEMMA StaysAway ==
    ASSUME RunType, NEW k \in Runner, NEW to \in Pc \ BusyPc, Leave(k, to)
    PROVE  \A l \in Runner : Stays(l)
<1>1. \A l \in Runner : /\ pc'[l] = IF l = k THEN to ELSE pc[l]
                        /\ l # k => req'[l] = req[l]
  BY DEF RunType, Leave
<1>2. QED
  BY <1>1 DEF Stays

LEMMA StaysByEnd ==
    ASSUME RunType, NEW k \in Runner, Return(k) \/ Throw(k)
    PROVE  \A l \in Runner : Stays(l)
<1>1. PICK to : to \in {"idle", "outbox"} /\ Leave(k, to)
  BY DEF Return, Throw
<1>2. to \in Pc \ BusyPc
  BY <1>1 DEF Pc
<1> HIDE DEF Runner, BusyPc
<1>3. QED
  BY <1>1, <1>2, StaysAway

LEMMA StaysOnRequest ==
    ASSUME RunType, NEW k \in Runner, NEW r \in Request, NEW to \in Pc, state[r] # "none",
           pc' = [pc EXCEPT ![k] = to], req' = [req EXCEPT ![k] = r]
    PROVE  \A l \in Runner : Stays(l)
<1>1. \A l \in Runner : /\ pc'[l] = IF l = k THEN to ELSE pc[l]
                        /\ req'[l] = IF l = k THEN r ELSE req[l]
  BY DEF RunType
<1>2. QED
  BY <1>1 DEF Stays

LEMMA ClaimFlies ==
    ASSUME IInv, NEW k \in Runner, NEW r \in Request, NEW to \in {"attempt", "reconcile"},
           state[r] # "none", Claim(k, r, to), UNCHANGED rollbacks
    PROVE  Flies
<1>1. RowType /\ RunType /\ rollbacks \in Nat
  BY Before DEF ModeType
<1>2. state' = [state EXCEPT ![r] = IF state[r] = "approved" THEN "preparing" ELSE state[r]]
  BY DEF Claim
<1>3. Narrows
  BY <1>1, <1>2 DEF RowType, Narrows
<1>4. \A l \in Runner : Stays(l)
  BY <1>1, StaysOnRequest DEF Claim, Pc
<1>5. QED
  BY <1>1, <1>3, <1>4 DEF Flies

\* A runner ends, and its rows stay or are decided.
LEMMA EndFlies ==
    ASSUME IInv, NEW k \in Runner, Return(k) \/ Throw(k), UNCHANGED rollbacks,
           \/ UNCHANGED state
           \/ \E r \in Request, f \in Fence, to \in Terminal, code \in {"reconcilable", "other"} :
                 Complete(r, f, to, code)
    PROVE  Flies
<1>1. RowType /\ RunType /\ rollbacks \in Nat
  BY Before DEF ModeType
<1>2. Narrows
  BY <1>1, NarrowsAlone, NarrowsByDecision
<1>3. QED
  BY <1>1, <1>2, StaysByEnd DEF Flies

LEMMA AskFlies ==
    ASSUME IInv, NEW k \in Runner, NEW r \in Request, NEW to \in {"barrier", "evidence"}, state[r] # "none",
           pc' = [pc EXCEPT ![k] = to], req' = [req EXCEPT ![k] = r],
           UNCHANGED <<state, rollbacks>>
    PROVE  Flies
<1>1. RunType /\ rollbacks \in Nat
  BY Before DEF ModeType
<1>2. to \in Pc
  BY DEF Pc
<1>3. Narrows
  BY NarrowsAlone
<1> HIDE DEF Runner
<1>4. \A l \in Runner : Stays(l)
  BY <1>1, <1>2, StaysOnRequest
<1>5. QED
  BY <1>1, <1>3, <1>4 DEF Flies

LEMMA ApiFlies == ASSUME IInv, Api PROVE Flies
<1>1. RowType /\ rollbacks \in Nat
  BY Before DEF ModeType
<1>2. PICK r \in Request : CreatePlan(r) \/ Approve(r) \/ RequestCancellation(r)
  BY DEF Api
<1>3. UNCHANGED <<pc, req, rollbacks>>
  BY <1>2 DEF CreatePlan, Approve, RequestCancellation, ApiStep, runVars, modeVars
<1>4. CASE CreatePlan(r)
  <2>1. Opens
    BY <1>1, <1>4 DEF CreatePlan, MoveTo, Opens, RowType
  <2>2. QED
    BY <1>1, <1>3, <2>1, StaysAlone DEF Flies
<1>5. CASE Approve(r)
  BY <1>1, <1>3, <1>5, NarrowsByMove, StaysAlone DEF Approve, Flies
<1>6. CASE RequestCancellation(r)
  <2> DEFINE to == IF state[r] \in Undecided THEN "cancelled" ELSE "needs_review"
  <2>1. Complete(r, fence[r], to, "other") /\ to \in Terminal
    BY <1>6 DEF RequestCancellation
  <2> HIDE DEF to
  <2>2. QED
    BY <1>1, <1>3, <2>1, NarrowsByDecision, StaysAlone DEF Flies
<1>7. QED
  BY <1>2, <1>4, <1>5, <1>6

LEMMA ProcessFlies == ASSUME IInv, Begun, ProcessNext PROVE Flies
<1>1. CASE ProcessNothing
  BY <1>1, EndFlies DEF ProcessNothing, LoopStep, rowVars
<1>2. CASE BarrierRefused
  BY <1>2, EndFlies DEF BarrierRefused, LoopStep, rowVars
<1>3. CASE BarrierPassed
  <2>1. req["loop"] \in Request /\ state[req["loop"]] # "none"
    BY <1>3 DEF BarrierPassed, IInv, FencesPast, Begun
  <2>2. QED
    BY <1>3, <2>1, ClaimFlies DEF BarrierPassed, LoopStep
<1>4. ASSUME NEW r \in Request, ProcessApproved(r) PROVE Flies
  BY <1>4, AskFlies DEF ProcessApproved, LoopStep, rowVars
<1>5. ASSUME NEW r \in Request, ProcessPrepared(r) PROVE Flies
  <2>1. CASE Claim("loop", r, "attempt")
    BY <1>5, <2>1, ClaimFlies DEF ProcessPrepared, LoopStep
  <2>2. CASE UNCHANGED rowVars /\ Return("loop")
    BY <1>5, <2>2, EndFlies DEF ProcessPrepared, LoopStep, rowVars
  <2>3. QED
    BY <1>5, <2>1, <2>2 DEF ProcessPrepared
<1>6. ASSUME NEW r \in Request, ProcessMutating(r) PROVE Flies
  BY <1>6, ClaimFlies DEF ProcessMutating, LoopStep
<1>7. ASSUME NEW r \in Request, ProcessReview(r) PROVE Flies
  BY <1>7, AskFlies DEF ProcessReview, LoopStep, rowVars
<1>8. QED
  BY <1>1, <1>2, <1>3, <1>4, <1>5, <1>6, <1>7 DEF ProcessNext

LEMMA CallFlies == ASSUME IInv, Call PROVE Flies
<1>1. ASSUME NEW r \in Request, CallReconcile(r) PROVE Flies
  <2>1. CASE state[r] \in Open /\ Claim("call", r, "reconcile")
    BY <1>1, <2>1, ClaimFlies DEF CallReconcile, LoopStep
  <2>2. CASE /\ state[r] = "needs_review"
             /\ pc' = [pc EXCEPT !["call"] = "evidence"]
             /\ req' = [req EXCEPT !["call"] = r]
             /\ UNCHANGED rowVars
    BY <1>1, <2>2, AskFlies DEF CallReconcile, LoopStep, rowVars
  <2>3. QED
    BY <1>1, <2>1, <2>2 DEF CallReconcile
<1>2. ASSUME NEW r \in Request, CallRollback(r) PROVE Flies
  <2>1. RowType /\ RunType /\ rollbacks \in Nat
    BY Before DEF ModeType
  <2>2. /\ state[r] = "needs_review" /\ rollbacks' = rollbacks + 1
        /\ state' = [state EXCEPT ![r] = "rolling_back"]
        /\ pc' = [pc EXCEPT !["call"] = "reconcile"] /\ req' = [req EXCEPT !["call"] = r]
    BY <1>2 DEF CallRollback
  <2>3. Reopens
    BY <2>1, <2>2 DEF RowType, Reopens
  <2>4. \A l \in Runner : Stays(l)
    BY <2>1, <2>2, StaysOnRequest DEF Pc
  <2>5. QED
    BY <2>1, <2>2, <2>3, <2>4 DEF Flies
<1>3. QED
  BY <1>1, <1>2 DEF Call

LEMMA WorkFlies == ASSUME IInv, Begun, NEW k \in Runner, Work(k) PROVE Flies
<1>1. RowType /\ RunType /\ rollbacks \in Nat /\ rollbacks' = rollbacks
  BY Before
     DEF ModeType, Work, Advance, Decide, DeferOrReview, Unexpected, UnexpectedSettled, ReconcileThrows,
         ReconcileObserves, EvidenceMissing, EvidenceUnavailable, EvidenceProved, WorkStep, LoopStep
<1>2. pc[k] \in BusyPc
  BY DEF Work, Advance, Decide, DeferOrReview, Unexpected, UnexpectedSettled, ReconcileThrows,
         ReconcileObserves, EvidenceMissing, EvidenceUnavailable, EvidenceProved, Working
<1>3. req[k] \in Request /\ fence[req[k]] \in Fence /\ claims \in Fence /\ state[req[k]] # "none"
  BY <1>2, WorkerHasRequest DEF Begun
<1>4. CASE Advance(k)
  <2>1. PICK to \in Open : /\ MayEnter(k, to) /\ CanBecome(req[k], to)
                          /\ MoveTo(req[k], to) /\ UNCHANGED <<pc, req>>
    BY <1>4, AdvancesRange DEF Advance
  <2>2. state[req[k]] \in Open
    BY <1>1, <1>3, <2>1, WrittenWhileOpen DEF RowType
  <2>3. Narrows
    BY <1>1, <1>3, <2>1, <2>2, NarrowsByMove
  <2>4. QED
    BY <1>1, <2>1, <2>3, StaysAlone DEF Flies
<1>5. CASE Decide(k)
  <2>1. PICK to \in Terminal, code \in {"reconcilable", "other"} : Complete(req[k], fence[req[k]], to, code)
    BY <1>5, OutcomesRange DEF Decide
  <2>2. Return(k)
    BY <1>5 DEF Decide
  <2>3. QED
    BY <1>1, <1>3, <2>1, <2>2, EndFlies
<1>6. CASE DeferOrReview(k)
  <2>1. Return(k) /\ (UNCHANGED state \/ Complete(req[k], fence[req[k]], "needs_review", "reconcilable"))
    BY <1>6 DEF DeferOrReview
  <2>2. QED
    BY <1>1, <1>3, <2>1, EndFlies
<1>7. CASE Unexpected(k)
  <2>1. CASE pc' = [pc EXCEPT ![k] = "unexpected"] /\ UNCHANGED <<req, state>>
    <3>1. \A l \in Runner : Stays(l)
      BY <1>1, <1>2, <2>1 DEF RunType, Stays
    <3>2. QED
      BY <1>1, <2>1, <3>1, NarrowsAlone DEF Flies
  <2>2. CASE Return(k) /\ (UNCHANGED state \/ Complete(req[k], fence[req[k]], "needs_review", "other"))
    BY <1>1, <1>3, <2>2, EndFlies
  <2>3. QED
    BY <1>7, <2>1, <2>2 DEF Unexpected, StepTo, rowVars
<1>8. CASE UnexpectedSettled(k)
  <2>1. CASE Throw(k) /\ UNCHANGED state
    BY <1>1, <2>1, EndFlies
  <2>2. CASE Return(k) /\ \E to \in {"failed", "needs_review"} : Complete(req[k], fence[req[k]], to, "other")
    BY <1>1, <1>3, <2>2, EndFlies
  <2>3. QED
    BY <1>8, <2>1, <2>2 DEF UnexpectedSettled, rowVars
<1>9. CASE ReconcileThrows(k)
  BY <1>1, <1>9, EndFlies DEF ReconcileThrows, rowVars
<1>10. CASE ReconcileObserves(k)
  <2>1. Return(k) /\ (UNCHANGED state \/ Complete(req[k], fence[req[k]], "needs_review", "other"))
    BY <1>10 DEF ReconcileObserves, rowVars
  <2>2. QED
    BY <1>1, <1>3, <2>1, EndFlies
<1>11. CASE EvidenceMissing(k) \/ EvidenceUnavailable(k)
  BY <1>1, <1>11, EndFlies DEF EvidenceMissing, EvidenceUnavailable, rowVars
<1>12. CASE EvidenceProved(k)
  <2>1. CASE Throw(k) /\ UNCHANGED state
    BY <1>1, <2>1, EndFlies
  <2>2. CASE Correctable(req[k]) /\ CountClaim /\ Return(k)
             /\ \E to \in {"succeeded", "rolled_back"} : Complete(req[k], FenceOfReopening(req[k]), to, "other")
    <3>1. FenceOfReopening(req[k]) \in Fence
      BY <1>3, <2>2 DEF FenceOfReopening, CountClaim, IInv, FencesPast
    <3>2. QED
      BY <1>1, <1>3, <2>2, <3>1, EndFlies
  <2>3. QED
    BY <1>12, <2>1, <2>2 DEF EvidenceProved, rowVars
<1>13. QED
  BY <1>4, <1>5, <1>6, <1>7, <1>8, <1>9, <1>10, <1>11, <1>12 DEF Work

LEMMA OutboxFlies == ASSUME IInv, Outbox PROVE Flies
<1>1. RunType /\ rollbacks \in Nat
  BY Before DEF ModeType
<1>2. UNCHANGED <<state, rollbacks, req>>
  BY DEF Outbox, DeliverAccepted, DeliverRejected, DeliverUnknown, DeliverRefused, LookUpAnswered,
         LookUpUnknown, Deliver, LookUp, OutboxStep, modeVars
<1>3. PICK to : to \in {"idle", "outbox", "sending", "asking"} /\ pc' = [pc EXCEPT !["loop"] = to]
  BY DEF Outbox, DeliverAccepted, DeliverRejected, DeliverUnknown, DeliverRefused, LookUpAnswered,
         LookUpUnknown, Deliver, LookUp, NextNote
<1>4. \A l \in Runner : Stays(l)
  BY <1>1, <1>2, <1>3 DEF RunType, Stays
<1>5. QED
  BY <1>1, <1>2, <1>4, NarrowsAlone DEF Flies

LEMMA OthersFly == ASSUME IInv, Dispatcher \/ Clock \/ Start \/ End \/ UNCHANGED vars PROVE Flies
<1>1. rollbacks \in Nat
  BY Before DEF ModeType
<1>2. UNCHANGED <<state, rollbacks>>
  BY DEF Dispatcher, Arrive, SettleEvent, CompleteApproval, DispatcherStep, Clock, ReconcileTime, DeadlinePasses,
         LeaseExpires, RenewLease, ClockStep, Start, End, vars, rowVars, modeVars
<1>3. UNCHANGED <<pc, req>> \/ pc' = [k \in Runner |-> "idle"]
  BY DEF Dispatcher, Arrive, SettleEvent, CompleteApproval, DispatcherStep, Clock, ReconcileTime, DeadlinePasses,
         LeaseExpires, RenewLease, ClockStep, Start, End, vars, runVars
<1>4. \A k \in Runner : Stays(k)
  BY <1>3 DEF Stays
<1>5. QED
  BY <1>1, <1>2, <1>4, NarrowsAlone DEF Flies

LEMMA FlightStep == IInv /\ FlightInv /\ [Next]_vars => FlightInv'
<1> SUFFICES ASSUME IInv, FlightInv, [Next]_vars PROVE Flies
  BY FliesKeeps
<1>1. Begun
  BY DEF FlightInv
<1>2. QED
  BY <1>1, ApiFlies, ProcessFlies, CallFlies, WorkFlies, OutboxFlies, OthersFly DEF Next

LEMMA FlightInit == Init => FlightInv
  BY DEF Init, FlightInv, Begun, OneOpen, IsOpen

LEMMA FlightHolds ==
    ASSUME IInv, FlightInv
    PROVE  rollbacks = 0 => RuntimeSingleFlight
<1> SUFFICES ASSUME rollbacks = 0, NEW k \in Runner, NEW l \in Runner, Mutates(k), Mutates(l)
             PROVE  k = l
  BY DEF RuntimeSingleFlight
<1>1. ASSUME NEW j \in Runner, Mutates(j)
      PROVE  Writes(j) /\ req[j] \in Request /\ state[req[j]] \in Open
  <2>1. /\ pc[j] \in {"attempt", "reconcile"} /\ Holds(j) /\ state[req[j]] \notin Terminal
    BY <1>1 DEF Mutates, Working, Asserted
  <2>2. req[j] \in Request /\ state[req[j]] # "none" /\ state[req[j]] \in State
    BY <2>1, Before DEF FencesPast, FlightInv, Begun, RowType
  <2>3. QED
    BY <2>1, <2>2 DEF Writes
<1>2. req[k] = req[l]
  BY <1>1 DEF FlightInv, OneOpen, IsOpen
<1>3. QED
  BY <1>1, <1>2 DEF IInv, OneWriter

\* RuntimeSingleFlight: as long as the operator has ordered no rollback, no two
\* runners may both stop services or switch the release (createPlan, claim,
\* assertLease).
THEOREM SingleFlightUntilRollback == Spec => [](rollbacks = 0 => RuntimeSingleFlight)
<1>1. Spec => []FlightInv
  BY FlightInit, FlightStep, Invariant, PTL DEF Spec
<1>2. QED
  BY <1>1, FlightHolds, Invariant, PTL
=============================================================================
