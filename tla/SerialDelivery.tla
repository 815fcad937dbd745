--------------------------- MODULE SerialDelivery ---------------------------
(***************************************************************************)
(* What the Dispatcher's queue promises about the prompts it hands to the  *)
(* resident agent, without worker, process or crash: one event is in the   *)
(* agent's hands at a time, none while an event is parked for a human, and *)
(* an event is handed over once, plus once for every operator retry.       *)
(***************************************************************************)
EXTENDS Integers

CONSTANT Event

VARIABLES
    stage,    \* where an event is
    handed,   \* prompts of the event that may have reached the agent
    allowed   \* hand-overs granted: by the enqueue, and by each retry

vars == <<stage, handed, allowed>>

Stage == {"absent", "pending", "held", "parked", "closed"}

Init ==
    /\ stage = [e \in Event |-> "absent"]
    /\ handed = [e \in Event |-> 0]
    /\ allowed = [e \in Event |-> 1]

Admit(e) ==
    /\ stage[e] = "absent"
    /\ stage' = [stage EXCEPT ![e] = "pending"]
    /\ UNCHANGED <<handed, allowed>>

HandOver(e) ==
    /\ stage[e] = "pending" /\ handed[e] < allowed[e]
    /\ \A x \in Event : stage[x] \notin {"held", "parked"}
    /\ stage' = [stage EXCEPT ![e] = "held"]
    /\ handed' = [handed EXCEPT ![e] = @ + 1]
    /\ UNCHANGED allowed

\* The agent was not there: the prompt did not count.
TakeBack(e) ==
    /\ stage[e] = "held" /\ handed[e] > 0
    /\ \E to \in {"pending", "closed"} : stage' = [stage EXCEPT ![e] = to]
    /\ handed' = [handed EXCEPT ![e] = @ - 1]
    /\ UNCHANGED allowed

Park(e) ==
    /\ stage[e] \in {"pending", "held"}
    /\ \A x \in Event : x # e => stage[x] \notin {"held", "parked"}
    /\ stage' = [stage EXCEPT ![e] = "parked"]
    /\ UNCHANGED <<handed, allowed>>

Close(e) ==
    /\ stage[e] # "absent"
    /\ stage' = [stage EXCEPT ![e] = "closed"]
    /\ UNCHANGED <<handed, allowed>>

\* By the operator only.
Reopen(e) ==
    /\ stage[e] \in {"pending", "parked", "closed"}
    /\ stage' = [stage EXCEPT ![e] = "pending"]
    /\ allowed' = [allowed EXCEPT ![e] = @ + 1]
    /\ UNCHANGED handed

Next == \E e \in Event :
    Admit(e) \/ HandOver(e) \/ TakeBack(e) \/ Park(e) \/ Close(e) \/ Reopen(e)

Spec == Init /\ [][Next]_vars
=============================================================================
