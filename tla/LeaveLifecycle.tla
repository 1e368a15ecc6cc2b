--------------------------- MODULE LeaveLifecycle ---------------------------
(***************************************************************************)
(* What the leave service promises of a request however many callers are   *)
(* at work on it.  It is submitted once, and needs a number of             *)
(* endorsements fixed at submission.  A caller takes it up only while it   *)
(* is pending, and later decides it from what was seen then: the last      *)
(* endorsement that was seen missing approves it, any rejection rejects    *)
(* it, a cancellation cancels it.  Callers who saw the same endorsement    *)
(* missing give one endorsement together.  Nothing else moves a request,   *)
(* and none becomes pending again.                                         *)
(***************************************************************************)
EXTENDS Naturals

CONSTANTS Requests, Callers,
          Levels                  \* the numbers of endorsements a policy may ask for

VARIABLES state, left,            \* status of a request; endorsements it still needs
          hand                    \* the request a caller has taken up

lifecycleVars == <<state, left, hand>>

Free == [act |-> "none"]

Init ==
    /\ state = [r \in Requests |-> "absent"]
    /\ left = [r \in Requests |-> 0]
    /\ hand = [c \in Callers |-> Free]

Submit(r) ==
    /\ state[r] = "absent"
    /\ state' = [state EXCEPT ![r] = "pending"]
    /\ \E n \in Levels : left' = [left EXCEPT ![r] = n]
    /\ UNCHANGED hand

TakeUp(c, r, act) ==
    /\ hand[c] = Free
    /\ state[r] = "pending"
    /\ hand' = [hand EXCEPT ![c] =
                  [act |-> act, request |-> r, saw |-> IF act = "cancelled" THEN 0 ELSE left[r]]]
    /\ UNCHANGED <<state, left>>

LetGo(c) == hand' = [hand EXCEPT ![c] = Free]

PutDown(c) == LetGo(c) /\ UNCHANGED <<state, left>>

(* An endorsement somebody else has given since does not count twice. *)
Sign(h) == left' = [left EXCEPT ![h.request] = IF @ = h.saw THEN @ - 1 ELSE @]

Endorse(c) ==
    LET h == hand[c] IN
    /\ h.act = "approved"
    /\ Sign(h)
    /\ state' = IF h.saw = 1 THEN [state EXCEPT ![h.request] = "approved"] ELSE state
    /\ LetGo(c)

Reject(c) ==
    LET h == hand[c] IN
    /\ h.act = "rejected"
    /\ Sign(h)
    /\ state' = [state EXCEPT ![h.request] = "rejected"]
    /\ LetGo(c)

Cancel(c) ==
    LET h == hand[c] IN
    /\ h.act = "cancelled"
    /\ state' = [state EXCEPT ![h.request] = "cancelled"]
    /\ LetGo(c)
    /\ UNCHANGED left

Next ==
    \/ \E r \in Requests : Submit(r)
    \/ \E c \in Callers : Endorse(c) \/ Reject(c) \/ Cancel(c) \/ PutDown(c)
    \/ \E c \in Callers, r \in Requests, act \in {"approved", "rejected", "cancelled"} :
          TakeUp(c, r, act)

Spec == Init /\ [][Next]_lifecycleVars
=============================================================================
