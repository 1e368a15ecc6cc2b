--------------------------- MODULE MCLeaveHistory ----------------------------
(* An instance of LeaveHistory for TLC.                                      *)
EXTENDS LeaveHistory, TLC

(* Two entitlement policies for one type, the narrow one first, and one for *)
(* another type                                                             *)
ThreeRules == {[type |-> "paid", contract |-> "intern", priority |-> 1, days |-> 2],
               [type |-> "paid", contract |-> "any", priority |-> 2, days |-> 4],
               [type |-> "sick", contract |-> "any", priority |-> 3, days |-> 2]}

Strict  == [levels |-> 1, weekends |-> FALSE, negative |-> FALSE]
Lenient == [levels |-> 2, weekends |-> TRUE, negative |-> TRUE]

StrictOrLenient == {Strict, Lenient}

Busy == {w \in Workers : op[w] # Idle}
Made == {r \in Requests : req[r].status # "absent"}

(* The rows of the requests that are made or being made *)
Rows == {req[r] : r \in Made} \cup {op[w].row : w \in {x \in Busy : op[x].kind = "create"}}

(* All that happens to the entitlements of two types as long as nobody asks *)
(* for leave: two calls at once while the company leaves its types alone    *)
Unasked == Rows = {} /\ (Cardinality(Busy) = 2 => activeTypes = Types /\ policy = Strict)

(* Two requests of any length for one type, with everything that happens to *)
(* its entitlement: both may be under way at once                           *)
Spending ==
    /\ grant[<<"ana", "sick">>] = NoGrant
    /\ activeTypes = Types /\ standard["sick"] = Unlimited
    /\ \A r \in activeRules : r.priority = 1
    /\ policy = Lenient => Cardinality(Made) < 2
    /\ \A row \in Rows : row.type = "paid"
    /\ Cardinality(Busy) = 2 =>
          policy = Strict /\ Cardinality(Made) < 2 /\ \E w \in Busy : op[w].kind = "create"
    /\ policy = Strict => \A r \in Made : level[r][2] = "none"

Explored == Unasked \/ Spending

WorkerSymmetry == Permutations(Workers)
=============================================================================
