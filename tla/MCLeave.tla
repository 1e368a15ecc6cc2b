------------------------------ MODULE MCLeave -------------------------------
(* An instance of Leave for TLC.                                              *)
EXTENDS Leave, TLC

(* One level of review, or two *)
StrictOrChain == {[levels |-> 1, weekends |-> FALSE, negative |-> FALSE],
                  [levels |-> 2, weekends |-> FALSE, negative |-> FALSE]}

OneRule == {[type |-> "paid", contract |-> "any", priority |-> 1, days |-> 8]}

(* Entitlements and grants come and go as long as nobody asks for leave; from *)
(* then on there are none, and the balance is unlimited.                      *)
Unasked == /\ \A r \in Requests : req[r].status = "absent"
           /\ \A w \in Workers : op[w].kind # "create"
Explored == Unasked \/ (activeRules = {} /\ \A k \in Keys : grant[k] = NoGrant)

WorkerSymmetry == Permutations(Workers)
=============================================================================
