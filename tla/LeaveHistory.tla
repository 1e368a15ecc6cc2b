---------------------------- MODULE LeaveHistory ----------------------------
(***************************************************************************)
(* The leave service with a history: the accounts that moved under a call. *)
(* create_request and ensure_policy_grants test the balance and look for   *)
(* grants first and write later; a thread of its own, each of them can be  *)
(* overtaken in between.  The history tells the calls that were from those *)
(* that were not.                                                          *)
(***************************************************************************)
EXTENDS Leave

VARIABLE moved     \* the accounts other calls have changed since a call began

(* What the balance of a user and a type is computed from *)
Account(k) ==
    <<policy.negative, standard[k[2]], grant[k], Used(req, k[1], k[2], {"pending", "approved"})>>

Moves == {k \in Keys : Account(k)' # Account(k)}

Counts(w) == op[w].kind \in {"create", "ensure"}

HistoryInit == Init /\ moved = [w \in Workers |-> {}]

HistoryNext ==
    /\ Next
    /\ moved' = [w \in Workers |->
                   IF Counts(w) /\ op'[w] = op[w] THEN moved[w] \cup Moves ELSE {}]

HistorySpec == HistoryInit /\ [][HistoryNext]_<<vars, moved>>

-----------------------------------------------------------------------------
(* Properties *)

(* A request that is accepted leaves its type a balance of zero or more,   *)
(* what is taken and what is pending both counted, unless the policy       *)
(* allows a negative balance or the type is unlimited.  A balance is       *)
(* overdrawn only by a request whose own user's account for its own type   *)
(* was changed by another call after create_request had tested it.         *)
NoOverdraft ==
    [][\A r \in Requests :
          LET u == req'[r].user
              t == req'[r].type
              counted == {q \in Requests :
                            /\ req'[q].status \in {"pending", "approved"}
                            /\ req'[q].user = u /\ req'[q].type = t}
              entitled == IF grant'[<<u, t>>].source = "none"
                            THEN standard[t] ELSE grant'[<<u, t>>].days
          IN
          req[r].status = "absent" /\ req'[r].status # "absent" =>
              \/ policy.negative
              \/ entitled = Unlimited
              \/ FoldFunctionOnSet(+, 0, [q \in Requests |-> req'[q].total], counted)
                    <= entitled
              \/ \E w \in Workers : op'[w] # op[w] /\ <<u, t>> \in moved[w]]_<<vars, moved>>

(* A grant an administrator has set is changed by administrators only:     *)
(* materializing an entitlement policy never replaces it, as               *)
(* ensure_policy_grants and its test promise.  An override is lost only to *)
(* a call that had looked for the grant before it was set.                 *)
OverridesKept ==
    [][\A k \in Keys :
          grant[k].source = "override" /\ grant'[k].source = "policy" =>
              \E w \in Workers : op'[w] # op[w] /\ k \in moved[w]]_<<vars, moved>>
=============================================================================
