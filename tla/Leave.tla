------------------------------- MODULE Leave --------------------------------
(***************************************************************************)
(* The leave service: requests and their multi-level review, entitlement   *)
(* grants and balances, and the company's leave policy                     *)
(* (leave-service/app/services/leave_service.py, app/api/v1/leave.py and   *)
(* app/integrations/consumer.py).                                          *)
(*                                                                         *)
(* Handlers run in worker threads and event callbacks, each with a session *)
(* of its own under READ COMMITTED.  A handler whose checks can be         *)
(* overtaken is a Read action, which remembers what it read in op[w], and  *)
(* a Commit action; a refused request changes nothing and has no action.   *)
(*                                                                         *)
(* Amounts of leave are in half days.  One company and one calendar year   *)
(* are modelled: a request across two years is refused, and every query is *)
(* scoped by company_id and year.                                          *)
(***************************************************************************)
EXTENDS Integers, FiniteSets, Functions

CONSTANTS Users, Types, Workers,
          Days,          \* days of the year, numbered
          Weekend,       \* the days whose weekday() is 5 or 6
          Holidays,      \* the public holidays the attendance service knows
          Rules,         \* entitlement policies, see Rule
          Contracts,     \* contract types a profile may carry
          Policies,      \* leave policies a company may set, see Policy
          Amounts,       \* entitlements an administrator may set
          MaxRequests    \* bound on ids

Unlimited == -1          \* entitlement_days NULL

Policy == [levels : 1 .. 4, weekends : BOOLEAN, negative : BOOLEAN]
Rule   == [type : Types, contract : Contracts \cup {"any"}, priority : Nat, days : Nat]

(* A rank is a place in the order list_entitlement_policies gives: two      *)
(* policies for one type do not share it.                                  *)
ASSUME LeaveAssumption ==
    /\ Users # {} /\ Types # {} /\ IsFiniteSet(Workers)
    /\ Days \subseteq Nat
    /\ Rules \subseteq Rule
    /\ \A r, s \in Rules : r.type = s.type /\ r.priority = s.priority => r = s
    /\ Policies \subseteq Policy
    /\ [levels |-> 1, weekends |-> FALSE, negative |-> FALSE] \in Policies
    /\ Amounts \subseteq Nat
    /\ MaxRequests \in Nat

Requests == 1 .. MaxRequests
Keys     == Users \X Types

VARIABLES
    policy,        \* LeavePolicy of the company
    activeTypes,   \* LeaveType.active
    standard,      \* LeaveType.entitlement_days
    activeRules,   \* LeaveEntitlementPolicy.active
    grant,         \* LeaveEntitlementGrant of a user and a type
    req,           \* LeaveRequest rows
    level,         \* LeaveApproval.status of each level of a request
    op             \* the call each worker is in the middle of

configVars == <<policy, activeTypes, standard, activeRules>>
reqVars    == <<req, level>>
vars == <<configVars, grant, reqVars, op>>

-----------------------------------------------------------------------------
(* Rows *)

Status  == {"absent", "pending", "approved", "rejected", "cancelled"}
Mark    == {"none", "pending", "approved", "rejected"}
Marks   == [1 .. 4 -> Mark]
Grant   == [source : {"none", "policy", "override"}, days : Nat]
NoGrant == [source |-> "none", days |-> 0]
Request == [status : Status, user : Users, type : Types,
            from : Nat, to : Nat, total : Nat]

Live(r)  == req[r].status \in {"pending", "approved"}
NewRequest(r) == req[r].status = "absent" /\ \A q \in Requests : q < r => req[q].status # "absent"

(* work_days *)
WorkDays(from, to, weekends, excluded) ==
    Cardinality({d \in from .. to : d \notin excluded /\ (weekends \/ d \notin Weekend)})

(* total_days of a request, in half days *)
Total(from, to, half, excluded) ==
    IF half THEN 1 ELSE 2 * WorkDays(from, to, policy.weekends, excluded)

(* Wrong: only pending requests are searched for an overlap. *)
OverlapsPending(u, from, to) ==
    {r \in Requests : /\ req[r].status = "pending" /\ req[r].user = u
                      /\ req[r].from <= to /\ from <= req[r].to}

(* The overlap query: the user's pending and approved requests, of any type,   *)
(* that share a day with the new one                                       *)
Overlaps(u, from, to) ==
    {r \in Requests : Live(r) /\ req[r].user = u /\ req[r].from <= to /\ from <= req[r].to}

-----------------------------------------------------------------------------
(* Entitlements and balances *)

Matches(rule, contract) == rule.contract \in {"any", contract}

(* Faults: every matching policy is materialized, not the first of a type; *)
(* or the user's grants are not looked at.                                 *)
SelectedAll(u, contract) ==
    {r \in activeRules : Matches(r, contract) /\ grant[<<u, r.type>>].source = "none"}
SelectedAnew(u, contract) ==
    {r \in activeRules :
        /\ Matches(r, contract)
        /\ \A s \in activeRules :
              s.type = r.type /\ Matches(s, contract) => r.priority <= s.priority}

(* ensure_policy_grants: the first active policy by priority, for each     *)
(* type the user has no grant of                                           *)
Selected(u, contract) ==
    {r \in activeRules :
        /\ Matches(r, contract)
        /\ grant[<<u, r.type>>].source = "none"
        /\ \A s \in activeRules :
              s.type = r.type /\ Matches(s, contract) => r.priority <= s.priority}

(* upsert_grant looks for the grant once more, and overwrites what it      *)
(* finds.  If it looked too early the INSERT meets the unique constraint   *)
(* and the call aborts.                                                    *)
Materialize(g, u, chosen) ==
    [k \in Keys |->
        IF \E r \in chosen : k = <<u, r.type>>
          THEN [source |-> "policy",
                days |-> (CHOOSE r \in chosen : k = <<u, r.type>>).days]
          ELSE g[k]]

Entitlement(g, u, t) ==
    IF g[<<u, t>>].source # "none" THEN g[<<u, t>>].days ELSE standard[t]

(* Sum of total_days over the user's requests of the type with one of the  *)
(* given statuses.                                                         *)
Used(rows, u, t, statuses) ==
    LET counted == {r \in Requests :
                      rows[r].user = u /\ rows[r].type = t /\ rows[r].status \in statuses}
        sum[n \in 0 .. MaxRequests] ==
            IF n = 0 THEN 0 ELSE sum[n - 1] + (IF n \in counted THEN rows[n].total ELSE 0)
    IN sum[MaxRequests]

(* Wrong: pending requests are not counted against the balance. *)
AvailableTaken(g, rows, u, t) == Entitlement(g, u, t) - Used(rows, u, t, {"approved"})

(* available_days = entitlement - taken - pending (balance_rows)           *)
Available(g, rows, u, t) ==
    Entitlement(g, u, t) - Used(rows, u, t, {"approved"}) - Used(rows, u, t, {"pending"})

Fits(g, rows, u, t, total) ==
    \/ policy.negative
    \/ Entitlement(g, u, t) = Unlimited
    \/ total <= Available(g, rows, u, t)

-----------------------------------------------------------------------------
(* Calls in progress *)

Idle == [kind |-> "idle"]

Begin(w, call) ==
    /\ op[w] = Idle
    /\ op' = [op EXCEPT ![w] = call]
    /\ UNCHANGED <<configVars, grant, reqVars>>

Serving(w, kind) == op[w].kind = kind

Finish(w) == op' = [op EXCEPT ![w] = Idle]

(* The call fails or its process dies before the commit: rollback. *)
Abort(w) ==
    /\ op[w] # Idle
    /\ Finish(w)
    /\ UNCHANGED <<configVars, grant, reqVars>>

-----------------------------------------------------------------------------
(* Requests *)

(* create_request up to the insert.  The holidays come from the attendance *)
(* service; when it does not answer there are none.  The balance is taken  *)
(* after the grants it materializes.                                       *)
CreateRead(w, u, t, from, to, half, excluded, contract) ==
    LET total  == Total(from, to, half, excluded)
        chosen == Selected(u, contract)
    IN
    /\ t \in activeTypes
    /\ from <= to /\ (half => from = to)
    /\ total > 0
    /\ Overlaps(u, from, to) = {}
    /\ Fits(Materialize(grant, u, chosen), req, u, t, total)
    /\ Begin(w, [kind |-> "create", chosen |-> chosen, levels |-> policy.levels,
                 row |-> [status |-> "pending", user |-> u, type |-> t,
                          from |-> from, to |-> to, total |-> total]])

(* One approval per level of the policy that was read. *)
CreateCommit(w) ==
    /\ Serving(w, "create")
    /\ \E r \in Requests :
         /\ NewRequest(r)
         /\ req' = [req EXCEPT ![r] = op[w].row]
         /\ level' = [level EXCEPT ![r] =
                        [k \in 1 .. 4 |-> IF k <= op[w].levels THEN "pending" ELSE "none"]]
    /\ grant' = Materialize(grant, op[w].row.user, op[w].chosen)
    /\ Finish(w)
    /\ UNCHANGED configVars

(* Wrong: a request that is already decided can be cancelled. *)
CancelDecided(w, u, r) ==
    /\ Live(r)
    /\ req[r].user = u
    /\ Begin(w, [kind |-> "cancel", request |-> r])

CancelRead(w, u, r) ==
    /\ req[r].status = "pending"
    /\ req[r].user = u
    /\ Begin(w, [kind |-> "cancel", request |-> r])

CancelCommit(w) ==
    /\ Serving(w, "cancel")
    /\ req' = [req EXCEPT ![op[w].request].status = "cancelled"]
    /\ Finish(w)
    /\ UNCHANGED <<configVars, grant, level>>

ReviewRead(w, r, verdict) ==
    /\ req[r].status = "pending"
    /\ Begin(w, [kind |-> "review", request |-> r, verdict |-> verdict, marks |-> level[r]])

(* Wrong: a review signs the highest pending level. *)
HighestPending(marks) ==
    {k \in 1 .. 4 : marks[k] = "pending" /\ \A j \in 1 .. 4 : marks[j] = "pending" => j <= k}

LeastPending(marks) ==
    {k \in 1 .. 4 : marks[k] = "pending" /\ \A j \in 1 .. 4 : marks[j] = "pending" => k <= j}

(* No level is pending once those have been signed. *)
Completes(marks, signed) == \A k \in 1 .. 4 : marks[k] = "pending" => k \in signed

(* The lowest pending level of the copy that was read takes the verdict; a *)
(* rejection rejects the request, an approval approves it when no level of *)
(* that copy is pending any more, and otherwise leaves its status alone.   *)
ReviewCommit(w) ==
    LET r      == op[w].request
        signed == LeastPending(op[w].marks)
    IN
    /\ Serving(w, "review")
    /\ level' = [level EXCEPT ![r] =
                   [k \in 1 .. 4 |-> IF k \in signed THEN op[w].verdict ELSE level[r][k]]]
    /\ req' = IF op[w].verdict = "rejected" \/ Completes(op[w].marks, signed)
                THEN [req EXCEPT ![r].status = op[w].verdict]
                ELSE req
    /\ Finish(w)
    /\ UNCHANGED <<configVars, grant>>

-----------------------------------------------------------------------------
(* Grants *)

(* ensure_policy_grants from a balance query, from the company's request   *)
(* list, or from the consumer of auth.employee.registered.                 *)
EnsureRead(w, u, contract) ==
    /\ Selected(u, contract) # {}
    /\ Begin(w, [kind |-> "ensure", user |-> u, chosen |-> Selected(u, contract)])

EnsureCommit(w) ==
    /\ Serving(w, "ensure")
    /\ grant' = Materialize(grant, op[w].user, op[w].chosen)
    /\ Finish(w)
    /\ UNCHANGED <<configVars, reqVars>>

(* upsert_grant by an administrator, for a user and a type or on a grant's *)
(* id, which may move it to another user or type that has none.            *)
UpsertGrant(w, k, days) ==
    /\ op[w] = Idle
    /\ grant' = [grant EXCEPT ![k] = [source |-> "override", days |-> days]]
    /\ UNCHANGED <<configVars, reqVars, op>>

MoveGrant(w, k, to, days) ==
    /\ op[w] = Idle
    /\ grant[k].source # "none" /\ grant[to].source = "none"
    /\ grant' = [grant EXCEPT ![k] = NoGrant,
                              ![to] = [source |-> "override", days |-> days]]
    /\ UNCHANGED <<configVars, reqVars, op>>

DeleteGrant(w, k) ==
    /\ op[w] = Idle
    /\ grant[k].source # "none"
    /\ grant' = [grant EXCEPT ![k] = NoGrant]
    /\ UNCHANGED <<configVars, reqVars, op>>

-----------------------------------------------------------------------------
(* Configuration *)

UpdatePolicy(w, p) ==
    /\ op[w] = Idle
    /\ policy' = p
    /\ UNCHANGED <<activeTypes, standard, activeRules, grant, reqVars, op>>

(* upsert_type: a payload without entitlement_days leaves the column, so   *)
(* an entitlement once set never becomes unlimited again.                  *)
UpsertType(w, t, days, active) ==
    /\ op[w] = Idle
    /\ activeTypes' = IF active THEN activeTypes \cup {t} ELSE activeTypes \ {t}
    /\ standard' = IF days = Unlimited THEN standard ELSE [standard EXCEPT ![t] = days]
    /\ UNCHANGED <<policy, activeRules, grant, reqVars, op>>

ArchiveType(w, t) ==
    /\ op[w] = Idle
    /\ activeTypes' = activeTypes \ {t}
    /\ UNCHANGED <<policy, standard, activeRules, grant, reqVars, op>>

(* upsert_entitlement_policy: turns a row into another, or a new one on    *)
(* when the old one is not there.                                          *)
UpsertRule(w, old, rule) ==
    /\ op[w] = Idle
    /\ activeRules' = (activeRules \ {old}) \cup {rule}
    /\ UNCHANGED <<policy, activeTypes, standard, grant, reqVars, op>>

ArchiveRule(w, r) ==
    /\ op[w] = Idle
    /\ activeRules' = activeRules \ {r}
    /\ UNCHANGED <<policy, activeTypes, standard, grant, reqVars, op>>

-----------------------------------------------------------------------------
(* Specification *)

NoRequest == [status |-> "absent", user |-> CHOOSE u \in Users : TRUE,
              type |-> CHOOSE t \in Types : TRUE, from |-> 0, to |-> 0, total |-> 0]

(* A company with its types set up, each unlimited or not, with any of its *)
(* entitlement policies, and with the policy get_policy inserts.           *)
Init ==
    /\ policy = [levels |-> 1, weekends |-> FALSE, negative |-> FALSE]
    /\ activeTypes = Types
    /\ standard \in [Types -> Amounts \cup {Unlimited}]
    /\ activeRules \in SUBSET Rules
    /\ grant = [k \in Keys |-> NoGrant]
    /\ req = [r \in Requests |-> NoRequest]
    /\ level = [r \in Requests |-> [k \in 1 .. 4 |-> "none"]]
    /\ op = [w \in Workers |-> Idle]

Asking(w) ==
    \/ \E u \in Users, t \in Types, from, to \in Days, half \in BOOLEAN,
          excluded \in {Holidays, {}}, contract \in Contracts :
             CreateRead(w, u, t, from, to, half, excluded, contract)
    \/ CreateCommit(w)
    \/ \E u \in Users, r \in Requests : CancelRead(w, u, r)
    \/ CancelCommit(w)

Reviewing(w) ==
    \/ \E r \in Requests, verdict \in {"approved", "rejected"} : ReviewRead(w, r, verdict)
    \/ ReviewCommit(w)

(* A balance query, and auth.employee.registered as the consumer handles   *)
(* it: both make sure of the grants.                                       *)
Registered(w) ==
    \/ \E u \in Users, contract \in Contracts : EnsureRead(w, u, contract)
    \/ EnsureCommit(w)

Granting(w) ==
    \/ \E k \in Keys, days \in Amounts : UpsertGrant(w, k, days)
    \/ \E k, to \in Keys, days \in Amounts : MoveGrant(w, k, to, days)
    \/ \E k \in Keys : DeleteGrant(w, k)

Configuring(w) ==
    \/ \E p \in Policies : UpdatePolicy(w, p)
    \/ \E t \in Types, days \in Amounts \cup {Unlimited}, active \in BOOLEAN :
          UpsertType(w, t, days, active)
    \/ \E t \in Types : ArchiveType(w, t)
    \/ \E old, rule \in Rules : UpsertRule(w, old, rule)
    \/ \E rule \in Rules : ArchiveRule(w, rule)

Next == \E w \in Workers :
    Asking(w) \/ Reviewing(w) \/ Registered(w) \/ Granting(w) \/ Configuring(w) \/ Abort(w)

Spec == Init /\ [][Next]_vars

-----------------------------------------------------------------------------
(* Properties *)

Chosen == {s \in SUBSET Rules : \A a, b \in s : a.type = b.type => a = b}

Call ==
    {Idle}
    \cup [kind : {"create"}, chosen : Chosen, levels : 1 .. 4,
          row : [status : {"pending"}, user : Users, type : Types,
                 from : Days, to : Days, total : Nat \ {0}]]
    \cup [kind : {"cancel"}, request : Requests]
    \cup [kind : {"review"}, request : Requests, verdict : {"approved", "rejected"},
          marks : Marks]
    \cup [kind : {"ensure"}, user : Users, chosen : Chosen]

(* Every variable keeps the shape of the rows and calls it stands for      *)
(* (models/leave.py); a call selects at most one entitlement policy for a  *)
(* leave type.                                                             *)
TypeOK ==
    /\ policy \in Policies
    /\ activeTypes \subseteq Types
    /\ standard \in [Types -> Nat \cup {Unlimited}]
    /\ activeRules \subseteq Rules
    /\ grant \in [Keys -> Grant]
    /\ req \in [Requests -> Request]
    /\ level \in [Requests -> Marks]
    /\ op \in [Workers -> Call]

(* create_request refuses a request that shares a day with a pending or    *)
(* approved one, but the test and the insert are two steps, and a review   *)
(* in flight can approve what its owner has cancelled meanwhile.  Whatever *)
(* the order, a user's live requests for one day never outnumber the       *)
(* requests served at once: with one worker a day is claimed once.         *)
DayClaimsBounded ==
    \A u \in Users, d \in Days :
        Cardinality({r \in Requests :
            /\ req[r].status \in {"pending", "approved"}
            /\ req[r].user = u
            /\ req[r].from <= d /\ d <= req[r].to}) <= Cardinality(Workers)

(* review_request signs levels in order: when one is decided, so are all   *)
(* below it; and an approved request has been signed at every level its    *)
(* policy asked for when it was made.  Both hold even when two reviews     *)
(* work from the same copy of the request, or a cancellation overlaps one. *)
LevelsSigned ==
    \A r \in Requests :
        /\ \A j, k \in 1 .. 4 :
              j < k /\ level[r][k] \in {"approved", "rejected"} =>
                  level[r][j] \in {"approved", "rejected"}
        /\ req[r].status = "approved" =>
              level[r][1] # "none" /\ \A k \in 1 .. 4 : level[r][k] # "pending"

(* What a review or a cancellation in progress found when it began          *)
Found(w) ==
    CASE op[w].kind = "review" ->
           [act |-> op[w].verdict, request |-> op[w].request,
            saw |-> Cardinality({k \in 1 .. 4 : op[w].marks[k] = "pending"})]
      [] op[w].kind = "cancel" -> [act |-> "cancelled", request |-> op[w].request, saw |-> 0]
      [] OTHER -> [act |-> "none"]

Promised == INSTANCE LeaveLifecycle WITH
    Levels  <- {p.levels : p \in Policies},
    Callers <- Workers,
    state   <- [r \in Requests |-> req[r].status],
    left    <- [r \in Requests |->
                  Cardinality({k \in 1 .. 4 : level[r][k] = "pending"})],
    hand    <- [w \in Workers |-> Found(w)]

(* However many calls are at work on it, a request lives the life          *)
(* LeaveLifecycle tells: its state is moved only by calls that found it    *)
(* pending, by what they found then, and it never becomes pending again;   *)
(* so one that is cancelled stays so unless a review had begun before.     *)
LifecycleKept == Promised!Spec
=============================================================================
