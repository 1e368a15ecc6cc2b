----------------------------- MODULE LeaveProofs -----------------------------
(***************************************************************************)
(* Leave, for any number of users, types, days, policies, requests and     *)
(* workers: types, claims to a day, levels, and the life LeaveLifecycle    *)
(* tells.  With the history of LeaveHistory, that only a call which others *)
(* have overtaken replaces a grant set by hand or overdraws a balance; for *)
(* the balance, sums over requests come first.                             *)
(***************************************************************************)
EXTENDS LeaveHistory, FiniteSetTheorems, FunctionTheorems, WellFoundedInduction, TLAPS

(* A call in progress has the fields of its kind. *)
Create == [kind : {"create"}, chosen : Chosen, levels : 1 .. 4,
           row : [status : {"pending"}, user : Users, type : Types,
                  from : Days, to : Days, total : Nat \ {0}]]
Cancel == [kind : {"cancel"}, request : Requests]
Review == [kind : {"review"}, request : Requests, verdict : {"approved", "rejected"},
           marks : Marks]
Ensure == [kind : {"ensure"}, user : Users, chosen : Chosen]

LEMMA Shape ==
    ASSUME NEW r \in Call
    PROVE  /\ r.kind = "create" => r \in Create
           /\ r.kind = "cancel" => r \in Cancel
           /\ r.kind = "review" => r \in Review
           /\ r.kind = "ensure" => r \in Ensure
           /\ r.kind = "idle" => r = Idle
           /\ r.kind \in {"create", "cancel", "review", "ensure", "idle"}
  BY DEF Call, Idle, Create, Cancel, Review, Ensure

LEMMA CallTypes ==
    /\ Idle \in Call
    /\ Create \subseteq Call /\ Cancel \subseteq Call
    /\ Review \subseteq Call /\ Ensure \subseteq Call
  BY DEF Call, Create, Cancel, Review, Ensure

-----------------------------------------------------------------------------
(* Types *)

(* One entitlement policy at most is selected for a type: the ranks decide. *)
LEMMA SelectedType ==
    ASSUME TypeOK, NEW u \in Users, NEW contract
    PROVE  Selected(u, contract) \in Chosen
  <1>1. Selected(u, contract) \subseteq Rules
    BY DEF Selected, TypeOK
  <1>2. ASSUME NEW a \in Selected(u, contract), NEW b \in Selected(u, contract),
               a.type = b.type
        PROVE  a = b
    <2>1. a \in Rules /\ b \in Rules /\ a.priority \in Nat /\ b.priority \in Nat
      BY <1>1, LeaveAssumption DEF Rule
    <2>2. a.priority <= b.priority /\ b.priority <= a.priority
      BY <1>2 DEF Selected
    <2> QED
      BY <1>2, <2>1, <2>2, LeaveAssumption
  <1> QED
    BY <1>1, <1>2 DEF Chosen

(* What is materialized are grants. *)
LEMMA MaterializeType ==
    ASSUME NEW g \in [Keys -> Grant], NEW u \in Users, NEW chosen \in Chosen
    PROVE  Materialize(g, u, chosen) \in [Keys -> Grant]
  <1> SUFFICES ASSUME NEW k \in Keys
               PROVE  Materialize(g, u, chosen)[k] \in Grant
    BY DEF Materialize
  <1>1. CASE \E r \in chosen : k = <<u, r.type>>
    <2> DEFINE r == CHOOSE s \in chosen : k = <<u, s.type>>
    <2>1. r \in chosen
      BY <1>1
    <2>2. r.days \in Nat
      BY <2>1, LeaveAssumption DEF Chosen, Rule
    <2>3. Materialize(g, u, chosen)[k] = [source |-> "policy", days |-> r.days]
      BY <1>1 DEF Materialize
    <2> HIDE DEF r
    <2> QED
      BY <2>2, <2>3 DEF Grant
  <1>2. CASE ~ \E r \in chosen : k = <<u, r.type>>
    BY <1>2 DEF Materialize
  <1> QED
    BY <1>1, <1>2

(* Totals are counted. *)
LEMMA TotalType ==
    ASSUME NEW from \in Nat, NEW to \in Nat, NEW half \in BOOLEAN, NEW excluded
    PROVE  Total(from, to, half, excluded) \in Nat
  <1> DEFINE worked == {d \in from .. to : d \notin excluded /\ (policy.weekends \/ d \notin Weekend)}
  <1>1. IsFiniteSet(from .. to)
    BY FS_Interval
  <1>2. Cardinality(worked) \in Nat
    BY <1>1, FS_Subset, FS_CardinalityType
  <1> QED
    BY <1>2 DEF Total, WorkDays

LEMMA TypeInit == Init => TypeOK
  <1> SUFFICES ASSUME Init PROVE TypeOK
    OBVIOUS
  <1>1. NoRequest \in Request
    BY LeaveAssumption DEF NoRequest, Request, Status
  <1>2. NoGrant \in Grant
    BY DEF NoGrant, Grant
  <1> QED
    BY <1>1, <1>2, LeaveAssumption
    DEF Init, TypeOK, Marks, Mark, Call, Unlimited

LEMMA BeginType ==
    ASSUME TypeOK, NEW w \in Workers, NEW c \in Call, Begin(w, c)
    PROVE  TypeOK'
  BY DEF Begin, TypeOK, configVars, reqVars

LEMMA FinishType ==
    ASSUME TypeOK, NEW w \in Workers, Finish(w)
    PROVE  op' \in [Workers -> Call]
  BY CallTypes DEF Finish, TypeOK

LEMMA AskingType ==
    ASSUME TypeOK, NEW w \in Workers, Asking(w)
    PROVE  TypeOK'
  <1>1. ASSUME NEW u \in Users, NEW t \in Types, NEW from \in Days, NEW to \in Days,
               NEW half \in BOOLEAN, NEW excluded, NEW contract,
               CreateRead(w, u, t, from, to, half, excluded, contract)
        PROVE  TypeOK'
    <2> DEFINE total == Total(from, to, half, excluded)
               c == [kind |-> "create", chosen |-> Selected(u, contract),
                     levels |-> policy.levels,
                     row |-> [status |-> "pending", user |-> u, type |-> t,
                              from |-> from, to |-> to, total |-> total]]
    <2>1. total \in Nat \ {0}
      BY <1>1, TotalType, LeaveAssumption DEF CreateRead
    <2>2. policy.levels \in 1 .. 4
      BY LeaveAssumption DEF TypeOK, Policy
    <2> HIDE DEF total
    <2>3. c \in Create
      BY <2>1, <2>2, SelectedType DEF Create
    <2>4. Begin(w, c)
      BY <1>1 DEF CreateRead, total
    <2> QED
      BY <2>3, <2>4, BeginType, CallTypes
  <1>2. CASE CreateCommit(w)
    <2>1. op[w] \in Create
      BY <1>2, Shape DEF CreateCommit, Serving, TypeOK
    <2>2. op[w].row \in Request /\ op[w].levels \in Nat
      <3>1. op[w].row \in [status : {"pending"}, user : Users, type : Types,
                           from : Days, to : Days, total : Nat \ {0}]
        BY <2>1 DEF Create
      <3>2. Days \subseteq Nat
        BY LeaveAssumption
      <3>3. op[w].levels \in Nat
        BY <2>1 DEF Create
      <3> QED
        BY <3>1, <3>2, <3>3 DEF Request, Status
    <2>3. req' \in [Requests -> Request] /\ level' \in [Requests -> Marks]
      BY <1>2, <2>2 DEF CreateCommit, TypeOK, Marks, Mark
    <2>4. grant' \in [Keys -> Grant]
      BY <1>2, <2>1, MaterializeType DEF CreateCommit, TypeOK, Create
    <2>5. op' \in [Workers -> Call]
      BY <1>2, FinishType DEF CreateCommit
    <2> QED
      BY <1>2, <2>3, <2>4, <2>5 DEF CreateCommit, TypeOK, configVars
  <1>3. ASSUME NEW u \in Users, NEW r \in Requests, CancelRead(w, u, r)
        PROVE  TypeOK'
    <2>1. [kind |-> "cancel", request |-> r] \in Cancel
      BY DEF Cancel
    <2> QED
      BY <1>3, <2>1, CallTypes, BeginType DEF CancelRead
  <1>4. CASE CancelCommit(w)
    <2>1. op[w] \in Cancel
      BY <1>4, Shape DEF CancelCommit, Serving, TypeOK
    <2>2. req' \in [Requests -> Request]
      BY <1>4, <2>1 DEF CancelCommit, TypeOK, Request, Status
    <2>3. op' \in [Workers -> Call]
      BY <1>4, FinishType DEF CancelCommit
    <2> QED
      BY <1>4, <2>2, <2>3 DEF CancelCommit, TypeOK, configVars
  <1> QED
    BY <1>1, <1>2, <1>3, <1>4 DEF Asking

LEMMA ReviewingType ==
    ASSUME TypeOK, NEW w \in Workers, Reviewing(w)
    PROVE  TypeOK'
  <1>1. ASSUME NEW r \in Requests, NEW verdict \in {"approved", "rejected"},
               ReviewRead(w, r, verdict)
        PROVE  TypeOK'
    <2> DEFINE c == [kind |-> "review", request |-> r, verdict |-> verdict, marks |-> level[r]]
    <2>1. c \in Review
      BY DEF Review, TypeOK
    <2> QED
      BY <1>1, <2>1, CallTypes, BeginType DEF ReviewRead
  <1>2. CASE ReviewCommit(w)
    <2>1. op[w] \in Review
      BY <1>2, Shape DEF ReviewCommit, Serving, TypeOK
    <2>2. req' \in [Requests -> Request]
      BY <1>2, <2>1 DEF ReviewCommit, TypeOK, Request, Status, Review
    <2>3. level' \in [Requests -> Marks]
      BY <1>2, <2>1 DEF ReviewCommit, TypeOK, Review, Marks, Mark
    <2>4. op' \in [Workers -> Call]
      BY <1>2, FinishType DEF ReviewCommit
    <2> QED
      BY <1>2, <2>2, <2>3, <2>4 DEF ReviewCommit, TypeOK, configVars
  <1> QED
    BY <1>1, <1>2 DEF Reviewing

LEMMA RegisteredType ==
    ASSUME TypeOK, NEW w \in Workers, Registered(w)
    PROVE  TypeOK'
  <1>1. ASSUME NEW u \in Users, NEW contract, EnsureRead(w, u, contract)
        PROVE  TypeOK'
    <2> DEFINE c == [kind |-> "ensure", user |-> u, chosen |-> Selected(u, contract)]
    <2>1. c \in Ensure
      BY SelectedType DEF Ensure
    <2> QED
      BY <1>1, <2>1, CallTypes, BeginType DEF EnsureRead
  <1>2. CASE EnsureCommit(w)
    <2>1. op[w] \in Ensure
      BY <1>2, Shape DEF EnsureCommit, Serving, TypeOK
    <2>2. grant' \in [Keys -> Grant]
      BY <1>2, <2>1, MaterializeType DEF EnsureCommit, TypeOK, Ensure
    <2>3. op' \in [Workers -> Call]
      BY <1>2, FinishType DEF EnsureCommit
    <2> QED
      BY <1>2, <2>2, <2>3 DEF EnsureCommit, TypeOK, configVars, reqVars
  <1> QED
    BY <1>1, <1>2 DEF Registered

LEMMA GrantingType ==
    ASSUME TypeOK, NEW w \in Workers, Granting(w)
    PROVE  TypeOK'
  <1>1. ASSUME NEW k \in Keys, NEW days \in Amounts, UpsertGrant(w, k, days)
        PROVE  TypeOK'
    BY <1>1, LeaveAssumption DEF UpsertGrant, TypeOK, Grant, configVars, reqVars
  <1>2. ASSUME NEW k \in Keys, NEW to \in Keys, NEW days \in Amounts, MoveGrant(w, k, to, days)
        PROVE  TypeOK'
    BY <1>2, LeaveAssumption DEF MoveGrant, NoGrant, TypeOK, Grant, configVars, reqVars
  <1>3. ASSUME NEW k \in Keys, DeleteGrant(w, k)
        PROVE  TypeOK'
    BY <1>3 DEF DeleteGrant, NoGrant, TypeOK, Grant, configVars, reqVars
  <1> QED
    BY <1>1, <1>2, <1>3 DEF Granting

LEMMA ConfiguringType ==
    ASSUME TypeOK, NEW w \in Workers, Configuring(w)
    PROVE  TypeOK'
  <1>1. ASSUME NEW p \in Policies, UpdatePolicy(w, p)
        PROVE  TypeOK'
    BY <1>1 DEF UpdatePolicy, TypeOK, reqVars
  <1>2. ASSUME NEW t \in Types, NEW days \in Amounts \cup {Unlimited}, NEW active \in BOOLEAN,
               UpsertType(w, t, days, active)
        PROVE  TypeOK'
    BY <1>2, LeaveAssumption DEF UpsertType, TypeOK, reqVars
  <1>3. ASSUME NEW t \in Types, ArchiveType(w, t)
        PROVE  TypeOK'
    BY <1>3 DEF ArchiveType, TypeOK, reqVars
  <1>4. ASSUME NEW old \in Rules, NEW rule \in Rules, UpsertRule(w, old, rule)
        PROVE  TypeOK'
    BY <1>4 DEF UpsertRule, TypeOK, reqVars
  <1>5. ASSUME NEW rule \in Rules, ArchiveRule(w, rule)
        PROVE  TypeOK'
    BY <1>5 DEF ArchiveRule, TypeOK, reqVars
  <1> QED
    BY <1>1, <1>2, <1>3, <1>4, <1>5 DEF Configuring

LEMMA TypeStep == TypeOK /\ [Next]_vars => TypeOK'
  <1> SUFFICES ASSUME TypeOK, [Next]_vars PROVE TypeOK'
    OBVIOUS
  <1>1. ASSUME NEW w \in Workers, Abort(w)
        PROVE  TypeOK'
    BY <1>1, FinishType DEF Abort, TypeOK, configVars, reqVars
  <1>2. CASE UNCHANGED vars
    BY <1>2 DEF vars, configVars, reqVars, TypeOK
  <1> QED
    BY <1>1, <1>2, AskingType, ReviewingType, RegisteredType, GrantingType, ConfiguringType
    DEF Next

(* Every row and every call keeps its shape; no call selects two           *)
(* entitlement policies for a type (ensure_policy_grants).                 *)
THEOREM TypeCorrect == Spec => []TypeOK
  BY TypeInit, TypeStep, PTL DEF Spec

-----------------------------------------------------------------------------
(* Claims on a day *)

(* A request claims its days while it is live, and while a review of it is *)
(* in progress: that may bring it back.                                    *)
Claims(u, d) ==
    {r \in Requests :
        /\ Live(r) \/ \E w \in Workers : op[w].kind = "review" /\ op[w].request = r
        /\ req[r].user = u
        /\ req[r].from <= d /\ d <= req[r].to}

Creating(u, d) ==
    {w \in Workers : /\ op[w].kind = "create"
                     /\ op[w].row.user = u
                     /\ op[w].row.from <= d /\ d <= op[w].row.to}

ClaimsInv == \A u \in Users, d \in Days :
    Cardinality(Claims(u, d)) + Cardinality(Creating(u, d)) <= Cardinality(Workers)

(* One row more comes with one busy worker less. *)
LEMMA Budget ==
    ASSUME NEW rows, NEW busy \in SUBSET Workers, NEW rows2, NEW busy2 \in SUBSET Workers,
           IsFiniteSet(rows),
           Cardinality(rows) + Cardinality(busy) <= Cardinality(Workers),
           \/ rows2 \subseteq rows /\ busy2 \subseteq busy
           \/ rows2 = {}
           \/ \E row, w : w \in busy /\ rows2 \subseteq rows \cup {row} /\ busy2 \subseteq busy \ {w}
    PROVE  Cardinality(rows2) + Cardinality(busy2) <= Cardinality(Workers)
  <1>1. IsFiniteSet(busy) /\ IsFiniteSet(busy2) /\ Cardinality(busy2) <= Cardinality(Workers)
    BY LeaveAssumption, FS_Subset
  <1>2. /\ Cardinality(rows) \in Nat /\ Cardinality(busy) \in Nat
        /\ Cardinality(busy2) \in Nat /\ Cardinality(Workers) \in Nat
    BY <1>1, LeaveAssumption, FS_CardinalityType
  <1>3. CASE rows2 \subseteq rows /\ busy2 \subseteq busy
    <2>1. Cardinality(rows2) <= Cardinality(rows) /\ Cardinality(busy2) <= Cardinality(busy)
      BY <1>1, <1>3, FS_Subset
    <2>2. Cardinality(rows2) \in Nat
      BY <1>3, FS_Subset, FS_CardinalityType
    <2> QED
      BY <1>2, <2>1, <2>2
  <1>4. CASE rows2 = {}
    <2>1. Cardinality(rows2) = 0
      BY <1>4, FS_EmptySet
    <2> QED
      BY <1>1, <1>2, <2>1
  <1>5. ASSUME NEW row, NEW w \in busy, rows2 \subseteq rows \cup {row}, busy2 \subseteq busy \ {w}
        PROVE  Cardinality(rows2) + Cardinality(busy2) <= Cardinality(Workers)
    <2>1. /\ IsFiniteSet(rows \cup {row})
          /\ Cardinality(rows \cup {row}) <= Cardinality(rows) + 1
      <3> DEFINE more == rows \cup {row}
      <3>1. /\ IsFiniteSet(more)
            /\ Cardinality(more) =
                 IF row \in rows THEN Cardinality(rows) ELSE Cardinality(rows) + 1
        BY FS_AddElement
      <3> HIDE DEF more
      <3>2. IsFiniteSet(more) /\ Cardinality(more) <= Cardinality(rows) + 1
        BY <1>2, <3>1
      <3> QED
        BY <3>2 DEF more
    <2>2. IsFiniteSet(busy \ {w}) /\ Cardinality(busy \ {w}) = Cardinality(busy) - 1
      BY <1>1, FS_RemoveElement
    <2>3. Cardinality(rows2) <= Cardinality(rows \cup {row}) /\ IsFiniteSet(rows2)
      BY <1>5, <2>1, FS_Subset
    <2>4. Cardinality(busy2) <= Cardinality(busy \ {w})
      BY <1>5, <2>2, FS_Subset
    <2>5. Cardinality(rows \cup {row}) \in Nat /\ Cardinality(rows2) \in Nat
      BY <2>1, <2>3, FS_CardinalityType
    <2> QED
      BY <1>2, <2>1, <2>2, <2>3, <2>4, <2>5
  <1> QED
    BY <1>3, <1>4, <1>5

(* The claims of requests under review are no more than their reviewers. *)
LEMMA ReviewersBound ==
    ASSUME NEW rows, NEW busy \in SUBSET Workers,
           \A r \in rows : \E w \in Workers \ busy :
               op[w].kind = "review" /\ op[w].request = r
    PROVE  Cardinality(rows) + Cardinality(busy) <= Cardinality(Workers)
  <1> DEFINE reviewers == {w \in Workers \ busy : op[w].kind = "review" /\ op[w].request \in rows}
             f == [w \in reviewers |-> op[w].request]
  <1>1. IsFiniteSet(Workers) /\ IsFiniteSet(busy) /\ IsFiniteSet(Workers \ busy)
    BY LeaveAssumption, FS_Subset
  <1>2. IsFiniteSet(reviewers) /\ Cardinality(reviewers) <= Cardinality(Workers \ busy)
    <2>1. reviewers \in SUBSET (Workers \ busy)
      OBVIOUS
    <2> HIDE DEF reviewers
    <2> QED
      BY <1>1, <2>1, FS_Subset
  <1>3. f \in Surjection(reviewers, rows)
    <2>1. f \in [reviewers -> rows]
      OBVIOUS
    <2>2. \A r \in rows : \E w \in reviewers : f[w] = r
      OBVIOUS
    <2> HIDE DEF f, reviewers
    <2> QED
      BY <2>1, <2>2, Fun_IsSurj
  <1>4. IsFiniteSet(rows) /\ Cardinality(rows) <= Cardinality(reviewers)
    <2> HIDE DEF f, reviewers
    <2> QED
      BY <1>2, <1>3, FS_Surjection
  <1>5. Cardinality(Workers \ busy) = Cardinality(Workers) - Cardinality(busy)
    <2>1. Workers \cap busy = busy
      OBVIOUS
    <2> QED
      BY <1>1, <2>1, FS_Difference
  <1>6. /\ Cardinality(rows) \in Nat /\ Cardinality(reviewers) \in Nat
        /\ Cardinality(busy) \in Nat /\ Cardinality(Workers) \in Nat
    BY <1>1, <1>2, <1>4, FS_CardinalityType
  <1> HIDE DEF reviewers
  <1> QED
    BY <1>2, <1>4, <1>5, <1>6

(* Steps that claim no day and begin no creation *)
NoneClaimed == \A u \in Users, d \in Days :
    Claims(u, d)' \subseteq Claims(u, d) /\ Creating(u, d)' \subseteq Creating(u, d)

LEMMA ClaimsQuiet ==
    ASSUME TypeOK, NEW w \in Workers,
           \/ \E u \in Users, r \in Requests : CancelRead(w, u, r)
           \/ CancelCommit(w)
           \/ Reviewing(w) \/ Registered(w) \/ Granting(w) \/ Configuring(w) \/ Abort(w)
    PROVE  NoneClaimed
  <1>1. ASSUME NEW u \in Users, NEW r \in Requests, CancelRead(w, u, r)
        PROVE  NoneClaimed
    BY <1>1 DEF CancelRead, Begin, NoneClaimed, Claims, Creating, Live, reqVars, TypeOK
  <1>2. CASE CancelCommit(w)
    <2>1. op[w] \in Cancel
      BY <1>2, Shape DEF CancelCommit, Serving, TypeOK
    <2> QED
      BY <1>2, <2>1
      DEF CancelCommit, Finish, Idle, NoneClaimed, Claims, Creating, Live, TypeOK, Cancel, Request
  <1>3. ASSUME NEW r \in Requests, NEW verdict \in {"approved", "rejected"},
               ReviewRead(w, r, verdict)
        PROVE  NoneClaimed
    BY <1>3 DEF ReviewRead, Begin, NoneClaimed, Claims, Creating, Live, reqVars, TypeOK
  <1>4. CASE ReviewCommit(w)
    <2>1. op[w] \in Review
      BY <1>4, Shape DEF ReviewCommit, Serving, TypeOK
    <2>2. /\ \A r \in Requests : r # op[w].request => req'[r] = req[r]
          /\ \A r \in Requests : /\ req'[r].user = req[r].user
                                 /\ req'[r].from = req[r].from /\ req'[r].to = req[r].to
          /\ op' = [op EXCEPT ![w] = Idle]
      BY <1>4, <2>1 DEF ReviewCommit, Finish, TypeOK, Review, Request
    <2> QED
      BY <1>4, <2>1, <2>2
      DEF ReviewCommit, Serving, Idle, NoneClaimed, Claims, Creating, Live, TypeOK
  <1>5. CASE Registered(w)
    BY <1>5 DEF Registered, EnsureRead, EnsureCommit, Begin, Finish, Idle, NoneClaimed,
                Claims, Creating, Live, reqVars, TypeOK
  <1>6. CASE UNCHANGED <<req, op>>
    BY <1>6 DEF NoneClaimed, Claims, Creating, Live
  <1>7. CASE Granting(w) \/ Configuring(w)
    <2>1. UNCHANGED <<req, op>>
      BY <1>7 DEF Granting, UpsertGrant, MoveGrant, DeleteGrant, Configuring, UpdatePolicy,
                  UpsertType, ArchiveType, UpsertRule, ArchiveRule, reqVars
    <2> QED
      BY <1>6, <2>1
  <1>8. CASE Abort(w)
    BY <1>8 DEF Abort, Finish, Idle, NoneClaimed, Claims, Creating, Live, reqVars, TypeOK
  <1> QED
    BY <1>1, <1>2, <1>3, <1>4, <1>5, <1>7, <1>8 DEF Reviewing

LEMMA ClaimsInit == Init => ClaimsInv
  <1> SUFFICES ASSUME Init, NEW u \in Users, NEW d \in Days
               PROVE  Cardinality(Claims(u, d)) + Cardinality(Creating(u, d))
                        <= Cardinality(Workers)
    BY DEF ClaimsInv
  <1>1. Claims(u, d) = {} /\ Creating(u, d) = {}
    BY DEF Init, Idle, Claims, Creating, Live, NoRequest
  <1>2. Cardinality(Workers) \in Nat
    BY LeaveAssumption, FS_CardinalityType
  <1> QED
    BY <1>1, <1>2, FS_EmptySet

LEMMA ClaimsStep == TypeOK /\ ClaimsInv /\ [Next]_vars => ClaimsInv'
  <1> SUFFICES ASSUME TypeOK, ClaimsInv, [Next]_vars, NEW u \in Users, NEW d \in Days
               PROVE  (Cardinality(Claims(u, d)) + Cardinality(Creating(u, d))
                         <= Cardinality(Workers))'
    BY DEF ClaimsInv
  <1> DEFINE rows == Claims(u, d)
             busy == Creating(u, d)
  <1>1. IsFiniteSet(rows) /\ Cardinality(rows) + Cardinality(busy) <= Cardinality(Workers)
    <2>1. IsFiniteSet(Requests) /\ rows \subseteq Requests
      BY LeaveAssumption, FS_Interval DEF Claims, Requests
    <2> QED
      BY <2>1, FS_Subset DEF ClaimsInv
  <1>2. busy \in SUBSET Workers /\ busy' \in SUBSET Workers
    BY DEF Creating
  <1>3. ASSUME \/ rows' \subseteq rows /\ busy' \subseteq busy
               \/ rows' = {}
               \/ \E row, w : w \in busy /\ rows' \subseteq rows \cup {row}
                                /\ busy' \subseteq busy \ {w}
        PROVE  Cardinality(rows') + Cardinality(busy') <= Cardinality(Workers)
    <2> HIDE DEF rows, busy
    <2> QED
      BY <1>1, <1>2, <1>3, Budget
  <1>4. ASSUME NoneClaimed
        PROVE  Cardinality(rows') + Cardinality(busy') <= Cardinality(Workers)
    <2>1. rows' \subseteq rows /\ busy' \subseteq busy
      BY <1>4 DEF NoneClaimed
    <2> QED
      BY <1>3, <2>1
  <1>5. ASSUME NEW w \in Workers, NEW v \in Users, NEW t \in Types, NEW from \in Days,
               NEW to \in Days, NEW half \in BOOLEAN, NEW excluded, NEW contract,
               CreateRead(w, v, t, from, to, half, excluded, contract)
        PROVE  Cardinality(rows') + Cardinality(busy') <= Cardinality(Workers)
    <2>1. PICK call : /\ call.kind = "create"
                      /\ call.row.user = v /\ call.row.from = from /\ call.row.to = to
                      /\ op[w] = Idle /\ op' = [op EXCEPT ![w] = call]
                      /\ UNCHANGED req
      BY <1>5 DEF CreateRead, Begin, reqVars
    <2>2. rows' \subseteq rows
      BY <2>1 DEF Claims, Live, Idle, TypeOK
    <2>3. CASE v = u /\ from <= d /\ d <= to
      <3>1. \A r \in Requests :
               Live(r) => ~(req[r].user = u /\ req[r].from <= d /\ d <= req[r].to)
        <4>1. Overlaps(v, from, to) = {}
          BY <1>5 DEF CreateRead
        <4>2. \A r \in Requests : req[r].from \in Nat /\ req[r].to \in Nat
          BY DEF TypeOK, Request
        <4>3. d \in Nat /\ from \in Nat /\ to \in Nat
          BY LeaveAssumption
        <4> SUFFICES ASSUME NEW r \in Requests, Live(r), req[r].user = u,
                            req[r].from <= d, d <= req[r].to
                     PROVE  FALSE
          OBVIOUS
        <4>4. req[r].from <= to /\ from <= req[r].to
          BY <2>3, <4>2, <4>3
        <4> QED
          BY <2>3, <4>1, <4>4 DEF Overlaps
      <3>2. \A r \in rows' : \E x \in Workers \ busy' :
               op'[x].kind = "review" /\ op'[x].request = r
        BY <2>1, <3>1 DEF Claims, Creating, Live, TypeOK
      <3>3. \A r \in rows' : \E x \in Workers \ busy' :
               op[x].kind = "review" /\ op[x].request = r
        BY <2>1, <3>2 DEF TypeOK
      <3> HIDE DEF rows, busy
      <3> QED
        BY <1>2, <3>3, ReviewersBound
    <2>4. CASE ~(v = u /\ from <= d /\ d <= to)
      <3>1. busy' \subseteq busy
        BY <2>1, <2>4 DEF Creating, TypeOK
      <3> QED
        BY <1>3, <2>2, <3>1
    <2> QED
      BY <2>3, <2>4
  <1>6. ASSUME NEW w \in Workers, CreateCommit(w)
        PROVE  Cardinality(rows') + Cardinality(busy') <= Cardinality(Workers)
    <2>1. op[w].kind = "create" /\ op' = [op EXCEPT ![w] = Idle]
      BY <1>6 DEF CreateCommit, Serving, Finish
    <2>2. PICK r \in Requests : req' = [req EXCEPT ![r] = op[w].row]
      BY <1>6 DEF CreateCommit
    <2>3. CASE w \in busy
      <3>1. rows' \subseteq rows \cup {r}
        BY <2>1, <2>2 DEF Claims, Live, Idle, TypeOK
      <3>2. busy' \subseteq busy \ {w}
        BY <2>1 DEF Creating, Idle, TypeOK
      <3> QED
        BY <1>3, <2>3, <3>1, <3>2
    <2>4. CASE w \notin busy
      <3>1. rows' \subseteq rows
        BY <2>1, <2>2, <2>4 DEF Claims, Creating, Live, Idle, TypeOK
      <3>2. busy' \subseteq busy
        BY <2>1 DEF Creating, Idle, TypeOK
      <3> QED
        BY <1>3, <3>1, <3>2
    <2> QED
      BY <2>3, <2>4
  <1>7. ASSUME UNCHANGED vars
        PROVE  Cardinality(rows') + Cardinality(busy') <= Cardinality(Workers)
    <2>1. rows' = rows /\ busy' = busy
      BY <1>7 DEF vars, reqVars, Claims, Creating, Live
    <2> QED
      BY <1>3, <2>1
  <1>8. ASSUME NEW w \in Workers, Asking(w)
        PROVE  Cardinality(rows') + Cardinality(busy') <= Cardinality(Workers)
    <2>1. ASSUME CancelCommit(w) \/ \E v \in Users, r \in Requests : CancelRead(w, v, r)
          PROVE  NoneClaimed
      BY <2>1, ClaimsQuiet
    <2> HIDE DEF rows, busy
    <2> QED
      BY <1>4, <1>5, <1>6, <1>8, <2>1 DEF Asking
  <1>9. ASSUME NEW w \in Workers,
               Reviewing(w) \/ Registered(w) \/ Granting(w) \/ Configuring(w) \/ Abort(w)
        PROVE  NoneClaimed
    BY <1>9, ClaimsQuiet
  <1> QED
    <2> HIDE DEF rows, busy
    <2>1. Cardinality(rows') + Cardinality(busy') <= Cardinality(Workers)
      BY <1>4, <1>7, <1>8, <1>9 DEF Next
    <2> QED
      BY <2>1 DEF rows, busy

LEMMA ClaimsBound == TypeOK /\ ClaimsInv => DayClaimsBounded
  <1> SUFFICES ASSUME TypeOK, ClaimsInv, NEW u \in Users, NEW d \in Days
               PROVE  Cardinality({r \in Requests :
                          /\ req[r].status \in {"pending", "approved"}
                          /\ req[r].user = u
                          /\ req[r].from <= d /\ d <= req[r].to}) <= Cardinality(Workers)
    BY DEF DayClaimsBounded
  <1> DEFINE live == {r \in Requests :
                        /\ req[r].status \in {"pending", "approved"}
                        /\ req[r].user = u
                        /\ req[r].from <= d /\ d <= req[r].to}
  <1>1. IsFiniteSet(Requests) /\ Claims(u, d) \subseteq Requests /\ live \subseteq Claims(u, d)
    BY LeaveAssumption, FS_Interval DEF Claims, Live, Requests
  <1>2. IsFiniteSet(Workers) /\ Creating(u, d) \subseteq Workers
    BY LeaveAssumption DEF Creating
  <1> HIDE DEF live
  <1>3. IsFiniteSet(Claims(u, d)) /\ IsFiniteSet(Creating(u, d))
    BY <1>1, <1>2, FS_Subset
  <1>4. IsFiniteSet(live) /\ Cardinality(live) <= Cardinality(Claims(u, d))
    BY <1>1, <1>3, FS_Subset
  <1>5. /\ Cardinality(live) \in Nat /\ Cardinality(Claims(u, d)) \in Nat
        /\ Cardinality(Creating(u, d)) \in Nat /\ Cardinality(Workers) \in Nat
    BY <1>2, <1>3, <1>4, FS_CardinalityType
  <1>6. Cardinality(live) <= Cardinality(Workers)
    BY <1>4, <1>5 DEF ClaimsInv
  <1> QED
    BY <1>6 DEF live

(* However requests, reviews and cancellations overlap, a user's live      *)
(* requests for one day never outnumber the calls served at once.          *)
THEOREM DayClaimsAreBounded == Spec => []DayClaimsBounded
  BY TypeInit, TypeStep, ClaimsInit, ClaimsStep, ClaimsBound, PTL DEF Spec

-----------------------------------------------------------------------------
(* Levels *)

Decided == {"approved", "rejected"}

(* The levels a policy asks for come first, and of those the decided ones; *)
(* an approved request has none that is pending.                           *)
Signed(r) ==
    /\ \A j, k \in 1 .. 4 : j < k /\ level[r][k] \in Decided => level[r][j] \in Decided
    /\ \A j, k \in 1 .. 4 : j < k /\ level[r][j] = "none" => level[r][k] = "none"
    /\ req[r].status # "absent" => level[r][1] # "none"
    /\ req[r].status = "approved" => \A k \in 1 .. 4 : level[r][k] # "pending"

(* A cancellation or a review is of a request there is; what a review has  *)
(* read as decided is still decided, and the levels are those it has read. *)
Current(w) ==
    /\ op[w].kind \in {"cancel", "review"} => req[op[w].request].status # "absent"
    /\ op[w].kind = "review" =>
          \A k \in 1 .. 4 :
              /\ op[w].marks[k] \in Decided => level[op[w].request][k] \in Decided
              /\ op[w].marks[k] = "none" <=> level[op[w].request][k] = "none"

LevelsInv ==
    /\ \A r \in Requests : Signed(r)
    /\ \A w \in Workers : Current(w)

LEMMA LevelsInit == Init => LevelsInv
  BY DEF Init, LevelsInv, Signed, Current, Decided, Idle, NoRequest

(* A review writes on levels that some copy of the request had pending. *)
LEMMA ReviewSigns ==
    ASSUME TypeOK, LevelsInv, NEW w \in Workers, ReviewCommit(w)
    PROVE  LevelsInv'
  <1>1. PICK r \in Requests, marks \in Marks, verdict \in Decided :
          op[w].kind = "review" /\ op[w].request = r /\ op[w].marks = marks /\ op[w].verdict = verdict
    BY Shape DEF ReviewCommit, Serving, TypeOK, Review, Decided
  <1> DEFINE signed == LeastPending(marks)
  <1>2. /\ level' = [level EXCEPT ![r] =
                       [k \in 1 .. 4 |-> IF k \in signed THEN verdict ELSE level[r][k]]]
        /\ req' = IF verdict = "rejected" \/ Completes(marks, signed)
                    THEN [req EXCEPT ![r].status = verdict]
                    ELSE req
        /\ op' = [op EXCEPT ![w] = Idle]
    BY <1>1 DEF ReviewCommit, Finish
  <1>3. /\ req[r].status # "absent"
        /\ \A k \in 1 .. 4 : marks[k] \in Decided => level[r][k] \in Decided
        /\ \A k \in 1 .. 4 : marks[k] = "none" <=> level[r][k] = "none"
    BY <1>1 DEF LevelsInv, Current
  <1>4. \A k \in 1 .. 4 : k \in signed =>
            /\ marks[k] = "pending"
            /\ \A j \in 1 .. 4 : j < k => marks[j] # "pending"
    BY DEF LeastPending
  <1>5. \A k \in 1 .. 4 : marks[k] \in {"none", "pending"} \cup Decided
    BY <1>1 DEF Marks, Mark, Decided
  <1>6. \A k \in 1 .. 4 : level[r][k] \in {"none", "pending"} \cup Decided
    BY <1>1 DEF TypeOK, Marks, Mark, Decided
  <1>7. /\ \A k \in 1 .. 4 : level'[r][k] = IF k \in signed THEN verdict ELSE level[r][k]
        /\ \A q \in Requests : q # r => level'[q] = level[q] /\ req'[q] = req[q]
        /\ req'[r] = req[r] \/ req'[r].status = verdict
        /\ req'[r].status = "approved" => req[r].status = "approved" \/ Completes(marks, signed)
    <2>1. /\ level'[r] = [k \in 1 .. 4 |-> IF k \in signed THEN verdict ELSE level[r][k]]
          /\ \A q \in Requests : q # r => level'[q] = level[q]
      BY <1>2 DEF TypeOK
    <2>2. /\ \A q \in Requests : q # r => req'[q] = req[q]
          /\ req'[r] = req[r] \/ req'[r].status = verdict
          /\ ~(verdict = "rejected" \/ Completes(marks, signed)) => req'[r] = req[r]
      BY <1>2 DEF TypeOK, Request
    <2> QED
      BY <2>1, <2>2
  <1> HIDE DEF signed
  <1>8. Signed(r)'
    <2>1. Signed(r)
      BY <1>1 DEF LevelsInv
    <2>2. \A j, k \in 1 .. 4 : j < k /\ level'[r][k] \in Decided => level'[r][j] \in Decided
      <3> SUFFICES ASSUME NEW j \in 1 .. 4, NEW k \in 1 .. 4, j < k, level'[r][k] \in Decided
                   PROVE  level'[r][j] \in Decided
        OBVIOUS
      <3>1. CASE k \in signed
        <4>1. marks[k] = "pending" /\ marks[j] # "pending"
          BY <1>4, <3>1
        <4>2. level[r][k] # "none"
          BY <1>3, <4>1
        <4>3. level[r][j] # "none"
          BY <2>1, <4>2 DEF Signed
        <4>4. marks[j] \in Decided
          BY <1>3, <1>5, <4>1, <4>3
        <4> QED
          BY <1>1, <1>3, <1>7, <4>4
      <3>2. CASE k \notin signed
        BY <1>1, <1>7, <2>1, <3>2 DEF Signed
      <3> QED
        BY <3>1, <3>2
    <2>3. \A k \in 1 .. 4 : level'[r][k] = "none" <=> level[r][k] = "none"
      <3> SUFFICES ASSUME NEW k \in 1 .. 4
                   PROVE  level'[r][k] = "none" <=> level[r][k] = "none"
        OBVIOUS
      <3>1. k \in signed => level[r][k] # "none"
        BY <1>3, <1>4
      <3> QED
        BY <1>1, <1>7, <3>1 DEF Decided
    <2>4. ASSUME req'[r].status = "approved", NEW k \in 1 .. 4
          PROVE  level'[r][k] # "pending"
      <3>1. CASE req[r].status = "approved"
        BY <1>1, <1>7, <2>1, <3>1 DEF Signed, Decided
      <3>2. CASE Completes(marks, signed)
        <4>1. CASE k \in signed
          BY <1>1, <1>7, <4>1 DEF Decided
        <4>2. CASE k \notin signed
          <5>1. marks[k] # "pending"
            BY <3>2, <4>2 DEF Completes
          <5>2. level[r][k] # "pending"
            BY <1>3, <1>5, <5>1 DEF Decided
          <5> QED
            BY <1>7, <4>2, <5>2
        <4> QED
          BY <4>1, <4>2
      <3> QED
        BY <1>7, <2>4, <3>1, <3>2
    <2>5. level'[r][1] # "none"
      BY <1>3, <2>1, <2>3 DEF Signed
    <2> QED
      BY <2>1, <2>2, <2>3, <2>4, <2>5 DEF Signed
  <1>9. ASSUME NEW x \in Workers
        PROVE  Current(x)'
    <2>1. CASE x = w
      BY <1>2, <2>1 DEF Current, Idle, TypeOK
    <2>2. CASE x # w
      <3>1. op'[x] = op[x]
        BY <1>2, <2>2 DEF TypeOK
      <3>2. Current(x)
        BY DEF LevelsInv
      <3>3. CASE op[x].kind = "review"
        <4>1. op[x].request \in Requests
          BY <3>3, Shape DEF TypeOK, Review
        <4>2. CASE op[x].request = r
          <5>1. \A k \in 1 .. 4 : /\ level[r][k] \in Decided => level'[r][k] \in Decided
                                  /\ level'[r][k] = "none" <=> level[r][k] = "none"
            BY <1>1, <1>3, <1>4, <1>7 DEF Decided
          <5>2. req'[r].status # "absent"
            BY <1>1, <1>3, <1>7 DEF Decided
          <5> QED
            BY <3>1, <3>2, <3>3, <4>2, <5>1, <5>2 DEF Current
        <4>3. CASE op[x].request # r
          BY <1>7, <3>1, <3>2, <3>3, <4>1, <4>3 DEF Current
        <4> QED
          BY <4>2, <4>3
      <3>4. CASE op[x].kind = "cancel"
        <4>1. op[x].request \in Requests
          BY <3>4, Shape DEF TypeOK, Cancel
        <4>2. req[op[x].request].status # "absent"
          BY <3>2, <3>4 DEF Current
        <4> QED
          BY <1>1, <1>7, <3>1, <3>4, <4>1, <4>2 DEF Current, Decided
      <3>5. CASE op[x].kind \notin {"cancel", "review"}
        BY <3>1, <3>5 DEF Current
      <3> QED
        BY <3>3, <3>4, <3>5
    <2> QED
      BY <2>1, <2>2
  <1>10. ASSUME NEW q \in Requests, q # r
         PROVE  Signed(q)'
    BY <1>7, <1>10 DEF Signed, LevelsInv
  <1> QED
    BY <1>8, <1>9, <1>10 DEF LevelsInv

(* Rows and levels that stay, and calls that begin or end *)
LEMMA LevelsQuiet ==
    ASSUME TypeOK, LevelsInv, UNCHANGED <<req, level>>, NEW w \in Workers, NEW call,
           op' = [op EXCEPT ![w] = call] \/ UNCHANGED op,
           /\ call.kind \in {"cancel", "review"} =>
                call.request \in Requests /\ req[call.request].status # "absent"
           /\ call.kind = "review" => call.marks = level[call.request]
    PROVE  LevelsInv'
  BY DEF LevelsInv, Signed, Current, TypeOK

LEMMA AskingSigned ==
    ASSUME TypeOK, LevelsInv, NEW w \in Workers, Asking(w)
    PROVE  LevelsInv'
  <1>1. ASSUME NEW u \in Users, NEW t \in Types, NEW from \in Days, NEW to \in Days,
               NEW half \in BOOLEAN, NEW excluded, NEW contract,
               CreateRead(w, u, t, from, to, half, excluded, contract)
        PROVE  LevelsInv'
    <2>1. PICK call : call.kind = "create" /\ op' = [op EXCEPT ![w] = call]
                        /\ UNCHANGED <<req, level>>
      BY <1>1 DEF CreateRead, Begin, reqVars
    <2> QED
      BY <2>1, LevelsQuiet
  <1>2. CASE CreateCommit(w)
    <2>1. op[w] \in Create /\ op[w].kind = "create"
      BY <1>2, Shape DEF CreateCommit, Serving, TypeOK
    <2>2. PICK r \in Requests :
            /\ req[r].status = "absent"
            /\ req' = [req EXCEPT ![r] = op[w].row]
            /\ level' = [level EXCEPT ![r] =
                           [k \in 1 .. 4 |-> IF k <= op[w].levels THEN "pending" ELSE "none"]]
      BY <1>2 DEF CreateCommit, NewRequest
    <2>3. op' = [op EXCEPT ![w] = Idle]
      BY <1>2 DEF CreateCommit, Finish
    <2>4. op[w].levels \in 1 .. 4 /\ op[w].row.status = "pending"
      BY <2>1 DEF Create
    <2>5. Signed(r)'
      <3>1. level'[r] = [k \in 1 .. 4 |-> IF k <= op[w].levels THEN "pending" ELSE "none"]
        BY <2>2 DEF TypeOK
      <3>2. req'[r].status = "pending"
        BY <2>2, <2>4 DEF TypeOK
      <3>3. /\ \A k \in 1 .. 4 : level'[r][k] = IF k <= op[w].levels THEN "pending" ELSE "none"
            /\ level'[r][1] = "pending"
        BY <2>4, <3>1
      <3> QED
        BY <2>4, <3>2, <3>3 DEF Signed, Decided
    <2>6. ASSUME NEW q \in Requests, q # r
          PROVE  Signed(q)'
      BY <2>2, <2>6 DEF LevelsInv, Signed, TypeOK
    <2>7. ASSUME NEW x \in Workers
          PROVE  Current(x)'
      <3>1. CASE x = w
        BY <2>3, <3>1 DEF Current, Idle, TypeOK
      <3>2. CASE x # w
        <4>1. op'[x] = op[x] /\ Current(x)
          BY <2>3, <3>2 DEF TypeOK, LevelsInv
        <4>2. op[x].kind \in {"cancel", "review"} => op[x].request \in Requests
          BY Shape DEF TypeOK, Review, Cancel
        <4> QED
          BY <2>2, <4>1, <4>2 DEF Current, TypeOK
      <3> QED
        BY <3>1, <3>2
    <2> QED
      BY <2>5, <2>6, <2>7 DEF LevelsInv
  <1>3. ASSUME NEW u \in Users, NEW r \in Requests, CancelRead(w, u, r)
        PROVE  LevelsInv'
    BY <1>3, LevelsQuiet DEF CancelRead, Begin, reqVars
  <1>4. CASE CancelCommit(w)
    <2>1. op[w] \in Cancel /\ op[w].kind = "cancel"
      BY <1>4, Shape DEF CancelCommit, Serving, TypeOK
    <2>2. op[w].request \in Requests /\ req[op[w].request].status # "absent"
      BY <2>1 DEF Cancel, LevelsInv, Current
    <2>3. /\ \A q \in Requests : \/ req'[q] = req[q]
                                 \/ req'[q].status = "cancelled" /\ req[q].status # "absent"
          /\ UNCHANGED level /\ op' = [op EXCEPT ![w] = Idle]
      BY <1>4, <2>2 DEF CancelCommit, Finish, TypeOK, Request
    <2>4. ASSUME NEW q \in Requests
          PROVE  Signed(q)'
      BY <2>3 DEF LevelsInv, Signed
    <2>5. ASSUME NEW x \in Workers
          PROVE  Current(x)'
      <3>1. op[x].kind \in {"cancel", "review"} => op[x].request \in Requests
        BY Shape DEF TypeOK, Review, Cancel
      <3> QED
        BY <2>3, <3>1 DEF LevelsInv, Current, Idle, TypeOK
    <2> QED
      BY <2>4, <2>5 DEF LevelsInv
  <1> QED
    BY <1>1, <1>2, <1>3, <1>4 DEF Asking

LEMMA LevelsStep == TypeOK /\ LevelsInv /\ [Next]_vars => LevelsInv'
  <1> SUFFICES ASSUME TypeOK, LevelsInv, [Next]_vars PROVE LevelsInv'
    OBVIOUS
  <1>1. ASSUME NEW w \in Workers, NEW r \in Requests, NEW verdict, ReviewRead(w, r, verdict)
        PROVE  LevelsInv'
    BY <1>1, LevelsQuiet DEF ReviewRead, Begin, reqVars
  <1>2. ASSUME NEW w \in Workers, Registered(w)
        PROVE  LevelsInv'
    <2>1. PICK call : call.kind \in {"ensure", "idle"} /\ op' = [op EXCEPT ![w] = call]
                        /\ UNCHANGED <<req, level>>
      BY <1>2 DEF Registered, EnsureRead, EnsureCommit, Begin, Finish, Idle, reqVars
    <2> QED
      BY <2>1, LevelsQuiet
  <1>3. ASSUME NEW w \in Workers, Granting(w) \/ Configuring(w)
        PROVE  LevelsInv'
    <2>1. UNCHANGED <<req, level, op>>
      BY <1>3 DEF Granting, UpsertGrant, MoveGrant, DeleteGrant, Configuring, UpdatePolicy,
                  UpsertType, ArchiveType, UpsertRule, ArchiveRule, reqVars
    <2> QED
      BY <2>1 DEF LevelsInv, Signed, Current
  <1>4. ASSUME NEW w \in Workers, Abort(w)
        PROVE  LevelsInv'
    BY <1>4, LevelsQuiet DEF Abort, Finish, Idle, reqVars
  <1>5. CASE UNCHANGED vars
    BY <1>5 DEF vars, reqVars, LevelsInv, Signed, Current
  <1> QED
    BY <1>1, <1>2, <1>3, <1>4, <1>5, AskingSigned, ReviewSigns DEF Next, Reviewing

(* Levels are decided in order and an approved request has them all, with  *)
(* any number of reviews at work on copies of it.                          *)
THEOREM LevelsAreSigned == Spec => []LevelsSigned
  <1>1. LevelsInv => LevelsSigned
    BY DEF LevelsInv, Signed, Decided, LevelsSigned
  <1> QED
    BY <1>1, TypeInit, TypeStep, LevelsInit, LevelsStep, PTL DEF Spec

-----------------------------------------------------------------------------
(* The life of a request *)

(* A review has a level to sign, and so has a pending request; a new one   *)
(* gets the levels of some policy.                                         *)
LifeInv ==
    /\ \A r \in Requests :
          req[r].status = "pending" => \E k \in 1 .. 4 : level[r][k] = "pending"
    /\ \A w \in Workers :
          /\ op[w].kind = "create" => op[w].levels \in {p.levels : p \in Policies}
          /\ op[w].kind = "review" => \E k \in 1 .. 4 : op[w].marks[k] = "pending"

(* Endorsements a request still needs, by its levels or by a copy of them *)
Missing(marks) == {k \in 1 .. 4 : marks[k] = "pending"}

LEMMA LevelInterval ==
    ASSUME NEW n \in 1 .. 4
    PROVE  IsFiniteSet(1 .. 4) /\ Cardinality(1 .. n) = n
  <1>1. ASSUME NEW a \in Int, NEW b \in Int, a = 1, a <= b
        PROVE  IsFiniteSet(a .. b) /\ Cardinality(a .. b) = b
    <2>1. IsFiniteSet(a .. b) /\ Cardinality(a .. b) = IF a > b THEN 0 ELSE b - a + 1
      BY FS_Interval
    <2>2. ~(a > b) /\ b - a + 1 = b
      BY <1>1
    <2> QED
      BY <2>1, <2>2
  <1>2. Cardinality(1 .. n) = n
    BY <1>1
  <1>3. PICK m \in Int : m = 4
    OBVIOUS
  <1>4. IsFiniteSet(1 .. m)
    <2>1. 1 <= m
      BY <1>3
    <2> QED
      BY <1>1, <2>1
  <1>5. 1 .. m = 1 .. 4
    BY <1>3
  <1> QED
    BY <1>2, <1>4, <1>5

LEMMA MissingType ==
    ASSUME NEW marks
    PROVE  IsFiniteSet(Missing(marks)) /\ Cardinality(Missing(marks)) \in Nat
  <1>1. IsFiniteSet(1 .. 4)
    BY LevelInterval
  <1>2. Missing(marks) \in SUBSET (1 .. 4)
    BY DEF Missing
  <1>3. IsFiniteSet(Missing(marks))
    BY <1>1, <1>2, FS_Subset
  <1> QED
    BY <1>3, FS_CardinalityType

(* Some level is the lowest pending one. *)
LEMMA LeastExists ==
    ASSUME NEW marks, \E k \in 1 .. 4 : marks[k] = "pending"
    PROVE  \E k \in 1 .. 4 : marks[k] = "pending" /\ LeastPending(marks) = {k}
  <1>1. CASE marks[1] = "pending"
    BY <1>1 DEF LeastPending
  <1>2. CASE marks[1] # "pending" /\ marks[2] = "pending"
    BY <1>2 DEF LeastPending
  <1>3. CASE marks[1] # "pending" /\ marks[2] # "pending" /\ marks[3] = "pending"
    BY <1>3 DEF LeastPending
  <1>4. CASE marks[1] # "pending" /\ marks[2] # "pending" /\ marks[3] # "pending"
    BY <1>4 DEF LeastPending
  <1> QED
    BY <1>1, <1>2, <1>3, <1>4

(* The abstract state of a request and of a caller *)
States == [r \in Requests |-> req[r].status]
Left   == [r \in Requests |-> Cardinality({k \in 1 .. 4 : level[r][k] = "pending"})]
Hands  == [w \in Workers |-> Found(w)]

LEMMA LifeInit == Init => LifeInv /\ Promised!Init
  <1> SUFFICES ASSUME Init PROVE LifeInv /\ Promised!Init
    OBVIOUS
  <1>1. LifeInv
    BY DEF Init, LifeInv, Idle, NoRequest
  <1>2. \A r \in Requests : {k \in 1 .. 4 : level[r][k] = "pending"} = {}
    BY DEF Init
  <1>3. \A r \in Requests : req[r].status = "absent"
    BY DEF Init, NoRequest
  <1>4. \A w \in Workers : Found(w) = [act |-> "none"]
    BY DEF Init, Found, Idle
  <1> QED
    BY <1>1, <1>2, <1>3, <1>4, FS_EmptySet DEF Promised!Init, Promised!Free

(* What one worker takes up or lets go leaves the others' hands alone. *)
LEMMA HandOf ==
    ASSUME TypeOK, NEW w \in Workers, NEW call, op' = [op EXCEPT ![w] = call]
    PROVE  /\ op'[w] = call
           /\ Hands' = [Hands EXCEPT ![w] = Found(w)']
  <1>1. op'[w] = call /\ \A x \in Workers : x # w => op'[x] = op[x]
    BY DEF TypeOK
  <1>2. \A x \in Workers : x # w => Found(x)' = Found(x)
    BY <1>1 DEF Found
  <1> QED
    BY <1>1, <1>2 DEF Hands

LEMMA HandLet ==
    ASSUME TypeOK, NEW w \in Workers, op' = [op EXCEPT ![w] = Idle]
    PROVE  Hands' = [Hands EXCEPT ![w] = [act |-> "none"]]
  <1>1. op'[w] = Idle /\ Hands' = [Hands EXCEPT ![w] = Found(w)']
    BY HandOf
  <1>2. Found(w)' = [act |-> "none"]
    BY <1>1 DEF Found, Idle
  <1> QED
    BY <1>1, <1>2

(* A worker that is not at a review or a cancellation has its hands free. *)
LEMMA HandFree ==
    ASSUME NEW w \in Workers, op[w].kind \notin {"cancel", "review"}
    PROVE  Found(w) = [act |-> "none"]
  BY DEF Found

(* Whatever reviews were committed since, a review signs the least level   *)
(* its copy lacked: either no level of that copy was signed since, or that *)
(* one was, and then its signature adds nothing.                           *)
LEMMA ReviewLives ==
    ASSUME TypeOK, LevelsInv, LifeInv, NEW w \in Workers, ReviewCommit(w)
    PROVE  LifeInv' /\ Promised!Next
  <1>1. PICK r \in Requests, verdict \in Decided, marks \in Marks :
          /\ op[w].kind = "review" /\ op[w].request = r /\ op[w].verdict = verdict
          /\ op[w].marks = marks
    BY Shape DEF ReviewCommit, Serving, TypeOK, Review, Decided
  <1>2. PICK k \in 1 .. 4 : marks[k] = "pending" /\ LeastPending(marks) = {k}
    BY <1>1, LeastExists DEF LifeInv
  <1>3. /\ level' = [level EXCEPT ![r] =
                       [j \in 1 .. 4 |-> IF j = k THEN verdict ELSE level[r][j]]]
        /\ req' = IF verdict = "rejected" \/ Completes(marks, {k})
                    THEN [req EXCEPT ![r].status = verdict]
                    ELSE req
        /\ op' = [op EXCEPT ![w] = Idle]
    BY <1>1, <1>2 DEF ReviewCommit, Finish
  <1> DEFINE P == Missing(level[r])
             Q == Missing(marks)
  <1>4. /\ \A j \in 1 .. 4 : marks[j] \in Decided => level[r][j] \in Decided
        /\ \A j \in 1 .. 4 : marks[j] = "none" <=> level[r][j] = "none"
    BY <1>1 DEF LevelsInv, Current
  <1>5. \A j \in 1 .. 4 : /\ marks[j] \in {"none", "pending"} \cup Decided
                          /\ level[r][j] \in {"none", "pending"} \cup Decided
    BY <1>1 DEF TypeOK, Marks, Mark, Decided
  <1>6. P \subseteq Q /\ k \in Q
    BY <1>2, <1>4, <1>5 DEF Missing, Decided
  <1>7. k \in P => P = Q
    <2> SUFFICES ASSUME level[r][k] = "pending", NEW j \in 1 .. 4, marks[j] = "pending"
                 PROVE  level[r][j] = "pending"
      BY <1>6 DEF Missing
    <2>1. k <= j
      BY <1>2 DEF LeastPending
    <2>2. level[r][j] \notin Decided
      BY <2>1 DEF LevelsInv, Signed, Decided
    <2>3. level[r][j] # "none"
      BY <1>4
    <2> QED
      BY <1>5, <2>2, <2>3
  <1>8. /\ Missing(level'[r]) = P \ {k}
        /\ \A q \in Requests : q # r => level'[q] = level[q]
    <2>1. /\ level'[r] = [j \in 1 .. 4 |-> IF j = k THEN verdict ELSE level[r][j]]
          /\ \A q \in Requests : q # r => level'[q] = level[q]
      BY <1>3 DEF TypeOK
    <2>2. verdict # "pending"
      BY DEF Decided
    <2>3. \A j \in 1 .. 4 : level'[r][j] = "pending" <=> j # k /\ level[r][j] = "pending"
      BY <2>1, <2>2
    <2> QED
      BY <2>1, <2>3 DEF Missing
  <1>9. Completes(marks, {k}) <=> Q \ {k} = {}
    BY DEF Completes, Missing
  <1> HIDE DEF P, Q
  <1>10. /\ IsFiniteSet(P) /\ Cardinality(P) \in Nat
         /\ IsFiniteSet(Q) /\ Cardinality(Q) \in Nat
    BY MissingType DEF P, Q
  <1>11. /\ IsFiniteSet(Q \ {k})
         /\ Cardinality(Q \ {k}) = Cardinality(Q) - 1
    BY <1>6, <1>10, FS_RemoveElement
  <1>12. Completes(marks, {k}) <=> Cardinality(Q) = 1
    <2>1. Cardinality(Q \ {k}) = 0 <=> Q \ {k} = {}
      BY <1>11, FS_EmptySet
    <2> QED
      BY <1>9, <1>10, <1>11, <2>1
  <1>13. Cardinality(Missing(level'[r])) =
           IF Cardinality(P) = Cardinality(Q) THEN Cardinality(P) - 1 ELSE Cardinality(P)
    <2>1. CASE k \in P
      BY <1>7, <1>8, <1>11, <2>1
    <2>2. CASE k \notin P
      <3>1. P \ {k} = P /\ P \subseteq Q \ {k}
        BY <1>6, <2>2
      <3>2. Cardinality(P) <= Cardinality(Q \ {k})
        BY <1>11, <3>1, FS_Subset
      <3>3. Cardinality(P) # Cardinality(Q)
        BY <1>10, <1>11, <3>2
      <3> QED
        BY <1>8, <3>1, <3>3
    <2> QED
      BY <2>1, <2>2
  <1>14. LifeInv'
    <2>1. ASSUME NEW q \in Requests, req'[q].status = "pending"
          PROVE  \E j \in 1 .. 4 : level'[q][j] = "pending"
      <3>1. CASE q = r
        <4>1. ~Completes(marks, {k}) /\ req[r].status = "pending"
          BY <1>3, <2>1, <3>1 DEF TypeOK, Request, Decided
        <4>2. P # {} /\ Q \ {k} # {}
          BY <1>9, <4>1 DEF LifeInv, P, Missing
        <4>3. P \ {k} # {}
          BY <1>7, <4>2
        <4>4. Missing(level'[r]) # {}
          BY <1>8, <4>3
        <4> QED
          BY <3>1, <4>4 DEF Missing
      <3>2. CASE q # r
        BY <1>3, <1>8, <2>1, <3>2 DEF TypeOK, LifeInv
      <3> QED
        BY <3>1, <3>2
    <2>2. \A x \in Workers : op'[x] = Idle \/ op'[x] = op[x]
      BY <1>3 DEF TypeOK
    <2> QED
      BY <2>1, <2>2 DEF LifeInv, Idle
  <1>15. Hands[w].act = verdict /\ Hands[w].request = r /\ Hands[w].saw = Cardinality(Q)
    BY <1>1 DEF Hands, Found, Q, Missing
  <1>16. Left' = [Left EXCEPT ![Hands[w].request] = IF @ = Hands[w].saw THEN @ - 1 ELSE @]
    <2>1. Left' = [Left EXCEPT ![r] = IF @ = Cardinality(Q) THEN @ - 1 ELSE @]
      BY <1>8, <1>13 DEF Left, Missing, P
    <2> QED
      BY <1>15, <2>1
  <1>17. Hands' = [Hands EXCEPT ![w] = [act |-> "none"]]
    BY <1>3, HandLet
  <1>18. States' = IF verdict = "rejected" \/ Cardinality(Q) = 1
                     THEN [States EXCEPT ![r] = verdict] ELSE States
    BY <1>3, <1>12 DEF States, TypeOK, Request
  <1>19. CASE verdict = "rejected"
    <2>1. /\ Hands[w].act = "rejected"
          /\ States' = [States EXCEPT ![Hands[w].request] = "rejected"]
      BY <1>15, <1>18, <1>19
    <2>2. Promised!Reject(w)
      BY <1>16, <1>17, <2>1
      DEF Promised!Reject, Promised!Sign, Promised!LetGo, Promised!Free, States, Left, Hands
    <2> QED
      BY <1>14, <2>2 DEF Promised!Next
  <1>20. CASE verdict = "approved"
    <2>1. /\ Hands[w].act = "approved"
          /\ States' = IF Hands[w].saw = 1
                         THEN [States EXCEPT ![Hands[w].request] = "approved"] ELSE States
      BY <1>15, <1>18, <1>20
    <2>2. Promised!Endorse(w)
      BY <1>16, <1>17, <2>1
      DEF Promised!Endorse, Promised!Sign, Promised!LetGo, Promised!Free, States, Left, Hands
    <2> QED
      BY <1>14, <2>2 DEF Promised!Next
  <1> QED
    BY <1>19, <1>20 DEF Decided

(* A request that is made needs the levels of its policy. *)
LEMMA CreateLives ==
    ASSUME TypeOK, LifeInv, NEW w \in Workers, CreateCommit(w)
    PROVE  LifeInv' /\ Promised!Next
  <1>1. op[w] \in Create /\ op[w].kind = "create"
    BY Shape DEF CreateCommit, Serving, TypeOK
  <1>2. PICK n \in 1 .. 4 : n = op[w].levels
    BY <1>1 DEF Create
  <1>3. n \in {p.levels : p \in Policies}
    BY <1>1, <1>2 DEF LifeInv
  <1>4. PICK r \in Requests :
          /\ req[r].status = "absent"
          /\ req' = [req EXCEPT ![r] = op[w].row]
          /\ level' = [level EXCEPT ![r] = [k \in 1 .. 4 |-> IF k <= n THEN "pending" ELSE "none"]]
    BY <1>2 DEF CreateCommit, NewRequest
  <1>5. op[w].row.status = "pending" /\ op' = [op EXCEPT ![w] = Idle]
    BY <1>1 DEF Create, CreateCommit, Finish
  <1>6. LifeInv'
    <2>1. \A x \in Workers : op'[x] = Idle \/ op'[x] = op[x]
      BY <1>5 DEF TypeOK
    <2>2. level'[r][1] = "pending"
      BY <1>4 DEF TypeOK
    <2>3. \A q \in Requests : q # r => level'[q] = level[q] /\ req'[q] = req[q]
      BY <1>4 DEF TypeOK
    <2> QED
      BY <2>1, <2>2, <2>3 DEF LifeInv, Idle
  <1>7. States' = [States EXCEPT ![r] = "pending"] /\ States[r] = "absent"
    BY <1>4, <1>5 DEF States, TypeOK
  <1>8. Left' = [Left EXCEPT ![r] = n]
    <2>1. \A q \in Requests : q # r => level'[q] = level[q]
      BY <1>4 DEF TypeOK
    <2>2. {j \in 1 .. 4 : level'[r][j] = "pending"} = 1 .. n
      <3>1. level'[r] = [k \in 1 .. 4 |-> IF k <= n THEN "pending" ELSE "none"]
        BY <1>4 DEF TypeOK
      <3>2. \A j \in 1 .. 4 : level'[r][j] = "pending" <=> j <= n
        BY <3>1
      <3>3. \A j : j \in 1 .. n <=> j \in 1 .. 4 /\ j <= n
        OBVIOUS
      <3> QED
        BY <3>2, <3>3
    <2>3. Cardinality(1 .. n) = n
      BY LevelInterval
    <2> QED
      BY <2>1, <2>2, <2>3 DEF Left
  <1>9. Hands' = Hands
    <2>1. Hands' = [Hands EXCEPT ![w] = [act |-> "none"]]
      BY <1>5, HandLet
    <2>2. Found(w) = [act |-> "none"]
      BY <1>1, HandFree
    <2> QED
      BY <2>1, <2>2 DEF Hands
  <1>10. Promised!Submit(r)
    BY <1>3, <1>7, <1>8, <1>9 DEF Promised!Submit, States, Left, Hands
  <1> QED
    BY <1>6, <1>10 DEF Promised!Next

LEMMA CancelLives ==
    ASSUME TypeOK, LifeInv, NEW w \in Workers, CancelCommit(w)
    PROVE  LifeInv' /\ Promised!Next
  <1>1. op[w] \in Cancel /\ op[w].kind = "cancel"
    BY Shape DEF CancelCommit, Serving, TypeOK
  <1>2. PICK r \in Requests : r = op[w].request
    BY <1>1 DEF Cancel
  <1>3. /\ req' = [req EXCEPT ![r].status = "cancelled"] /\ UNCHANGED level
        /\ op' = [op EXCEPT ![w] = Idle]
    BY <1>2 DEF CancelCommit, Finish
  <1>4. LifeInv'
    <2>1. \A x \in Workers : op'[x] = Idle \/ op'[x] = op[x]
      BY <1>3 DEF TypeOK
    <2>2. \A q \in Requests : req'[q].status = "pending" => req[q].status = "pending"
      BY <1>3 DEF TypeOK, Request
    <2> QED
      BY <1>3, <2>1, <2>2 DEF LifeInv, Idle
  <1>5. Hands[w].act = "cancelled" /\ Hands[w].request = r
    BY <1>1, <1>2 DEF Hands, Found
  <1>6. States' = [States EXCEPT ![Hands[w].request] = "cancelled"] /\ Left' = Left
    <2>1. States' = [States EXCEPT ![r] = "cancelled"]
      BY <1>3 DEF States, TypeOK, Request
    <2>2. Left' = Left
      BY <1>3 DEF Left
    <2> QED
      BY <1>5, <2>1, <2>2
  <1>7. Hands' = [Hands EXCEPT ![w] = [act |-> "none"]]
    BY <1>3, HandLet
  <1>8. Promised!Cancel(w)
    BY <1>5, <1>6, <1>7 DEF Promised!Cancel, Promised!LetGo, Promised!Free, States, Left, Hands
  <1> QED
    BY <1>4, <1>8 DEF Promised!Next

(* What a caller takes up is the request as it is. *)
LEMMA TakenUp ==
    ASSUME TypeOK, LifeInv, NEW w \in Workers, NEW r \in Requests,
           NEW act \in {"approved", "rejected", "cancelled"},
           op[w] = Idle, req[r].status = "pending", UNCHANGED <<req, level>>,
           NEW call, op' = [op EXCEPT ![w] = call],
           call = IF act = "cancelled"
                    THEN [kind |-> "cancel", request |-> r]
                    ELSE [kind |-> "review", request |-> r, verdict |-> act, marks |-> level[r]]
    PROVE  LifeInv' /\ Promised!Next
  <1>1. \A x \in Workers : op'[x] = IF x = w THEN call ELSE op[x]
    BY DEF TypeOK
  <1>2. call.kind = "review" => call.marks = level[r]
    OBVIOUS
  <1>3. call.kind # "create"
    OBVIOUS
  <1>4. LifeInv'
    BY <1>1, <1>2, <1>3 DEF LifeInv
  <1>5. Found(w) = [act |-> "none"]
    BY HandFree DEF Idle
  <1>6. Found(w)' = [act |-> act, request |-> r,
                     saw |-> IF act = "cancelled" THEN 0 ELSE Left[r]]
    <2>1. op'[w] = call
      BY <1>1
    <2>2. CASE act = "cancelled"
      <3>1. op'[w] = [kind |-> "cancel", request |-> r]
        BY <2>1, <2>2
      <3>2. op'[w].kind = "cancel" /\ op'[w].request = r
        BY <3>1
      <3> QED BY <2>2, <3>2 DEF Found
    <2>3. CASE act # "cancelled"
      <3>1. op'[w] = [kind |-> "review", request |-> r, verdict |-> act, marks |-> level[r]]
        BY <2>1, <2>3
      <3>2. /\ op'[w].kind = "review" /\ op'[w].request = r
            /\ op'[w].verdict = act /\ op'[w].marks = level[r]
        BY <3>1
      <3>3. Left[r] = Cardinality({k \in 1 .. 4 : level[r][k] = "pending"})
        BY DEF Left
      <3> QED BY <2>3, <3>2, <3>3 DEF Found
    <2> QED BY <2>2, <2>3
  <1>7. Hands' = [Hands EXCEPT ![w] = Found(w)']
    BY HandOf
  <1>8. States[r] = "pending" /\ States' = States /\ Left' = Left /\ Hands[w] = Found(w)
    BY DEF States, Left, Hands
  <1>9. Promised!TakeUp(w, r, act)
    BY <1>5, <1>6, <1>7, <1>8 DEF Promised!TakeUp, Promised!Free, States, Left, Hands
  <1> QED
    BY <1>4, <1>9 DEF Promised!Next

(* A call that asks for leave or for grants is none of a request's life. *)
LEMMA LifeQuiet ==
    ASSUME TypeOK, LifeInv, UNCHANGED <<req, level>>,
           \/ UNCHANGED op
           \/ \E w \in Workers : \E call :
                /\ op' = [op EXCEPT ![w] = call]
                /\ op[w].kind \notin {"cancel", "review"}
                /\ call.kind \notin {"cancel", "review"}
                /\ call.kind = "create" => call.levels \in {p.levels : p \in Policies}
    PROVE  LifeInv' /\ UNCHANGED Promised!lifecycleVars
  <1>1. LifeInv'
    BY DEF LifeInv, TypeOK
  <1>2. States' = States /\ Left' = Left
    BY DEF States, Left
  <1>3. Hands' = Hands
    <2>1. CASE UNCHANGED op
      BY <2>1 DEF Hands, Found
    <2>2. ASSUME NEW w \in Workers, NEW call, op' = [op EXCEPT ![w] = call],
                 op[w].kind \notin {"cancel", "review"}, call.kind \notin {"cancel", "review"}
          PROVE  Hands' = Hands
      <3>1. op'[w] = call /\ Hands' = [Hands EXCEPT ![w] = Found(w)']
        BY <2>2, HandOf
      <3>2. Found(w)' = [act |-> "none"]
        BY <2>2, <3>1 DEF Found
      <3>3. Found(w) = [act |-> "none"]
        BY <2>2, HandFree
      <3> QED
        BY <3>1, <3>2, <3>3 DEF Hands
    <2> QED
      BY <2>1, <2>2
  <1> QED
    BY <1>1, <1>2, <1>3 DEF Promised!lifecycleVars, States, Left, Hands

LEMMA LifeStep ==
    TypeOK /\ LevelsInv /\ LifeInv /\ [Next]_vars =>
        LifeInv' /\ [Promised!Next]_Promised!lifecycleVars
  <1> DEFINE Lives == LifeInv' /\ (Promised!Next \/ UNCHANGED Promised!lifecycleVars)
  <1> SUFFICES ASSUME TypeOK, LevelsInv, LifeInv, [Next]_vars PROVE Lives
    OBVIOUS
  <1> USE LifeQuiet
  <1>1. ASSUME NEW w \in Workers, Asking(w)
        PROVE  Lives
    <2>1. ASSUME NEW u \in Users, NEW t, NEW from, NEW to, NEW half, NEW excluded, NEW contract,
                 CreateRead(w, u, t, from, to, half, excluded, contract)
          PROVE  Lives
      <3>1. PICK call : /\ call.kind = "create" /\ call.levels = policy.levels
                        /\ op' = [op EXCEPT ![w] = call] /\ UNCHANGED <<req, level>>
                        /\ op[w] = Idle
        BY <2>1 DEF CreateRead, Begin, reqVars
      <3>2. call.levels \in {p.levels : p \in Policies}
        BY <3>1 DEF TypeOK
      <3>3. op[w].kind = "idle"
        BY <3>1 DEF Idle
      <3> QED
        BY <3>1, <3>2, <3>3
    <2>2. ASSUME NEW u \in Users, NEW r \in Requests, CancelRead(w, u, r)
          PROVE  Lives
      <3>1. LifeInv' /\ Promised!Next
        BY <2>2, TakenUp DEF CancelRead, Begin, reqVars
      <3> QED
        BY <3>1
    <2> QED
      BY <1>1, <2>1, <2>2, CreateLives, CancelLives DEF Asking
  <1>2. ASSUME NEW w \in Workers, Reviewing(w)
        PROVE  Lives
    <2>1. ASSUME NEW r \in Requests, NEW verdict \in {"approved", "rejected"},
                 ReviewRead(w, r, verdict)
          PROVE  Lives
      <3>1. LifeInv' /\ Promised!Next
        BY <2>1, TakenUp DEF ReviewRead, Begin, reqVars
      <3> QED
        BY <3>1
    <2> QED
      BY <1>2, <2>1, ReviewLives DEF Reviewing
  <1>3. ASSUME NEW w \in Workers, Registered(w)
        PROVE  Lives
    <2>1. PICK call : /\ call.kind \in {"ensure", "idle"} /\ op' = [op EXCEPT ![w] = call]
                      /\ UNCHANGED <<req, level>>
                      /\ op[w].kind \in {"ensure", "idle"}
      BY <1>3 DEF Registered, EnsureRead, EnsureCommit, Begin, Finish, Idle, Serving, reqVars
    <2> QED
      BY <2>1
  <1>4. ASSUME NEW w \in Workers, Granting(w) \/ Configuring(w)
        PROVE  Lives
    <2>1. UNCHANGED <<req, level, op>>
      BY <1>4 DEF Granting, UpsertGrant, MoveGrant, DeleteGrant, Configuring, UpdatePolicy,
                  UpsertType, ArchiveType, UpsertRule, ArchiveRule, reqVars
    <2> QED
      BY <2>1
  <1>5. ASSUME NEW w \in Workers, Abort(w)
        PROVE  Lives
    <2>1. op' = [op EXCEPT ![w] = Idle] /\ req' = req /\ level' = level
      BY <1>5 DEF Abort, Finish, reqVars
    <2>2. Hands' = [Hands EXCEPT ![w] = [act |-> "none"]] /\ States' = States /\ Left' = Left
      BY <2>1, HandLet DEF States, Left
    <2>3. Promised!PutDown(w)
      BY <2>2 DEF Promised!PutDown, Promised!LetGo, Promised!Free, States, Left, Hands
    <2>4. \A x \in Workers : op'[x] = Idle \/ op'[x] = op[x]
      BY <2>1 DEF TypeOK
    <2>5. LifeInv'
      <3>1. \A x \in Workers : op'[x].kind = "idle" \/ op'[x] = op[x]
        BY <2>4 DEF Idle
      <3>2. req' = req /\ level' = level
        BY <2>1
      <3>3. ASSUME NEW x \in Workers
            PROVE  /\ op'[x].kind = "create" => op'[x].levels \in {p.levels : p \in Policies}
                   /\ op'[x].kind = "review" => \E k \in 1 .. 4 : op'[x].marks[k] = "pending"
        BY <3>1 DEF LifeInv
      <3> QED
        BY <3>2, <3>3 DEF LifeInv
    <2> QED
      BY <2>3, <2>5 DEF Promised!Next
  <1>6. CASE UNCHANGED vars
    BY <1>6 DEF vars, reqVars
  <1> QED
    BY <1>1, <1>2, <1>3, <1>4, <1>5, <1>6 DEF Next

(* With any number of callers, every request lives the life LeaveLifecycle *)
(* tells: it is decided only by a call that found it pending, from the     *)
(* levels that call saw, and two reviews that saw the same level missing   *)
(* count as one signature.                                                 *)
THEOREM LifecycleIsKept == Spec => LifecycleKept
  <1>1. Init => TypeOK /\ LevelsInv /\ LifeInv /\ Promised!Init
    BY TypeInit, LevelsInit, LifeInit
  <1> QED
    BY <1>1, TypeStep, LevelsStep, LifeStep, PTL DEF Spec, LifecycleKept, Promised!Spec

-----------------------------------------------------------------------------
(* Calls that are overtaken *)

(* The accounts that moved are accounts. *)
MovedOK == moved \in [Workers -> SUBSET Keys]

(* Only a call that is begun turns into one that materializes grants.      *)
LEMMA Begun ==
    ASSUME TypeOK, Next, NEW x \in Workers, op'[x] # op[x]
    PROVE  /\ op'[x].kind = "create" =>
                \E u \in Users, t \in Types, from, to \in Days, half \in BOOLEAN,
                   excluded \in {Holidays, {}}, contract \in Contracts :
                      CreateRead(x, u, t, from, to, half, excluded, contract)
           /\ op'[x].kind = "ensure" =>
                \E u \in Users, contract \in Contracts : EnsureRead(x, u, contract)
  <1> DEFINE Goal ==
               /\ op'[x].kind = "create" =>
                    \E u \in Users, t \in Types, from, to \in Days, half \in BOOLEAN,
                       excluded \in {Holidays, {}}, contract \in Contracts :
                          CreateRead(x, u, t, from, to, half, excluded, contract)
               /\ op'[x].kind = "ensure" =>
                    \E u \in Users, contract \in Contracts : EnsureRead(x, u, contract)
  <1>1. ASSUME NEW w \in Workers, NEW call, op' = [op EXCEPT ![w] = call]
        PROVE  w = x /\ op'[x] = call
    BY <1>1 DEF TypeOK
  <1>2. ASSUME NEW w \in Workers, NEW call, op' = [op EXCEPT ![w] = call],
               call.kind \in {"idle", "cancel", "review"}
        PROVE  Goal
    <2>1. op'[x] = call
      BY <1>1, <1>2
    <2> QED
      BY <1>2, <2>1
  <1>3. ASSUME NEW w \in Workers, NEW call, op' = [op EXCEPT ![w] = call], call = Idle
        PROVE  Goal
    <2>1. call.kind = "idle"
      BY <1>3 DEF Idle
    <2> QED
      BY <1>2, <1>3, <2>1
  <1>4. ASSUME UNCHANGED op
        PROVE  Goal
    BY <1>4
  <1>5. ASSUME NEW w \in Workers, NEW u \in Users, NEW t \in Types, NEW from \in Days,
               NEW to \in Days, NEW half \in BOOLEAN, NEW excluded \in {Holidays, {}},
               NEW contract \in Contracts,
               CreateRead(w, u, t, from, to, half, excluded, contract)
        PROVE  Goal
    <2>1. op'[w].kind = "create" /\ \A y \in Workers : y # w => op'[y] = op[y]
      BY <1>5 DEF CreateRead, Begin, TypeOK
    <2>2. w = x /\ op'[x].kind = "create"
      BY <2>1
    <2> QED
      BY <1>5, <2>2
  <1>6. ASSUME NEW w \in Workers, NEW u \in Users, NEW contract \in Contracts,
               EnsureRead(w, u, contract)
        PROVE  Goal
    <2>1. op'[w].kind = "ensure" /\ \A y \in Workers : y # w => op'[y] = op[y]
      BY <1>6 DEF EnsureRead, Begin, TypeOK
    <2>2. w = x /\ op'[x].kind = "ensure"
      BY <2>1
    <2> QED
      BY <1>6, <2>2
  <1> HIDE DEF Goal
  <1>7. ASSUME NEW w \in Workers, Asking(w)
        PROVE  Goal
    <2>1. ASSUME NEW u \in Users, NEW r \in Requests, CancelRead(w, u, r)
          PROVE  Goal
      BY <1>2, <2>1 DEF CancelRead, Begin
    <2>2. ASSUME CreateCommit(w) \/ CancelCommit(w)
          PROVE  Goal
      BY <1>3, <2>2 DEF CreateCommit, CancelCommit, Finish
    <2> QED
      BY <1>5, <1>7, <2>1, <2>2 DEF Asking
  <1>8. ASSUME NEW w \in Workers, Reviewing(w)
        PROVE  Goal
    <2>1. ASSUME NEW r \in Requests, NEW verdict, ReviewRead(w, r, verdict)
          PROVE  Goal
      BY <1>2, <2>1 DEF ReviewRead, Begin
    <2>2. ASSUME ReviewCommit(w)
          PROVE  Goal
      BY <1>3, <2>2 DEF ReviewCommit, Finish
    <2> QED
      BY <1>8, <2>1, <2>2 DEF Reviewing
  <1>9. ASSUME NEW w \in Workers, Registered(w)
        PROVE  Goal
    <2>1. ASSUME EnsureCommit(w)
          PROVE  Goal
      BY <1>3, <2>1 DEF EnsureCommit, Finish
    <2> QED
      BY <1>6, <1>9, <2>1 DEF Registered
  <1>10. ASSUME NEW w \in Workers, Granting(w) \/ Configuring(w)
         PROVE  Goal
    <2>1. UNCHANGED op
      BY <1>10 DEF Granting, UpsertGrant, MoveGrant, DeleteGrant, Configuring, UpdatePolicy,
                   UpsertType, ArchiveType, UpsertRule, ArchiveRule
    <2> QED
      BY <1>4, <2>1
  <1>11. ASSUME NEW w \in Workers, Abort(w)
         PROVE  Goal
    BY <1>3, <1>11 DEF Abort, Finish
  <1> QED
    BY <1>7, <1>8, <1>9, <1>10, <1>11 DEF Next, Goal

(* An account that has not moved under a call is as the call found it.     *)
LEMMA NotMoved ==
    ASSUME MovedOK, HistoryNext, NEW x \in Workers, Counts(x), op'[x] = op[x],
           NEW k \in Keys, k \notin moved'[x]
    PROVE  k \notin moved[x] /\ Account(k)' = Account(k)
  BY DEF MovedOK, HistoryNext, Moves

LEMMA MovedStep ==
    ASSUME MovedOK, HistoryNext
    PROVE  MovedOK'
  <1>1. moved' \in [Workers -> SUBSET Keys]
    <2>1. \A x \in Workers :
             (IF Counts(x) /\ op'[x] = op[x] THEN moved[x] \cup Moves ELSE {}) \in SUBSET Keys
      BY DEF MovedOK, Moves
    <2> QED
      BY <2>1 DEF HistoryNext
  <1> QED
    BY <1>1 DEF MovedOK

(* The types a call has selected entitlement policies for, and their user  *)
ChosenFor(call) ==
    LET u == IF call.kind = "create" THEN call.row.user ELSE call.user
    IN  {<<u, r.type>> : r \in call.chosen}

(* A call selects entitlement policies for types the user has no grant of, *)
(* as far as the accounts have not moved since.                            *)
ChosenFree == \A w \in Workers :
    Counts(w) => \A k \in ChosenFor(op[w]) : k \in moved[w] \/ grant[k].source = "none"

LEMMA ChosenKeys ==
    ASSUME TypeOK, NEW w \in Workers, Counts(w)
    PROVE  ChosenFor(op[w]) \subseteq Keys
  <1>1. op[w] \in Create \/ op[w] \in Ensure
    BY Shape DEF TypeOK, Counts
  <1>2. op[w].chosen \in Chosen
    BY <1>1 DEF Create, Ensure
  <1>3. \A r \in op[w].chosen : r.type \in Types
    BY <1>2, LeaveAssumption DEF Chosen, Rule
  <1>4. CASE op[w] \in Create
    BY <1>3, <1>4 DEF Create, ChosenFor, Keys
  <1>5. CASE op[w] \in Ensure
    BY <1>3, <1>5 DEF Ensure, ChosenFor, Keys
  <1> QED
    BY <1>1, <1>4, <1>5

LEMMA ChosenStep ==
    ASSUME TypeOK, MovedOK, ChosenFree, HistoryNext
    PROVE  ChosenFree'
  <1> SUFFICES ASSUME NEW x \in Workers, Counts(x)', NEW k \in ChosenFor(op'[x]), k \notin moved'[x]
               PROVE  grant'[k].source = "none"
    BY DEF ChosenFree
  <1>1. CASE op'[x] = op[x]
    <2>1. Counts(x) /\ k \in ChosenFor(op[x])
      BY <1>1 DEF Counts
    <2>2. k \in Keys
      BY <2>1, ChosenKeys
    <2>3. k \notin moved[x] /\ grant'[k] = grant[k]
      BY <1>1, <2>1, <2>2, NotMoved DEF Account
    <2> QED
      BY <2>1, <2>3 DEF ChosenFree
  <1>2. CASE op'[x] # op[x]
    <2> SUFFICES grant[k].source = "none" /\ grant' = grant
      OBVIOUS
    <2>1. CASE op'[x].kind = "create"
      <3>1. PICK u \in Users, t \in Types, from \in Days, to \in Days, half \in BOOLEAN,
                 excluded \in {Holidays, {}}, contract \in Contracts :
                   CreateRead(x, u, t, from, to, half, excluded, contract)
        BY <1>2, <2>1, Begun DEF HistoryNext
      <3>2. /\ op'[x].row.user = u /\ op'[x].chosen = Selected(u, contract)
            /\ grant' = grant
        BY <3>1 DEF CreateRead, Begin, TypeOK
      <3> QED
        BY <2>1, <3>2 DEF ChosenFor, Selected
    <2>2. CASE op'[x].kind = "ensure"
      <3>1. PICK u \in Users, contract \in Contracts : EnsureRead(x, u, contract)
        BY <1>2, <2>2, Begun DEF HistoryNext
      <3>2. /\ op'[x].user = u /\ op'[x].chosen = Selected(u, contract)
            /\ grant' = grant
        BY <3>1 DEF EnsureRead, Begin, TypeOK
      <3> QED
        BY <2>2, <3>2 DEF ChosenFor, Selected
    <2> QED
      BY <2>1, <2>2 DEF Counts
  <1> QED
    BY <1>1, <1>2

(* What is materialized replaces the grants of the chosen types only.      *)
LEMMA MaterializeOther ==
    ASSUME NEW u, NEW chosen, NEW k \in Keys, k \notin {<<u, r.type>> : r \in chosen}
    PROVE  Materialize(grant, u, chosen)[k] = grant[k]
  BY DEF Materialize

LEMMA KeptStep ==
    ASSUME TypeOK, ChosenFree, HistoryNext, NEW k \in Keys,
           grant[k].source = "override", grant'[k].source = "policy"
    PROVE  \E w \in Workers : op'[w] # op[w] /\ k \in moved[w]
  <1>1. ASSUME NEW w \in Workers, Counts(w), op'[w] = Idle, NEW u,
               ChosenFor(op[w]) = {<<u, r.type>> : r \in op[w].chosen},
               grant' = Materialize(grant, u, op[w].chosen)
        PROVE  op'[w] # op[w] /\ k \in moved[w]
    <2>1. k \in ChosenFor(op[w])
      BY <1>1, MaterializeOther
    <2>2. k \in moved[w]
      BY <1>1, <2>1 DEF ChosenFree
    <2>3. op'[w] # op[w]
      BY <1>1 DEF Counts, Idle
    <2> QED
      BY <2>2, <2>3
  <1>2. ASSUME NEW w \in Workers, CreateCommit(w)
        PROVE  op'[w] # op[w] /\ k \in moved[w]
    <2>1. op[w].kind = "create" /\ op'[w] = Idle
      BY <1>2 DEF CreateCommit, Serving, Finish, TypeOK
    <2> QED
      BY <1>1, <1>2, <2>1 DEF CreateCommit, Counts, ChosenFor
  <1>3. ASSUME NEW w \in Workers, EnsureCommit(w)
        PROVE  op'[w] # op[w] /\ k \in moved[w]
    <2>1. op[w].kind = "ensure" /\ op'[w] = Idle
      BY <1>3 DEF EnsureCommit, Serving, Finish, TypeOK
    <2> QED
      BY <1>1, <1>3, <2>1 DEF EnsureCommit, Counts, ChosenFor
  <1>4. ASSUME NEW w \in Workers, Granting(w)
        PROVE  FALSE
    BY <1>4 DEF Granting, UpsertGrant, MoveGrant, DeleteGrant, NoGrant, TypeOK
  <1>5. ASSUME UNCHANGED grant
        PROVE  FALSE
    BY <1>5
  <1>6. ASSUME NEW w \in Workers, Asking(w)
        PROVE  op'[w] # op[w] /\ k \in moved[w]
    BY <1>2, <1>5, <1>6 DEF Asking, CreateRead, CancelRead, CancelCommit, Begin
  <1>7. ASSUME NEW w \in Workers, Registered(w)
        PROVE  op'[w] # op[w] /\ k \in moved[w]
    BY <1>3, <1>5, <1>7 DEF Registered, EnsureRead, Begin
  <1>8. ASSUME NEW w \in Workers, Reviewing(w) \/ Configuring(w) \/ Abort(w)
        PROVE  FALSE
    BY <1>5, <1>8
    DEF Reviewing, ReviewRead, ReviewCommit, Begin, Configuring, Abort,
        UpdatePolicy, UpsertType, ArchiveType, UpsertRule, ArchiveRule
  <1> QED
    BY <1>4, <1>6, <1>7, <1>8 DEF HistoryNext, Next

(* What a call may rely on although others commit meanwhile *)
HistoryInv == TypeOK /\ MovedOK /\ ChosenFree

LEMMA HistoryStart == HistoryInit => HistoryInv
  <1> SUFFICES ASSUME HistoryInit PROVE HistoryInv
    OBVIOUS
  <1>1. TypeOK
    BY TypeInit DEF HistoryInit
  <1>2. MovedOK
    BY DEF HistoryInit, MovedOK
  <1>3. ChosenFree
    BY DEF HistoryInit, Init, ChosenFree, Counts, Idle
  <1> QED
    BY <1>1, <1>2, <1>3 DEF HistoryInv

LEMMA HistoryStep == HistoryInv /\ [HistoryNext]_<<vars, moved>> => HistoryInv'
  <1> SUFFICES ASSUME HistoryInv, [HistoryNext]_<<vars, moved>> PROVE HistoryInv'
    OBVIOUS
  <1>1. CASE HistoryNext
    <2>1. TypeOK'
      BY <1>1, TypeStep DEF HistoryInv, HistoryNext
    <2> QED
      BY <1>1, <2>1, MovedStep, ChosenStep DEF HistoryInv
  <1>2. CASE UNCHANGED <<vars, moved>>
    <2>1. TypeOK'
      BY <1>2, TypeStep DEF HistoryInv
    <2>2. grant' = grant /\ op' = op /\ moved' = moved
      BY <1>2 DEF vars
    <2> QED
      BY <2>1, <2>2 DEF HistoryInv, MovedOK, ChosenFree, Counts, ChosenFor
  <1> QED
    BY <1>1, <1>2

(* A grant an administrator has set becomes one of an entitlement policy   *)
(* only by a call whose account for that user and type was moved by others *)
(* after it had looked for the grant; with any number of calls under way.  *)
THEOREM OverridesAreKept == HistorySpec => OverridesKept
  <1>1. HistoryInv /\ [HistoryNext]_<<vars, moved>> =>
          [\A k \in Keys :
              grant[k].source = "override" /\ grant'[k].source = "policy" =>
                  \E w \in Workers : op'[w] # op[w] /\ k \in moved[w]]_<<vars, moved>>
    BY KeptStep DEF HistoryInv
  <1> QED
    BY <1>1, HistoryStart, HistoryStep, PTL DEF HistorySpec, OverridesKept

-----------------------------------------------------------------------------
(* Sums over requests *)

LEMMA Least ==
    ASSUME NEW S \in SUBSET Nat, S # {}
    PROVE  \E n \in S : \A m \in S : n <= m
  <1>1. IsWellFoundedOn(OpToRel(<, Nat), Nat)
    BY NatLessThanWellFounded
  <1>2. PICK n \in S : \A m \in S : ~(<<m, n>> \in OpToRel(<, Nat))
    BY <1>1, WFMin
  <1>3. \A m \in S : ~(m < n)
    BY <1>2 DEF OpToRel
  <1> QED BY <1>3

(* What holds at 0 and of every next number up to n holds up to n.         *)
LEMMA UpTo ==
    ASSUME NEW n \in Nat, NEW S, 0 \in S,
           \A k \in 0 .. n - 1 : k \in S => k + 1 \in S
    PROVE  0 .. n \subseteq S
  <1> DEFINE others == {k \in 0 .. n : k \notin S}
  <1>1. SUFFICES ASSUME others # {}
                 PROVE  FALSE
    OBVIOUS
  <1>2. others \in SUBSET Nat
    OBVIOUS
  <1>3. PICK least \in others : \A k \in others : least <= k
    BY <1>1, <1>2, Least
  <1>4. least \in 0 .. n /\ least \notin S /\ least # 0
    BY <1>3
  <1>5. least - 1 \in 0 .. n - 1 /\ ~(least <= least - 1)
    BY <1>4
  <1>6. least - 1 \in S
    BY <1>3, <1>5
  <1>7. (least - 1) + 1 \in S
    BY <1>5, <1>6
  <1> QED BY <1>4, <1>7

(* g sums f over the requests of C, one after the other, up to the n-th.   *)
Sums(g, n, f, C) ==
    /\ g \in [0 .. n -> Nat]
    /\ g[0] = 0
    /\ \A k \in 1 .. n : g[k] = g[k - 1] + (IF k \in C THEN f[k] ELSE 0)

LEMMA SumsExist ==
    ASSUME NEW f \in [Requests -> Nat], NEW C
    PROVE  \E g : Sums(g, MaxRequests, f, C)
  <1> DEFINE S == {n \in 0 .. MaxRequests : \E g : Sums(g, n, f, C)}
  <1>0. MaxRequests \in Nat
    BY LeaveAssumption
  <1>1. 0 \in S
    <2> DEFINE h == [i \in 0 .. 0 |-> 0]
    <2>1. Sums(h, 0, f, C)
      BY DEF Sums
    <2> HIDE DEF h
    <2> QED BY <1>0, <2>1
  <1>2. ASSUME NEW n \in 0 .. MaxRequests - 1, n \in S
        PROVE  n + 1 \in S
    <2>1. PICK g : Sums(g, n, f, C)
      BY <1>2
    <2>2. n + 1 \in Requests /\ n + 1 \in 0 .. MaxRequests /\ f[n + 1] \in Nat
      BY <1>0 DEF Requests
    <2> DEFINE last == g[n] + (IF n + 1 \in C THEN f[n + 1] ELSE 0)
               h == [i \in 0 .. n + 1 |-> IF i = n + 1 THEN last ELSE g[i]]
    <2>3. last \in Nat /\ \A i \in 0 .. n : g[i] \in Nat
      BY <2>1, <2>2 DEF Sums
    <2> HIDE DEF last
    <2>4. h \in [0 .. n + 1 -> Nat]
      <3>1. \A i \in 0 .. n + 1 : h[i] \in Nat
        BY <2>3
      <3> QED BY <3>1
    <2>5. h[0] = 0
      BY <2>1 DEF Sums
    <2>6. ASSUME NEW k \in 1 .. n + 1
          PROVE  h[k] = h[k - 1] + (IF k \in C THEN f[k] ELSE 0)
      <3>1. CASE k = n + 1
        BY <3>1 DEF last
      <3>2. CASE k # n + 1
        <4>1. k \in 1 .. n /\ k - 1 \in 0 .. n /\ k - 1 # n + 1
          BY <3>2
        <4> QED BY <2>1, <3>2, <4>1 DEF Sums
      <3> QED BY <3>1, <3>2
    <2> HIDE DEF h
    <2>7. Sums(h, n + 1, f, C)
      BY <2>4, <2>5, <2>6 DEF Sums
    <2> QED BY <2>2, <2>7
  <1> HIDE DEF S
  <1>3. 0 .. MaxRequests \subseteq S
    BY <1>0, <1>1, <1>2, UpTo
  <1>4. MaxRequests \in S
    BY <1>0, <1>3
  <1> QED BY <1>4 DEF S

(* Sums over two sets without a common request add up.                     *)
LEMMA SumsAdd ==
    ASSUME NEW f, NEW A, NEW B, A \cap B = {}, NEW g, NEW h, NEW s,
           NEW e, \A k \in Requests : f[k] \in Nat /\ (k \in A \cup B => e[k] = f[k]),
           Sums(g, MaxRequests, f, A), Sums(h, MaxRequests, f, B),
           Sums(s, MaxRequests, e, A \cup B)
    PROVE  s[MaxRequests] = g[MaxRequests] + h[MaxRequests]
  <1> DEFINE S == {n \in 0 .. MaxRequests : s[n] = g[n] + h[n]}
  <1>0. MaxRequests \in Nat
    BY LeaveAssumption
  <1>1. 0 \in S
    BY <1>0 DEF Sums
  <1>2. ASSUME NEW n \in 0 .. MaxRequests - 1, n \in S
        PROVE  n + 1 \in S
    <2>1. n + 1 \in 1 .. MaxRequests /\ (n + 1) - 1 = n /\ n + 1 \in Requests
          /\ n + 1 \in 0 .. MaxRequests
      BY <1>0 DEF Requests
    <2>2. /\ s[n + 1] = s[n] + (IF n + 1 \in A \cup B THEN e[n + 1] ELSE 0)
          /\ g[n + 1] = g[n] + (IF n + 1 \in A THEN f[n + 1] ELSE 0)
          /\ h[n + 1] = h[n] + (IF n + 1 \in B THEN f[n + 1] ELSE 0)
      BY <2>1 DEF Sums
    <2>3. s[n] = g[n] + h[n] /\ g[n] \in Nat /\ h[n] \in Nat /\ f[n + 1] \in Nat
      BY <1>2, <2>1 DEF Sums
    <2>4. s[n + 1] = g[n + 1] + h[n + 1]
      <3>1. CASE n + 1 \in A
        <4>1. n + 1 \notin B /\ e[n + 1] = f[n + 1]
          BY <2>1, <3>1
        <4> QED BY <2>2, <2>3, <3>1, <4>1
      <3>2. CASE n + 1 \in B
        <4>1. n + 1 \notin A /\ e[n + 1] = f[n + 1]
          BY <2>1, <3>2
        <4> QED BY <2>2, <2>3, <3>2, <4>1
      <3>3. CASE n + 1 \notin A \cup B
        BY <2>2, <2>3, <3>3
      <3> QED BY <3>1, <3>2, <3>3
    <2> QED BY <2>1, <2>4
  <1> HIDE DEF S
  <1>3. 0 .. MaxRequests \subseteq S
    BY <1>0, <1>1, <1>2, UpTo
  <1>4. MaxRequests \in S
    BY <1>0, <1>3
  <1> QED BY <1>4 DEF S

(* The sum of nothing                                                      *)
LEMMA SumsNothing ==
    ASSUME NEW f, NEW g, Sums(g, MaxRequests, f, {})
    PROVE  g[MaxRequests] = 0
  <1> DEFINE S == {n \in 0 .. MaxRequests : g[n] = 0}
  <1>0. MaxRequests \in Nat
    BY LeaveAssumption
  <1>1. 0 \in S
    BY <1>0 DEF Sums
  <1>2. ASSUME NEW n \in 0 .. MaxRequests - 1, n \in S
        PROVE  n + 1 \in S
    <2>1. n + 1 \in 1 .. MaxRequests /\ (n + 1) - 1 = n /\ n + 1 \in 0 .. MaxRequests
      BY <1>0
    <2>2. g[n + 1] = g[n] + 0
      BY <2>1 DEF Sums
    <2> QED BY <1>2, <2>1, <2>2
  <1> HIDE DEF S
  <1>3. 0 .. MaxRequests \subseteq S
    BY <1>0, <1>1, <1>2, UpTo
  <1>4. MaxRequests \in S
    BY <1>0, <1>3
  <1> QED BY <1>4 DEF S

(* The sum over one request                                                *)
LEMMA SumsOne ==
    ASSUME NEW f \in [Requests -> Nat], NEW r \in Requests, NEW g,
           Sums(g, MaxRequests, f, {r})
    PROVE  g[MaxRequests] = f[r]
  <1> DEFINE S == {n \in 0 .. MaxRequests : g[n] = IF r <= n THEN f[r] ELSE 0}
  <1>0. MaxRequests \in Nat /\ r \in 1 .. MaxRequests /\ f[r] \in Nat
    BY LeaveAssumption DEF Requests
  <1>1. 0 \in S
    BY <1>0 DEF Sums
  <1>2. ASSUME NEW n \in 0 .. MaxRequests - 1, n \in S
        PROVE  n + 1 \in S
    <2>1. n + 1 \in 1 .. MaxRequests /\ (n + 1) - 1 = n /\ n + 1 \in 0 .. MaxRequests
      BY <1>0
    <2>2. g[n + 1] = g[n] + (IF n + 1 = r THEN f[r] ELSE 0)
      BY <2>1 DEF Sums
    <2>3. g[n] = IF r <= n THEN f[r] ELSE 0
      BY <1>2
    <2>4. g[n + 1] = IF r <= n + 1 THEN f[r] ELSE 0
      <3>1. CASE n + 1 = r
        BY <1>0, <2>2, <2>3, <3>1
      <3>2. CASE n + 1 # r
        BY <1>0, <2>2, <2>3, <3>2
      <3> QED BY <3>1, <3>2
    <2> QED BY <2>1, <2>4
  <1> HIDE DEF S
  <1>3. 0 .. MaxRequests \subseteq S
    BY <1>0, <1>1, <1>2, UpTo
  <1>4. MaxRequests \in S
    BY <1>0, <1>3
  <1> QED BY <1>0, <1>4 DEF S

(* The sum of f over the requests of C                                     *)
Tally(f, C) == (CHOOSE g : Sums(g, MaxRequests, f, C))[MaxRequests]

LEMMA TallySums ==
    ASSUME NEW f \in [Requests -> Nat], NEW C
    PROVE  \E g : Sums(g, MaxRequests, f, C) /\ Tally(f, C) = g[MaxRequests]
  BY SumsExist DEF Tally

LEMMA TallyType ==
    ASSUME NEW f \in [Requests -> Nat], NEW C
    PROVE  Tally(f, C) \in Nat
  <1>1. MaxRequests \in Nat /\ MaxRequests \in 0 .. MaxRequests
    BY LeaveAssumption
  <1> QED BY <1>1, TallySums DEF Sums

(* It does not matter how the sum is taken, nor what f is elsewhere.       *)
LEMMA TallyUnique ==
    ASSUME NEW f \in [Requests -> Nat], NEW C, NEW e, NEW s,
           \A k \in Requests : k \in C => e[k] = f[k],
           Sums(s, MaxRequests, e, C)
    PROVE  s[MaxRequests] = Tally(f, C)
  <1>1. PICK g : Sums(g, MaxRequests, f, C) /\ Tally(f, C) = g[MaxRequests]
    BY TallySums
  <1>2. PICK h : Sums(h, MaxRequests, f, {})
    BY SumsExist
  <1>3. C \cup {} = C /\ C \cap {} = {} /\ \A k \in Requests : f[k] \in Nat
    OBVIOUS
  <1>4. s[MaxRequests] = g[MaxRequests] + h[MaxRequests]
    BY <1>1, <1>2, <1>3, SumsAdd
  <1>5. h[MaxRequests] = 0
    BY <1>2, SumsNothing
  <1> QED BY <1>1, <1>4, <1>5, TallyType

LEMMA TallyNothing ==
    ASSUME NEW f \in [Requests -> Nat]
    PROVE  Tally(f, {}) = 0
  BY TallySums, SumsNothing

LEMMA TallyOne ==
    ASSUME NEW f \in [Requests -> Nat], NEW r \in Requests
    PROVE  Tally(f, {r}) = f[r]
  BY TallySums, SumsOne

LEMMA TallyAdd ==
    ASSUME NEW f \in [Requests -> Nat], NEW A, NEW B, A \cap B = {}
    PROVE  Tally(f, A \cup B) = Tally(f, A) + Tally(f, B)
  <1>1. PICK g : Sums(g, MaxRequests, f, A) /\ Tally(f, A) = g[MaxRequests]
    BY TallySums
  <1>2. PICK h : Sums(h, MaxRequests, f, B) /\ Tally(f, B) = h[MaxRequests]
    BY TallySums
  <1>3. PICK s : Sums(s, MaxRequests, f, A \cup B) /\ Tally(f, A \cup B) = s[MaxRequests]
    BY TallySums
  <1>4. \A k \in Requests : f[k] \in Nat /\ (k \in A \cup B => f[k] = f[k])
    OBVIOUS
  <1> QED BY <1>1, <1>2, <1>3, <1>4, SumsAdd

LEMMA TallySame ==
    ASSUME NEW f \in [Requests -> Nat], NEW e \in [Requests -> Nat], NEW C,
           \A k \in Requests : k \in C => e[k] = f[k]
    PROVE  Tally(e, C) = Tally(f, C)
  <1>1. PICK s : Sums(s, MaxRequests, e, C) /\ Tally(e, C) = s[MaxRequests]
    BY TallySums
  <1> QED BY <1>1, TallyUnique

(* The total days of the requests in some rows                             *)
Totals(rows) == [q \in Requests |-> rows[q].total]

Counted(rows, u, t, statuses) ==
    {q \in Requests : rows[q].user = u /\ rows[q].type = t /\ rows[q].status \in statuses}

LEMMA TotalsType ==
    ASSUME NEW rows \in [Requests -> Request]
    PROVE  Totals(rows) \in [Requests -> Nat]
  BY DEF Totals, Request

(* What Used computes is the sum over the requests that are counted.       *)
LEMMA UsedIsTally ==
    ASSUME NEW rows \in [Requests -> Request], NEW u, NEW t, NEW statuses
    PROVE  Used(rows, u, t, statuses) = Tally(Totals(rows), Counted(rows, u, t, statuses))
  <1> DEFINE C == Counted(rows, u, t, statuses)
             f == Totals(rows)
             eq(g) == g = [n \in 0 .. MaxRequests |->
                             IF n = 0 THEN 0 ELSE g[n - 1] + (IF n \in C THEN rows[n].total ELSE 0)]
             sum == CHOOSE g : eq(g)
  <1>0. MaxRequests \in Nat /\ 0 \in 0 .. MaxRequests
    BY LeaveAssumption
  <1>1. f \in [Requests -> Nat] /\ \A n \in Requests : f[n] = rows[n].total
    BY TotalsType DEF Totals
  <1>2. Used(rows, u, t, statuses) = sum[MaxRequests]
    BY DEF Used, Counted
  <1> HIDE DEF C, f
  <1>3. PICK s : Sums(s, MaxRequests, f, C)
    BY <1>1, SumsExist
  <1>4. eq(s)
    <2>1. ASSUME NEW n \in 0 .. MaxRequests
          PROVE  s[n] = IF n = 0 THEN 0 ELSE s[n - 1] + (IF n \in C THEN rows[n].total ELSE 0)
      <3>1. CASE n = 0
        BY <1>3, <3>1 DEF Sums
      <3>2. CASE n # 0
        <4>1. n \in 1 .. MaxRequests /\ n \in Requests
          BY <1>0, <3>2 DEF Requests
        <4> QED BY <1>1, <1>3, <3>2, <4>1 DEF Sums
      <3> QED BY <3>1, <3>2
    <2>2. s = [n \in 0 .. MaxRequests |-> s[n]]
      BY <1>3 DEF Sums
    <2> QED BY <2>1, <2>2
  <1>5. eq(sum)
    BY <1>4
  <1> HIDE DEF sum
  <1>6. sum = [n \in 0 .. MaxRequests |->
                 IF n = 0 THEN 0 ELSE sum[n - 1] + (IF n \in C THEN rows[n].total ELSE 0)]
    BY <1>5
  <1> HIDE DEF eq
  <1>7. sum[0] = 0
    BY <1>0, <1>6
  <1>8. ASSUME NEW k \in 1 .. MaxRequests
        PROVE  sum[k] = sum[k - 1] + (IF k \in C THEN f[k] ELSE 0)
    <2>1. k \in 0 .. MaxRequests /\ k # 0 /\ k \in Requests
      BY <1>0 DEF Requests
    <2> QED BY <1>1, <1>6, <2>1
  <1>9. 0 .. MaxRequests \subseteq {n \in 0 .. MaxRequests : sum[n] \in Nat}
    <2> DEFINE S == {n \in 0 .. MaxRequests : sum[n] \in Nat}
    <2>1. 0 \in S
      BY <1>0, <1>7
    <2>2. ASSUME NEW n \in 0 .. MaxRequests - 1, n \in S
          PROVE  n + 1 \in S
      <3>1. n + 1 \in 1 .. MaxRequests /\ (n + 1) - 1 = n /\ n + 1 \in Requests
            /\ n + 1 \in 0 .. MaxRequests
        BY <1>0 DEF Requests
      <3>2. f[n + 1] \in Nat /\ sum[n] \in Nat
        BY <1>1, <2>2, <3>1
      <3>3. sum[n + 1] = sum[n] + (IF n + 1 \in C THEN f[n + 1] ELSE 0)
        BY <1>8, <3>1
      <3> QED BY <3>1, <3>2, <3>3
    <2> HIDE DEF S
    <2>3. 0 .. MaxRequests \subseteq S
      BY <1>0, <2>1, <2>2, UpTo
    <2> QED BY <2>3 DEF S
  <1>10. sum \in [0 .. MaxRequests -> Nat]
    <2>1. DOMAIN sum = 0 .. MaxRequests /\ sum = [n \in DOMAIN sum |-> sum[n]]
      BY <1>6
    <2> QED BY <1>9, <2>1
  <1>11. Sums(sum, MaxRequests, f, C)
    BY <1>7, <1>8, <1>10 DEF Sums
  <1>12. sum[MaxRequests] = Tally(f, C)
    BY <1>1, <1>11, TallyUnique
  <1> QED BY <1>2, <1>12 DEF C, f

(* A fold that adds, in whatever order it takes the requests, is the sum.  *)
LEMMA FoldIsTally ==
    ASSUME NEW f \in [Requests -> Nat], NEW C \in SUBSET Requests
    PROVE  FoldFunctionOnSet(+, 0, f, C) = Tally(f, C)
  <1> DEFINE eq(g) == g = [s \in SUBSET C |->
                             IF s = {} THEN 0
                             ELSE LET x == CHOOSE x \in s : TRUE IN f[x] + g[s \ {x}]]
             fold == CHOOSE g : eq(g)
  <1>0. MaxRequests \in Nat /\ IsFiniteSet(C) /\ Cardinality(C) \in Nat
    <2>1. MaxRequests \in Nat
      BY LeaveAssumption
    <2>2. IsFiniteSet(Requests)
      BY <2>1, FS_Interval DEF Requests
    <2> QED BY <2>1, <2>2, FS_Subset, FS_CardinalityType
  <1>1. FoldFunctionOnSet(+, 0, f, C) = fold[C]
    BY DEF FoldFunctionOnSet, MapThenFoldSet
  <1>2. \A s \in SUBSET C : s # {} => (CHOOSE x \in s : TRUE) \in s
    OBVIOUS
  <1>3. ASSUME NEW s \in SUBSET C, s # {}, NEW x \in s
        PROVE  Tally(f, s) = f[x] + Tally(f, s \ {x})
    <2>1. x \in Requests /\ {x} \cup (s \ {x}) = s /\ {x} \cap (s \ {x}) = {}
      BY <1>3
    <2>2. Tally(f, {x} \cup (s \ {x})) = Tally(f, {x}) + Tally(f, s \ {x})
      BY <2>1, TallyAdd
    <2> QED BY <2>1, <2>2, TallyOne
  <1>4. eq([s \in SUBSET C |-> Tally(f, s)])
    <2> DEFINE h == [s \in SUBSET C |-> Tally(f, s)]
    <2>1. ASSUME NEW s \in SUBSET C
          PROVE  h[s] = IF s = {} THEN 0
                        ELSE LET x == CHOOSE x \in s : TRUE IN f[x] + h[s \ {x}]
      <3>1. CASE s = {}
        BY <3>1, TallyNothing
      <3>2. CASE s # {}
        <4> DEFINE x == CHOOSE x \in s : TRUE
        <4>1. x \in s
          BY <1>2, <3>2
        <4> HIDE DEF x
        <4>2. s \ {x} \in SUBSET C
          OBVIOUS
        <4>3. h[s] = f[x] + h[s \ {x}]
          BY <1>3, <3>2, <4>1, <4>2
        <4> QED BY <3>2, <4>3 DEF x
      <3> QED BY <3>1, <3>2
    <2>2. h = [s \in SUBSET C |-> h[s]]
      OBVIOUS
    <2> HIDE DEF h
    <2>3. eq(h)
      BY <2>1, <2>2
    <2> QED BY <2>3 DEF h
  <1>5. eq(fold)
    BY <1>4
  <1> HIDE DEF fold
  <1>6. \A s \in SUBSET C :
           fold[s] = IF s = {} THEN 0
                     ELSE LET x == CHOOSE x \in s : TRUE IN f[x] + fold[s \ {x}]
    BY <1>5
  <1> HIDE DEF eq
  <1> DEFINE S == {n \in 0 .. Cardinality(C) :
                     \A s \in SUBSET C : Cardinality(s) = n => fold[s] = Tally(f, s)}
  <1>7. 0 \in S
    <2>1. ASSUME NEW s \in SUBSET C, Cardinality(s) = 0
          PROVE  fold[s] = Tally(f, s)
      <3>1. IsFiniteSet(s)
        BY <1>0, FS_Subset
      <3>2. s = {}
        BY <2>1, <3>1, FS_EmptySet
      <3> QED BY <1>6, <3>2, TallyNothing
    <2> QED BY <1>0, <2>1
  <1>8. ASSUME NEW n \in 0 .. Cardinality(C) - 1, n \in S
        PROVE  n + 1 \in S
    <2>1. ASSUME NEW s \in SUBSET C, Cardinality(s) = n + 1
          PROVE  fold[s] = Tally(f, s)
      <3> DEFINE x == CHOOSE x \in s : TRUE
      <3>1. IsFiniteSet(s) /\ s # {}
        <4>1. IsFiniteSet(s)
          BY <1>0, FS_Subset
        <4>2. s # {}
          BY <2>1, FS_EmptySet
        <4> QED BY <4>1, <4>2
      <3>2. x \in s
        BY <1>2, <3>1
      <3>3. fold[s] = f[x] + fold[s \ {x}]
        BY <1>6, <3>1
      <3> HIDE DEF x
      <3>4. Cardinality(s \ {x}) = n
        <4>1. Cardinality(s \ {x}) = Cardinality(s) - 1
          BY <3>1, <3>2, FS_RemoveElement
        <4> QED BY <2>1, <4>1
      <3>5. fold[s \ {x}] = Tally(f, s \ {x})
        BY <1>8, <3>4
      <3> QED BY <1>3, <3>1, <3>2, <3>3, <3>5
    <2>2. n + 1 \in 0 .. Cardinality(C)
      BY <1>0
    <2> QED BY <2>1, <2>2
  <1> HIDE DEF S
  <1>9. 0 .. Cardinality(C) \subseteq S
    BY <1>0, <1>7, <1>8, UpTo
  <1>10. Cardinality(C) \in S
    BY <1>0, <1>9
  <1> QED BY <1>1, <1>10 DEF S

-----------------------------------------------------------------------------
(* Balances *)

(* The request a call is about to insert fits the balance it was tested    *)
(* against, as long as the account has not moved since.                    *)
FitsInv == \A w \in Workers :
    op[w].kind = "create" =>
        \/ <<op[w].row.user, op[w].row.type>> \in moved[w]
        \/ Fits(Materialize(grant, op[w].row.user, op[w].chosen), req,
                op[w].row.user, op[w].row.type, op[w].row.total)

LEMMA FitsQuiet ==
    ASSUME UNCHANGED <<policy, standard, grant, req>>,
           NEW u, NEW t, NEW chosen, NEW total,
           Fits(Materialize(grant, u, chosen), req, u, t, total)
    PROVE  Fits(Materialize(grant, u, chosen), req, u, t, total)'
  BY DEF Fits, Materialize, Available, Entitlement, Used

(* What is taken and what is pending are apart, together they are both.    *)
LEMMA UsedBoth ==
    ASSUME NEW rows \in [Requests -> Request], NEW u, NEW t
    PROVE  /\ Used(rows, u, t, {"pending", "approved"}) =
                Used(rows, u, t, {"approved"}) + Used(rows, u, t, {"pending"})
           /\ Used(rows, u, t, {"approved"}) \in Nat
           /\ Used(rows, u, t, {"pending"}) \in Nat
  <1> DEFINE f == Totals(rows)
             A == Counted(rows, u, t, {"approved"})
             P == Counted(rows, u, t, {"pending"})
  <1>1. f \in [Requests -> Nat]
    BY TotalsType
  <1>2. A \cap P = {} /\ A \cup P = Counted(rows, u, t, {"pending", "approved"})
    BY DEF Counted
  <1> HIDE DEF f, A, P
  <1>3. Tally(f, A \cup P) = Tally(f, A) + Tally(f, P) /\ Tally(f, A) \in Nat /\ Tally(f, P) \in Nat
    BY <1>1, <1>2, TallyAdd, TallyType
  <1>4. /\ Used(rows, u, t, {"pending", "approved"}) = Tally(f, A \cup P)
        /\ Used(rows, u, t, {"approved"}) = Tally(f, A)
        /\ Used(rows, u, t, {"pending"}) = Tally(f, P)
    BY <1>2, UsedIsTally DEF f, A, P
  <1> QED
    BY <1>3, <1>4

(* An account that stands as it was holds what it held.                    *)
LEMMA FitsStays ==
    ASSUME TypeOK, TypeOK', NEW u \in Users, NEW t \in Types, NEW chosen \in Chosen, NEW total,
           Account(<<u, t>>)' = Account(<<u, t>>),
           Fits(Materialize(grant, u, chosen), req, u, t, total)
    PROVE  Fits(Materialize(grant, u, chosen), req, u, t, total)'
  <1>1. /\ policy'.negative = policy.negative
        /\ standard'[t] = standard[t]
        /\ grant'[<<u, t>>] = grant[<<u, t>>]
        /\ Used(req', u, t, {"pending", "approved"}) = Used(req, u, t, {"pending", "approved"})
    <2>1. <<policy'.negative, standard'[t], grant'[<<u, t>>],
            Used(req', u, t, {"pending", "approved"})>> =
          <<policy.negative, standard[t], grant[<<u, t>>],
            Used(req, u, t, {"pending", "approved"})>>
      BY DEF Account
    <2> QED
      BY <2>1
  <1>2. <<u, t>> \in Keys
    BY DEF Keys
  <1>3. Materialize(grant', u, chosen)[<<u, t>>] = Materialize(grant, u, chosen)[<<u, t>>]
    BY <1>1, <1>2 DEF Materialize
  <1>4. Entitlement(Materialize(grant, u, chosen), u, t)'
          = Entitlement(Materialize(grant, u, chosen), u, t)
    BY <1>1, <1>3 DEF Entitlement
  <1>5. Entitlement(Materialize(grant, u, chosen), u, t) \in Int
    BY <1>2, MaterializeType DEF Entitlement, TypeOK, Unlimited, Grant
  <1>6. req \in [Requests -> Request] /\ req' \in [Requests -> Request]
    BY DEF TypeOK
  <1>7. Available(Materialize(grant, u, chosen), req, u, t)'
          = Available(Materialize(grant, u, chosen), req, u, t)
    <2>1. PICK e \in Int : /\ e = Entitlement(Materialize(grant, u, chosen), u, t)
                           /\ e = Entitlement(Materialize(grant, u, chosen), u, t)'
      BY <1>4, <1>5
    <2>2. PICK a \in Nat, p \in Nat, b \in Nat, q \in Nat :
             /\ a = Used(req, u, t, {"approved"}) /\ p = Used(req, u, t, {"pending"})
             /\ b = Used(req', u, t, {"approved"}) /\ q = Used(req', u, t, {"pending"})
             /\ a + p = b + q
      BY <1>1, <1>6, UsedBoth
    <2>3. e - a - p = e - b - q
      BY <2>2
    <2> QED
      BY <2>1, <2>2, <2>3 DEF Available
  <1> QED
    BY <1>1, <1>4, <1>7 DEF Fits

LEMMA FitsStep ==
    ASSUME TypeOK, TypeOK', MovedOK, FitsInv, HistoryNext
    PROVE  FitsInv'
  <1> SUFFICES ASSUME NEW x \in Workers, op'[x].kind = "create",
                      <<op'[x].row.user, op'[x].row.type>> \notin moved'[x]
               PROVE  Fits(Materialize(grant, op[x].row.user, op[x].chosen), req,
                           op[x].row.user, op[x].row.type, op[x].row.total)'
    BY DEF FitsInv
  <1>1. CASE op'[x] = op[x]
    <2>1. PICK u \in Users, t \in Types, chosen \in Chosen, total \in Nat :
             /\ op[x].row.user = u /\ op[x].row.type = t
             /\ op[x].chosen = chosen /\ op[x].row.total = total
      BY <1>1, Shape DEF TypeOK, Create
    <2>2. <<u, t>> \in Keys /\ Counts(x)
      BY <1>1 DEF Keys, Counts
    <2>3. <<u, t>> \notin moved[x] /\ Account(<<u, t>>)' = Account(<<u, t>>)
      BY <1>1, <2>1, <2>2, NotMoved
    <2>4. Fits(Materialize(grant, u, chosen), req, u, t, total)
      BY <1>1, <2>1, <2>3 DEF FitsInv
    <2>5. Fits(Materialize(grant, u, chosen), req, u, t, total)'
      BY <2>3, <2>4, FitsStays
    <2> QED
      BY <1>1, <2>1, <2>5
  <1>2. CASE op'[x] # op[x]
    <2>1. PICK u \in Users, t \in Types, from \in Days, to \in Days, half \in BOOLEAN,
               excluded \in {Holidays, {}}, contract \in Contracts :
                 CreateRead(x, u, t, from, to, half, excluded, contract)
      BY <1>2, Begun DEF HistoryNext
    <2>2. PICK call :
             /\ call.row.user = u /\ call.row.type = t
             /\ Fits(Materialize(grant, u, call.chosen), req, u, t, call.row.total)
             /\ op' = [op EXCEPT ![x] = call]
             /\ UNCHANGED <<policy, standard, grant, req>>
      BY <2>1 DEF CreateRead, Begin, configVars, reqVars
    <2>3. op'[x] = call
      BY <2>2 DEF TypeOK
    <2>4. Fits(Materialize(grant, u, call.chosen), req, u, t, call.row.total)'
      BY <2>2, FitsQuiet
    <2> QED
      BY <2>2, <2>3, <2>4
  <1> QED
    BY <1>1, <1>2

(* The request that is inserted, and those that counted against it before, *)
(* are what counts now.                                                    *)
LEMMA InsertFits ==
    ASSUME TypeOK, FitsInv, NEW w \in Workers, CreateCommit(w), NEW r \in Requests,
           req[r].status = "absent", req'[r].status # "absent",
           <<req'[r].user, req'[r].type>> \notin moved[w],
           NEW counted, counted = {q \in Requests :
                            /\ req'[q].status \in {"pending", "approved"}
                            /\ req'[q].user = req'[r].user /\ req'[q].type = req'[r].type},
           NEW entitled, entitled = Entitlement(grant', req'[r].user, req'[r].type)
    PROVE  \/ policy.negative
           \/ entitled = Unlimited
           \/ FoldFunctionOnSet(+, 0, [q \in Requests |-> req'[q].total], counted) <= entitled
  <1> DEFINE row == op[w].row
             u == row.user
             t == row.type
             new == Totals(req')
             old == Totals(req)
             taken == Counted(req, u, t, {"approved"})
             pending == Counted(req, u, t, {"pending"})
  <1>1. op[w] \in Create
    BY Shape DEF CreateCommit, Serving, TypeOK
  <1>2. /\ row.status = "pending" /\ u \in Users /\ t \in Types /\ row.total \in Nat
        /\ row \in Request
    BY <1>1, LeaveAssumption DEF Create, Request, Status
  <1>3. req' = [req EXCEPT ![r] = row]
    <2>1. PICK q \in Requests : req' = [req EXCEPT ![q] = row]
      BY DEF CreateCommit
    <2>2. q = r
      BY <2>1 DEF TypeOK
    <2> QED BY <2>1, <2>2
  <1>4. req'[r] = row /\ \A q \in Requests : q # r => req'[q] = req[q]
    BY <1>3 DEF TypeOK
  <1>5. req \in [Requests -> Request] /\ req' \in [Requests -> Request]
    BY <1>2, <1>3 DEF TypeOK
  <1>6. old \in [Requests -> Nat] /\ new \in [Requests -> Nat]
    BY <1>5, TotalsType
  <1>7. new[r] = row.total /\ \A q \in Requests : q # r => new[q] = old[q]
    BY <1>4 DEF Totals
  <1>8. r \notin taken /\ r \notin pending /\ taken \cap pending = {}
        /\ taken \subseteq Requests /\ pending \subseteq Requests
    BY DEF Counted
  <1>9. counted = (taken \cup pending) \cup {r}
    <2>1. req'[r].user = u /\ req'[r].type = t /\ req'[r].status = "pending"
      BY <1>2, <1>4
    <2>2. \A q \in Requests : q \in counted <=> q = r \/ q \in taken \/ q \in pending
      BY <1>4, <2>1 DEF Counted
    <2> QED BY <1>8, <2>2
  <1>10. entitled = Entitlement(Materialize(grant, u, op[w].chosen), u, t)
    BY <1>4 DEF CreateCommit
  <1>11. \/ policy.negative
         \/ entitled = Unlimited
         \/ row.total <= entitled - Tally(old, taken) - Tally(old, pending)
    <2>1. Fits(Materialize(grant, u, op[w].chosen), req, u, t, row.total)
      BY <1>4 DEF CreateCommit, Serving, FitsInv
    <2>2. /\ Used(req, u, t, {"approved"}) = Tally(old, taken)
          /\ Used(req, u, t, {"pending"}) = Tally(old, pending)
      BY <1>5, UsedIsTally
    <2> QED BY <1>10, <2>1, <2>2 DEF Fits, Available
  <1>12. entitled \in Int
    <2>1. op[w].chosen \in Chosen /\ <<u, t>> \in Keys
      BY <1>1, <1>2 DEF Create, Keys
    <2>2. Materialize(grant, u, op[w].chosen) \in [Keys -> Grant]
      BY <1>2, <2>1, MaterializeType DEF TypeOK
    <2>3. standard[t] \in Int
      BY <1>2 DEF TypeOK, Unlimited
    <2> QED BY <1>10, <2>1, <2>2, <2>3 DEF Entitlement, Grant
  <1> HIDE DEF row, u, t, new, old, taken, pending
  <1>13. Tally(new, counted) = Tally(old, taken) + Tally(old, pending) + row.total
    <2>1. Tally(new, counted) = Tally(new, taken \cup pending) + Tally(new, {r})
      BY <1>6, <1>8, <1>9, TallyAdd
    <2>2. Tally(new, {r}) = row.total
      BY <1>6, <1>7, TallyOne
    <2>3. Tally(new, taken \cup pending) = Tally(new, taken) + Tally(new, pending)
      BY <1>6, <1>8, TallyAdd
    <2>4. Tally(new, taken) = Tally(old, taken)
      BY <1>6, <1>7, <1>8, TallySame
    <2>5. Tally(new, pending) = Tally(old, pending)
      BY <1>6, <1>7, <1>8, TallySame
    <2> QED BY <2>1, <2>2, <2>3, <2>4, <2>5
  <1>14. Tally(old, taken) \in Nat /\ Tally(old, pending) \in Nat
    BY <1>6, TallyType
  <1>15. counted \in SUBSET Requests
    BY <1>8, <1>9
  <1>16. FoldFunctionOnSet(+, 0, new, counted) = Tally(new, counted)
    BY <1>6, <1>15, FoldIsTally
  <1>17. new = [q \in Requests |-> req'[q].total]
    BY DEF new, Totals
  <1>18. \/ policy.negative
         \/ entitled = Unlimited
         \/ Tally(new, counted) <= entitled
    BY <1>2, <1>11, <1>12, <1>13, <1>14
  <1> QED BY <1>16, <1>17, <1>18

(* Only create_request makes a request: a cancellation or a review has     *)
(* found one.                                                              *)
LEMMA OverdraftStep ==
    ASSUME TypeOK, LevelsInv, Next, NEW r \in Requests,
           req[r].status = "absent", req'[r].status # "absent"
    PROVE  \E w \in Workers : CreateCommit(w)
  <1>1. ASSUME NEW w \in Workers, Asking(w)
        PROVE  CreateCommit(w)
    <2>1. CASE CancelCommit(w)
      <3>1. op[w].kind = "cancel" /\ op[w].request \in Requests
        BY <2>1, Shape DEF CancelCommit, Serving, TypeOK, Cancel
      <3>2. req[op[w].request].status # "absent"
        BY <3>1 DEF LevelsInv, Current
      <3> QED
        BY <2>1, <3>1, <3>2 DEF CancelCommit, TypeOK
    <2>2. ASSUME UNCHANGED req
          PROVE  FALSE
      BY <2>2
    <2> QED
      BY <1>1, <2>1, <2>2 DEF Asking, CreateRead, CancelRead, Begin, reqVars
  <1>2. ASSUME NEW w \in Workers, Reviewing(w)
        PROVE  FALSE
    <2>1. CASE ReviewCommit(w)
      <3>1. op[w].kind = "review" /\ op[w].request \in Requests
        BY <2>1, Shape DEF ReviewCommit, Serving, TypeOK, Review
      <3>2. req[op[w].request].status # "absent"
        BY <3>1 DEF LevelsInv, Current
      <3>3. req' = req \/ req' = [req EXCEPT ![op[w].request].status = op[w].verdict]
        BY <2>1 DEF ReviewCommit
      <3> QED
        BY <3>1, <3>2, <3>3 DEF TypeOK
    <2> QED
      BY <1>2, <2>1 DEF Reviewing, ReviewRead, Begin, reqVars
  <1>3. ASSUME NEW w \in Workers, Registered(w) \/ Granting(w) \/ Configuring(w) \/ Abort(w)
        PROVE  FALSE
    BY <1>3 DEF Registered, EnsureRead, EnsureCommit, Begin, Granting, UpsertGrant, MoveGrant,
                DeleteGrant, Configuring, Abort, UpdatePolicy, UpsertType, ArchiveType,
                UpsertRule, ArchiveRule, reqVars
  <1> QED
    BY <1>1, <1>2, <1>3 DEF Next

LEMMA OverdrawnStep ==
    ASSUME HistoryInv, LevelsInv, FitsInv, HistoryNext, NEW r \in Requests,
           req[r].status = "absent", req'[r].status # "absent",
           NEW u, u = req'[r].user, NEW t, t = req'[r].type,
           NEW counted, counted = {q \in Requests :
               /\ req'[q].status \in {"pending", "approved"}
               /\ req'[q].user = u /\ req'[q].type = t},
           NEW entitled, entitled = IF grant'[<<u, t>>].source = "none"
                                      THEN standard[t] ELSE grant'[<<u, t>>].days
    PROVE  \/ policy.negative
           \/ entitled = Unlimited
           \/ FoldFunctionOnSet(+, 0, [q \in Requests |-> req'[q].total], counted) <= entitled
           \/ \E w \in Workers : op'[w] # op[w] /\ <<u, t>> \in moved[w]
  <1>1. PICK w \in Workers : CreateCommit(w)
    BY OverdraftStep DEF HistoryInv, HistoryNext
  <1>2. op'[w] # op[w]
    BY <1>1 DEF CreateCommit, Serving, Finish, Idle, HistoryInv, TypeOK
  <1>3. entitled = Entitlement(grant', u, t)
    BY DEF Entitlement
  <1>4. CASE <<u, t>> \notin moved[w]
    BY <1>1, <1>3, <1>4, InsertFits DEF HistoryInv
  <1> QED
    BY <1>2, <1>4

LEMMA FitsInit == HistoryInit => FitsInv
  BY DEF HistoryInit, Init, FitsInv, Idle

(* A request that is accepted leaves its type a balance of zero or more,   *)
(* unless the policy allows a negative one, the type is unlimited, or the  *)
(* account was moved by others between create_request's test and its       *)
(* insert; with any number of calls under way.  The sum of days over the   *)
(* requests grows by those of the new one.                                 *)
THEOREM NothingIsOverdrawn == HistorySpec => NoOverdraft
  <1> DEFINE Inv == HistoryInv /\ LevelsInv /\ FitsInv
  <1>1. HistoryInit => Inv
    BY HistoryStart, LevelsInit, FitsInit DEF HistoryInit
  <1>2. Inv /\ [HistoryNext]_<<vars, moved>> => Inv'
    <2> SUFFICES ASSUME Inv, [HistoryNext]_<<vars, moved>> PROVE Inv'
      OBVIOUS
    <2>1. HistoryInv'
      BY HistoryStep
    <2>2. [Next]_vars
      BY DEF HistoryNext
    <2>3. LevelsInv'
      BY <2>2, LevelsStep DEF HistoryInv
    <2>4. CASE HistoryNext
      BY <2>1, <2>3, <2>4, FitsStep DEF HistoryInv
    <2>5. CASE UNCHANGED <<vars, moved>>
      <3> SUFFICES ASSUME NEW w \in Workers, op'[w].kind = "create",
                          <<op'[w].row.user, op'[w].row.type>> \notin moved'[w]
                   PROVE  Fits(Materialize(grant, op[w].row.user, op[w].chosen), req,
                               op[w].row.user, op[w].row.type, op[w].row.total)'
        BY <2>1, <2>3 DEF FitsInv
      <3>1. PICK call : call = op[w]
        OBVIOUS
      <3>2. UNCHANGED <<policy, standard, grant, req, op, moved>>
        BY <2>5 DEF vars, configVars, reqVars
      <3>3. Fits(Materialize(grant, call.row.user, call.chosen), req,
                 call.row.user, call.row.type, call.row.total)
        BY <3>1, <3>2 DEF FitsInv
      <3>4. Fits(Materialize(grant, call.row.user, call.chosen), req,
                 call.row.user, call.row.type, call.row.total)'
        BY <3>2, <3>3, FitsQuiet
      <3> QED BY <3>1, <3>2, <3>4
    <2> QED
      BY <2>4, <2>5
  <1>3. Inv /\ [HistoryNext]_<<vars, moved>> =>
          [\A r \in Requests :
              LET u == req'[r].user
                  t == req'[r].type
                  counted == {q \in Requests :
                                /\ req'[q].status \in {"pending", "approved"}
                                /\ req'[q].user = u /\ req'[q].type = t}
                  entitled == IF grant'[<<u, t>>].source = "none"
                                THEN standard[t] ELSE grant'[<<u, t>>].days
              IN
              req[r].status = "absent" /\ req'[r].status # "absent" =>
                  \/ policy.negative
                  \/ entitled = Unlimited
                  \/ FoldFunctionOnSet(+, 0, [q \in Requests |-> req'[q].total], counted)
                        <= entitled
                  \/ \E w \in Workers : op'[w] # op[w] /\ <<u, t>> \in moved[w]]_<<vars, moved>>
    BY OverdrawnStep
  <1> QED
    BY <1>1, <1>2, <1>3, PTL DEF HistorySpec, NoOverdraft
=============================================================================
