----------------------------- MODULE Organization -----------------------------
(***************************************************************************)
(* Who may do what and who manages whom, in one company                    *)
(* (auth-service/app/services/auth.py, api/routes/admin.py, deps/auth.py). *)
(*                                                                         *)
(* A user's rights are the permissions of the user's roles, what is        *)
(* allowed besides and not what is denied.  A token carries the rights as  *)
(* they were read while it was issued, in two queries; the attendance,     *)
(* leave and billing services go by the token.  A request reads, then      *)
(* commits; an association table is written as the difference to what was  *)
(* read, a whole set of overrides as new rows for those that were there.   *)
(***************************************************************************)
EXTENDS Integers, FiniteSets, FiniteSetsExt

CONSTANTS Users,         \* 1 .. n, in the order they were registered
          Permissions,
          Workers,
          Nobody,
          MaxRequests    \* bound on the requests

ASSUME OrganizationAssumption ==
    /\ IsFiniteSet(Users) /\ Users = 1 .. Cardinality(Users) /\ Users # {}
    /\ Nobody \notin Users
    /\ MaxRequests \in Nat

(* Role rows: those of the seed, and the company's own, which may have a   *)
(* key of the seed.  'recruiter' is one of the names the service suggests. *)
Row      == [key : {"company_owner", "employee"}, of : {"system"}]
            \union [key : {"employee", "recruiter"}, of : {"company"}]
Owner    == [key |-> "company_owner", of |-> "system"]
Employee == [key |-> "employee", of |-> "system"]
Own      == {r \in Row : r.of = "company"}

VARIABLES
    status,    \* of each user; 'active' is every status but 'deleted'
    manager,   \* each user's manager
    roles,     \* each user's role rows
    over,      \* each user's overrides: a permission allowed or denied
    rows,      \* the company's own role rows there are
    permits,   \* the permissions of each role row
    owner,     \* the owner the company's document names
    token,     \* the access token each user was issued last
    call,      \* what each worker is doing
    asked,     \* requests so far
    given,     \* history: the roles and overrides each user was given last
    raced,     \* history: users whose rights two requests changed at once
    unseated,  \* history: the company was left without an owner knowingly, or
               \* by a sign-in that had read of another owner
    founders   \* history: who held the owner's role at first

chart  == <<status, manager>>
rights == <<roles, over, rows, permits, owner>>
vars   == <<chart, rights, token, call, asked, given, raced, unseated, founders>>

-----------------------------------------------------------------------------
Overrides == [Permissions -> {"none", "allow", "deny"}]
Plain     == [p \in Permissions |-> "none"]

(* 'had' is what the user could do when the one or the other query was     *)
(* made, 'lifted' what was denied at the first and no role gave any more   *)
(* at the second, when it was not denied.                                  *)
Token   == [claims : SUBSET Permissions, had : SUBSET Permissions, lifted : SUBSET Permissions]
NoToken == [claims |-> {}, had |-> {}, lifted |-> {}]

Idle == [kind |-> "idle"]
Call == {Idle}
    \union [kind : {"assign", "restore"}, user : Users, old : SUBSET Row, new : SUBSET Row,
            makes : SUBSET Own, manager : Users \union {Nobody}]
    \union [kind : {"override"}, user : Users, new : Overrides, gone : BOOLEAN]
    \union [kind : {"role"}, row : Own, there : BOOLEAN,
            old : SUBSET Permissions, new : SUBSET Permissions]
    \union [kind : {"manage"}, user : Users, manager : Users \union {Nobody}]
    \union [kind : {"sign"}, user : Users, claims : SUBSET Permissions, over : Overrides,
            keeper : Users \union {Nobody}, sound : BOOLEAN, names : BOOLEAN,
            strip : SUBSET Users, bare : SUBSET Users, revives : BOOLEAN]
    \union [kind : {"document"}, owner : Users \union {Nobody}]

TypeOK ==
    /\ status \in [Users -> {"active", "deleted"}]
    /\ manager \in [Users -> Users \union {Nobody}]
    /\ roles \in [Users -> SUBSET Row]
    /\ over \in [Users -> Overrides]
    /\ rows \subseteq Own
    /\ permits \in [Row -> SUBSET Permissions]
    /\ owner \in Users \union {Nobody}
    /\ token \in [Users -> Token]
    /\ call \in [Workers -> Call]
    /\ asked \in 0 .. MaxRequests
    /\ given \in [Users -> [roles : SUBSET Row, over : Overrides]]
    /\ raced \subseteq Users
    /\ unseated \in BOOLEAN
    /\ founders \subseteq Users

(* A company whose owner is named, or an older one whose document does not *)
(* name the owner yet and in which several have the role                   *)
Init ==
    /\ status = [u \in Users |-> "active"]
    /\ manager = [u \in Users |-> Nobody]
    /\ founders \in (SUBSET Users) \ {{}}
    /\ roles = [u \in Users |-> {IF u \in founders THEN Owner ELSE Employee}]
    /\ over = [u \in Users |-> Plain]
    /\ rows = {}
    /\ permits = [r \in Row |-> IF r = Owner THEN Permissions ELSE {}]
    /\ owner \in IF Cardinality(founders) = 1 THEN founders \union {Nobody} ELSE {Nobody}
    /\ token = [u \in Users |-> NoToken]
    /\ call = [w \in Workers |-> Idle]
    /\ asked = 0
    /\ given = [u \in Users |-> [roles |-> roles[u], over |-> Plain]]
    /\ raced = {}
    /\ unseated = FALSE

-----------------------------------------------------------------------------
(* Rights *)

Live       == {u \in Users : status[u] = "active"}
Holders    == {u \in Live : Owner \in roles[u]}
Of(some)   == UNION {permits[r] : r \in some}
Marked(u, mark) == {p \in Permissions : over[u][p] = mark}

(* permission_keys_for_user                                                *)
Rights(u, some) == (Of(some) \union Marked(u, "allow")) \ Marked(u, "deny")

Free(w) == call[w] = Idle /\ asked < MaxRequests

Begins(w, c) ==
    /\ asked' = asked + 1
    /\ call' = [call EXCEPT ![w] = c]

Ends(w) == call' = [call EXCEPT ![w] = Idle] /\ UNCHANGED asked

(* The request fails: a row it would remove is gone, or one it would make  *)
(* is there.                                                               *)
Fails(w) == Ends(w) /\ UNCHANGED <<chart, rights, token, given, raced, unseated, founders>>

(* The rows of an association table, written as what has changed           *)
Fits(now, old, new)    == old \ new \subseteq now /\ (new \ old) \intersect now = {}
Written(now, old, new) == (now \ (old \ new)) \union (new \ old)

(* Somebody acts on the last user who has the owner's role.                *)
Unseats(after) == unseated' = (unseated \/ (Holders # {} /\ after = {}))

-----------------------------------------------------------------------------
(* Roles *)

(* resolve_role: any row with that key, made where a suggested name has    *)
(* none                                                                    *)
Resolved(key) ==
    LET known == {r \in Row : r.key = key /\ (r.of = "system" \/ r \in rows)}
    IN  IF known = {} THEN {[key |-> key, of |-> "company"]} ELSE known

RowsFor(keys) ==
    {chosen \in SUBSET UNION {Resolved(key) : key \in keys} :
        /\ \A key \in keys : \E r \in chosen : r \in Resolved(key)
        /\ Cardinality(chosen) = Cardinality(keys)}

(* Wrong: anybody can be made the owner                                    *)
MayHaveAny(u, keys) == TRUE

(* The owner's role is for the user the document names.                    *)
MayHave(u, keys) == "company_owner" \in keys => owner = u

(* assign_user_roles, update_employee; without a role a user becomes an    *)
(* employee.                                                               *)
Assigning(kind, u, new, m) ==
    [kind |-> kind, user |-> u, old |-> roles[u], new |-> new,
     makes |-> (new \intersect Own) \ rows, manager |-> m]

AssignRead(w, u, keys) ==
    /\ Free(w) /\ MayHave(u, keys)
    /\ \E new \in IF keys = {} THEN {{Employee}} ELSE RowsFor(keys) : Begins(w, Assigning("assign", u, new, Nobody))
    /\ UNCHANGED <<chart, rights, token, given, raced, unseated, founders>>

(* register_employee, of somebody who had been deleted                     *)
RestoreRead(w, u, key, m) ==
    /\ Free(w) /\ status[u] = "deleted" /\ key # "company_owner"
    /\ m \in Live \union {Nobody}
    /\ \E new \in RowsFor({key}) : Begins(w, Assigning("restore", u, new, m))
    /\ UNCHANGED <<chart, rights, token, given, raced, unseated, founders>>

Assigned(w, u, c, after) ==
    /\ roles' = [roles EXCEPT ![u] = after]
    /\ rows' = rows \union c.makes
    /\ IF c.kind = "restore"
       THEN status' = [status EXCEPT ![u] = "active"] /\ manager' = [manager EXCEPT ![u] = c.manager]
       ELSE UNCHANGED chart
    /\ given' = [given EXCEPT ![u].roles = c.new]
    /\ raced' = IF roles[u] # c.old THEN raced \union {u} ELSE raced
    /\ Unseats(Holders')
    /\ Ends(w)
    /\ UNCHANGED <<over, permits, owner, token, founders>>

(* Wrong: the new roles are added to those there are                       *)
AssignAdds(w) ==
    LET c == call[w] IN
    /\ c.kind \in {"assign", "restore"}
    /\ IF Fits(roles[c.user], c.old, c.old \union c.new) /\ c.makes \intersect rows = {}
       THEN Assigned(w, c.user, c, roles[c.user] \union c.new)
       ELSE Fails(w)

AssignCommit(w) ==
    LET c == call[w] IN
    /\ c.kind \in {"assign", "restore"}
    /\ IF Fits(roles[c.user], c.old, c.new) /\ c.makes \intersect rows = {}
       THEN Assigned(w, c.user, c, Written(roles[c.user], c.old, c.new))
       ELSE Fails(w)

(* create_role, update_role: a role's permissions                          *)
RoleRead(w, r, new) ==
    /\ Free(w)
    /\ Begins(w, [kind |-> "role", row |-> r, there |-> r \in rows, old |-> permits[r], new |-> new])
    /\ UNCHANGED <<chart, rights, token, given, raced, unseated, founders>>

RoleCommit(w) ==
    LET c == call[w] IN
    /\ c.kind = "role"
    /\ IF c.there = (c.row \in rows) /\ Fits(permits[c.row], c.old, c.new)
       THEN /\ rows' = rows \union {c.row}
            /\ permits' = [permits EXCEPT ![c.row] = Written(@, c.old, c.new)]
            /\ Ends(w)
            /\ UNCHANGED <<chart, roles, over, owner, token, given, raced, unseated, founders>>
       ELSE Fails(w)

-----------------------------------------------------------------------------
(* Overrides *)

(* set_user_permission_overrides: the rows there are will be deleted.      *)
OverrideRead(w, u, new) ==
    /\ Free(w)
    /\ Begins(w, [kind |-> "override", user |-> u, new |-> new, gone |-> FALSE])
    /\ UNCHANGED <<chart, rights, token, given, raced, unseated, founders>>

(* 'gone': another request has deleted those rows and made its own, which  *)
(* this one does not see; one row for a user and a permission.             *)
OverrideCommit(w) ==
    LET c     == call[w]  u == c.user
        kept  == IF c.gone THEN over[u] ELSE Plain
        clash == {p \in Permissions : kept[p] # "none" /\ c.new[p] # "none"}
    IN
    /\ c.kind = "override"
    /\ IF clash = {}
       THEN /\ over' = [over EXCEPT ![u] = [p \in Permissions |-> IF c.new[p] # "none" THEN c.new[p] ELSE kept[p]]]
            /\ given' = [given EXCEPT ![u].over = c.new]
            /\ raced' = IF c.gone THEN raced \union {u} ELSE raced
            /\ call' = [v \in Workers |->
                   IF v = w THEN Idle
                   ELSE IF call[v].kind = "override" /\ call[v].user = u THEN [call[v] EXCEPT !.gone = TRUE]
                   ELSE call[v]]
            /\ UNCHANGED <<chart, roles, rows, permits, owner, token, asked, unseated, founders>>
       ELSE Fails(w)

-----------------------------------------------------------------------------
(* Signing in *)

(* Wrong: also those who have been deleted                                 *)
KeeperEver ==
    LET ever == {u \in Users : Owner \in roles[u]}
    IN  IF owner \in ever THEN owner ELSE IF ever = {} THEN Nobody ELSE Min(ever)

(* normalize_company_owner_role: the owner is whom the document names or   *)
(* who was registered first.                                               *)
Keeper == IF owner \in Holders THEN owner ELSE IF Holders = {} THEN Nobody ELSE Min(Holders)

(* The others lose the role, and become employees if it was their only     *)
(* one.  Then the first query.  A login makes its user active again; some  *)
(* tokens are granted without settling (impersonate, kiosk_login).         *)
SignRead(w, u, way) ==
    LET keeper == IF way = "grant" THEN Nobody ELSE Keeper
        strip  == IF keeper = Nobody THEN {} ELSE Holders \ {keeper}
        bare   == {v \in strip : roles[v] = {Owner}}
        mine   == (roles[u] \ (IF u \in strip THEN {Owner} ELSE {}))
                  \union (IF u \in bare THEN {Employee} ELSE {})
    IN
    /\ Free(w)
    /\ Begins(w, [kind |-> "sign", user |-> u, claims |-> Of(mine), over |-> over[u],
                  keeper |-> keeper, sound |-> keeper \in Holders, names |-> keeper \notin {Nobody, owner},
                  strip |-> strip, bare |-> bare, revives |-> way = "login" /\ status[u] = "deleted"])
    /\ UNCHANGED <<chart, rights, token, given, raced, unseated, founders>>

(* Wrong: what a role grants cannot be denied                              *)
Allowed(c) == c.claims \union Marked(c.user, "allow")

(* issue_payload: the second query                                         *)
Claims(c) == (c.claims \union Marked(c.user, "allow")) \ Marked(c.user, "deny")

Could(c) == (c.claims \union {p \in Permissions : c.over[p] = "allow"})
            \ {p \in Permissions : c.over[p] = "deny"}

SignCommit(w) ==
    LET c == call[w]  u == c.user IN
    /\ c.kind = "sign"
    /\ IF \A v \in c.strip : Owner \in roles[v] /\ (v \in c.bare => Employee \notin roles[v])
       THEN /\ status' = IF c.revives THEN [status EXCEPT ![u] = "active"] ELSE status
            /\ UNCHANGED <<manager, over, rows, permits, raced, founders>>
            /\ roles' = [v \in Users |-> IF v \notin c.strip THEN roles[v]
                            ELSE (roles[v] \ {Owner}) \union (IF v \in c.bare THEN {Employee} ELSE {})]
            /\ owner' = IF c.names THEN c.keeper ELSE owner
            /\ given' = [v \in Users |-> IF v \in c.strip THEN [given[v] EXCEPT !.roles = roles'[v]] ELSE given[v]]
            /\ unseated' = (unseated \/ (c.sound /\ c.strip # {} /\ c.keeper \notin Holders))
            /\ token' = [token EXCEPT ![u] =
                   [claims |-> Claims(c), had |-> Could(c) \union Rights(u, roles'[u]),
                    lifted |-> {p \in c.claims \ Of(roles'[u]) : c.over[p] = "deny" /\ over[u][p] # "deny"}]]
            /\ Ends(w)
       ELSE Fails(w)

(* Whatever a request changes in the company's document (its onboarding,   *)
(* its lists, the security policy), it writes all of it as it was read.    *)
DocumentRead(w) ==
    /\ Free(w)
    /\ Begins(w, [kind |-> "document", owner |-> owner])
    /\ UNCHANGED <<chart, rights, token, given, raced, unseated, founders>>

DocumentCommit(w) ==
    /\ call[w].kind = "document"
    /\ owner' = call[w].owner
    /\ Ends(w)
    /\ UNCHANGED <<chart, roles, over, rows, permits, token, given, raced, unseated, founders>>

-----------------------------------------------------------------------------
(* Employees and their managers *)

(* delete_employee; nobody deletes themselves.                             *)
Delete(u) ==
    /\ asked < MaxRequests /\ asked' = asked + 1
    /\ Users # {u}
    /\ status' = [status EXCEPT ![u] = "deleted"]
    /\ UNCHANGED roles /\ Unseats(Holders')
    /\ UNCHANGED <<manager, over, rows, permits, owner, token, call, given, raced, founders>>

(* update_employee_status, update_employee, reset_password: also somebody  *)
(* who had been deleted is active again.                                   *)
Revive(u) ==
    /\ asked < MaxRequests /\ asked' = asked + 1
    /\ status[u] = "deleted"
    /\ status' = [status EXCEPT ![u] = "active"]
    /\ UNCHANGED <<manager, rights, token, call, given, raced, unseated, founders>>

(* resolve_manager, update_employee                                        *)
ManageRead(w, u, m) ==
    /\ Free(w) /\ m \in Live \union {Nobody} /\ m # u
    /\ Begins(w, [kind |-> "manage", user |-> u, manager |-> m])
    /\ UNCHANGED <<chart, rights, token, given, raced, unseated, founders>>

ManageCommit(w) ==
    /\ call[w].kind = "manage"
    /\ manager' = [manager EXCEPT ![call[w].user] = call[w].manager]
    /\ Ends(w)
    /\ UNCHANGED <<status, rights, token, given, raced, unseated, founders>>

(* direct_and_indirect_report_ids: down, over the users there are          *)
Team(m) ==
    LET grow[n \in 0 .. Cardinality(Users)] ==
            IF n = 0 THEN {m} ELSE grow[n - 1] \union {u \in Live : manager[u] \in grow[n - 1]}
    IN  grow[Cardinality(Users)]

(* Wrong: also across managers who have been deleted                       *)
AboveAll(u) ==
    LET climb[n \in 0 .. Cardinality(Users)] ==
            IF n = 0 THEN {u} ELSE climb[n - 1] \union {manager[v] : v \in climb[n - 1] \ {Nobody}}
    IN  climb[Cardinality(Users)] \ {u, Nobody}

(* list_organization_people: up, until a manager who is met a second time  *)
(* or has been deleted                                                     *)
Above(u) ==
    LET climb[n \in 0 .. Cardinality(Users)] ==
            IF n = 0 THEN [met |-> {u}, at |-> manager[u]]
            ELSE LET c == climb[n - 1]
                 IN  IF c.at \in Live \ c.met THEN [met |-> c.met \union {c.at}, at |-> manager[c.at]] ELSE c
    IN  climb[Cardinality(Users)].met \ {u}

-----------------------------------------------------------------------------
Keys == {r.key : r \in Row}

Deciding(w) ==
    \/ \E u \in Users :
        \/ \E keys \in SUBSET Keys : AssignRead(w, u, keys)
        \/ \E key \in Keys, m \in Users \union {Nobody} : RestoreRead(w, u, key, m)
        \/ \E new \in Overrides : OverrideRead(w, u, new)
    \/ \E r \in Own, new \in SUBSET Permissions : RoleRead(w, r, new)
    \/ AssignCommit(w) \/ OverrideCommit(w) \/ RoleCommit(w)

Signing(w) ==
    \/ \E u \in Users, way \in {"login", "refresh", "grant"} : SignRead(w, u, way)
    \/ SignCommit(w)
    \/ DocumentRead(w) \/ DocumentCommit(w)

Managing(w) ==
    \/ \E u \in Users, m \in Users \union {Nobody} : ManageRead(w, u, m)
    \/ ManageCommit(w)

Next ==
    \/ \E w \in Workers : Deciding(w) \/ Signing(w) \/ Managing(w)
    \/ \E u \in Users : Delete(u) \/ Revive(u)

Spec == Init /\ [][Next]_vars

-----------------------------------------------------------------------------
(* Properties *)

(* The owner's role stays with those who had it at first: no request,      *)
(* however it overlaps with others, gives it to somebody else              *)
(* (assign_user_roles, update_employee, normalize_company_owner_role).     *)
OwnershipNeverSpreads == \A u \in Users : Owner \in roles[u] => u \in founders

(* Some user who has not been deleted has the owner's role, unless         *)
(* somebody has taken it from the last, or deleted the last, or a sign-in  *)
(* settled on an owner who was lost meanwhile                              *)
(* (normalize_company_owner_role, delete_employee, assign_user_roles).     *)
OwnerRemains == Holders # {} \/ unseated

(* A user's roles and overrides are those given by one request, the last,  *)
(* unless two requests changed them at once (assign_user_roles,            *)
(* update_employee, register_employee, set_user_permission_overrides).     *)
RightsAsGiven ==
    \A u \in Users \ raced : roles[u] = given[u].roles /\ over[u] = given[u].over

(* A token grants nothing its user could not do at the one or the other    *)
(* moment it was read from, but what was denied at the first and no role   *)
(* gave any more at the second (issue_payload, permission_keys_for_user).  *)
TokenEarned == \A u \in Users : token[u].claims \ token[u].had \subseteq token[u].lifted

(* Seen from below and from above, the chart is the same: a manager has a  *)
(* user in the team exactly if that user finds the manager on the way up,  *)
(* whatever circles and gaps the chart has                                 *)
(* (direct_and_indirect_report_ids, list_organization_people).             *)
SeenFromBothEnds ==
    \A u, m \in Live : u # m => (m \in Above(u) <=> u \in Team(m))
=============================================================================
