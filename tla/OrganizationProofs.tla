-------------------------- MODULE OrganizationProofs --------------------------
(* Type correctness of Organization, and what it promises about owners,    *)
(* rights and tokens, for any number of users, permissions and requests;   *)
(* then Billing, which shares no state with it: what a company may use is  *)
(* what it was promised, and what it has paid for.                         *)
EXTENDS Organization, Billing, FiniteSetTheorems, WellFoundedInduction, TLAPS

-----------------------------------------------------------------------------
(* Helpers *)

LEMMA UsersAreNumbers == Users \subseteq Nat
  <1>1. Users = 1 .. Cardinality(Users)
    BY OrganizationAssumption
  <1>2. \A x, n : x \in 1 .. n => x \in Nat
    OBVIOUS
  <1> QED BY <1>1, <1>2

LEMMA Least ==
  ASSUME NEW S \in SUBSET Nat, S # {}
  PROVE  Min(S) \in S /\ \A m \in S : Min(S) <= m
  <1>1. IsWellFoundedOn(OpToRel(<, Nat), Nat)
    BY NatLessThanWellFounded
  <1>2. PICK n \in S : \A m \in S : ~(<<m, n>> \in OpToRel(<, Nat))
    BY <1>1, WFMin
  <1>3. \A m \in S : ~(m < n)
    BY <1>2 DEF OpToRel
  <1>4. \A m \in S : n <= m
    BY <1>3
  <1> QED BY <1>4 DEF Min

(* What holds at 0 and of every next number up to n holds up to n.         *)
LEMMA UpTo ==
    ASSUME NEW n \in Nat, NEW S, 0 \in S,
           \A k \in 0 .. n - 1 : k \in S => k + 1 \in S
    PROVE  0 .. n \subseteq S
  <1> DEFINE others == {k \in 0 .. n : k \notin S}
  <1>1. SUFFICES ASSUME others # {}
                 PROVE  FALSE
    OBVIOUS
  <1>2. others \in SUBSET Nat
    OBVIOUS
  <1> DEFINE least == Min(others)
  <1>3. least \in others /\ \A k \in others : least <= k
    BY <1>1, <1>2, Least
  <1> HIDE DEF least
  <1>4. least \in 0 .. n /\ least \notin S /\ least # 0
    BY <1>3
  <1>5. least - 1 \in 0 .. n - 1 /\ ~(least <= least - 1)
    BY <1>4
  <1>6. least - 1 \in S
    BY <1>3, <1>5
  <1>7. (least - 1) + 1 \in S
    BY <1>5, <1>6
  <1> QED BY <1>4, <1>7

(* g is a step of T repeated n times from a start.                         *)
Repeats(g, n, T, start, step) ==
    /\ g \in [0 .. n -> T]
    /\ g[0] = start
    /\ \A k \in 1 .. n : g[k] = step[g[k - 1]]

LEMMA Repetition ==
    ASSUME NEW n \in Nat, NEW T, NEW start \in T, NEW step \in [T -> T]
    PROVE  \E g : Repeats(g, n, T, start, step)
  <1> DEFINE Made(k, g) == g[0] = start /\ \A i \in 1 .. k : g[i] = step[g[i - 1]]
             S == {k \in 0 .. n : \E g \in [0 .. k -> T] : Made(k, g)}
  <1>1. 0 \in S
    <2> DEFINE h == [i \in 0 .. 0 |-> start]
    <2>1. h \in [0 .. 0 -> T] /\ h[0] = start
      OBVIOUS
    <2> HIDE DEF h
    <2>2. Made(0, h) /\ 0 \in 0 .. n
      BY <2>1
    <2> QED BY <2>1, <2>2
  <1>2. ASSUME NEW k \in 0 .. n - 1, k \in S
        PROVE  k + 1 \in S
    <2>1. PICK g \in [0 .. k -> T] : Made(k, g)
      BY <1>2
    <2> DEFINE h == [i \in 0 .. k + 1 |-> IF i = k + 1 THEN step[g[k]] ELSE g[i]]
    <2>2. \A i \in 0 .. k + 1 : h[i] \in T
      OBVIOUS
    <2>3. h \in [0 .. k + 1 -> T]
      BY <2>2
    <2>4. h[0] = start
      BY <2>1
    <2>5. ASSUME NEW i \in 1 .. k + 1
          PROVE  h[i] = step[h[i - 1]]
      <3>1. CASE i = k + 1
        BY <3>1
      <3>2. CASE i # k + 1
        <4>1. i \in 1 .. k /\ i - 1 \in 0 .. k /\ i - 1 # k + 1
          BY <3>2
        <4> QED BY <2>1, <4>1
      <3> QED BY <3>1, <3>2
    <2> HIDE DEF h
    <2>6. k + 1 \in 0 .. n /\ Made(k + 1, h)
      BY <2>4, <2>5
    <2> QED BY <2>3, <2>6
  <1> HIDE DEF S
  <1>3. 0 .. n \subseteq S
    BY <1>1, <1>2, UpTo
  <1>4. n \in S
    BY <1>3
  <1> QED BY <1>4 DEF S, Repeats

(* Who keeps the owner's role has it.                                      *)
LEMMA KeeperHolds ==
  /\ Holders \subseteq Users
  /\ Keeper = Nobody \/ Keeper \in Holders
  <1>1. Holders \subseteq Users
    BY DEF Holders, Live
  <1>2. Holders # {} => Min(Holders) \in Holders
    BY <1>1, Least, UsersAreNumbers
  <1> QED BY <1>1, <1>2 DEF Keeper

LEMMA RowType ==
  /\ Owner \in Row /\ Employee \in Row /\ Own \subseteq Row /\ Owner \notin Own
  /\ Owner # Employee
  BY DEF Owner, Employee, Own, Row

(* The rows found for some keys, of which the owner's is found by its key  *)
LEMMA RowsFound ==
  ASSUME NEW keys \in SUBSET Keys, NEW new \in RowsFor(keys)
  PROVE  new \subseteq Row /\ (Owner \in new => "company_owner" \in keys)
  <1>1. ASSUME NEW key \in Keys
        PROVE  Resolved(key) \subseteq {r \in Row : r.key = key}
    <2>1. key \in {"company_owner", "employee", "recruiter"}
      BY DEF Keys, Row
    <2>2. CASE key = "recruiter"
      <3>1. [key |-> key, of |-> "company"] \in Row
        BY <2>2 DEF Row
      <3> QED BY <3>1 DEF Resolved
    <2>3. CASE key = "company_owner"
      <3>1. Owner \in {r \in Row : r.key = key /\ (r.of = "system" \/ r \in rows)}
        BY <2>3, RowType DEF Owner
      <3> QED BY <3>1 DEF Resolved
    <2>4. CASE key = "employee"
      <3>1. Employee \in {r \in Row : r.key = key /\ (r.of = "system" \/ r \in rows)}
        BY <2>4, RowType DEF Employee
      <3> QED BY <3>1 DEF Resolved
    <2> QED BY <2>1, <2>2, <2>3, <2>4
  <1>2. new \subseteq UNION {Resolved(key) : key \in keys}
    BY DEF RowsFor
  <1>3. ASSUME NEW r \in new PROVE r \in Row /\ r.key \in keys
    <2>1. PICK key \in keys : r \in Resolved(key)
      BY <1>2, <1>3
    <2> QED BY <1>1, <2>1
  <1> QED BY <1>3 DEF Owner

LEMMA PlainType == Plain \in Overrides
  BY DEF Plain, Overrides

-----------------------------------------------------------------------------
(* The calls *)

LEMMA IdleType == Idle \in Call /\ Idle.kind = "idle"
  BY DEF Idle, Call

LEMMA AssignCall ==
  ASSUME NEW c \in Call, c.kind \in {"assign", "restore"}
  PROVE  /\ c.user \in Users /\ c.old \in SUBSET Row /\ c.new \in SUBSET Row
         /\ c.makes \in SUBSET Own /\ c.manager \in Users \union {Nobody}
  BY DEF Call, Idle

LEMMA OverrideCall ==
  ASSUME NEW c \in Call, c.kind = "override"
  PROVE  c.user \in Users /\ c.new \in Overrides /\ [c EXCEPT !.gone = TRUE] \in Call
  <1>1. c \in [kind : {"override"}, user : Users, new : Overrides, gone : BOOLEAN]
    BY DEF Call, Idle
  <1>2. [c EXCEPT !.gone = TRUE]
            \in [kind : {"override"}, user : Users, new : Overrides, gone : BOOLEAN]
    BY <1>1
  <1> QED BY <1>1, <1>2 DEF Call

LEMMA RoleCall ==
  ASSUME NEW c \in Call, c.kind = "role"
  PROVE  c.row \in Own /\ c.old \in SUBSET Permissions /\ c.new \in SUBSET Permissions
  BY DEF Call, Idle

LEMMA ManageCall ==
  ASSUME NEW c \in Call, c.kind = "manage"
  PROVE  c.user \in Users /\ c.manager \in Users \union {Nobody}
  BY DEF Call, Idle

LEMMA SignCall ==
  ASSUME NEW c \in Call, c.kind = "sign"
  PROVE  /\ c.user \in Users /\ c.claims \in SUBSET Permissions /\ c.over \in Overrides
         /\ c.keeper \in Users \union {Nobody} /\ c.names \in BOOLEAN
         /\ c.strip \in SUBSET Users /\ c.bare \in SUBSET Users
  BY DEF Call, Idle

LEMMA DocumentCall ==
  ASSUME NEW c \in Call, c.kind = "document"
  PROVE  c.owner \in Users \union {Nobody}
  BY DEF Call, Idle

Ways == {"login", "refresh", "grant"}

-----------------------------------------------------------------------------
(* Type correctness *)

RightsType ==
    /\ roles \in [Users -> SUBSET Row] /\ over \in [Users -> Overrides]
    /\ rows \subseteq Own /\ permits \in [Row -> SUBSET Permissions]
    /\ owner \in Users \union {Nobody}

(* A request begins: all it changes is the call.                           *)
LEMMA TypeBegins ==
  ASSUME TypeOK, NEW w \in Workers, NEW c \in Call, Free(w), Begins(w, c),
         UNCHANGED <<chart, rights, token, given, raced, unseated, founders>>
  PROVE  TypeOK'
  <1>1. asked' \in 0 .. MaxRequests
    BY OrganizationAssumption DEF Free, Begins, TypeOK
  <1>2. call' \in [Workers -> Call]
    BY DEF Begins, TypeOK
  <1> QED BY <1>1, <1>2 DEF TypeOK, chart, rights

LEMMA TypeFails ==
  ASSUME TypeOK, NEW w \in Workers, Fails(w)
  PROVE  TypeOK'
  BY IdleType DEF Fails, Ends, TypeOK, chart, rights

LEMMA AssigningType ==
  ASSUME TypeOK, NEW u \in Users, NEW new \in SUBSET Row, NEW m \in Users \union {Nobody},
         NEW kind \in {"assign", "restore"}
  PROVE  Assigning(kind, u, new, m) \in Call
  BY DEF TypeOK, Assigning, Call

LEMMA TypeAssignRead ==
  ASSUME TypeOK, NEW w \in Workers, NEW u \in Users, NEW keys \in SUBSET Keys,
         AssignRead(w, u, keys)
  PROVE  TypeOK'
  <1>1. PICK new \in IF keys = {} THEN {{Employee}} ELSE RowsFor(keys) :
            Begins(w, Assigning("assign", u, new, Nobody))
    BY DEF AssignRead
  <1>2. new \in SUBSET Row
    BY RowType, RowsFound
  <1>3. Assigning("assign", u, new, Nobody) \in Call
    BY <1>2, AssigningType
  <1> QED BY <1>1, <1>3, TypeBegins DEF AssignRead

LEMMA TypeRestoreRead ==
  ASSUME TypeOK, NEW w \in Workers, NEW u \in Users, NEW key \in Keys,
         NEW m \in Users \union {Nobody}, RestoreRead(w, u, key, m)
  PROVE  TypeOK'
  <1>1. PICK new \in RowsFor({key}) : Begins(w, Assigning("restore", u, new, m))
    BY DEF RestoreRead
  <1>2. new \in SUBSET Row
    BY RowsFound
  <1>3. Assigning("restore", u, new, m) \in Call
    BY <1>2, AssigningType
  <1> QED BY <1>1, <1>3, TypeBegins DEF RestoreRead

LEMMA TypeAssigned ==
  ASSUME TypeOK, NEW w \in Workers, NEW c \in Call, c.kind \in {"assign", "restore"},
         NEW after \in SUBSET Row, Assigned(w, c.user, c, after)
  PROVE  TypeOK'
  <1>1. /\ c.user \in Users /\ c.new \in SUBSET Row
        /\ c.makes \in SUBSET Own /\ c.manager \in Users \union {Nobody}
    BY AssignCall
  <1>2. status' \in [Users -> {"active", "deleted"}] /\ manager' \in [Users -> Users \union {Nobody}]
    BY <1>1 DEF Assigned, TypeOK, chart
  <1>3. roles' \in [Users -> SUBSET Row] /\ rows' \subseteq Own
    BY <1>1 DEF Assigned, TypeOK
  <1>4. given' \in [Users -> [roles : SUBSET Row, over : Overrides]] /\ raced' \subseteq Users
    BY <1>1 DEF Assigned, TypeOK
  <1>5. call' \in [Workers -> Call] /\ asked' \in 0 .. MaxRequests
    BY IdleType DEF Assigned, Ends, TypeOK
  <1>6. unseated' \in BOOLEAN
    BY DEF Assigned, Unseats
  <1> QED BY <1>2, <1>3, <1>4, <1>5, <1>6 DEF Assigned, TypeOK

LEMMA TypeAssignCommit ==
  ASSUME TypeOK, NEW w \in Workers, AssignCommit(w)
  PROVE  TypeOK'
  <1>1. call[w] \in Call /\ call[w].kind \in {"assign", "restore"}
    BY DEF AssignCommit, TypeOK
  <1>2. CASE Fails(w)
    BY <1>2, TypeFails
  <1>3. CASE Assigned(w, call[w].user, call[w],
                      Written(roles[call[w].user], call[w].old, call[w].new))
    <2>1. Written(roles[call[w].user], call[w].old, call[w].new) \in SUBSET Row
      BY <1>1, AssignCall DEF Written, TypeOK
    <2> QED BY <1>1, <1>3, <2>1, TypeAssigned
  <1> QED BY <1>2, <1>3 DEF AssignCommit

LEMMA TypeRoles ==
  ASSUME TypeOK, NEW w \in Workers
  PROVE  /\ \A r \in Own, new \in SUBSET Permissions : RoleRead(w, r, new) => TypeOK'
         /\ RoleCommit(w) => TypeOK'
  <1>1. ASSUME NEW r \in Own, NEW new \in SUBSET Permissions, RoleRead(w, r, new) PROVE TypeOK'
    <2>1. permits[r] \in SUBSET Permissions
      BY RowType DEF TypeOK
    <2>2. [kind |-> "role", row |-> r, there |-> r \in rows, old |-> permits[r], new |-> new] \in Call
      BY <2>1 DEF Call
    <2> QED BY <1>1, <2>2, TypeBegins DEF RoleRead
  <1>2. ASSUME RoleCommit(w), ~Fails(w) PROVE TypeOK'
    <2>1. call[w] \in Call /\ call[w].kind = "role"
      BY <1>2 DEF RoleCommit, TypeOK
    <2>2. /\ rows' = rows \union {call[w].row}
          /\ permits' = [permits EXCEPT ![call[w].row] = Written(@, call[w].old, call[w].new)]
          /\ Ends(w)
          /\ UNCHANGED <<chart, roles, over, owner, token, given, raced, unseated, founders>>
      BY <1>2 DEF RoleCommit
    <2>3. call[w].row \in Own /\ call[w].row \in Row
          /\ Written(permits[call[w].row], call[w].old, call[w].new) \in SUBSET Permissions
      BY <2>1, RoleCall, RowType DEF Written, TypeOK
    <2>4. permits' \in [Row -> SUBSET Permissions] /\ rows' \subseteq Own
      BY <2>2, <2>3 DEF TypeOK
    <2> QED BY <2>2, <2>4, IdleType DEF TypeOK, Ends, chart
  <1> QED BY <1>1, <1>2, TypeFails

LEMMA TypeOverrides ==
  ASSUME TypeOK, NEW w \in Workers
  PROVE  /\ \A u \in Users, new \in Overrides : OverrideRead(w, u, new) => TypeOK'
         /\ OverrideCommit(w) => TypeOK'
  <1>1. ASSUME NEW u \in Users, NEW new \in Overrides, OverrideRead(w, u, new) PROVE TypeOK'
    <2>1. [kind |-> "override", user |-> u, new |-> new, gone |-> FALSE] \in Call
      BY DEF Call
    <2> QED BY <1>1, <2>1, TypeBegins DEF OverrideRead
  <1>2. ASSUME OverrideCommit(w), ~Fails(w) PROVE TypeOK'
    <2> DEFINE c == call[w]
               u == c.user
               kept == IF c.gone THEN over[u] ELSE Plain
               mix  == [p \in Permissions |-> IF c.new[p] # "none" THEN c.new[p] ELSE kept[p]]
    <2>1. c \in Call /\ c.kind = "override"
      BY <1>2 DEF OverrideCommit, TypeOK
    <2>2. u \in Users /\ c.new \in Overrides
      BY <2>1, OverrideCall
    <2>3. kept \in Overrides
      BY <2>2, PlainType DEF TypeOK
    <2>4. mix \in Overrides
      BY <2>2, <2>3 DEF Overrides
    <2>5. /\ over' = [over EXCEPT ![u] = mix]
          /\ given' = [given EXCEPT ![u].over = c.new]
          /\ raced' = IF c.gone THEN raced \union {u} ELSE raced
      BY <1>2 DEF OverrideCommit
    <2>6. UNCHANGED <<chart, roles, rows, permits, owner, token, asked, unseated, founders>>
      BY <1>2 DEF OverrideCommit
    <2>7. call' \in [Workers -> Call]
      <3>1. call' = [v \in Workers |->
                        IF v = w THEN Idle
                        ELSE IF call[v].kind = "override" /\ call[v].user = u
                             THEN [call[v] EXCEPT !.gone = TRUE] ELSE call[v]]
        BY <1>2 DEF OverrideCommit
      <3> QED BY <3>1, IdleType, OverrideCall DEF TypeOK
    <2> HIDE DEF mix, c, u
    <2>8. over' \in [Users -> Overrides]
      BY <2>2, <2>4, <2>5 DEF TypeOK
    <2>9. given' \in [Users -> [roles : SUBSET Row, over : Overrides]] /\ raced' \subseteq Users
      BY <2>2, <2>5 DEF TypeOK
    <2> QED BY <2>6, <2>7, <2>8, <2>9 DEF TypeOK, chart
  <1> QED BY <1>1, <1>2, TypeFails

(* What a sign-in would remember of the rights there are                   *)
Signed(u, way) ==
    LET keeper == IF way = "grant" THEN Nobody ELSE Keeper
        strip  == IF keeper = Nobody THEN {} ELSE Holders \ {keeper}
        bare   == {v \in strip : roles[v] = {Owner}}
        mine   == (roles[u] \ (IF u \in strip THEN {Owner} ELSE {}))
                  \union (IF u \in bare THEN {Employee} ELSE {})
    IN  [kind |-> "sign", user |-> u, claims |-> Of(mine), over |-> over[u],
         keeper |-> keeper, sound |-> keeper \in Holders, names |-> keeper \notin {Nobody, owner},
         strip |-> strip, bare |-> bare, revives |-> way = "login" /\ status[u] = "deleted"]

LEMMA SignedType ==
  ASSUME TypeOK, NEW u \in Users, NEW way \in Ways
  PROVE  Signed(u, way) \in Call
  <1> DEFINE keeper == IF way = "grant" THEN Nobody ELSE Keeper
             strip  == IF keeper = Nobody THEN {} ELSE Holders \ {keeper}
             bare   == {v \in strip : roles[v] = {Owner}}
             mine   == (roles[u] \ (IF u \in strip THEN {Owner} ELSE {}))
                       \union (IF u \in bare THEN {Employee} ELSE {})
  <1>1. keeper \in Users \union {Nobody} /\ strip \subseteq Users
    BY KeeperHolds
  <1>2. bare \subseteq Users
    BY <1>1
  <1>3. mine \subseteq Row
    BY RowType DEF TypeOK
  <1>4. Of(mine) \subseteq Permissions
    BY <1>3 DEF Of, TypeOK
  <1>5. over[u] \in Overrides
    BY DEF TypeOK
  <1>6. Signed(u, way) =
          [kind |-> "sign", user |-> u, claims |-> Of(mine), over |-> over[u],
           keeper |-> keeper, sound |-> keeper \in Holders,
           names |-> keeper \notin {Nobody, owner}, strip |-> strip, bare |-> bare,
           revives |-> way = "login" /\ status[u] = "deleted"]
    BY DEF Signed
  <1>7. /\ (keeper \in Holders) \in BOOLEAN /\ (keeper \notin {Nobody, owner}) \in BOOLEAN
        /\ (way = "login" /\ status[u] = "deleted") \in BOOLEAN
    OBVIOUS
  <1> HIDE DEF keeper, strip, bare, mine
  <1> QED BY <1>1, <1>2, <1>4, <1>5, <1>6, <1>7 DEF Call

LEMMA TypeSignRead ==
  ASSUME TypeOK, NEW w \in Workers, NEW u \in Users, NEW way \in Ways,
         SignRead(w, u, way)
  PROVE  TypeOK'
  <1>1. Begins(w, Signed(u, way))
    BY DEF SignRead, Signed
  <1> QED BY <1>1, SignedType, TypeBegins DEF SignRead

LEMMA TypeSignCommit ==
  ASSUME TypeOK, NEW w \in Workers, SignCommit(w)
  PROVE  TypeOK'
  <1> SUFFICES ASSUME ~Fails(w) PROVE TypeOK'
    BY TypeFails
  <1> DEFINE c == call[w]
             after(v) == (roles[v] \ {Owner}) \union (IF v \in c.bare THEN {Employee} ELSE {})
  <1>1. c \in Call /\ c.kind = "sign"
    BY DEF SignCommit, TypeOK
  <1>2. /\ c.user \in Users /\ c.claims \in SUBSET Permissions /\ c.over \in Overrides
        /\ c.keeper \in Users \union {Nobody} /\ c.strip \in SUBSET Users
    BY <1>1, SignCall
  <1>3. c.names => c.keeper \in Users \union {Nobody}
    BY <1>2
  <1>4. /\ UNCHANGED <<manager, over, rows, permits, raced, founders>>
        /\ status' = (IF c.revives THEN [status EXCEPT ![c.user] = "active"] ELSE status)
        /\ roles' = [v \in Users |-> IF v \notin c.strip THEN roles[v] ELSE after(v)]
        /\ owner' = IF c.names THEN c.keeper ELSE owner
        /\ given' = [v \in Users |-> IF v \in c.strip THEN [given[v] EXCEPT !.roles = roles'[v]]
                                     ELSE given[v]]
        /\ Ends(w)
    BY DEF SignCommit
  <1>5. unseated' \in BOOLEAN
    BY DEF SignCommit
  <1>6. token' = [token EXCEPT ![c.user] =
                   [claims |-> Claims(c), had |-> Could(c) \union Rights(c.user, roles'[c.user]),
                    lifted |-> {p \in c.claims \ Of(roles'[c.user]) :
                                   c.over[p] = "deny" /\ over[c.user][p] # "deny"}]]
    BY DEF SignCommit
  <1>7. \A v \in Users : after(v) \in SUBSET Row
    BY RowType DEF TypeOK
  <1> HIDE DEF after
  <1>8. roles' \in [Users -> SUBSET Row]
    BY <1>4, <1>7 DEF TypeOK
  <1>9. given' \in [Users -> [roles : SUBSET Row, over : Overrides]]
    BY <1>4, <1>8 DEF TypeOK
  <1>10. owner' \in Users \union {Nobody}
    BY <1>2, <1>4 DEF TypeOK
  <1>11. Claims(c) \subseteq Permissions /\ Could(c) \subseteq Permissions
    BY <1>2 DEF Claims, Could, Marked
  <1>12. Rights(c.user, roles'[c.user]) \subseteq Permissions
    <2>1. roles'[c.user] \subseteq Row
      BY <1>2, <1>8
    <2>2. Of(roles'[c.user]) \subseteq Permissions
      BY <2>1 DEF Of, TypeOK
    <2> QED BY <2>2 DEF Rights, Marked
  <1>13. [claims |-> Claims(c), had |-> Could(c) \union Rights(c.user, roles'[c.user]),
          lifted |-> {p \in c.claims \ Of(roles'[c.user]) :
                         c.over[p] = "deny" /\ over[c.user][p] # "deny"}] \in Token
    BY <1>2, <1>11, <1>12 DEF Token
  <1>14. token' \in [Users -> Token]
    BY <1>2, <1>6, <1>13 DEF TypeOK
  <1>15. call' \in [Workers -> Call] /\ UNCHANGED asked
    BY <1>4, IdleType DEF TypeOK, Ends
  <1> HIDE DEF c
  <1>16. status' \in [Users -> {"active", "deleted"}]
    BY <1>4 DEF TypeOK
  <1> QED BY <1>4, <1>5, <1>8, <1>9, <1>10, <1>14, <1>15, <1>16 DEF TypeOK

LEMMA TypeDocuments ==
  ASSUME TypeOK, NEW w \in Workers, DocumentRead(w) \/ DocumentCommit(w)
  PROVE  TypeOK'
  <1>1. CASE DocumentRead(w)
    <2>1. [kind |-> "document", owner |-> owner] \in Call
      BY DEF Call, TypeOK
    <2> QED BY <1>1, <2>1, TypeBegins DEF DocumentRead
  <1>2. CASE DocumentCommit(w)
    <2>1. call[w].owner \in Users \union {Nobody}
      BY <1>2, DocumentCall DEF DocumentCommit, TypeOK
    <2> QED BY <1>2, <2>1, IdleType DEF DocumentCommit, TypeOK, Ends, chart
  <1> QED BY <1>1, <1>2

LEMMA TypeManages ==
  ASSUME TypeOK, NEW w \in Workers
  PROVE  /\ \A u \in Users, m \in Users \union {Nobody} : ManageRead(w, u, m) => TypeOK'
         /\ ManageCommit(w) => TypeOK'
  <1>1. ASSUME NEW u \in Users, NEW m \in Users \union {Nobody}, ManageRead(w, u, m) PROVE TypeOK'
    <2>1. [kind |-> "manage", user |-> u, manager |-> m] \in Call
      BY DEF Call
    <2> QED BY <1>1, <2>1, TypeBegins DEF ManageRead
  <1>2. ASSUME ManageCommit(w) PROVE TypeOK'
    <2>1. call[w].user \in Users /\ call[w].manager \in Users \union {Nobody}
      BY <1>2, ManageCall DEF ManageCommit, TypeOK
    <2> QED BY <1>2, <2>1, IdleType DEF ManageCommit, TypeOK, Ends, rights
  <1> QED BY <1>1, <1>2

LEMMA TypeDelete ==
  ASSUME TypeOK, NEW u \in Users, Delete(u)
  PROVE  TypeOK'
  <1>1. asked' \in 0 .. MaxRequests
    BY OrganizationAssumption DEF Delete, TypeOK
  <1>2. unseated' \in BOOLEAN
    BY DEF Delete, Unseats
  <1> QED BY <1>1, <1>2 DEF Delete, TypeOK

LEMMA TypeRevive ==
  ASSUME TypeOK, NEW u \in Users, Revive(u)
  PROVE  TypeOK'
  <1>1. asked' \in 0 .. MaxRequests
    BY OrganizationAssumption DEF Revive, TypeOK
  <1> QED BY <1>1 DEF Revive, TypeOK, rights

LEMMA TypeInit == Init => TypeOK
  <1> SUFFICES ASSUME Init PROVE TypeOK
    OBVIOUS
  <1>1. roles \in [Users -> SUBSET Row]
    BY RowType DEF Init
  <1>2. over \in [Users -> Overrides]
    BY PlainType DEF Init
  <1>3. given \in [Users -> [roles : SUBSET Row, over : Overrides]]
    BY <1>1, PlainType DEF Init
  <1>4. token \in [Users -> Token]
    <2>1. NoToken \in Token
      BY DEF NoToken, Token
    <2> QED BY <2>1 DEF Init
  <1>5. asked \in 0 .. MaxRequests
    BY OrganizationAssumption DEF Init
  <1>6. owner \in Users \union {Nobody} /\ founders \subseteq Users
    BY DEF Init
  <1>7. permits \in [Row -> SUBSET Permissions]
    BY DEF Init
  <1> QED BY <1>1, <1>2, <1>3, <1>4, <1>5, <1>6, <1>7, IdleType DEF Init, TypeOK

LEMMA TypeStep == TypeOK /\ [Next]_vars => TypeOK'
  <1> SUFFICES ASSUME TypeOK, [Next]_vars PROVE TypeOK'
    OBVIOUS
  <1>1. CASE UNCHANGED vars
    BY <1>1 DEF vars, chart, rights, TypeOK
  <1>2. ASSUME NEW w \in Workers, Deciding(w) PROVE TypeOK'
    BY <1>2, TypeAssignRead, TypeRestoreRead, TypeOverrides, TypeRoles, TypeAssignCommit
       DEF Deciding
  <1>3. ASSUME NEW w \in Workers, Signing(w) PROVE TypeOK'
    BY <1>3, TypeSignRead, TypeSignCommit, TypeDocuments DEF Signing, Ways
  <1>4. ASSUME NEW w \in Workers, Managing(w) PROVE TypeOK'
    BY <1>4, TypeManages DEF Managing
  <1> QED BY <1>1, <1>2, <1>3, <1>4, TypeDelete, TypeRevive DEF Next

(* Every variable keeps values of its kind.                                *)
THEOREM TypeCorrect == Spec => []TypeOK
  BY TypeInit, TypeStep, PTL DEF Spec

-----------------------------------------------------------------------------
(* Owners.  What a request is about to commit gives the owner's role to    *)
(* nobody who did not have it at first, and a sign-in that takes it from   *)
(* some leaves it to another who had it when it read.                      *)

OwnersKnown ==
    /\ owner \in founders \union {Nobody}
    /\ \A w \in Workers :
        /\ call[w].kind \in {"assign", "restore"} /\ Owner \in call[w].new
           => call[w].user \in founders
        /\ call[w].kind = "sign" => call[w].keeper \in founders \union {Nobody}
        /\ call[w].kind = "document" => call[w].owner \in founders \union {Nobody}

KeepersStay ==
    \A w \in Workers : call[w].kind = "sign" =>
        /\ call[w].keeper \notin call[w].strip
        /\ call[w].strip # {} => call[w].sound

OwnersInv == OwnershipNeverSpreads /\ OwnersKnown /\ OwnerRemains /\ KeepersStay

(* A step that leaves roles, status and owner alone and begins at most one *)
(* request, which is sound                                                 *)
LEMMA OwnersBegin ==
  ASSUME TypeOK, OwnersInv, NEW w \in Workers, NEW c \in Call, call' = [call EXCEPT ![w] = c],
         UNCHANGED <<roles, status, owner, founders, unseated>>,
         c.kind \in {"assign", "restore"} /\ Owner \in c.new => c.user \in founders,
         c.kind = "sign" => /\ c.keeper \in founders \union {Nobody}
                            /\ c.keeper \notin c.strip
                            /\ c.strip # {} => c.sound,
         c.kind = "document" => c.owner \in founders \union {Nobody}
  PROVE  OwnersInv'
  <1>1. \A v \in Workers : call'[v] = IF v = w THEN c ELSE call[v]
    BY DEF TypeOK
  <1>2. OwnershipNeverSpreads'
    BY DEF OwnersInv, OwnershipNeverSpreads
  <1>3. OwnersKnown'
    BY <1>1 DEF OwnersInv, OwnersKnown
  <1>4. OwnerRemains'
    BY DEF OwnersInv, OwnerRemains, Holders, Live
  <1>5. KeepersStay'
    BY <1>1 DEF OwnersInv, KeepersStay
  <1> QED BY <1>2, <1>3, <1>4, <1>5 DEF OwnersInv

LEMMA OwnersIdle ==
  ASSUME TypeOK, OwnersInv, NEW w \in Workers, call' = [call EXCEPT ![w] = Idle],
         UNCHANGED <<roles, status, owner, founders, unseated>>
  PROVE  OwnersInv'
  BY OwnersBegin, IdleType

LEMMA OwnersFail ==
  ASSUME TypeOK, OwnersInv, NEW w \in Workers, Fails(w)
  PROVE  OwnersInv'
  BY OwnersIdle DEF Fails, Ends, chart, rights

LEMMA OwnersAssignRead ==
  ASSUME TypeOK, OwnersInv, NEW w \in Workers, NEW u \in Users, NEW keys \in SUBSET Keys,
         AssignRead(w, u, keys)
  PROVE  OwnersInv'
  <1>1. PICK new \in IF keys = {} THEN {{Employee}} ELSE RowsFor(keys) :
            Begins(w, Assigning("assign", u, new, Nobody))
    BY DEF AssignRead
  <1>2. new \in SUBSET Row /\ (Owner \in new => "company_owner" \in keys)
    BY RowType, RowsFound
  <1>3. Owner \in new => u \in founders
    BY <1>2, OrganizationAssumption DEF AssignRead, MayHave, OwnersInv, OwnersKnown
  <1>4. PICK c \in Call : c = Assigning("assign", u, new, Nobody)
    BY <1>2, AssigningType
  <1>5. c.kind = "assign" /\ c.user = u /\ c.new = new
    BY <1>4 DEF Assigning
  <1>6. call' = [call EXCEPT ![w] = c] /\ UNCHANGED <<roles, status, owner, founders, unseated>>
    BY <1>1, <1>4 DEF AssignRead, Begins, chart, rights
  <1> QED BY <1>3, <1>5, <1>6, OwnersBegin

LEMMA OwnersRestoreRead ==
  ASSUME TypeOK, OwnersInv, NEW w \in Workers, NEW u \in Users, NEW key \in Keys,
         NEW m \in Users \union {Nobody}, RestoreRead(w, u, key, m)
  PROVE  OwnersInv'
  <1>1. PICK new \in RowsFor({key}) : Begins(w, Assigning("restore", u, new, m))
    BY DEF RestoreRead
  <1>2. new \in SUBSET Row /\ Owner \notin new
    BY RowsFound DEF RestoreRead
  <1>3. PICK c \in Call : c = Assigning("restore", u, new, m)
    BY <1>2, AssigningType
  <1>4. c.kind = "restore" /\ c.new = new
    BY <1>3 DEF Assigning
  <1>5. call' = [call EXCEPT ![w] = c] /\ UNCHANGED <<roles, status, owner, founders, unseated>>
    BY <1>1, <1>3 DEF RestoreRead, Begins, chart, rights
  <1> QED BY <1>2, <1>4, <1>5, OwnersBegin

LEMMA OwnersSignRead ==
  ASSUME TypeOK, OwnersInv, NEW w \in Workers, NEW u \in Users, NEW way \in Ways,
         SignRead(w, u, way)
  PROVE  OwnersInv'
  <1> DEFINE keeper == IF way = "grant" THEN Nobody ELSE Keeper
  <1>1. PICK c \in Call : c = Signed(u, way)
    BY SignedType
  <1>2. /\ c.kind = "sign" /\ c.keeper = keeper
        /\ c.strip = (IF keeper = Nobody THEN {} ELSE Holders \ {keeper})
        /\ c.sound = (keeper \in Holders)
    BY <1>1 DEF Signed
  <1>3. keeper = Nobody \/ keeper \in Holders
    BY KeeperHolds
  <1>4. Holders \subseteq founders
    BY KeeperHolds DEF OwnersInv, OwnershipNeverSpreads, Holders
  <1>5. call' = [call EXCEPT ![w] = c] /\ UNCHANGED <<roles, status, owner, founders, unseated>>
    BY <1>1 DEF SignRead, Begins, Signed, chart, rights
  <1> HIDE DEF keeper
  <1>6. c.strip # {} => c.sound
    BY <1>2, <1>3
  <1> QED BY <1>2, <1>3, <1>4, <1>5, <1>6, OwnersBegin

LEMMA OwnersAssignCommit ==
  ASSUME TypeOK, OwnersInv, NEW w \in Workers, AssignCommit(w)
  PROVE  OwnersInv'
  <1> DEFINE c == call[w]
             after == Written(roles[c.user], c.old, c.new)
  <1> SUFFICES ASSUME Assigned(w, c.user, c, after) PROVE OwnersInv'
    BY OwnersFail DEF AssignCommit
  <1>1. c \in Call /\ c.kind \in {"assign", "restore"} /\ c.user \in Users
    BY AssignCall DEF AssignCommit, TypeOK
  <1>2. roles' = [roles EXCEPT ![c.user] = after] /\ UNCHANGED <<owner, founders>>
        /\ call' = [call EXCEPT ![w] = Idle] /\ Unseats(Holders')
    BY DEF Assigned, Ends
  <1>3. Owner \in after => Owner \in roles[c.user] \/ Owner \in c.new
    BY DEF Written
  <1>4. Owner \in after => c.user \in founders
    BY <1>1, <1>3 DEF OwnersInv, OwnershipNeverSpreads, OwnersKnown
  <1> HIDE DEF c, after
  <1>5. OwnershipNeverSpreads'
    BY <1>1, <1>2, <1>4 DEF TypeOK, OwnersInv, OwnershipNeverSpreads
  <1>6. \A v \in Workers : call'[v] = IF v = w THEN Idle ELSE call[v]
    BY <1>2 DEF TypeOK
  <1>7. OwnersKnown' /\ KeepersStay'
    BY <1>2, <1>6, IdleType DEF OwnersInv, OwnersKnown, KeepersStay
  <1>8. OwnerRemains'
    BY <1>2 DEF Unseats, OwnersInv, OwnerRemains
  <1> QED BY <1>5, <1>7, <1>8 DEF OwnersInv

LEMMA OwnersSignCommit ==
  ASSUME TypeOK, OwnersInv, NEW w \in Workers, SignCommit(w)
  PROVE  OwnersInv'
  <1> SUFFICES ASSUME ~Fails(w) PROVE OwnersInv'
    BY OwnersFail
  <1> DEFINE c == call[w]
  <1>1. c \in Call /\ c.kind = "sign"
    BY DEF SignCommit, TypeOK
  <1>2. c.keeper \in founders \union {Nobody} /\ c.keeper \notin c.strip
        /\ (c.strip # {} => c.sound)
    BY <1>1 DEF OwnersInv, OwnersKnown, KeepersStay
  <1>3. /\ UNCHANGED founders /\ call' = [call EXCEPT ![w] = Idle]
        /\ status' = (IF c.revives THEN [status EXCEPT ![c.user] = "active"] ELSE status)
        /\ owner' = (IF c.names THEN c.keeper ELSE owner)
        /\ roles' = [v \in Users |-> IF v \notin c.strip THEN roles[v]
                         ELSE (roles[v] \ {Owner}) \union (IF v \in c.bare THEN {Employee} ELSE {})]
    BY DEF SignCommit, Ends
  <1>4. unseated' = (unseated \/ (c.sound /\ c.strip # {} /\ c.keeper \notin Holders))
    BY DEF SignCommit
  <1> HIDE DEF c
  <1>5. \A v \in Users : Owner \in roles'[v] <=> Owner \in roles[v] /\ v \notin c.strip
    BY <1>3, RowType
  <1>6. OwnershipNeverSpreads'
    BY <1>3, <1>5 DEF OwnersInv, OwnershipNeverSpreads
  <1>7. \A v \in Workers : call'[v] = IF v = w THEN Idle ELSE call[v]
    BY <1>3 DEF TypeOK
  <1>8. OwnersKnown' /\ KeepersStay'
    BY <1>2, <1>3, <1>7, IdleType DEF OwnersInv, OwnersKnown, KeepersStay
  <1>9. OwnerRemains'
    <2>0. \A v \in Users : status[v] = "active" => status'[v] = "active"
      BY <1>3 DEF TypeOK
    <2>1. CASE c.strip = {}
      <3>1. Holders \subseteq Holders'
        BY <1>5, <2>0, <2>1 DEF Holders, Live
      <3> QED BY <1>4, <2>1, <3>1 DEF OwnersInv, OwnerRemains
    <2>2. CASE c.strip # {} /\ c.keeper \in Holders
      <3>1. c.keeper \in Holders'
        BY <1>2, <1>5, <2>0, <2>2 DEF Holders, Live
      <3> QED BY <3>1 DEF OwnerRemains
    <2>3. CASE c.strip # {} /\ c.keeper \notin Holders
      BY <1>2, <1>4, <2>3 DEF OwnerRemains
    <2> QED BY <2>1, <2>2, <2>3
  <1> QED BY <1>6, <1>8, <1>9 DEF OwnersInv

LEMMA OwnersOverrideCommit ==
  ASSUME TypeOK, OwnersInv, NEW w \in Workers, OverrideCommit(w)
  PROVE  OwnersInv'
  <1> SUFFICES ASSUME ~Fails(w) PROVE OwnersInv'
    BY OwnersFail
  <1>1. UNCHANGED <<roles, status, owner, founders, unseated>>
    BY DEF OverrideCommit, chart
  <1>2. \A v \in Workers : call'[v] = call[v] \/ call'[v] = Idle \/ call'[v].kind = "override"
    <2>1. call' = [v \in Workers |->
                        IF v = w THEN Idle
                        ELSE IF call[v].kind = "override" /\ call[v].user = call[w].user
                             THEN [call[v] EXCEPT !.gone = TRUE] ELSE call[v]]
      BY DEF OverrideCommit
    <2>2. \A v \in Workers : call[v].kind = "override" => [call[v] EXCEPT !.gone = TRUE].kind = "override"
      BY DEF TypeOK, Call, Idle
    <2> QED BY <2>1, <2>2
  <1>3. OwnersKnown' /\ KeepersStay'
    BY <1>1, <1>2, IdleType DEF OwnersInv, OwnersKnown, KeepersStay
  <1>4. OwnershipNeverSpreads' /\ OwnerRemains'
    BY <1>1 DEF OwnersInv, OwnershipNeverSpreads, OwnerRemains, Holders, Live
  <1> QED BY <1>3, <1>4 DEF OwnersInv

(* The company's document names whom it named when it was read.            *)
LEMMA OwnersDocuments ==
  ASSUME TypeOK, OwnersInv, NEW w \in Workers, DocumentRead(w) \/ DocumentCommit(w)
  PROVE  OwnersInv'
  <1>1. CASE DocumentRead(w)
    <2>1. PICK c \in Call : c = [kind |-> "document", owner |-> owner]
      BY DEF Call, TypeOK
    <2>2. /\ c.kind = "document" /\ c.owner \in founders \union {Nobody}
          /\ call' = [call EXCEPT ![w] = c] /\ UNCHANGED <<roles, status, owner, founders, unseated>>
      BY <1>1, <2>1 DEF DocumentRead, Begins, chart, rights, OwnersInv, OwnersKnown
    <2> QED BY <2>2, OwnersBegin
  <1>2. CASE DocumentCommit(w)
    <2>1. /\ owner' \in founders' \union {Nobody} /\ call' = [call EXCEPT ![w] = Idle]
          /\ UNCHANGED <<roles, status, founders, unseated>>
      BY <1>2 DEF DocumentCommit, Ends, chart, OwnersInv, OwnersKnown
    <2>2. \A v \in Workers : call'[v] = IF v = w THEN Idle ELSE call[v]
      BY <2>1 DEF TypeOK
    <2>3. OwnersKnown' /\ KeepersStay'
      BY <2>1, <2>2, IdleType DEF OwnersInv, OwnersKnown, KeepersStay
    <2>4. OwnershipNeverSpreads' /\ OwnerRemains'
      BY <2>1 DEF OwnersInv, OwnershipNeverSpreads, OwnerRemains, Holders, Live
    <2> QED BY <2>3, <2>4 DEF OwnersInv
  <1> QED BY <1>1, <1>2

(* Requests about overrides, roles' permissions and managers               *)
LEMMA OwnersElse ==
  ASSUME TypeOK, OwnersInv, NEW w \in Workers,
         \/ \E u \in Users, new \in Overrides : OverrideRead(w, u, new)
         \/ \E r \in Own, new \in SUBSET Permissions : RoleRead(w, r, new)
         \/ \E u \in Users, m \in Users \union {Nobody} : ManageRead(w, u, m)
         \/ RoleCommit(w) \/ ManageCommit(w)
  PROVE  OwnersInv'
  <1>1. ASSUME NEW u \in Users, NEW new \in Overrides, OverrideRead(w, u, new) PROVE OwnersInv'
    <2>1. PICK c \in Call : c = [kind |-> "override", user |-> u, new |-> new, gone |-> FALSE]
      BY DEF Call
    <2>2. c.kind = "override" /\ call' = [call EXCEPT ![w] = c]
          /\ UNCHANGED <<roles, status, owner, founders, unseated>>
      BY <1>1, <2>1 DEF OverrideRead, Begins, chart, rights
    <2> QED BY <2>2, OwnersBegin
  <1>2. ASSUME NEW r \in Own, NEW new \in SUBSET Permissions, RoleRead(w, r, new) PROVE OwnersInv'
    <2>1. permits[r] \in SUBSET Permissions
      BY RowType DEF TypeOK
    <2>2. PICK c \in Call : c = [kind |-> "role", row |-> r, there |-> r \in rows,
                                old |-> permits[r], new |-> new]
      <3>1. [kind |-> "role", row |-> r, there |-> r \in rows,
             old |-> permits[r], new |-> new] \in Call
        BY <2>1 DEF Call
      <3> QED BY <3>1
    <2>3. c.kind = "role" /\ call' = [call EXCEPT ![w] = c]
          /\ UNCHANGED <<roles, status, owner, founders, unseated>>
      BY <1>2, <2>2 DEF RoleRead, Begins, chart, rights
    <2> QED BY <2>3, OwnersBegin
  <1>3. ASSUME NEW u \in Users, NEW m \in Users \union {Nobody}, ManageRead(w, u, m) PROVE OwnersInv'
    <2>1. PICK c \in Call : c = [kind |-> "manage", user |-> u, manager |-> m]
      BY DEF Call
    <2>2. c.kind = "manage" /\ call' = [call EXCEPT ![w] = c]
          /\ UNCHANGED <<roles, status, owner, founders, unseated>>
      BY <1>3, <2>1 DEF ManageRead, Begins, chart, rights
    <2> QED BY <2>2, OwnersBegin
  <1>4. CASE RoleCommit(w)
    BY <1>4, OwnersFail, OwnersIdle DEF RoleCommit, Ends, chart
  <1>5. CASE ManageCommit(w)
    BY <1>5, OwnersIdle DEF ManageCommit, Ends, rights
  <1> QED BY <1>1, <1>2, <1>3, <1>4, <1>5

LEMMA OwnersInit == Init => OwnersInv
  <1> SUFFICES ASSUME Init PROVE OwnersInv
    OBVIOUS
  <1>1. \A u \in Users : Owner \in roles[u] <=> u \in founders
    <2>1. roles = [u \in Users |-> {IF u \in founders THEN Owner ELSE Employee}]
      BY DEF Init
    <2>2. ASSUME NEW u \in Users PROVE Owner \in roles[u] <=> u \in founders
      <3>1. CASE u \in founders
        BY <2>1, <3>1
      <3>2. CASE u \notin founders
        <4>1. roles[u] = {Employee}
          BY <2>1, <3>2
        <4> QED BY <3>2, <4>1, RowType
      <3> QED BY <3>1, <3>2
    <2> QED BY <2>2
  <1>2. OwnershipNeverSpreads
    BY <1>1 DEF OwnershipNeverSpreads
  <1>3. founders \subseteq Users /\ founders # {} /\ \A u \in Users : status[u] = "active"
    BY DEF Init
  <1>4. OwnerRemains
    BY <1>1, <1>3 DEF OwnerRemains, Holders, Live
  <1>5. OwnersKnown
    BY IdleType DEF Init, OwnersKnown
  <1>6. KeepersStay
    BY IdleType DEF Init, KeepersStay
  <1> QED BY <1>2, <1>4, <1>5, <1>6 DEF OwnersInv

LEMMA OwnersStep == TypeOK /\ OwnersInv /\ [Next]_vars => OwnersInv'
  <1> SUFFICES ASSUME TypeOK, OwnersInv, [Next]_vars PROVE OwnersInv'
    OBVIOUS
  <1>1. CASE UNCHANGED vars
    BY <1>1 DEF vars, chart, rights, OwnersInv, OwnershipNeverSpreads, OwnersKnown, OwnerRemains,
                KeepersStay, Holders, Live
  <1>2. ASSUME NEW w \in Workers, Deciding(w) PROVE OwnersInv'
    BY <1>2, OwnersAssignRead, OwnersRestoreRead, OwnersElse, OwnersAssignCommit,
       OwnersOverrideCommit DEF Deciding
  <1>3. ASSUME NEW w \in Workers, Signing(w) PROVE OwnersInv'
    BY <1>3, OwnersSignRead, OwnersSignCommit, OwnersDocuments DEF Signing, Ways
  <1>4. ASSUME NEW w \in Workers, Managing(w) PROVE OwnersInv'
    BY <1>4, OwnersElse DEF Managing
  <1>5. ASSUME NEW u \in Users, Delete(u) PROVE OwnersInv'
    <2>1. OwnershipNeverSpreads'
      BY <1>5 DEF Delete, OwnersInv, OwnershipNeverSpreads
    <2>2. OwnerRemains'
      BY <1>5 DEF Delete, Unseats, OwnersInv, OwnerRemains
    <2>3. OwnersKnown' /\ KeepersStay'
      BY <1>5 DEF Delete, OwnersInv, OwnersKnown, KeepersStay
    <2> QED BY <2>1, <2>2, <2>3 DEF OwnersInv
  <1>6. ASSUME NEW u \in Users, Revive(u) PROVE OwnersInv'
    <2>1. UNCHANGED <<roles, owner, call, unseated, founders>>
          /\ status' = [status EXCEPT ![u] = "active"]
      BY <1>6 DEF Revive, rights
    <2>2. OwnershipNeverSpreads' /\ OwnersKnown' /\ KeepersStay'
      BY <2>1 DEF OwnersInv, OwnershipNeverSpreads, OwnersKnown, KeepersStay
    <2>3. Holders \subseteq Holders'
      BY <2>1 DEF Holders, Live, TypeOK
    <2>4. OwnerRemains'
      BY <2>1, <2>3 DEF OwnersInv, OwnerRemains
    <2> QED BY <2>2, <2>4 DEF OwnersInv
  <1> QED BY <1>1, <1>2, <1>3, <1>4, <1>5, <1>6 DEF Next

LEMMA OwnersAlways == Spec => []OwnersInv
  <1>1. Init => TypeOK /\ OwnersInv
    BY TypeInit, OwnersInit
  <1>2. TypeOK /\ OwnersInv /\ [Next]_vars => (TypeOK /\ OwnersInv)'
    BY TypeStep, OwnersStep
  <1> QED BY <1>1, <1>2, PTL DEF Spec

(* Nobody gets the owner's role who did not have it at first, however the  *)
(* requests overlap (assign_user_roles, normalize_company_owner_role).     *)
THEOREM OwnershipStays == Spec => []OwnershipNeverSpreads
  <1>1. OwnersInv => OwnershipNeverSpreads
    BY DEF OwnersInv
  <1> QED BY <1>1, OwnersAlways, PTL

(* A company without an owner was left so by whoever took the role from    *)
(* the last or deleted the last, or by a sign-in that settled on an owner  *)
(* who was lost meanwhile (delete_employee, normalize_company_owner_role). *)
THEOREM OwnerStays == Spec => []OwnerRemains
  <1>1. OwnersInv => OwnerRemains
    BY DEF OwnersInv
  <1> QED BY <1>1, OwnersAlways, PTL

-----------------------------------------------------------------------------
(* Rights *)

LEMMA AsGivenStep == TypeOK /\ RightsAsGiven /\ [Next]_vars => RightsAsGiven'
  <1> SUFFICES ASSUME TypeOK, RightsAsGiven, [Next]_vars PROVE RightsAsGiven'
    OBVIOUS
  <1>1. ASSUME UNCHANGED <<roles, over, given, raced>> PROVE RightsAsGiven'
    BY <1>1 DEF RightsAsGiven
  <1>2. ASSUME NEW w \in Workers, Fails(w) PROVE RightsAsGiven'
    BY <1>1, <1>2 DEF Fails, rights
  <1>3. ASSUME NEW w \in Workers, AssignCommit(w) PROVE RightsAsGiven'
    <2> DEFINE c == call[w]
               after == Written(roles[c.user], c.old, c.new)
    <2> SUFFICES ASSUME Assigned(w, c.user, c, after) PROVE RightsAsGiven'
      BY <1>2, <1>3 DEF AssignCommit
    <2>1. c.user \in Users
      BY <1>3, AssignCall DEF AssignCommit, TypeOK
    <2>2. roles[c.user] = c.old => after = c.new
      BY DEF Written
    <2>3. /\ roles' = [roles EXCEPT ![c.user] = after]
          /\ given' = [given EXCEPT ![c.user].roles = c.new] /\ over' = over
          /\ raced' = (IF roles[c.user] # c.old THEN raced \union {c.user} ELSE raced)
      BY DEF Assigned
    <2> HIDE DEF c, after
    <2> QED BY <2>1, <2>2, <2>3 DEF TypeOK, RightsAsGiven
  <1>4. ASSUME NEW w \in Workers, OverrideCommit(w) PROVE RightsAsGiven'
    <2> SUFFICES ASSUME ~Fails(w) PROVE RightsAsGiven'
      BY <1>2
    <2> DEFINE c == call[w]
               kept == IF c.gone THEN over[c.user] ELSE Plain
               mix  == [p \in Permissions |-> IF c.new[p] # "none" THEN c.new[p] ELSE kept[p]]
    <2>1. c.user \in Users /\ c.new \in Overrides
      BY <1>4, OverrideCall DEF OverrideCommit, TypeOK
    <2>2. ~c.gone => mix = c.new
      BY <2>1 DEF Plain, Overrides
    <2>3. /\ over' = [over EXCEPT ![c.user] = mix]
          /\ given' = [given EXCEPT ![c.user].over = c.new] /\ roles' = roles
          /\ raced' = (IF c.gone THEN raced \union {c.user} ELSE raced)
      BY <1>4 DEF OverrideCommit
    <2> HIDE DEF c, mix
    <2> QED BY <2>1, <2>2, <2>3 DEF TypeOK, RightsAsGiven
  <1>5. ASSUME NEW w \in Workers, SignCommit(w) PROVE RightsAsGiven'
    <2> SUFFICES ASSUME ~Fails(w) PROVE RightsAsGiven'
      BY <1>2
    <2> DEFINE c == call[w]
    <2>1. /\ given' = [v \in Users |-> IF v \in c.strip THEN [given[v] EXCEPT !.roles = roles'[v]]
                                       ELSE given[v]]
          /\ over' = over /\ raced' = raced
          /\ \A v \in Users : v \notin c.strip => roles'[v] = roles[v]
      BY <1>5 DEF SignCommit
    <2> HIDE DEF c
    <2> QED BY <2>1 DEF TypeOK, RightsAsGiven
  <1>6. CASE UNCHANGED vars
    BY <1>1, <1>6 DEF vars, rights
  <1>7. ASSUME NEW w \in Workers, Deciding(w) PROVE RightsAsGiven'
    <2>1. ASSUME NEW u \in Users, NEW keys \in SUBSET Keys, AssignRead(w, u, keys)
          PROVE  RightsAsGiven'
      BY <1>1, <2>1 DEF AssignRead, rights
    <2>2. ASSUME NEW u \in Users, NEW key \in Keys, NEW m \in Users \union {Nobody},
                 RestoreRead(w, u, key, m)
          PROVE  RightsAsGiven'
      BY <1>1, <2>2 DEF RestoreRead, rights
    <2>3. ASSUME NEW u \in Users, NEW new \in Overrides, OverrideRead(w, u, new)
          PROVE  RightsAsGiven'
      BY <1>1, <2>3 DEF OverrideRead, rights
    <2>4. ASSUME NEW r \in Own, NEW new \in SUBSET Permissions, RoleRead(w, r, new)
          PROVE  RightsAsGiven'
      BY <1>1, <2>4 DEF RoleRead, rights
    <2>5. CASE RoleCommit(w)
      BY <1>1, <1>2, <2>5 DEF RoleCommit
    <2> QED BY <1>3, <1>4, <1>7, <2>1, <2>2, <2>3, <2>4, <2>5 DEF Deciding
  <1>8. ASSUME NEW w \in Workers, Signing(w) PROVE RightsAsGiven'
    BY <1>1, <1>5, <1>8 DEF Signing, SignRead, DocumentRead, DocumentCommit, rights
  <1>9. ASSUME NEW w \in Workers, Managing(w) PROVE RightsAsGiven'
    BY <1>1, <1>9 DEF Managing, ManageRead, ManageCommit, rights
  <1>10. ASSUME NEW u \in Users, Delete(u) \/ Revive(u) PROVE RightsAsGiven'
    BY <1>1, <1>10 DEF Delete, Revive, rights
  <1> QED BY <1>6, <1>7, <1>8, <1>9, <1>10 DEF Next

(* A user's roles and overrides are those the last request gave, unless    *)
(* two requests changed them at once (assign_user_roles,                   *)
(* set_user_permission_overrides).                                         *)
THEOREM GivenStays == Spec => []RightsAsGiven
  <1>1. Init => RightsAsGiven
    BY DEF Init, RightsAsGiven
  <1>2. Init => TypeOK /\ RightsAsGiven
    BY <1>1, TypeInit
  <1>3. TypeOK /\ RightsAsGiven /\ [Next]_vars => (TypeOK /\ RightsAsGiven)'
    BY TypeStep, AsGivenStep
  <1> QED BY <1>2, <1>3, PTL DEF Spec

(* What a token claims was allowed or given by a role at the second moment *)
(* or given by a role and not denied at the first, but for what was lifted *)
(* from denial.                                                            *)
LEMMA EarnedSign ==
  ASSUME TypeOK, TokenEarned, NEW w \in Workers, SignCommit(w)
  PROVE  TokenEarned'
  <1> SUFFICES ASSUME ~Fails(w) PROVE TokenEarned'
    BY DEF Fails, TokenEarned
  <1> DEFINE c == call[w]
             u == c.user
             lifted == {p \in c.claims \ Of(roles'[u]) : c.over[p] = "deny" /\ over[u][p] # "deny"}
  <1>1. PICK issued : /\ issued = [claims |-> Claims(c), had |-> Could(c) \union Rights(u, roles'[u]),
                                  lifted |-> lifted]
                      /\ token' = [token EXCEPT ![u] = issued]
    BY DEF SignCommit
  <1>2. ASSUME NEW p \in Claims(c), p \notin Could(c), p \notin Rights(u, roles'[u])
        PROVE  p \in lifted
    <2>1. p \notin Marked(u, "deny") /\ p \notin Marked(u, "allow") /\ p \in c.claims
      BY <1>2 DEF Claims, Rights
    <2>2. p \notin Of(roles'[u])
      BY <1>2, <2>1 DEF Rights
    <2>3. p \in Permissions /\ c.over[p] = "deny"
      BY <1>2, <2>1 DEF Could
    <2> QED BY <2>1, <2>2, <2>3 DEF Marked
  <1>3. issued.claims \ issued.had \subseteq issued.lifted
    BY <1>1, <1>2
  <1> HIDE DEF c, lifted
  <1> QED BY <1>1, <1>3 DEF TokenEarned, TypeOK

LEMMA EarnedStep == TypeOK /\ TokenEarned /\ [Next]_vars => TokenEarned'
  <1> SUFFICES ASSUME TypeOK, TokenEarned, [Next]_vars PROVE TokenEarned'
    OBVIOUS
  <1>1. ASSUME token' = token PROVE TokenEarned'
    BY <1>1 DEF TokenEarned
  <1>2. CASE UNCHANGED vars
    BY <1>1, <1>2 DEF vars
  <1>3. ASSUME NEW w \in Workers, Deciding(w) PROVE token' = token
    BY <1>3 DEF Deciding, AssignRead, RestoreRead, OverrideRead, RoleRead, AssignCommit, Assigned,
                OverrideCommit, RoleCommit, Fails
  <1>4. ASSUME NEW w \in Workers, Signing(w) PROVE TokenEarned'
    BY <1>1, <1>4, EarnedSign DEF Signing, SignRead, DocumentRead, DocumentCommit
  <1>5. ASSUME NEW w \in Workers, Managing(w) PROVE token' = token
    BY <1>5 DEF Managing, ManageRead, ManageCommit
  <1>6. ASSUME NEW u \in Users, Delete(u) \/ Revive(u) PROVE token' = token
    BY <1>6 DEF Delete, Revive
  <1> QED BY <1>1, <1>2, <1>3, <1>4, <1>5, <1>6 DEF Next

(* A token grants nothing that its user could not do at one of the two     *)
(* moments it was read from, but what was denied at the first and no role  *)
(* gave any more at the second (issue_payload, permission_keys_for_user).  *)
THEOREM TokensAreEarned == Spec => []TokenEarned
  <1>1. Init => TokenEarned
    BY DEF Init, TokenEarned, NoToken
  <1>2. Init => TypeOK /\ TokenEarned
    BY <1>1, TypeInit
  <1>3. TypeOK /\ TokenEarned /\ [Next]_vars => (TypeOK /\ TokenEarned)'
    BY TypeStep, EarnedStep
  <1> QED BY <1>2, <1>3, PTL DEF Spec

-----------------------------------------------------------------------------
(* The chart, seen from below and from above.  Both ways are repetitions   *)
(* of a step, as often as there are users.                                 *)

Height == Cardinality(Users)

Growing(m, g) ==
    /\ g \in [0 .. Height -> SUBSET Users]
    /\ g[0] = {m}
    /\ \A k \in 1 .. Height : g[k] = g[k - 1] \union {u \in Live : manager[u] \in g[k - 1]}

Visit == [met : SUBSET Users, at : Users \union {Nobody}]

Up(c) == IF c.at \in Live \ c.met THEN [met |-> c.met \union {c.at}, at |-> manager[c.at]] ELSE c

Climbing(u, c) ==
    /\ c \in [0 .. Height -> Visit]
    /\ c[0] = [met |-> {u}, at |-> manager[u]]
    /\ \A k \in 1 .. Height : c[k] = Up(c[k - 1])

LEMMA HeightType == Height \in Nat
  BY OrganizationAssumption, FS_CardinalityType DEF Height

LEMMA TeamGrows ==
    ASSUME TypeOK, NEW m \in Users
    PROVE  \E g : Growing(m, g) /\ Team(m) = g[Height]
  <1> DEFINE next == [S \in SUBSET Users |-> S \union {u \in Live : manager[u] \in S}]
             eq(g) == g = [n \in 0 .. Height |->
                             IF n = 0 THEN {m} ELSE g[n - 1] \union {u \in Live : manager[u] \in g[n - 1]}]
  <1>1. {m} \in SUBSET Users /\ next \in [SUBSET Users -> SUBSET Users]
    BY DEF Live
  <1>2. PICK h \in [0 .. Height -> SUBSET Users] :
           h[0] = {m} /\ \A k \in 1 .. Height : h[k] = next[h[k - 1]]
    <2>1. \E h : Repeats(h, Height, SUBSET Users, {m}, next)
      BY <1>1, HeightType, Repetition, Zenon
    <2> QED BY <2>1 DEF Repeats
  <1>3. eq(h)
    <2>1. ASSUME NEW n \in 0 .. Height
          PROVE  h[n] = IF n = 0 THEN {m} ELSE h[n - 1] \union {u \in Live : manager[u] \in h[n - 1]}
      <3>1. CASE n = 0
        BY <1>2, <3>1
      <3>2. CASE n # 0
        <4>1. n \in 1 .. Height /\ n - 1 \in 0 .. Height
          BY <3>2, HeightType
        <4>2. h[n] = next[h[n - 1]] /\ h[n - 1] \in SUBSET Users
          BY <1>2, <4>1
        <4> QED BY <3>2, <4>2
      <3> QED BY <3>1, <3>2
    <2> QED BY <2>1
  <1>4. eq(CHOOSE g : eq(g))
    BY <1>3
  <1> DEFINE grow == CHOOSE g : eq(g)
  <1>5. Team(m) = grow[Height]
    BY DEF Team, Height
  <1>6. Growing(m, grow)
    <2>1. eq(grow)
      BY <1>4
    <2> HIDE DEF grow
    <2>0. grow = [n \in 0 .. Height |->
                    IF n = 0 THEN {m} ELSE grow[n - 1] \union {u \in Live : manager[u] \in grow[n - 1]}]
      BY <2>1
    <2>2. \A n \in 0 .. Height :
             grow[n] = IF n = 0 THEN {m} ELSE grow[n - 1] \union {u \in Live : manager[u] \in grow[n - 1]}
      BY <2>0
    <2> HIDE DEF eq
    <2>7. 0 \in 0 .. Height
      BY HeightType
    <2>5. grow[0] = {m}
      BY <2>2, <2>7
    <2>3. 0 .. Height \subseteq {n \in 0 .. Height : grow[n] \in SUBSET Users}
      <3>1. grow[0] \in SUBSET Users
        BY <2>5
      <3>2. ASSUME NEW n \in 0 .. Height - 1, grow[n] \in SUBSET Users
            PROVE  grow[n + 1] \in SUBSET Users
        <4>1. n + 1 \in 0 .. Height /\ n + 1 # 0 /\ (n + 1) - 1 = n
          BY HeightType
        <4>2. grow[n + 1] = grow[n] \union {u \in Live : manager[u] \in grow[n]}
          BY <2>2, <4>1
        <4> QED BY <3>2, <4>2 DEF Live
      <3> DEFINE S == {n \in 0 .. Height : grow[n] \in SUBSET Users}
      <3>3. 0 \in S /\ \A n \in 0 .. Height - 1 : n \in S => n + 1 \in S
        BY <2>7, <3>1, <3>2, HeightType
      <3> HIDE DEF S
      <3>4. 0 .. Height \subseteq S
        BY <3>3, HeightType, UpTo
      <3> QED BY <3>4 DEF S
    <2>4. grow \in [0 .. Height -> SUBSET Users]
      <3>1. DOMAIN grow = 0 .. Height /\ grow = [n \in DOMAIN grow |-> grow[n]]
        BY <2>0
      <3> QED BY <2>3, <3>1
    <2>6. ASSUME NEW k \in 1 .. Height
          PROVE  grow[k] = grow[k - 1] \union {u \in Live : manager[u] \in grow[k - 1]}
      <3>1. k \in 0 .. Height /\ k # 0
        BY HeightType
      <3> QED BY <2>2, <3>1
    <2> QED BY <2>4, <2>5, <2>6 DEF Growing
  <1> QED BY <1>5, <1>6

LEMMA AboveClimbs ==
    ASSUME TypeOK, NEW u \in Users
    PROVE  \E c : Climbing(u, c) /\ Above(u) = c[Height].met \ {u}
  <1> DEFINE first == [met |-> {u}, at |-> manager[u]]
             next == [c \in Visit |-> Up(c)]
             eq(g) == g = [n \in 0 .. Height |->
                             IF n = 0 THEN first
                             ELSE LET c == g[n - 1]
                                  IN  IF c.at \in Live \ c.met
                                        THEN [met |-> c.met \union {c.at}, at |-> manager[c.at]] ELSE c]
  <1>1. first \in Visit
    BY DEF TypeOK, Visit
  <1>2. \A c \in Visit : Up(c) \in Visit
    BY DEF TypeOK, Visit, Up, Live
  <1>3. next \in [Visit -> Visit] /\ \A c \in Visit : next[c] = Up(c)
    BY <1>2
  <1> HIDE DEF next, first
  <1>4. PICK h \in [0 .. Height -> Visit] :
           h[0] = first /\ \A k \in 1 .. Height : h[k] = next[h[k - 1]]
    <2>1. \E h : Repeats(h, Height, Visit, first, next)
      BY <1>1, <1>3, HeightType, Repetition, Zenon
    <2> QED BY <2>1 DEF Repeats
  <1>5. eq(h)
    <2>1. ASSUME NEW n \in 0 .. Height
          PROVE  h[n] = IF n = 0 THEN first ELSE Up(h[n - 1])
      <3>1. CASE n = 0
        BY <1>4, <3>1
      <3>2. CASE n # 0
        <4>1. n \in 1 .. Height /\ n - 1 \in 0 .. Height
          BY <3>2, HeightType
        <4> QED BY <1>3, <1>4, <3>2, <4>1
      <3> QED BY <3>1, <3>2
    <2>2. h = [n \in 0 .. Height |-> h[n]]
      OBVIOUS
    <2> QED BY <2>1, <2>2 DEF Up
  <1> DEFINE climb == CHOOSE g : eq(g)
  <1>6. eq(climb)
    BY <1>5
  <1>7. Above(u) = climb[Height].met \ {u}
    BY DEF Above, Height, first
  <1> HIDE DEF climb
  <1>8. climb = [n \in 0 .. Height |-> IF n = 0 THEN first ELSE Up(climb[n - 1])]
    BY <1>6 DEF Up
  <1> HIDE DEF eq
  <1>9. 0 \in 0 .. Height /\ climb[0] = first
    BY <1>8, HeightType
  <1>10. ASSUME NEW k \in 1 .. Height
         PROVE  climb[k] = Up(climb[k - 1])
    <2>1. k \in 0 .. Height /\ k # 0
      BY HeightType
    <2> QED BY <1>8, <2>1
  <1>11. 0 .. Height \subseteq {n \in 0 .. Height : climb[n] \in Visit}
    <2>1. ASSUME NEW n \in 0 .. Height - 1, climb[n] \in Visit
          PROVE  climb[n + 1] \in Visit
      <3>1. n + 1 \in 1 .. Height /\ (n + 1) - 1 = n
        BY HeightType
      <3> QED BY <1>2, <1>10, <2>1, <3>1
    <2> DEFINE S == {n \in 0 .. Height : climb[n] \in Visit}
    <2>2. 0 \in S /\ \A n \in 0 .. Height - 1 : n \in S => n + 1 \in S
      BY <1>1, <1>9, <2>1, HeightType
    <2> HIDE DEF S
    <2>3. 0 .. Height \subseteq S
      BY <2>2, HeightType, UpTo
    <2> QED BY <2>3 DEF S
  <1>12. climb \in [0 .. Height -> Visit]
    <2>1. DOMAIN climb = 0 .. Height /\ climb = [n \in DOMAIN climb |-> climb[n]]
      BY <1>8
    <2> QED BY <1>11, <2>1
  <1> QED BY <1>7, <1>9, <1>10, <1>12 DEF Climbing, first

(* The first k teams are users who have not been deleted, and each holds   *)
(* the one before.                                                         *)
LEMMA TeamIsLive ==
    ASSUME TypeOK, NEW m \in Live, NEW g, Growing(m, g), NEW k \in 0 .. Height
    PROVE  g[k] \subseteq Live
  <1> DEFINE S == {n \in 0 .. Height : g[n] \subseteq Live}
  <1>1. 0 \in S
    BY HeightType DEF Growing
  <1>2. ASSUME NEW n \in 0 .. Height - 1, n \in S
        PROVE  n + 1 \in S
    <2>1. n + 1 \in 1 .. Height /\ (n + 1) - 1 = n
      BY HeightType
    <2>2. g[n + 1] = g[n] \union {u \in Live : manager[u] \in g[n]}
      BY <2>1 DEF Growing
    <2> QED BY <1>2, <2>1, <2>2
  <1> HIDE DEF S
  <1>3. 0 .. Height \subseteq S
    BY <1>1, <1>2, HeightType, UpTo
  <1> QED BY <1>3 DEF S

(* Who is under u within k steps is under u's manager within k + 1.        *)
LEMMA TeamOfManager ==
    ASSUME TypeOK, NEW y \in Live, NEW g, Growing(y, g),
           NEW h, manager[y] \in Users, Growing(manager[y], h),
           NEW k \in 0 .. Height - 1
    PROVE  g[k] \subseteq h[k + 1]
  <1> DEFINE S == {n \in 0 .. Height : n < Height => g[n] \subseteq h[n + 1]}
  <1>0. Height \in Nat
    BY HeightType
  <1>1. 0 \in S
    <2>1. ASSUME 0 < Height
          PROVE  g[0] \subseteq h[1]
      <3>1. 1 \in 1 .. Height
        BY <1>0, <2>1
      <3>2. h[1] = h[1 - 1] \union {u \in Live : manager[u] \in h[1 - 1]}
        BY <3>1 DEF Growing
      <3>3. h[1 - 1] = {manager[y]} /\ g[0] = {y}
        BY DEF Growing
      <3> QED BY <3>2, <3>3
    <2> QED BY <1>0, <2>1
  <1>2. ASSUME NEW n \in 0 .. Height - 1, n \in S
        PROVE  n + 1 \in S
    <2>1. n + 1 \in 1 .. Height /\ (n + 1) - 1 = n
      BY <1>0
    <2>2. g[n + 1] = g[n] \union {u \in Live : manager[u] \in g[n]} /\ g[n] \subseteq h[n + 1]
      BY <1>0, <1>2, <2>1 DEF Growing
    <2>3. ASSUME n + 1 < Height
          PROVE  g[n + 1] \subseteq h[(n + 1) + 1]
      <3>1. (n + 1) + 1 \in 1 .. Height /\ ((n + 1) + 1) - 1 = n + 1
        BY <1>0, <2>3
      <3>2. h[(n + 1) + 1] = h[n + 1] \union {u \in Live : manager[u] \in h[n + 1]}
        BY <3>1 DEF Growing
      <3> QED BY <2>2, <3>2
    <2> QED BY <1>0, <2>1, <2>3
  <1> HIDE DEF S
  <1>3. 0 .. Height \subseteq S
    BY <1>0, <1>1, <1>2, UpTo
  <1> QED BY <1>0, <1>3 DEF S

(* Whoever u meets on the way up has u in the team.                        *)
LEMMA MetHasInTeam ==
    ASSUME TypeOK, NEW u \in Live, NEW c, Climbing(u, c),
           NEW x \in c[Height].met
    PROVE  u \in Team(x)
  <1> DEFINE Under(n, y) == \A g : Growing(y, g) => u \in g[n]
             S == {n \in 0 .. Height :
                     /\ c[n].met \subseteq Live
                     /\ \A y \in c[n].met : Under(n, y)
                     /\ \E y \in c[n].met : c[n].at = manager[y]}
  <1>0. Height \in Nat /\ 0 \in 0 .. Height /\ Height \in 0 .. Height
    BY HeightType
  <1>1. 0 \in S
    <2>1. c[0].met = {u} /\ c[0].at = manager[u]
      BY DEF Climbing
    <2>2. Under(0, u)
      BY DEF Growing
    <2> HIDE DEF Under
    <2> QED BY <1>0, <2>1, <2>2
  <1>2. ASSUME NEW n \in 0 .. Height - 1, n \in S
        PROVE  n + 1 \in S
    <2>1. n + 1 \in 1 .. Height /\ (n + 1) - 1 = n /\ n \in 0 .. Height
      BY <1>0
    <2>2. c[n + 1] = Up(c[n])
      BY <2>1 DEF Climbing
    <2>3. /\ c[n].met \subseteq Live
          /\ \A y \in c[n].met : Under(n, y)
          /\ \E y \in c[n].met : c[n].at = manager[y]
      BY <1>2
    <2>4. ASSUME NEW y \in c[n].met
          PROVE  Under(n + 1, y)
      <3> SUFFICES ASSUME NEW g, Growing(y, g)
                   PROVE  u \in g[n + 1]
        OBVIOUS
      <3>1. u \in g[n]
        BY <2>3
      <3>2. g[n + 1] = g[n] \union {v \in Live : manager[v] \in g[n]}
        BY <2>1 DEF Growing
      <3> QED BY <3>1, <3>2
    <2>5. CASE c[n].at \in Live \ c[n].met
      <3>1. c[n + 1].met = c[n].met \union {c[n].at} /\ c[n + 1].at = manager[c[n].at]
        BY <2>2, <2>5 DEF Up
      <3>2. PICK y \in c[n].met : c[n].at = manager[y]
        BY <2>3
      <3>3. ASSUME NEW h, Growing(manager[y], h)
            PROVE  u \in h[n + 1]
        <4>1. y \in Live /\ y \in Users /\ manager[y] \in Users
          BY <2>3, <2>5, <3>2 DEF Live
        <4>2. PICK g : Growing(y, g)
          BY <4>1, TeamGrows
        <4>3. g[n] \subseteq h[n + 1]
          BY <3>3, <4>1, <4>2, TeamOfManager
        <4>4. u \in g[n]
          BY <2>3, <4>2
        <4> QED BY <4>3, <4>4
      <3>4. Under(n + 1, c[n].at)
        BY <3>2, <3>3
      <3> HIDE DEF Under
      <3> QED BY <2>1, <2>3, <2>4, <2>5, <3>1, <3>4
    <2>6. CASE c[n].at \notin Live \ c[n].met
      <3>1. c[n + 1] = c[n]
        BY <2>2, <2>6 DEF Up
      <3> HIDE DEF Under
      <3> QED BY <2>1, <2>3, <2>4, <3>1
    <2> QED BY <2>5, <2>6
  <1> HIDE DEF S
  <1>3. 0 .. Height \subseteq S
    BY <1>0, <1>1, <1>2, UpTo
  <1>4. Height \in S
    BY <1>0, <1>3
  <1>5. x \in Live /\ Under(Height, x)
    BY <1>4 DEF S
  <1>6. PICK g : Growing(x, g) /\ Team(x) = g[Height]
    BY <1>5, TeamGrows DEF Live
  <1> QED BY <1>5, <1>6

(* After as many steps as there are users, the way up has ended.           *)
LEMMA WayEnds ==
    ASSUME TypeOK, NEW u \in Live, NEW c, Climbing(u, c)
    PROVE  /\ u \in c[Height].met
           /\ \A x \in c[Height].met : manager[x] \in Live => manager[x] \in c[Height].met
  <1> DEFINE Goes(n) == c[n].at \in Live \ c[n].met
             S == {n \in 0 .. Height :
                     /\ u \in c[n].met /\ c[n].met \subseteq Live
                     /\ \A x \in c[n].met : manager[x] \in c[n].met \union {c[n].at}
                     /\ IsFiniteSet(c[n].met)
                     /\ Goes(n) => Cardinality(c[n].met) = n + 1}
  <1>0. Height \in Nat /\ 0 \in 0 .. Height /\ Height \in 0 .. Height
    BY HeightType
  <1>1. 0 \in S
    <2>1. c[0].met = {u} /\ c[0].at = manager[u]
      BY DEF Climbing
    <2>2. IsFiniteSet({u}) /\ Cardinality({u}) = 1
      BY FS_Singleton
    <2> HIDE DEF Goes
    <2> QED BY <1>0, <2>1, <2>2
  <1>2. ASSUME NEW n \in 0 .. Height - 1, n \in S
        PROVE  n + 1 \in S
    <2>1. n + 1 \in 1 .. Height /\ (n + 1) - 1 = n /\ n + 1 \in 0 .. Height
      BY <1>0
    <2>2. c[n + 1] = Up(c[n])
      BY <2>1 DEF Climbing
    <2>3. /\ u \in c[n].met /\ c[n].met \subseteq Live
          /\ \A x \in c[n].met : manager[x] \in c[n].met \union {c[n].at}
          /\ IsFiniteSet(c[n].met)
          /\ Goes(n) => Cardinality(c[n].met) = n + 1
      BY <1>2
    <2>4. CASE Goes(n)
      <3>1. c[n + 1].met = c[n].met \union {c[n].at} /\ c[n + 1].at = manager[c[n].at]
        BY <2>2, <2>4 DEF Up
      <3>2. /\ IsFiniteSet(c[n].met \union {c[n].at})
            /\ Cardinality(c[n].met \union {c[n].at}) = Cardinality(c[n].met) + 1
        BY <2>3, <2>4, FS_AddElement
      <3>3. Cardinality(c[n + 1].met) = (n + 1) + 1
        BY <2>3, <2>4, <3>1, <3>2
      <3>4. \A x \in c[n + 1].met : manager[x] \in c[n + 1].met \union {c[n + 1].at}
        BY <2>3, <3>1
      <3>5. u \in c[n + 1].met /\ c[n + 1].met \subseteq Live /\ IsFiniteSet(c[n + 1].met)
        BY <2>3, <2>4, <3>1, <3>2
      <3> HIDE DEF Goes
      <3> QED BY <2>1, <3>3, <3>4, <3>5
    <2>5. CASE ~Goes(n)
      <3>1. c[n + 1] = c[n]
        BY <2>2, <2>5 DEF Up
      <3>2. ~Goes(n + 1)
        BY <2>5, <3>1
      <3> HIDE DEF Goes
      <3> QED BY <2>1, <2>3, <3>1, <3>2
    <2> QED BY <2>4, <2>5
  <1> HIDE DEF S
  <1>3. 0 .. Height \subseteq S
    BY <1>0, <1>1, <1>2, UpTo
  <1>4. Height \in S
    BY <1>0, <1>3
  <1>5. /\ u \in c[Height].met /\ c[Height].met \subseteq Live
        /\ \A x \in c[Height].met : manager[x] \in c[Height].met \union {c[Height].at}
        /\ IsFiniteSet(c[Height].met)
        /\ Goes(Height) => Cardinality(c[Height].met) = Height + 1
    BY <1>4 DEF S
  <1>6. Cardinality(c[Height].met) <= Height /\ Cardinality(c[Height].met) \in Nat
    <2>1. c[Height].met \in SUBSET Users
      BY <1>5 DEF Live
    <2>2. Cardinality(c[Height].met) <= Cardinality(Users)
      BY <2>1, OrganizationAssumption, FS_Subset
    <2> QED BY <1>5, <2>2, FS_CardinalityType DEF Height
  <1>7. ~Goes(Height)
    BY <1>0, <1>5, <1>6
  <1> QED BY <1>5, <1>7

(* Whoever has u in the team is met on the way up from u.                  *)
LEMMA TeamIsMet ==
    ASSUME TypeOK, NEW u \in Live, NEW m \in Live, u \in Team(m),
           NEW c, Climbing(u, c)
    PROVE  m \in c[Height].met
  <1> DEFINE met == c[Height].met
  <1>1. u \in met /\ \A x \in met : manager[x] \in Live => manager[x] \in met
    BY WayEnds
  <1>2. PICK g : Growing(m, g) /\ Team(m) = g[Height]
    BY TeamGrows DEF Live
  <1> DEFINE S == {n \in 0 .. Height : \A x \in g[n] : x \in met => m \in met}
  <1>0. Height \in Nat /\ 0 \in 0 .. Height /\ Height \in 0 .. Height
    BY HeightType
  <1> HIDE DEF met
  <1>3. 0 \in S
    BY <1>0, <1>2 DEF Growing
  <1>4. ASSUME NEW n \in 0 .. Height - 1, n \in S
        PROVE  n + 1 \in S
    <2>1. n + 1 \in 1 .. Height /\ (n + 1) - 1 = n /\ n + 1 \in 0 .. Height /\ n \in 0 .. Height
      BY <1>0
    <2>2. g[n + 1] = g[n] \union {v \in Live : manager[v] \in g[n]}
      BY <1>2, <2>1 DEF Growing
    <2>3. g[n] \subseteq Live
      BY <1>2, <2>1, TeamIsLive
    <2> QED BY <1>1, <1>4, <2>1, <2>2, <2>3
  <1> HIDE DEF S
  <1>5. 0 .. Height \subseteq S
    BY <1>0, <1>3, <1>4, UpTo
  <1>6. Height \in S
    BY <1>0, <1>5
  <1> QED BY <1>1, <1>2, <1>6 DEF S, met

(* Seen from below and from above the chart is the same, in every company: *)
(* whoever is met on the way up has the user in the team, and the way up   *)
(* does not end before it has met all who have                             *)
(* (direct_and_indirect_report_ids, list_organization_people).             *)
THEOREM ChartIsOne == Spec => []SeenFromBothEnds
  <1>1. TypeOK => SeenFromBothEnds
    <2> SUFFICES ASSUME TypeOK, NEW u \in Live, NEW m \in Live, u # m
                 PROVE  m \in Above(u) <=> u \in Team(m)
      BY DEF SeenFromBothEnds
    <2>1. PICK c : Climbing(u, c) /\ Above(u) = c[Height].met \ {u}
      BY AboveClimbs DEF Live
    <2>2. m \in Above(u) => u \in Team(m)
      BY <2>1, MetHasInTeam
    <2>3. u \in Team(m) => m \in Above(u)
      BY <2>1, TeamIsMet
    <2> QED BY <2>2, <2>3
  <1> QED BY <1>1, TypeCorrect, PTL

-----------------------------------------------------------------------------
(* Billing: StandardIsPromised, for any number of servers, any clock and   *)
(* any order, repetition or delay of Stripe's reports.                     *)
(*                                                                         *)
(* The licence is what lets a company use the standard plan, and its end   *)
(* is copied from the subscription, whose end is copied from reports, all  *)
(* of them through copies that calls in progress hold.  So the inductive   *)
(* invariant says of every place an end can be in, rows, copies and        *)
(* reports under way, that it was promised.                                *)

Covered ==
    /\ sub.periodEnd <= promised
    /\ lic.expires <= promised
    /\ stripe.periodEnd <= promised
    /\ \A i \in 1 .. Len(mail) :
          mail[i].type = "subscription" => mail[i].periodEnd <= promised
    /\ \A w \in Servers :
          op[w] # BillingIdle => op[w].sub.periodEnd <= promised /\ op[w].lic.expires <= promised

Inv == BillingTypeOK /\ Covered

LEMMA LaterIsLater ==
    ASSUME NEW t \in Nat, NEW u \in Nat
    PROVE  Later(t, u) \in Nat /\ t <= Later(t, u) /\ u <= Later(t, u)
  BY DEF Later

(* A commit leaves a well-formed row, each column the stored or the new. *)
LEMMA WrittenSubscription ==
    ASSUME NEW row \in Subscription, NEW read \in Subscription, NEW new \in Subscription
    PROVE  /\ BillingWritten(row, read, new) \in Subscription
           /\ BillingWritten(row, read, new).periodEnd \in {row.periodEnd, new.periodEnd}
  BY DEF BillingWritten, Subscription

LEMMA WrittenLicence ==
    ASSUME NEW row \in Licence, NEW read \in Licence, NEW new \in Licence
    PROVE  /\ BillingWritten(row, read, new) \in Licence
           /\ BillingWritten(row, read, new).expires \in {row.expires, new.expires}
  BY DEF BillingWritten, Licence

LEMMA ActivatedType ==
    ASSUME NEW l \in Licence, NEW s \in Subscription
    PROVE  Activated(l, s) \in Licence /\ Activated(l, s).expires = s.periodEnd
  BY DEF Activated, Licence, Subscription

LEMMA AppliedType ==
    ASSUME NEW s \in Subscription, NEW r \in Report
    PROVE  /\ Applied(s, r) \in Subscription
           /\ \/ Applied(s, r).periodEnd = s.periodEnd
              \/ r.type = "subscription" /\ Applied(s, r).periodEnd = r.periodEnd
  BY DEF Applied, Subscription, Report, Status, Plan

(* Reports that are left when one is acknowledged were there before. *)
LEMMA Acknowledged ==
    ASSUME NEW m \in Seq(Report), NEW k \in 1 .. Len(m)
    PROVE  /\ RemoveAt(m, k) \in Seq(Report)
           /\ \A i \in 1 .. Len(RemoveAt(m, k)) : \E j \in 1 .. Len(m) : RemoveAt(m, k)[i] = m[j]
  <1> DEFINE before == SubSeq(m, 1, k - 1)
             after  == SubSeq(m, k + 1, Len(m))
  <1>1. before \in Seq(Report) /\ Len(before) = k - 1
        /\ \A i \in 1 .. k - 1 : before[i] = m[i]
    OBVIOUS
  <1>2. after \in Seq(Report) /\ Len(after) = Len(m) - k
        /\ \A i \in 1 .. Len(m) - k : after[i] = m[k + i]
    OBVIOUS
  <1>3. RemoveAt(m, k) = before \o after
    BY DEF RemoveAt
  <1> HIDE DEF before, after
  <1>4. RemoveAt(m, k) \in Seq(Report)
    BY <1>1, <1>2, <1>3
  <1>5. ASSUME NEW i \in 1 .. Len(RemoveAt(m, k))
        PROVE  \E j \in 1 .. Len(m) : RemoveAt(m, k)[i] = m[j]
    <2>1. CASE i <= k - 1
      BY <1>1, <1>2, <1>3, <2>1
    <2>2. CASE i > k - 1
      <3>1. i - (k - 1) \in 1 .. Len(m) - k /\ RemoveAt(m, k)[i] = after[i - (k - 1)]
        BY <1>1, <1>2, <1>3, <2>2
      <3>2. k + (i - (k - 1)) \in 1 .. Len(m)
        BY <3>1
      <3> QED BY <1>2, <3>1, <3>2
    <2> QED BY <2>1, <2>2
  <1> QED BY <1>4, <1>5

LEMMA InvInit == BillingInit => Inv
  BY BillingAssumption
  DEF BillingInit, Inv, BillingTypeOK, Covered, NoSubscription, NoLicence, NotSold, BillingIdle, Servers,
      Subscription, Licence, Status, Plan, Report

-----------------------------------------------------------------------------
(* What a call in progress holds *)

LEMMA Holding ==
    ASSUME Inv, NEW w \in Servers, op[w] # BillingIdle
    PROVE  /\ op[w] \in BillingCall
           /\ op[w].sub \in Subscription /\ op[w].sub.periodEnd <= promised
           /\ op[w].lic \in Licence /\ op[w].lic.expires <= promised
  BY DEF Inv, BillingTypeOK, Covered, BillingCall

LEMMA BeginStep ==
    ASSUME Inv, NEW w \in Servers,
           NEW kind \in {"select_free", "change_plan", "activate", "webhook"},
           NEW plan \in Plan \cup {"none"}, NEW turn \in Nat,
           Begin(w, kind, plan, turn),
           kind = "webhook" => turn \in 1 .. Len(mail)
    PROVE  Inv'
  <1>1. op' \in [Servers -> BillingCall \cup {BillingIdle}]
    BY DEF Begin, Inv, BillingTypeOK, BillingCall
  <1>2. \A v \in Servers : op'[v] # BillingIdle =>
           op'[v].sub.periodEnd <= promised /\ op'[v].lic.expires <= promised
    BY DEF Begin, Inv, BillingTypeOK, Covered
  <1>3. op'[Loop].kind = "webhook" => op'[Loop].turn \in 1 .. Len(mail)
    BY DEF Begin, Inv, BillingTypeOK, Servers
  <1> QED BY <1>1, <1>2, <1>3 DEF Begin, Inv, BillingTypeOK, Covered

(* A call that is over leaves the others as they were. *)
LEMMA FinishOps ==
    ASSUME Inv, NEW w \in Servers, Finish(w)
    PROVE  /\ op' \in [Servers -> BillingCall \cup {BillingIdle}]
           /\ \A v \in Servers : op'[v] # BillingIdle => op'[v] = op[v]
           /\ op'[Loop].kind = "webhook" => op'[Loop] = op[Loop] /\ w # Loop
  BY DEF Finish, Inv, BillingTypeOK, BillingIdle, Servers

-----------------------------------------------------------------------------
(* Each action keeps the invariant. *)

(* A later promise covers what an earlier one did. *)
LEMMA StillCovered ==
    ASSUME Inv, promised' \in Nat, promised <= promised',
           sub'.periodEnd <= promised', UNCHANGED <<lic, stripe, mail, op>>
    PROVE  Covered'
  <1>1. promised \in Nat
    BY DEF Inv, BillingTypeOK
  <1>2. lic'.expires <= promised'
    <2>1. lic.expires \in Nat /\ lic.expires <= promised
      BY DEF Inv, BillingTypeOK, Covered, Licence
    <2> QED BY <1>1, <2>1
  <1>3. stripe'.periodEnd <= promised'
    <2>1. stripe.periodEnd \in Nat /\ stripe.periodEnd <= promised
      BY DEF Inv, BillingTypeOK, Covered
    <2> QED BY <1>1, <2>1
  <1>4. ASSUME NEW i \in 1 .. Len(mail'), mail'[i].type = "subscription"
        PROVE  mail'[i].periodEnd <= promised'
    <2>1. mail[i].periodEnd \in Nat /\ mail[i].periodEnd <= promised
      BY <1>4 DEF Inv, BillingTypeOK, Covered, Report
    <2> QED BY <1>1, <2>1
  <1>5. ASSUME NEW w \in Servers, op'[w] # BillingIdle
        PROVE  op'[w].sub.periodEnd <= promised' /\ op'[w].lic.expires <= promised'
    <2>1. /\ op[w].sub.periodEnd \in Nat /\ op[w].sub.periodEnd <= promised
          /\ op[w].lic.expires \in Nat /\ op[w].lic.expires <= promised
      BY <1>5, Holding DEF Subscription, Licence
    <2> QED BY <1>1, <2>1
  <1> QED BY <1>2, <1>3, <1>4, <1>5 DEF Covered

LEMMA CreateStep ==
    ASSUME Inv, NEW w \in Threads,
           CreateSubscription(w) \/ \E shown \in BOOLEAN : CreateLicence(w, shown)
    PROVE  Inv'
  <1>1. CASE CreateSubscription(w)
    <2>1. now + TrialDays \in Nat /\ promised \in Nat
      BY BillingAssumption DEF Inv, BillingTypeOK
    <2>2. promised' \in Nat /\ promised <= promised' /\ now + TrialDays <= promised'
      BY <1>1, <2>1, LaterIsLater DEF CreateSubscription
    <2>3. sub' \in Subscription /\ sub'.periodEnd = now + TrialDays
      BY <1>1, <2>1 DEF CreateSubscription, NewSubscription, Subscription, Status, Plan
    <2>4. UNCHANGED <<now, lic, stripe, mail, op>>
      BY <1>1 DEF CreateSubscription
    <2>5. Covered'
      BY <2>1, <2>2, <2>3, <2>4, StillCovered
    <2> QED BY <2>2, <2>3, <2>4, <2>5 DEF Inv, BillingTypeOK
  <1>2. ASSUME NEW shown \in BOOLEAN, CreateLicence(w, shown)
        PROVE  Inv'
    <2>1. lic' \in Licence /\ lic'.expires = 0
      BY <1>2 DEF CreateLicence, NewLicence, Licence
    <2> QED BY <1>2, <2>1 DEF CreateLicence, Inv, BillingTypeOK, Covered
  <1> QED BY <1>1, <1>2

LEMMA AdministratorReads ==
    ASSUME Inv, NEW w \in Threads,
           \/ SelectFreeRead(w)
           \/ \E plan \in Plan : ChangePlanRead(w, plan)
           \/ ActivateRead(w)
    PROVE  Inv'
  <1>1. w \in Servers /\ sub.plan \in Plan \cup {"none"} /\ 0 \in Nat
    BY DEF Servers, Inv, BillingTypeOK, Subscription
  <1>2. CASE SelectFreeRead(w)
    BY <1>1, <1>2, BeginStep DEF SelectFreeRead, Plan
  <1>3. ASSUME NEW plan \in Plan, ChangePlanRead(w, plan)
        PROVE  Inv'
    BY <1>1, <1>3, BeginStep DEF ChangePlanRead
  <1>4. CASE ActivateRead(w)
    BY <1>1, <1>4, BeginStep DEF ActivateRead
  <1> QED BY <1>2, <1>3, <1>4

LEMMA AdministratorCommits ==
    ASSUME Inv, NEW w \in Threads,
           SelectFreeCommit(w) \/ ChangePlanCommit(w) \/ ActivateCommit(w)
    PROVE  Inv'
  <1>1. w \in Servers
    BY DEF Servers
  <1>2. op[w] # BillingIdle
    BY DEF SelectFreeCommit, ChangePlanCommit, ActivateCommit, Serving, BillingIdle
  <1>3. /\ op[w] \in BillingCall
        /\ op[w].sub \in Subscription /\ op[w].sub.periodEnd <= promised
        /\ op[w].lic \in Licence /\ op[w].lic.expires <= promised
    BY <1>1, <1>2, Holding
  <1>4. Finish(w)
    BY DEF SelectFreeCommit, ChangePlanCommit, ActivateCommit
  <1>5. sub \in Subscription /\ lic \in Licence /\ sub.periodEnd <= promised
        /\ lic.expires <= promised /\ promised \in Nat
    BY DEF Inv, BillingTypeOK, Covered
  <1>6. sub' \in Subscription /\ sub'.periodEnd <= promised
    <2>1. CASE SelectFreeCommit(w)
      <3> DEFINE new == [op[w].sub EXCEPT !.plan = "free", !.status = "trialing"]
      <3>1. new \in Subscription /\ new.periodEnd = op[w].sub.periodEnd
        BY <1>3 DEF Subscription, Status, Plan
      <3> QED
        BY <1>3, <1>5, <2>1, <3>1, WrittenSubscription DEF SelectFreeCommit
    <2>2. CASE ChangePlanCommit(w)
      <3> DEFINE new == [op[w].sub EXCEPT !.plan = op[w].plan]
      <3>1. op[w].plan \in Plan \cup {"none"}
        BY <1>3 DEF BillingCall
      <3>2. new \in Subscription /\ new.periodEnd = op[w].sub.periodEnd
        BY <1>3, <3>1 DEF Subscription
      <3> QED
        BY <1>3, <1>5, <2>2, <3>2, WrittenSubscription DEF ChangePlanCommit
    <2>3. CASE ActivateCommit(w)
      BY <1>5, <2>3 DEF ActivateCommit
    <2> QED BY <2>1, <2>2, <2>3
  <1>7. lic' \in Licence /\ lic'.expires <= promised
    <2>1. CASE ActivateCommit(w)
      <3> DEFINE new == Activated(op[w].lic, op[w].sub)
      <3>1. new \in Licence /\ new.expires = op[w].sub.periodEnd
        BY <1>3, ActivatedType
      <3> HIDE DEF new
      <3>2. lic' = BillingWritten(lic, op[w].lic, new)
        BY <2>1 DEF ActivateCommit, new
      <3> QED BY <1>3, <1>5, <3>1, <3>2, WrittenLicence
    <2>2. CASE SelectFreeCommit(w) \/ ChangePlanCommit(w)
      BY <1>5, <2>2 DEF SelectFreeCommit, ChangePlanCommit
    <2> QED BY <2>1, <2>2
  <1>8. UNCHANGED <<now, stripe, mail, promised>>
    BY DEF SelectFreeCommit, ChangePlanCommit, ActivateCommit
  <1>9. /\ op' \in [Servers -> BillingCall \cup {BillingIdle}]
        /\ \A v \in Servers : op'[v] # BillingIdle => op'[v] = op[v]
        /\ op'[Loop].kind = "webhook" => op'[Loop] = op[Loop]
    BY <1>1, <1>4, FinishOps
  <1> QED BY <1>6, <1>7, <1>8, <1>9 DEF Inv, BillingTypeOK, Covered

LEMMA QuietStep ==
    ASSUME Inv, (\E w \in Threads : Rotate(w)) \/ Tick
    PROVE  Inv'
  <1>1. ASSUME NEW w \in Threads, Rotate(w)
        PROVE  Inv'
    <2>1. lic' \in Licence /\ lic'.expires = lic.expires
      BY <1>1 DEF Rotate, Inv, BillingTypeOK, Licence
    <2> QED BY <1>1, <2>1 DEF Rotate, Inv, BillingTypeOK, Covered
  <1>2. CASE Tick
    BY <1>2 DEF Tick, Inv, BillingTypeOK, Covered
  <1> QED BY <1>1, <1>2

LEMMA AbortStep ==
    ASSUME Inv, NEW w \in Servers, Abort(w)
    PROVE  Inv'
  <1>1. /\ op' \in [Servers -> BillingCall \cup {BillingIdle}]
        /\ \A v \in Servers : op'[v] # BillingIdle => op'[v] = op[v]
        /\ op'[Loop].kind = "webhook" => op'[Loop] = op[Loop]
    BY FinishOps DEF Abort
  <1> QED BY <1>1 DEF Abort, Inv, BillingTypeOK, Covered

(* The reports Stripe sends name ends no later than what it now promises. *)
LEMMA StripeReports ==
    ASSUME Inv,
           NEW s \in [status : Status \cup {"none"}, trialEnd : Nat, periodEnd : Nat],
           NEW reports \in Seq({Completed, Succeeded, Failed, Reported(s)}),
           s.status # "none",
           Becomes(s, reports)
    PROVE  Inv'
  <1>1. /\ promised \in Nat /\ promised' \in Nat /\ promised <= promised'
        /\ s.periodEnd <= promised'
    BY LaterIsLater DEF Becomes, Inv, BillingTypeOK
  <1>2. {Completed, Succeeded, Failed, Reported(s)} \subseteq Report
    BY DEF Completed, Succeeded, Failed, Reported, Report
  <1>3. \A r \in {Completed, Succeeded, Failed, Reported(s)} :
           r.type = "subscription" => r.periodEnd = s.periodEnd
    BY DEF Completed, Succeeded, Failed, Reported
  <1> HIDE DEF Completed, Succeeded, Failed, Reported
  <1>4. reports \in Seq(Report)
        /\ \A i \in 1 .. Len(reports) : reports[i] \in {Completed, Succeeded, Failed, Reported(s)}
    BY <1>2
  <1>5. mail \in Seq(Report) /\ mail' = mail \o reports
    BY DEF Becomes, Inv, BillingTypeOK
  <1>6. mail' \in Seq(Report)
    BY <1>4, <1>5
  <1>7. ASSUME NEW i \in 1 .. Len(mail'), mail'[i].type = "subscription"
        PROVE  mail'[i].periodEnd <= promised'
    <2>1. CASE i <= Len(mail)
      <3>1. mail'[i] = mail[i] /\ i \in 1 .. Len(mail)
        BY <1>4, <1>5, <2>1
      <3>2. mail[i] \in Report
        BY <1>5, <3>1
      <3>3. mail[i].periodEnd \in Nat /\ mail[i].periodEnd <= promised
        BY <1>7, <3>1, <3>2 DEF Report, Inv, Covered
      <3> QED BY <1>1, <3>1, <3>3
    <2>2. CASE i > Len(mail)
      <3>1. mail'[i] = reports[i - Len(mail)] /\ i - Len(mail) \in 1 .. Len(reports)
        BY <1>4, <1>5, <2>2
      <3> QED BY <1>1, <1>3, <1>4, <1>7, <3>1
    <2> QED BY <2>1, <2>2
  <1>8. sub'.periodEnd <= promised' /\ lic'.expires <= promised'
    <2>1. /\ sub.periodEnd \in Nat /\ sub.periodEnd <= promised
          /\ lic.expires \in Nat /\ lic.expires <= promised
      BY DEF Inv, BillingTypeOK, Covered, Subscription, Licence
    <2> QED BY <1>1, <2>1 DEF Becomes
  <1>9. ASSUME NEW w \in Servers, op'[w] # BillingIdle
        PROVE  op'[w].sub.periodEnd <= promised' /\ op'[w].lic.expires <= promised'
    <2>1. op' = op
      BY DEF Becomes
    <2>2. /\ op[w].sub.periodEnd \in Nat /\ op[w].sub.periodEnd <= promised
          /\ op[w].lic.expires \in Nat /\ op[w].lic.expires <= promised
      BY <1>9, <2>1, Holding DEF Subscription, Licence
    <2> QED BY <1>1, <2>1, <2>2
  <1>10. Covered'
    BY <1>1, <1>7, <1>8, <1>9 DEF Becomes, Covered
  <1>11. op[Loop].kind = "webhook" => op[Loop].turn \in 1 .. Len(mail')
    BY <1>4, <1>5 DEF Inv, BillingTypeOK
  <1> QED BY <1>1, <1>6, <1>10, <1>11 DEF Becomes, Inv, BillingTypeOK

LEMMA SellingStep ==
    ASSUME Inv, Selling
    PROVE  Inv'
  <1> DEFINE Sold == [status : Status \cup {"none"}, trialEnd : Nat, periodEnd : Nat]
  <1>1. /\ now \in Nat /\ stripe \in Sold
        /\ TrialDays \in Nat /\ PeriodDays \in Nat
    BY BillingAssumption DEF Inv, BillingTypeOK
  <1>2. CASE Subscribe
    <2> DEFINE end == now + (IF TrialDays > 0 THEN TrialDays ELSE PeriodDays)
               s == [status |-> IF TrialDays > 0 THEN "trialing" ELSE "active",
                     trialEnd |-> IF TrialDays > 0 THEN end ELSE 0, periodEnd |-> end]
    <2>1. s \in Sold /\ s.status # "none"
      BY <1>1 DEF Status
    <2>2. Becomes(s, <<Completed, Reported(s), Succeeded>>)
      BY <1>2 DEF Subscribe
    <2> HIDE DEF s
    <2>3. <<Completed, Reported(s), Succeeded>> \in Seq({Completed, Succeeded, Failed, Reported(s)})
      OBVIOUS
    <2> QED BY <2>1, <2>2, <2>3, StripeReports
  <1>3. ASSUME NEW paid \in BOOLEAN, Renew(paid)
        PROVE  Inv'
    <2> DEFINE s == [stripe EXCEPT !.status = IF paid THEN "active" ELSE "past_due",
                                   !.periodEnd = stripe.periodEnd + PeriodDays]
    <2>1. s \in Sold /\ s.status # "none"
      <3>1. stripe.periodEnd + PeriodDays \in Nat
        BY <1>1
      <3>2. CASE paid
        BY <1>1, <3>1, <3>2 DEF Status
      <3>3. CASE ~paid
        BY <1>1, <3>1, <3>3 DEF Status
      <3> QED BY <3>2, <3>3
    <2>2. Becomes(s, <<Reported(s), IF paid THEN Succeeded ELSE Failed>>)
      BY <1>3 DEF Renew
    <2> HIDE DEF s
    <2>3. <<Reported(s), IF paid THEN Succeeded ELSE Failed>>
            \in Seq({Completed, Succeeded, Failed, Reported(s)})
      OBVIOUS
    <2> QED BY <2>1, <2>2, <2>3, StripeReports
  <1>4. CASE Recover
    <2> DEFINE s == [stripe EXCEPT !.status = "active"]
    <2>1. s \in Sold /\ s.status # "none"
      BY <1>1 DEF Status
    <2>2. Becomes(s, <<Reported(s), Succeeded>>)
      BY <1>4 DEF Recover
    <2> HIDE DEF s
    <2>3. <<Reported(s), Succeeded>> \in Seq({Completed, Succeeded, Failed, Reported(s)})
      OBVIOUS
    <2> QED BY <2>1, <2>2, <2>3, StripeReports
  <1>5. CASE Cancel
    <2> DEFINE s == [stripe EXCEPT !.status = "canceled"]
    <2>1. s \in Sold /\ s.status # "none"
      BY <1>1 DEF Status
    <2>2. Becomes(s, <<Reported(s)>>)
      BY <1>5 DEF Cancel
    <2> HIDE DEF s
    <2>3. <<Reported(s)>> \in Seq({Completed, Succeeded, Failed, Reported(s)})
      OBVIOUS
    <2> QED BY <2>1, <2>2, <2>3, StripeReports
  <1> QED BY <1>2, <1>3, <1>4, <1>5 DEF Selling

(* What the webhook makes of a report, from the copies it holds. *)
LEMMA WebhookApplies ==
    ASSUME Inv, Serving(Loop, "webhook")
    PROVE  LET r == mail[op[Loop].turn]
               s == Applied(op[Loop].sub, r)
           IN  /\ r \in Report
               /\ s \in Subscription /\ s.periodEnd <= promised
               /\ BillingWritten(sub, op[Loop].sub, s) \in Subscription
               /\ BillingWritten(sub, op[Loop].sub, s).periodEnd <= promised
  <1> DEFINE r == mail[op[Loop].turn]
             s == Applied(op[Loop].sub, r)
  <1>1. Loop \in Servers /\ op[Loop] # BillingIdle
    BY DEF Serving, BillingIdle, Servers
  <1>2. op[Loop].sub \in Subscription /\ op[Loop].sub.periodEnd <= promised
    BY <1>1, Holding
  <1>3. op[Loop].turn \in 1 .. Len(mail) /\ r \in Report
    BY DEF Serving, Inv, BillingTypeOK
  <1>4. r.type = "subscription" => r.periodEnd <= promised
    BY <1>3 DEF Inv, Covered
  <1> HIDE DEF r
  <1>5. s \in Subscription /\ s.periodEnd <= promised
    BY <1>2, <1>3, <1>4, AppliedType
  <1> HIDE DEF s
  <1>6. sub \in Subscription /\ sub.periodEnd <= promised
    BY DEF Inv, BillingTypeOK, Covered
  <1>7. /\ BillingWritten(sub, op[Loop].sub, s) \in Subscription
        /\ BillingWritten(sub, op[Loop].sub, s).periodEnd <= promised
    BY <1>2, <1>5, <1>6, WrittenSubscription
  <1> QED BY <1>3, <1>5, <1>7 DEF r, s

LEMMA WebhookCreatesLicenceStep ==
    ASSUME Inv, WebhookCreatesLicence
    PROVE  Inv'
  <1> DEFINE s == Applied(op[Loop].sub, mail[op[Loop].turn])
             new == NewLicence(FALSE)
  <1>1. Serving(Loop, "webhook") /\ Loop \in Servers /\ op[Loop] # BillingIdle
    BY DEF WebhookCreatesLicence, Serving, BillingIdle, Servers
  <1>2. /\ s \in Subscription /\ s.periodEnd <= promised
        /\ BillingWritten(sub, op[Loop].sub, s) \in Subscription
        /\ BillingWritten(sub, op[Loop].sub, s).periodEnd <= promised
    BY <1>1, WebhookApplies
  <1> HIDE DEF s
  <1>3. sub' = BillingWritten(sub, op[Loop].sub, s) /\ lic' = new
        /\ op' = [op EXCEPT ![Loop].sub = s, ![Loop].lic = new]
        /\ UNCHANGED <<now, stripe, mail, promised>>
    BY DEF WebhookCreatesLicence, s
  <1>4. new \in Licence /\ new.expires <= promised
    BY DEF NewLicence, Licence, Inv, BillingTypeOK
  <1> HIDE DEF new
  <1>5. op[Loop] \in BillingCall
    BY <1>1, Holding
  <1>6. /\ op' \in [Servers -> BillingCall \cup {BillingIdle}]
        /\ op'[Loop].turn = op[Loop].turn
        /\ op'[Loop].sub = s /\ op'[Loop].lic = new
        /\ \A w \in Servers : w # Loop => op'[w] = op[w]
    BY <1>1, <1>2, <1>3, <1>4, <1>5 DEF Inv, BillingTypeOK, BillingCall
  <1>7. op'[Loop].kind = "webhook" => op'[Loop].turn \in 1 .. Len(mail')
    BY <1>1, <1>3, <1>6 DEF Serving, Inv, BillingTypeOK
  <1>8. \A w \in Servers :
           op'[w] # BillingIdle => op'[w].sub.periodEnd <= promised' /\ op'[w].lic.expires <= promised'
    BY <1>2, <1>3, <1>4, <1>6 DEF Inv, Covered
  <1> QED BY <1>2, <1>3, <1>4, <1>6, <1>7, <1>8 DEF Inv, BillingTypeOK, Covered

LEMMA WebhookCommitStep ==
    ASSUME Inv, NEW acknowledged \in BOOLEAN, WebhookCommit(acknowledged)
    PROVE  Inv'
  <1> DEFINE r == mail[op[Loop].turn]
             s == Applied(op[Loop].sub, r)
             new == Activated(op[Loop].lic, s)
  <1>1. Serving(Loop, "webhook") /\ Loop \in Servers /\ op[Loop] # BillingIdle
    BY DEF WebhookCommit, Serving, BillingIdle, Servers
  <1>2. /\ s \in Subscription /\ s.periodEnd <= promised
        /\ BillingWritten(sub, op[Loop].sub, s) \in Subscription
        /\ BillingWritten(sub, op[Loop].sub, s).periodEnd <= promised
    BY <1>1, WebhookApplies
  <1>3. op[Loop].lic \in Licence /\ op[Loop].turn \in 1 .. Len(mail) /\ mail \in Seq(Report)
    BY <1>1, Holding DEF Serving, Inv, BillingTypeOK
  <1> HIDE DEF s
  <1>4. new \in Licence /\ new.expires <= promised
    BY <1>2, <1>3, ActivatedType
  <1> HIDE DEF new
  <1>5. lic \in Licence /\ lic.expires <= promised
    BY DEF Inv, BillingTypeOK, Covered
  <1>6. lic' \in Licence /\ lic'.expires <= promised
    <2>1. lic' = BillingWritten(lic, op[Loop].lic, new) \/ lic' = lic
      BY DEF WebhookCommit, new, s
    <2> QED BY <1>3, <1>4, <1>5, <2>1, WrittenLicence
  <1>7. sub' = BillingWritten(sub, op[Loop].sub, s) /\ Finish(Loop)
        /\ UNCHANGED <<now, stripe, promised>>
    BY DEF WebhookCommit, s
  <1>8. mail' \in Seq(Report)
        /\ \A i \in 1 .. Len(mail') : \E j \in 1 .. Len(mail) : mail'[i] = mail[j]
    <2>1. mail' = IF acknowledged THEN RemoveAt(mail, op[Loop].turn) ELSE mail
      BY Zenon DEF WebhookCommit
    <2> QED BY <1>3, <2>1, Acknowledged
  <1>9. /\ op' \in [Servers -> BillingCall \cup {BillingIdle}]
        /\ \A v \in Servers : op'[v] # BillingIdle => op'[v] = op[v]
        /\ op'[Loop].kind # "webhook"
    BY <1>1, <1>7, FinishOps
  <1>10. \A i \in 1 .. Len(mail') :
            mail'[i].type = "subscription" => mail'[i].periodEnd <= promised'
    BY <1>7, <1>8 DEF Inv, Covered
  <1> QED BY <1>2, <1>6, <1>7, <1>8, <1>9, <1>10 DEF Inv, BillingTypeOK, Covered

LEMMA InvNext == Inv /\ [BillingNext]_billingVars => Inv'
  <1> SUFFICES ASSUME Inv, [BillingNext]_billingVars
               PROVE  Inv'
    OBVIOUS
  <1>1. ASSUME NEW w \in Threads, Administrating(w)
        PROVE  Inv'
    BY <1>1, CreateStep, AdministratorReads, AdministratorCommits, QuietStep
    DEF Administrating, AskingStatus
  <1>2. ASSUME NEW w \in Servers, Abort(w)
        PROVE  Inv'
    BY <1>2, AbortStep
  <1>3. ASSUME NEW i \in 1 .. MaxMail, WebhookRead(i)
        PROVE  Inv'
    <2>1. i \in 1 .. Len(mail) /\ i \in Nat /\ Loop \in Servers
          /\ sub.plan \in Plan \cup {"none"}
      BY <1>3 DEF WebhookRead, Turns, Servers, Inv, BillingTypeOK, Subscription
    <2> QED BY <1>3, <2>1, BeginStep DEF WebhookRead
  <1>4. CASE Selling
    BY <1>4, SellingStep
  <1>5. CASE WebhookCreatesLicence
    BY <1>5, WebhookCreatesLicenceStep
  <1>6. ASSUME NEW acknowledged \in BOOLEAN, WebhookCommit(acknowledged)
        PROVE  Inv'
    BY <1>6, WebhookCommitStep
  <1>7. CASE Tick
    BY <1>7, QuietStep
  <1>8. CASE UNCHANGED billingVars
    BY <1>8 DEF billingVars, Inv, BillingTypeOK, Covered
  <1> QED BY <1>1, <1>2, <1>3, <1>4, <1>5, <1>6, <1>7, <1>8 DEF BillingNext, Reporting

LEMMA InvImplies == Inv => BillingTypeOK /\ StandardIsPromised
  <1> SUFFICES ASSUME Inv, StandardActive(sub, lic)
               PROVE  now <= promised
    BY DEF Inv, StandardIsPromised
  <1>1. /\ now \in Nat /\ promised \in Nat /\ lic.expires \in Nat
        /\ lic.expires <= promised
    BY DEF Inv, BillingTypeOK, Covered, Licence
  <1>2. ~(lic.expires < now)
    BY DEF StandardActive, LicenceActive
  <1> QED BY <1>1, <1>2

(* The rows, the copies that calls hold and Stripe's reports keep their    *)
(* shape, whatever interleaves (billing.py's handlers).                    *)
THEOREM BillingTypeCorrect == BillingSpec => []BillingTypeOK
  BY InvInit, InvNext, InvImplies, PTL DEF BillingSpec

(* A company has the standard plan only while a trial or a period lasts    *)
(* that was promised to it: entitlements_for, for every number of servers, *)
(* every clock, and reports late, repeated or out of order.                *)
THEOREM StandardOnlyWhilePromised == BillingSpec => []StandardIsPromised
  BY InvInit, InvNext, InvImplies, PTL DEF BillingSpec

-----------------------------------------------------------------------------
(* Billing: PaidIsServed, for calls served one at a time and reports       *)
(* served in their turn.                                                   *)
(*                                                                         *)
(* While Stripe holds a subscription paid, it is the case that the report  *)
(* of its period and the invoice's are the last two to come; or that the   *)
(* period has been copied and only the invoice's is left; or that nothing  *)
(* is left and the licence lasts as long as the period.  What serves a     *)
(* report takes each case to itself or to the next, because the copies it  *)
(* holds are the rows; Stripe's own steps go back to the first.            *)

InTurn == Threads \subseteq {Loop} /\ Reach = 1

ReportAndInvoiceToCome ==
    /\ Len(mail) >= 2
    /\ mail[Len(mail) - 1] = Reported(stripe)
    /\ mail[Len(mail)] = Succeeded

PeriodCopied == sub.periodEnd = stripe.periodEnd

LicenceLasts == lic.status = "active" /\ lic.expires = stripe.periodEnd

Paid ==
    stripe.status = "active" =>
        \/ ReportAndInvoiceToCome
        \/ mail = <<Succeeded>> /\ PeriodCopied
        \/ mail = <<>> /\ PeriodCopied /\ LicenceLasts

(* Nothing is sold to a company without a subscription. *)
NoRowNoSale == sub.plan = "none" => sub = NoSubscription /\ stripe.status = "none"

(* The call in progress holds the rows, and the first report. *)
HoldsRows ==
    op[Loop] # BillingIdle =>
        /\ op[Loop].sub = sub /\ op[Loop].lic = lic /\ sub.plan # "none"
        /\ op[Loop].kind = "webhook" => op[Loop].turn = 1
        /\ op[Loop].kind = "change_plan" => op[Loop].plan # "none"

Served == Paid /\ NoRowNoSale /\ HoldsRows

LEMMA OneServer ==
    ASSUME InTurn, NEW w \in Servers
    PROVE  w = Loop
  BY DEF InTurn, Servers

(* A commit over the row it read leaves the row it made. *)
LEMMA SubscriptionOver ==
    ASSUME NEW row \in Subscription, NEW new \in Subscription
    PROVE  BillingWritten(row, row, new) = new
  BY DEF BillingWritten, Subscription

LEMMA LicenceOver ==
    ASSUME NEW row \in Licence, NEW new \in Licence
    PROVE  BillingWritten(row, row, new) = new
  BY DEF BillingWritten, Licence

(* What is left to come, and the rows, stand for what Stripe holds.        *)
LEMMA StillPaid ==
    ASSUME Paid, UNCHANGED <<stripe, mail>>, sub'.periodEnd = sub.periodEnd,
           PeriodCopied /\ LicenceLasts => LicenceLasts'
    PROVE  Paid'
  BY DEF Paid, ReportAndInvoiceToCome, PeriodCopied, LicenceLasts, Reported

LEMMA ServedInit == BillingInit => Served
  BY DEF BillingInit, Served, Paid, NoRowNoSale, HoldsRows, NoSubscription, NotSold, Servers

LEMMA Over ==
    ASSUME Inv, NEW w \in Servers, Finish(w), w = Loop
    PROVE  op'[Loop] = BillingIdle
  BY DEF Finish, Inv, BillingTypeOK

-----------------------------------------------------------------------------
(* Each action keeps it. *)

LEMMA CreateServed ==
    ASSUME InTurn, Inv, Served, NEW w \in Threads, AskingStatus(w)
    PROVE  Served'
  <1>1. w = Loop /\ op[Loop] = BillingIdle /\ UNCHANGED <<op, stripe, mail>>
    BY DEF InTurn, AskingStatus, CreateSubscription, CreateLicence
  <1>2. HoldsRows'
    BY <1>1 DEF HoldsRows
  <1>3. CASE CreateSubscription(w)
    <2>1. sub = NoSubscription /\ sub' = NewSubscription
      BY <1>3 DEF CreateSubscription
    <2>2. sub.plan = "none" /\ sub'.plan = "free"
      BY <2>1 DEF NoSubscription, NewSubscription
    <2>3. stripe'.status = "none"
      BY <1>1, <2>2 DEF Served, NoRowNoSale
    <2> QED BY <1>2, <2>2, <2>3 DEF Served, NoRowNoSale, Paid
  <1>4. ASSUME NEW shown \in BOOLEAN, CreateLicence(w, shown)
        PROVE  Served'
    <2>1. lic.status = "none" /\ UNCHANGED sub
      BY <1>4 DEF CreateLicence, NoLicence
    <2>2. Paid'
      BY <1>1, <2>1, StillPaid DEF Served, LicenceLasts
    <2> QED BY <1>1, <1>2, <2>1, <2>2 DEF Served, NoRowNoSale
  <1> QED BY <1>3, <1>4 DEF AskingStatus

LEMMA BeginServed ==
    ASSUME InTurn, Inv, Served, NEW w \in Servers, NEW kind, NEW plan, NEW turn,
           Begin(w, kind, plan, turn),
           kind = "webhook" => turn = 1,
           kind = "change_plan" => plan # "none"
    PROVE  Served'
  <1>1. w = Loop /\ UNCHANGED <<sub, lic, stripe, mail>>
    BY OneServer DEF Begin
  <1>2. op'[Loop] = [kind |-> kind, plan |-> plan, turn |-> turn, sub |-> sub, lic |-> lic]
    BY <1>1 DEF Begin, Inv, BillingTypeOK
  <1>3. sub.plan # "none"
    BY DEF Begin, Served, NoRowNoSale
  <1>4. HoldsRows'
    BY <1>1, <1>2, <1>3 DEF HoldsRows
  <1>5. Paid'
    BY <1>1, StillPaid DEF Served, LicenceLasts
  <1> QED BY <1>1, <1>4, <1>5 DEF Served, NoRowNoSale

LEMMA ReadsServed ==
    ASSUME InTurn, Inv, Served, NEW w \in Threads,
           \/ SelectFreeRead(w)
           \/ \E plan \in Plan : ChangePlanRead(w, plan)
           \/ ActivateRead(w)
    PROVE  Served'
  <1>1. w \in Servers
    BY DEF Servers
  <1>2. CASE SelectFreeRead(w)
    BY <1>1, <1>2, BeginServed DEF SelectFreeRead
  <1>3. ASSUME NEW plan \in Plan, ChangePlanRead(w, plan)
        PROVE  Served'
    <2>1. plan # "none"
      BY DEF Plan
    <2> QED BY <1>1, <1>3, <2>1, BeginServed DEF ChangePlanRead
  <1>4. CASE ActivateRead(w)
    BY <1>1, <1>4, BeginServed DEF ActivateRead
  <1> QED BY <1>2, <1>3, <1>4

(* A commit of an administrator leaves the end of the subscription, and    *)
(* gives a licence that end if any.                                        *)
LEMMA CommitsServed ==
    ASSUME InTurn, Inv, Served, NEW w \in Threads,
           SelectFreeCommit(w) \/ ChangePlanCommit(w) \/ ActivateCommit(w)
    PROVE  Served'
  <1>1. w \in Servers /\ w = Loop /\ Finish(w) /\ UNCHANGED <<stripe, mail>>
    BY DEF InTurn, Servers, SelectFreeCommit, ChangePlanCommit, ActivateCommit
  <1>2. op[Loop] # BillingIdle
    BY <1>1 DEF SelectFreeCommit, ChangePlanCommit, ActivateCommit, Serving, BillingIdle
  <1>3. /\ op[Loop] \in BillingCall
        /\ op[Loop].sub = sub /\ op[Loop].lic = lic /\ sub.plan # "none"
        /\ op[Loop].kind = "change_plan" => op[Loop].plan # "none"
    BY <1>1, <1>2, Holding DEF Served, HoldsRows
  <1>4. sub \in Subscription /\ lic \in Licence
    BY DEF Inv, BillingTypeOK
  <1>5. HoldsRows'
    BY <1>1, Over DEF HoldsRows
  <1>6. CASE SelectFreeCommit(w)
    <2> DEFINE new == [sub EXCEPT !.plan = "free", !.status = "trialing"]
    <2>1. new \in Subscription /\ new.plan = "free" /\ new.periodEnd = sub.periodEnd
      BY <1>4 DEF Subscription, Plan, Status
    <2>2. sub' = BillingWritten(sub, sub, new) /\ UNCHANGED lic
      BY <1>1, <1>3, <1>6 DEF SelectFreeCommit
    <2> HIDE DEF new
    <2>3. sub' = new
      BY <1>4, <2>1, <2>2, SubscriptionOver
    <2>4. Paid'
      BY <1>1, <2>1, <2>2, <2>3, StillPaid DEF Served, LicenceLasts
    <2> QED BY <1>5, <2>1, <2>3, <2>4 DEF Served, NoRowNoSale
  <1>7. CASE ChangePlanCommit(w)
    <2> DEFINE new == [sub EXCEPT !.plan = op[Loop].plan]
    <2>1. op[Loop].plan \in Plan \cup {"none"} /\ op[Loop].plan # "none"
      BY <1>1, <1>3, <1>7 DEF BillingCall, ChangePlanCommit, Serving
    <2>2. new \in Subscription /\ new.plan # "none" /\ new.periodEnd = sub.periodEnd
      BY <1>4, <2>1 DEF Subscription
    <2>3. sub' = BillingWritten(sub, sub, new) /\ UNCHANGED lic
      BY <1>1, <1>3, <1>7 DEF ChangePlanCommit
    <2> HIDE DEF new
    <2>4. sub' = new
      BY <1>4, <2>2, <2>3, SubscriptionOver
    <2>5. Paid'
      BY <1>1, <2>2, <2>3, <2>4, StillPaid DEF Served, LicenceLasts
    <2> QED BY <1>5, <2>2, <2>4, <2>5 DEF Served, NoRowNoSale
  <1>8. CASE ActivateCommit(w)
    <2> DEFINE new == Activated(lic, sub)
    <2>1. new \in Licence /\ new.status = "active" /\ new.expires = sub.periodEnd
      BY <1>4, ActivatedType DEF Activated, Licence
    <2>2. lic' = BillingWritten(lic, lic, new) /\ UNCHANGED sub
      BY <1>1, <1>3, <1>8 DEF ActivateCommit
    <2> HIDE DEF new
    <2>3. lic' = new
      BY <1>4, <2>1, <2>2, LicenceOver
    <2>4. Paid'
      BY <1>1, <2>1, <2>2, <2>3, StillPaid DEF Served, LicenceLasts, PeriodCopied
    <2> QED BY <1>1, <1>5, <2>2, <2>4 DEF Served, NoRowNoSale
  <1> QED BY <1>6, <1>7, <1>8

LEMMA RotateServed ==
    ASSUME InTurn, Inv, Served, NEW w \in Threads, Rotate(w)
    PROVE  Served'
  <1>1. /\ op[Loop] = BillingIdle
        /\ lic' = [lic EXCEPT !.shown = TRUE] /\ UNCHANGED <<sub, stripe, mail, op>>
    BY DEF InTurn, Rotate
  <1>2. lic'.status = lic.status /\ lic'.expires = lic.expires
    BY <1>1 DEF Inv, BillingTypeOK, Licence
  <1>3. Paid'
    BY <1>1, <1>2, StillPaid DEF Served, LicenceLasts
  <1> QED BY <1>1, <1>3 DEF Served, NoRowNoSale, HoldsRows

(* Where Stripe comes to hold a subscription paid, it reports its period   *)
(* and then its invoice.                                                   *)
LEMMA ReportsServed ==
    ASSUME Inv, Served,
           NEW s \in [status : Status \cup {"none"}, trialEnd : Nat, periodEnd : Nat],
           NEW reports \in Seq({Completed, Succeeded, Failed, Reported(s)}),
           Becomes(s, reports), sub.plan # "none",
           s.status = "active" =>
               /\ Len(reports) >= 2
               /\ reports[Len(reports) - 1] = Reported(s)
               /\ reports[Len(reports)] = Succeeded
    PROVE  Served'
  <1>1. stripe' = s /\ mail' = mail \o reports /\ UNCHANGED <<sub, lic, op>>
    BY DEF Becomes
  <1> DEFINE kinds == {Completed, Succeeded, Failed, Reported(s)}
  <1>2. mail \in Seq(Report) /\ reports \in Seq(kinds)
    BY DEF Inv, BillingTypeOK
  <1> HIDE DEF kinds
  <1>3. ASSUME s.status = "active"
        PROVE  ReportAndInvoiceToCome'
    <2>1. /\ Len(mail') = Len(mail) + Len(reports)
          /\ Len(mail) \in Nat /\ Len(reports) \in Nat /\ Len(reports) >= 2
      BY <1>1, <1>2, <1>3
    <2>2. mail'[Len(mail')] = reports[Len(reports)]
      BY <1>1, <1>2, <2>1
    <2>3. mail'[Len(mail') - 1] = reports[Len(reports) - 1]
      BY <1>1, <1>2, <2>1
    <2>4. Reported(s) = Reported(stripe)'
      BY <1>1 DEF Reported
    <2>5. Succeeded' = Succeeded
      BY DEF Succeeded
    <2> QED BY <1>3, <2>1, <2>2, <2>3, <2>4, <2>5 DEF ReportAndInvoiceToCome
  <1>4. Paid'
    BY <1>1, <1>3 DEF Paid
  <1> QED BY <1>1, <1>4 DEF Served, NoRowNoSale, HoldsRows

LEMMA SellingServed ==
    ASSUME Inv, Served, Selling
    PROVE  Served'
  <1> DEFINE AtStripe == [status : Status \cup {"none"}, trialEnd : Nat, periodEnd : Nat]
  <1>1. /\ now \in Nat /\ stripe \in AtStripe
        /\ TrialDays \in Nat /\ PeriodDays \in Nat
    BY BillingAssumption DEF Inv, BillingTypeOK
  <1>2. CASE Subscribe
    <2> DEFINE end == now + (IF TrialDays > 0 THEN TrialDays ELSE PeriodDays)
               s == [status |-> IF TrialDays > 0 THEN "trialing" ELSE "active",
                     trialEnd |-> IF TrialDays > 0 THEN end ELSE 0, periodEnd |-> end]
    <2>1. s \in AtStripe
      BY <1>1 DEF Status
    <2>2. Becomes(s, <<Completed, Reported(s), Succeeded>>) /\ sub.plan # "none"
      BY <1>2 DEF Subscribe, Served, NoRowNoSale
    <2> HIDE DEF s
    <2> DEFINE reports == <<Completed, Reported(s), Succeeded>>
    <2>3. reports \in Seq({Completed, Succeeded, Failed, Reported(s)})
      OBVIOUS
    <2>4. Len(reports) = 3 /\ reports[2] = Reported(s) /\ reports[3] = Succeeded
      OBVIOUS
    <2>5. Becomes(s, reports)
      BY <2>2
    <2> HIDE DEF reports
    <2>6. s.status = "active" =>
             /\ Len(reports) >= 2
             /\ reports[Len(reports) - 1] = Reported(s)
             /\ reports[Len(reports)] = Succeeded
      BY <2>1, <2>4
    <2> QED BY <2>1, <2>2, <2>3, <2>5, <2>6, ReportsServed
  <1>3. ASSUME NEW paid \in BOOLEAN, Renew(paid)
        PROVE  Served'
    <2> DEFINE s == [stripe EXCEPT !.status = IF paid THEN "active" ELSE "past_due",
                                   !.periodEnd = stripe.periodEnd + PeriodDays]
    <2>1. s \in AtStripe /\ (s.status = "active" => paid)
      <3>1. stripe.periodEnd + PeriodDays \in Nat
        BY <1>1
      <3>2. CASE paid
        BY <1>1, <3>1, <3>2 DEF Status
      <3>3. CASE ~paid
        BY <1>1, <3>1, <3>3 DEF Status
      <3> QED BY <3>2, <3>3
    <2>2. Becomes(s, <<Reported(s), IF paid THEN Succeeded ELSE Failed>>) /\ sub.plan # "none"
      BY <1>3 DEF Renew, Served, NoRowNoSale
    <2> HIDE DEF s
    <2> DEFINE reports == <<Reported(s), IF paid THEN Succeeded ELSE Failed>>
    <2>3. reports \in Seq({Completed, Succeeded, Failed, Reported(s)})
      OBVIOUS
    <2>4. Len(reports) = 2 /\ reports[1] = Reported(s) /\ (paid => reports[2] = Succeeded)
      OBVIOUS
    <2>5. Becomes(s, reports)
      BY <2>2
    <2> HIDE DEF reports
    <2>6. s.status = "active" =>
             /\ Len(reports) >= 2
             /\ reports[Len(reports) - 1] = Reported(s)
             /\ reports[Len(reports)] = Succeeded
      BY <2>1, <2>4
    <2> QED BY <2>1, <2>2, <2>3, <2>5, <2>6, ReportsServed
  <1>4. CASE Recover
    <2> DEFINE s == [stripe EXCEPT !.status = "active"]
    <2>1. s \in AtStripe
      BY <1>1 DEF Status
    <2>2. Becomes(s, <<Reported(s), Succeeded>>) /\ sub.plan # "none"
      BY <1>4 DEF Recover, Served, NoRowNoSale
    <2> HIDE DEF s
    <2> DEFINE reports == <<Reported(s), Succeeded>>
    <2>3. reports \in Seq({Completed, Succeeded, Failed, Reported(s)})
      OBVIOUS
    <2>4. Len(reports) = 2 /\ reports[1] = Reported(s) /\ reports[2] = Succeeded
      OBVIOUS
    <2>5. Becomes(s, reports)
      BY <2>2
    <2> HIDE DEF reports
    <2>6. s.status = "active" =>
             /\ Len(reports) >= 2
             /\ reports[Len(reports) - 1] = Reported(s)
             /\ reports[Len(reports)] = Succeeded
      BY <2>1, <2>4
    <2> QED BY <2>1, <2>2, <2>3, <2>5, <2>6, ReportsServed
  <1>5. CASE Cancel
    <2> DEFINE s == [stripe EXCEPT !.status = "canceled"]
    <2>1. s \in AtStripe /\ s.status # "active"
      BY <1>1 DEF Status
    <2>2. Becomes(s, <<Reported(s)>>) /\ sub.plan # "none"
      BY <1>5 DEF Cancel, Served, NoRowNoSale
    <2> HIDE DEF s
    <2>3. <<Reported(s)>> \in Seq({Completed, Succeeded, Failed, Reported(s)})
      OBVIOUS
    <2> QED BY <2>1, <2>2, <2>3, ReportsServed
  <1> QED BY <1>2, <1>3, <1>4, <1>5 DEF Selling

(* The webhook holds the rows and the first report.                        *)
LEMMA FirstReport ==
    ASSUME InTurn, Inv, Served, Serving(Loop, "webhook")
    PROVE  /\ op[Loop] \in BillingCall /\ op[Loop].turn = 1
           /\ op[Loop].sub = sub /\ op[Loop].lic = lic
           /\ sub \in Subscription /\ lic \in Licence /\ sub.plan \in Plan
           /\ mail \in Seq(Report) /\ Len(mail) >= 1 /\ mail[1] \in Report
  <1>1. Loop \in Servers /\ op[Loop] # BillingIdle /\ op[Loop].kind = "webhook"
    BY DEF Serving, BillingIdle, Servers
  <1>2. /\ op[Loop].turn = 1 /\ op[Loop].sub = sub /\ op[Loop].lic = lic
        /\ sub.plan # "none"
    BY <1>1 DEF Served, HoldsRows
  <1>3. op[Loop] \in BillingCall
    BY <1>1, Holding
  <1>4. mail \in Seq(Report) /\ 1 \in 1 .. Len(mail)
    BY <1>1, <1>2 DEF Inv, BillingTypeOK
  <1> QED BY <1>2, <1>3, <1>4 DEF Inv, BillingTypeOK, Subscription

LEMMA AppliedPlan ==
    ASSUME NEW s \in Subscription, NEW r \in Report, s.plan \in Plan
    PROVE  /\ Applied(s, r) \in Subscription /\ Applied(s, r).plan \in Plan
           /\ r.type # "subscription" => Applied(s, r).periodEnd = s.periodEnd
           /\ r.type = "subscription" => Applied(s, r).periodEnd = r.periodEnd
  BY DEF Applied, Subscription, Report, Status, Plan

LEMMA CreatesLicenceServed ==
    ASSUME InTurn, Inv, Served, WebhookCreatesLicence
    PROVE  Served'
  <1> DEFINE s == Applied(sub, mail[1])
  <1>1. Serving(Loop, "webhook") /\ lic = NoLicence
    BY DEF WebhookCreatesLicence
  <1>2. /\ op[Loop] \in BillingCall /\ op[Loop].turn = 1
        /\ op[Loop].sub = sub /\ op[Loop].lic = lic
        /\ sub \in Subscription /\ sub.plan \in Plan
        /\ mail[1] \in Report
    BY <1>1, FirstReport
  <1>3. mail[1].type # "subscription"
    BY <1>2 DEF WebhookCreatesLicence, Succeeded
  <1>4. s \in Subscription /\ s.plan \in Plan /\ s.periodEnd = sub.periodEnd
    BY <1>2, <1>3, AppliedPlan
  <1>5. /\ sub' = BillingWritten(sub, sub, s) /\ lic' = NewLicence(FALSE)
        /\ op' = [op EXCEPT ![Loop].sub = s, ![Loop].lic = NewLicence(FALSE)]
        /\ UNCHANGED <<stripe, mail>>
    BY <1>2 DEF WebhookCreatesLicence
  <1> HIDE DEF s
  <1>6. sub' = s
    BY <1>2, <1>4, <1>5, SubscriptionOver
  <1>7. lic.status = "none"
    BY <1>1 DEF NoLicence
  <1>8. Paid'
    BY <1>4, <1>5, <1>6, <1>7, StillPaid DEF Served, LicenceLasts
  <1> DEFINE new == NewLicence(FALSE)
  <1> HIDE DEF new
  <1>9. /\ op'[Loop].sub = s /\ op'[Loop].lic = new
        /\ op'[Loop].turn = 1 /\ op'[Loop].kind = "webhook"
    BY <1>1, <1>2, <1>5 DEF new, Serving, Inv, BillingTypeOK, BillingCall, Servers
  <1>10. HoldsRows'
    BY <1>4, <1>5, <1>6, <1>9 DEF HoldsRows, Plan, new
  <1> QED BY <1>4, <1>6, <1>8, <1>10 DEF Served, NoRowNoSale, Plan

(* The first report gone, the others stand in the order they had.          *)
LEMMA FirstGone ==
    ASSUME NEW m \in Seq(Report), Len(m) >= 1
    PROVE  /\ RemoveAt(m, 1) \in Seq(Report) /\ Len(RemoveAt(m, 1)) = Len(m) - 1
           /\ \A i \in 1 .. Len(m) - 1 : RemoveAt(m, 1)[i] = m[i + 1]
  <1> DEFINE before == SubSeq(m, 1, 0)
             after  == SubSeq(m, 2, Len(m))
  <1>1. before = << >>
    OBVIOUS
  <1>2. after \in Seq(Report) /\ Len(after) = Len(m) - 1
        /\ \A i \in 1 .. Len(m) - 1 : after[i] = m[i + 1]
    <2>1. Len(m) \in Nat /\ Len(m) >= 1 /\ Len(m) + 1 - 2 = Len(m) - 1
      OBVIOUS
    <2>2. after \in Seq(Report)
      OBVIOUS
    <2>3. Len(after) = Len(m) - 1
      BY <2>1
    <2>4. ASSUME NEW i \in 1 .. Len(m) - 1
          PROVE  after[i] = m[i + 1]
      BY <2>1
    <2> QED BY <2>2, <2>3, <2>4
  <1>3. RemoveAt(m, 1) = before \o after
    BY DEF RemoveAt
  <1> HIDE DEF before, after
  <1>4. RemoveAt(m, 1) = after
    BY <1>1, <1>2, <1>3
  <1> QED BY <1>2, <1>4

LEMMA CommitServed ==
    ASSUME InTurn, Inv, Served, NEW acknowledged \in BOOLEAN, WebhookCommit(acknowledged)
    PROVE  Served'
  <1> DEFINE r == mail[1]
             s == Applied(sub, r)
             new == Activated(lic, s)
  <1>1. Serving(Loop, "webhook") /\ Loop \in Servers
    BY DEF WebhookCommit, Servers
  <1>2. /\ op[Loop].turn = 1 /\ op[Loop].sub = sub /\ op[Loop].lic = lic
        /\ sub \in Subscription /\ lic \in Licence /\ sub.plan \in Plan
        /\ mail \in Seq(Report) /\ Len(mail) >= 1 /\ r \in Report
    BY <1>1, FirstReport
  <1>3. /\ s \in Subscription /\ s.plan \in Plan
        /\ r.type # "subscription" => s.periodEnd = sub.periodEnd
        /\ r.type = "subscription" => s.periodEnd = r.periodEnd
    BY <1>2, AppliedPlan
  <1>4. /\ sub' = BillingWritten(sub, sub, s) /\ Finish(Loop) /\ UNCHANGED stripe
        /\ lic' = IF r = Succeeded THEN BillingWritten(lic, lic, new) ELSE lic
    BY <1>2, Zenon DEF WebhookCommit
  <1>5. mail' = IF acknowledged THEN RemoveAt(mail, 1) ELSE mail
    BY <1>2, Zenon DEF WebhookCommit
  <1> HIDE DEF s
  <1>6. sub' = s
    BY <1>2, <1>3, <1>4, SubscriptionOver
  <1>7. new \in Licence /\ new.status = "active" /\ new.expires = s.periodEnd
    BY <1>2, <1>3, ActivatedType DEF Activated, Licence
  <1> HIDE DEF new
  <1>8. lic' = IF r = Succeeded THEN new ELSE lic
    BY <1>2, <1>4, <1>7, LicenceOver
  <1>9. HoldsRows' /\ NoRowNoSale'
    BY <1>1, <1>3, <1>4, <1>6, Over DEF HoldsRows, NoRowNoSale, Plan
  <1> HIDE DEF r
  <1>10. Succeeded.type = "succeeded" /\ Reported(stripe).type = "subscription"
         /\ Reported(stripe).periodEnd = stripe.periodEnd
    BY DEF Succeeded, Reported
  <1>11. Reported(stripe)' = Reported(stripe) /\ Succeeded' = Succeeded
    BY <1>4 DEF Reported, Succeeded
  <1>12. ASSUME stripe.status = "active", ReportAndInvoiceToCome
         PROVE  Paid'
    <2>1. CASE mail' = mail
      BY <1>11, <1>12, <2>1 DEF Paid, ReportAndInvoiceToCome
    <2>2. CASE mail' = RemoveAt(mail, 1) /\ Len(mail) > 2
      <3>1. Len(mail') = Len(mail) - 1 /\ Len(mail) \in Nat
            /\ \A i \in 1 .. Len(mail) - 1 : mail'[i] = mail[i + 1]
        BY <1>2, <2>2, FirstGone
      <3>2. mail'[Len(mail')] = mail[Len(mail)] /\ mail'[Len(mail') - 1] = mail[Len(mail) - 1]
        BY <2>2, <3>1
      <3> QED BY <1>11, <1>12, <2>2, <3>1, <3>2 DEF Paid, ReportAndInvoiceToCome
    <2>3. CASE mail' = RemoveAt(mail, 1) /\ Len(mail) = 2
      <3>1. mail' \in Seq(Report) /\ Len(mail') = 1 /\ mail'[1] = mail[2]
        <4>1. /\ mail' \in Seq(Report) /\ Len(mail') = Len(mail) - 1
              /\ \A i \in 1 .. Len(mail) - 1 : mail'[i] = mail[i + 1]
          BY <1>2, <2>3, FirstGone
        <4> QED BY <2>3, <4>1
      <3>2. mail[1] = Reported(stripe) /\ mail[2] = Succeeded
        BY <1>12, <2>3 DEF ReportAndInvoiceToCome
      <3>3. mail' = <<Succeeded>>
        BY <3>1, <3>2
      <3>4. sub'.periodEnd = stripe.periodEnd
        BY <1>3, <1>6, <1>10, <3>2 DEF r
      <3> QED BY <1>4, <1>11, <3>3, <3>4 DEF Paid, PeriodCopied
    <2>4. Len(mail) \in Nat /\ Len(mail) >= 2
      BY <1>2, <1>12 DEF ReportAndInvoiceToCome
    <2>5. Len(mail) > 2 \/ Len(mail) = 2
      <3> DEFINE n == Len(mail)
      <3>1. n \in Nat /\ n >= 2
        BY <2>4
      <3> HIDE DEF n
      <3>2. n > 2 \/ n = 2
        BY <3>1
      <3> QED BY <3>2 DEF n
    <2> QED BY <1>5, <2>1, <2>2, <2>3, <2>5
  <1>13. ASSUME stripe.status = "active", mail = <<Succeeded>>, PeriodCopied
         PROVE  Paid'
    <2>1. r = Succeeded
      BY <1>13 DEF r
    <2>2. PeriodCopied' /\ LicenceLasts'
      BY <1>3, <1>4, <1>6, <1>7, <1>8, <1>10, <1>13, <2>1 DEF PeriodCopied, LicenceLasts
    <2>3. CASE mail' = mail
      BY <1>11, <1>13, <2>2, <2>3 DEF Paid
    <2>4. CASE mail' = RemoveAt(mail, 1)
      <3>1. Len(mail) = 1
        BY <1>13
      <3>2. mail' \in Seq(Report) /\ Len(mail') = 0
        <4>1. mail' \in Seq(Report) /\ Len(mail') = Len(mail) - 1
          BY <1>2, <2>4, FirstGone
        <4> QED BY <3>1, <4>1
      <3>3. mail' = << >>
        BY <3>2
      <3> QED BY <2>2, <3>3 DEF Paid
    <2> QED BY <1>5, <2>3, <2>4
  <1>14. mail # << >>
    BY <1>2
  <1>15. Paid'
    <2>1. CASE stripe.status = "active"
      BY <1>12, <1>13, <1>14, <2>1 DEF Served, Paid
    <2>2. CASE stripe.status # "active"
      BY <1>4, <2>2 DEF Paid
    <2> QED BY <2>1, <2>2
  <1> QED BY <1>9, <1>15 DEF Served

LEMMA ServedNext ==
    ASSUME InTurn, Inv, Served, [BillingNext]_billingVars
    PROVE  Served'
  <1>1. ASSUME NEW w \in Threads, Administrating(w)
        PROVE  Served'
    BY <1>1, CreateServed, ReadsServed, CommitsServed, RotateServed DEF Administrating
  <1>2. ASSUME NEW w \in Servers, Abort(w)
        PROVE  Served'
    <2>1. w = Loop /\ Finish(w) /\ UNCHANGED <<sub, lic, stripe, mail>>
      BY <1>2, OneServer DEF Abort
    <2>2. HoldsRows'
      BY <2>1, Over DEF HoldsRows
    <2>3. Paid'
      BY <2>1, StillPaid DEF Served, LicenceLasts
    <2> QED BY <2>1, <2>2, <2>3 DEF Served, NoRowNoSale
  <1>3. ASSUME NEW i \in 1 .. MaxMail, WebhookRead(i)
        PROVE  Served'
    <2>1. i = 1 /\ Loop \in Servers
      BY <1>3 DEF WebhookRead, Turns, InTurn, Servers
    <2> QED BY <1>3, <2>1, BeginServed DEF WebhookRead
  <1>4. CASE Selling
    BY <1>4, SellingServed
  <1>5. CASE WebhookCreatesLicence
    BY <1>5, CreatesLicenceServed
  <1>6. ASSUME NEW acknowledged \in BOOLEAN, WebhookCommit(acknowledged)
        PROVE  Served'
    BY <1>6, CommitServed
  <1>7. CASE Tick \/ UNCHANGED billingVars
    <2>1. UNCHANGED <<sub, lic, stripe, mail, op>>
      BY <1>7 DEF Tick, billingVars
    <2>2. Paid'
      BY <2>1, StillPaid DEF Served, LicenceLasts
    <2> QED BY <2>1, <2>2 DEF Served, NoRowNoSale, HoldsRows
  <1> QED BY <1>1, <1>2, <1>3, <1>4, <1>5, <1>6, <1>7 DEF BillingNext, Reporting

LEMMA ServedImplies == Inv /\ Served => PaidIsServed
  <1> SUFFICES ASSUME Inv, Served, mail = << >>, stripe.status = "active",
                      now <= stripe.periodEnd, sub.plan = "standard", sub.status = "active"
               PROVE  StandardActive(sub, lic)
    BY DEF PaidIsServed
  <1>1. PeriodCopied /\ LicenceLasts
    BY DEF Served, Paid, ReportAndInvoiceToCome
  <1>2. now \in Nat /\ stripe.periodEnd \in Nat
    BY DEF Inv, BillingTypeOK
  <1>3. LicenceActive(lic)
    BY <1>1, <1>2 DEF LicenceLasts, LicenceActive
  <1>4. ~WorkspaceLocked(sub)
    BY DEF WorkspaceLocked, EffectiveStatus
  <1> QED BY <1>3, <1>4 DEF StandardActive

(* Reports served in their turn, one call at a time: a company that has    *)
(* paid Stripe has the standard plan until the end of the period, once     *)
(* every report has been served (apply_stripe_event, for every number of   *)
(* days of trial, grace and period, and reports repeated at will).         *)
THEOREM PaidGetsServed ==
    ASSUME InTurn
    PROVE  BillingSpec => []PaidIsServed
  <1>1. BillingInit => Inv /\ Served
    BY InvInit, ServedInit
  <1>2. Inv /\ Served /\ [BillingNext]_billingVars => (Inv /\ Served)'
    BY InvNext, ServedNext
  <1> QED BY <1>1, <1>2, ServedImplies, PTL DEF BillingSpec
=============================================================================
