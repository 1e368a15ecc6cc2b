--------------------------- MODULE DirectoryProofs ---------------------------
(***************************************************************************)
(* The directory, for any number of workers, branches, projects, employees *)
(* and codes.                                                              *)
(***************************************************************************)
EXTENDS Directory, Scheduling, FiniteSetTheorems, WellFoundedInduction, TLAPS

-----------------------------------------------------------------------------
(* Inductive invariants *)

Fields   == {"status", "code", "work"}
RowKinds == {"insert", "restore", "reimport"}

(* What a session may write of a row *)
Fits(c) ==
    /\ "status" \in DOMAIN c => c["status"] = "live"
    /\ "code" \in DOMAIN c => c["code"] \in {NoCode} \cup OwnCodes
    /\ "work" \in DOMAIN c => c["work"] \in Workplace

(* A call has the fields of its kind, and the employees it names are there. *)
Sound(c, known) ==
    /\ c.kind \in {"idle", "rows", "update", "set_status", "write", "clear"} \cup RowKinds
    /\ c.kind \in {"rows"} \cup RowKinds => c.left \in 1 .. MaxRows
    /\ c.kind # "idle" => c.doc \in Document
    /\ c.kind = "rows" => c.loaded \in BOOLEAN /\ c.seq \in 0 .. MaxCode
    /\ c.kind \in RowKinds => c.number \in 0 .. MaxCode + 1
    /\ c.kind \in {"update", "set_status"} \cup RowKinds => Fits(c.changes)
    /\ c.kind = "insert" => Fields \subseteq DOMAIN c.changes
    /\ c.kind \in {"reimport", "update", "set_status"} => "status" \notin DOMAIN c.changes
    /\ c.kind \in {"restore", "reimport", "update", "set_status"} => c.user \in known
    /\ c.kind \in {"write", "clear"} => c.site \in Document
    /\ c.kind = "clear" => /\ DOMAIN c.cleared \subseteq known
                           /\ \A u \in DOMAIN c.cleared : c.cleared[u] \in Workplace

CallsSound  == op = [w \in Workers |-> op[w]] /\ \A w \in Workers : Sound(op[w], Known)
UnbornEmpty == \A u \in Users \ Known : people[u] = Unborn
TypeInv     == TypeOK /\ CallsSound /\ UnbornEmpty

(* Unless a number was given up, or given twice: the numbers handed out    *)
(* are those up to the sequence, and no call is ahead of it by more than   *)
(* the number it is about to take.                                         *)
NumbersWithin == \A u \in Users : people[u].code \in 1 .. MaxCode => people[u].code <= seq
NumbersHeld   == \A n \in 1 .. seq : \E u \in Users : people[u].code = n
InStep(c, n)  == /\ c.kind = "rows" /\ c.loaded => c.seq <= n
                 /\ c.kind \in RowKinds => c.number <= n + 1
SequenceInv   == reused \/ /\ NumbersWithin
                           /\ NumbersHeld
                           /\ \A w \in Workers : InStep(op[w], seq)

(* Unless a commit went by something stale: what a row names is listed,    *)
(* and what a call will write is listed in the document it goes by.        *)
Listed(d, work) == Resolved(d, work) = work
AllListed       == \A u \in Users : Listed(doc, people[u].work)
Abides(c) ==
    /\ c.kind \in {"update", "set_status"} \cup RowKinds /\ "work" \in DOMAIN c.changes =>
          Listed(c.doc, c.changes["work"])
    /\ c.kind = "write" => /\ c.doc.branches \subseteq c.site.branches
                           /\ c.doc.projects \subseteq c.site.projects
    /\ c.kind = "clear" => \A u \in DOMAIN c.cleared : Listed(c.site, c.cleared[u])
ReferencesInv == raced \/ (AllListed /\ \A w \in Workers : Abides(op[w]))

(* The rows the calls in progress may still add                            *)
Registering == {"rows"} \cup RowKinds
Credits == {x \in Workers \X (1 .. MaxRows) :
              op[x[1]].kind \in Registering /\ x[2] <= op[x[1]].left}
Bound    == Max({Limit, 1}) + (Cardinality(Workers) - 1) * MaxRows
LimitInv == Cardinality(Live \ revived) + Cardinality(Credits) <= Bound

-----------------------------------------------------------------------------
(* Rows and what sessions write of them *)

LEMMA WrittenRow ==
    ASSUME NEW row \in Person, NEW c
    PROVE  Written(row, c) =
             [status |-> IF "status" \in DOMAIN c THEN c["status"] ELSE row.status,
              code   |-> IF "code" \in DOMAIN c THEN c["code"] ELSE row.code,
              work   |-> IF "work" \in DOMAIN c THEN c["work"] ELSE row.work]
  BY DEF Written, Person

LEMMA WrittenType ==
    ASSUME NEW row \in Person, NEW c, Fits(c)
    PROVE  /\ Written(row, c) \in Person
           /\ Written(row, c).status \in {"live", row.status}
           /\ "status" \in DOMAIN c => Written(row, c).status = "live"
           /\ "status" \notin DOMAIN c => Written(row, c).status = row.status
           /\ Written(row, c).code \in {row.code, NoCode} \cup OwnCodes
           /\ \/ Written(row, c).work = row.work
              \/ "work" \in DOMAIN c /\ Written(row, c).work = c["work"]
  <1> DEFINE row2 == [status |-> IF "status" \in DOMAIN c THEN c["status"] ELSE row.status,
                      code   |-> IF "code" \in DOMAIN c THEN c["code"] ELSE row.code,
                      work   |-> IF "work" \in DOMAIN c THEN c["work"] ELSE row.work]
  <1>1. Written(row, c) = row2
    BY WrittenRow
  <1>2. row2.status \in {"live", row.status} /\ row2.work \in Workplace
    BY DEF Fits, Person
  <1>3. row2.code \in {row.code, NoCode} \cup OwnCodes
    BY DEF Fits
  <1>4. row2.code \in 0 .. MaxCode \cup OwnCodes
    BY <1>3, DirectoryAssumption DEF Person, NoCode
  <1>5. row2 \in Person
    BY <1>2, <1>4 DEF Person
  <1> QED
    BY <1>1, <1>2, <1>3, <1>5 DEF Fits

LEMMA ChangesFit ==
    ASSUME NEW row \in Person, NEW new \in Person,
           new.status \in {"live", row.status},
           new.code \in {NoCode, row.code} \cup OwnCodes
    PROVE  /\ Fits(Changes(row, new))
           /\ "status" \in DOMAIN Changes(row, new) <=> new.status # row.status
           /\ "work" \in DOMAIN Changes(row, new) => Changes(row, new)["work"] = new.work
  BY DEF Changes, Fits, Person

LEMMA DocumentType == Empty \in Document /\ Empty \in Workplace /\ Unborn \in Person
  BY DirectoryAssumption DEF Empty, Document, Workplace, Unborn, Nowhere, Person, NoCode

(* What a document leaves of a workplace is a workplace it lists.          *)
LEMMA ResolvedType ==
    ASSUME NEW d \in Document, NEW work \in Workplace
    PROVE  /\ Resolved(d, work) \in Workplace
           /\ Listed(d, Resolved(d, work))
  BY DEF Resolved, Workplace, Document, Listed

LEMMA ListedIn ==
    ASSUME NEW d, NEW work \in Workplace
    PROVE  Listed(d, work) <=> /\ work.branches \subseteq d.branches
                               /\ work.projects \subseteq d.projects
  BY DEF Listed, Resolved, Workplace

(* A change of rows leaves a directory of employees. *)
LEMMA RowsType ==
    ASSUME TypeInv, NEW staff \in [Users -> Person], people' = staff,
           \A u \in Users : \/ staff[u].status # "absent"
                            \/ staff[u] = people[u]
    PROVE  Known \subseteq Known' /\ UnbornEmpty'
  BY DEF TypeInv, TypeOK, UnbornEmpty, Known, Person

LEMMA OneRowType ==
    ASSUME TypeInv, NEW u \in Users, NEW new \in Person, new.status # "absent"
    PROVE  /\ [people EXCEPT ![u] = new] \in [Users -> Person]
           /\ \A v \in Users : \/ [people EXCEPT ![u] = new][v].status # "absent"
                               \/ [people EXCEPT ![u] = new][v] = people[v]
  BY DEF TypeInv, TypeOK

LEMMA CommitType ==
    ASSUME TypeInv, NEW w \in Workers, NEW staff \in [Users -> Person], NEW restored,
           Commit(w, staff, restored)
    PROVE  /\ people' \in [Users -> Person]
           /\ revived' \subseteq Users
           /\ reused' \in BOOLEAN /\ raced' \in BOOLEAN
  BY DEF Commit, TypeInv, TypeOK

-----------------------------------------------------------------------------
(* Calls in progress *)

LEMMA SoundGrows ==
    ASSUME NEW c, NEW known, NEW more, known \subseteq more, Sound(c, known)
    PROVE  Sound(c, more)
  BY DEF Sound

LEMMA SoundIdle == \A known : Sound(Idle, known)
  BY DEF Sound, Idle, RowKinds

(* One worker's call takes a step.                                         *)
LEMMA CallsType ==
    ASSUME TypeInv, NEW w \in Workers, NEW c, Sound(c, Known), Known \subseteq Known',
           op' = [op EXCEPT ![w] = c]
    PROVE  CallsSound'
  <1>1. op' = [v \in Workers |-> IF v = w THEN c ELSE op[v]]
    BY DEF TypeInv, CallsSound
  <1>2. \A v \in Workers : Sound(op'[v], Known')
    BY <1>1, SoundGrows DEF TypeInv, CallsSound
  <1> QED
    BY <1>1, <1>2 DEF CallsSound

(* A step of one call that changes nothing else                            *)
LEMMA CallStepType ==
    ASSUME TypeInv, NEW w \in Workers, NEW c, Sound(c, Known),
           op' = [op EXCEPT ![w] = c],
           UNCHANGED <<seq, doc, people, revived, reused, raced>>
    PROVE  TypeInv'
  <1>1. Known' = Known
    BY DEF Known
  <1>2. CallsSound'
    BY <1>1, CallsType
  <1>3. UnbornEmpty'
    BY <1>1 DEF TypeInv, UnbornEmpty
  <1>4. TypeOK'
    <2>1. \A v \in Workers :
             op'[v].kind \in {"idle", "rows", "insert", "restore", "reimport",
                              "update", "set_status", "write", "clear"}
      BY <1>2 DEF CallsSound, Sound, RowKinds
    <2> QED
      BY <2>1 DEF TypeInv, TypeOK
  <1> QED
    BY <1>2, <1>3, <1>4 DEF TypeInv

(* A commit of rows, and a step of the call that made it                   *)
LEMMA CommitStepType ==
    ASSUME TypeInv, NEW w \in Workers, NEW c, Sound(c, Known),
           op' = [op EXCEPT ![w] = c],
           NEW staff \in [Users -> Person], NEW restored, Commit(w, staff, restored),
           \A u \in Users : staff[u].status # "absent" \/ staff[u] = people[u],
           seq' \in 0 .. MaxCode, doc' \in Document
    PROVE  TypeInv'
  <1>0. people' = staff
    BY DEF Commit
  <1>1. Known \subseteq Known' /\ UnbornEmpty'
    BY <1>0, RowsType
  <1>2. CallsSound'
    BY <1>1, CallsType
  <1>3. TypeOK'
    <2>1. \A v \in Workers :
             op'[v].kind \in {"idle", "rows", "insert", "restore", "reimport",
                              "update", "set_status", "write", "clear"}
      BY <1>2 DEF CallsSound, Sound, RowKinds
    <2> QED
      BY <2>1, CommitType DEF TypeOK
  <1> QED
    BY <1>1, <1>2, <1>3 DEF TypeInv

-----------------------------------------------------------------------------
(* Steps of a call that change nothing else *)

(* A new call, by what it starts from                                      *)
Starting(w, c) ==
    /\ op[w] = Idle
    /\ op' = [op EXCEPT ![w] = c]
    /\ UNCHANGED <<seq, doc, people, revived, reused, raced>>
    /\ Sound(c, Known)
    /\ c.kind \in {"update", "set_status", "write", "clear"}
    /\ c.doc = doc
    /\ AllListed => Abides(c)

(* A row looked up, by the rows call it follows                            *)
LookingUp(w, c) ==
    /\ Serving(w, "rows")
    /\ op' = [op EXCEPT ![w] = c]
    /\ UNCHANGED <<seq, doc, people, revived, reused, raced>>
    /\ Sound(c, Known)
    /\ c.kind \in RowKinds
    /\ c.left = op[w].left
    /\ c.number <= Company(w).seq + 1
    /\ Abides(c)

LEMMA CompanyType ==
    ASSUME TypeInv, NEW w \in Workers, Serving(w, "rows")
    PROVE  Company(w).seq \in 0 .. MaxCode /\ Company(w).doc \in Document
  BY DEF TypeInv, TypeOK, CallsSound, Sound, Company, Serving

LEMMA LookUp ==
    ASSUME TypeInv, NEW w \in Workers, NEW kind \in RowKinds, NEW u,
           kind = "insert" <=> u \notin Known,
           kind = "restore" => people[u].status = "deleted",
           kind = "reimport" => people[u].status = "live",
           NEW code \in Codes, NEW work \in Offers(w),
           LoadRow(w, kind, u, code, work)
    PROVE  \E c : LookingUp(w, c)
  <1> DEFINE held == IF u \in Known THEN people[u].code ELSE NoCode
             new  == [status |-> "live", code |-> IF code = NoCode THEN held ELSE code,
                      work |-> work]
             number == IF new.code = NoCode /\ kind # "reimport"
                       THEN Allocated(Company(w)) ELSE NoCode
             changes == IF u \in Known THEN Changes(people[u], new) ELSE new
             c == [kind |-> kind, left |-> op[w].left, doc |-> Company(w).doc, user |-> u,
                   number |-> number, changes |-> changes]
  <1>1. /\ Serving(w, "rows")
        /\ op' = [op EXCEPT ![w] = c]
        /\ UNCHANGED <<seq, doc, people, revived, reused, raced>>
    BY DEF LoadRow
  <1>2. Company(w).seq \in 0 .. MaxCode /\ Company(w).doc \in Document
    BY <1>1, CompanyType
  <1>3. work \in Workplace /\ Listed(Company(w).doc, work)
    BY <1>2, ResolvedType DEF Offers
  <1>4. u \in Known => u \in Users /\ people[u] \in Person
    BY DEF Known, TypeInv, TypeOK
  <1>5. new.code \in {held, NoCode} \cup OwnCodes
    BY DEF Codes
  <1>6. held \in 0 .. MaxCode \cup OwnCodes
    BY <1>4, DirectoryAssumption DEF Person, NoCode
  <1>7. new.code \in 0 .. MaxCode \cup OwnCodes
    BY <1>5, <1>6, DirectoryAssumption DEF NoCode
  <1>8. new \in Person
    BY <1>3, <1>7 DEF Person
  <1>9. number \in 0 .. MaxCode + 1 /\ number <= Company(w).seq + 1
    BY <1>2, DirectoryAssumption DEF Allocated, NoCode
  <1>10. /\ Fits(changes)
         /\ kind = "insert" => Fields \subseteq DOMAIN changes
         /\ kind = "reimport" => "status" \notin DOMAIN changes
         /\ "work" \in DOMAIN changes => changes["work"] = work
    <2>1. CASE u \in Known
      <3>1. changes = Changes(people[u], new) /\ people[u] \in Person
        BY <2>1, <1>4
      <3>2. new.code \in {NoCode, people[u].code} \cup OwnCodes
        BY <2>1, <1>5
      <3>3. kind # "insert" /\ (kind = "reimport" => people[u].status = new.status)
        BY <2>1
      <3> HIDE DEF changes, held
      <3>4. new.status \in {"live", people[u].status} /\ new.work = work
        OBVIOUS
      <3> HIDE DEF new
      <3> QED
        BY <3>1, <3>2, <3>3, <3>4, <1>8, ChangesFit
    <2>2. CASE u \notin Known
      <3>1. changes = new /\ new.code \in {NoCode} \cup OwnCodes /\ kind = "insert"
        BY <2>2, <1>5
      <3>2. /\ DOMAIN new = Fields
            /\ new["status"] = "live" /\ new["work"] = work /\ new["code"] = new.code
        BY DEF Fields
      <3> HIDE DEF changes, new
      <3> QED
        BY <3>1, <3>2, <1>3 DEF Fits
    <2> QED
      BY <2>1, <2>2
  <1>11. op[w].left \in 1 .. MaxRows
    BY <1>1 DEF TypeInv, CallsSound, Sound, Serving
  <1>12. kind \in {"restore", "reimport"} => u \in Known
    BY DEF RowKinds
  <1> HIDE DEF number, changes
  <1>13. /\ c.kind = kind /\ c.left = op[w].left /\ c.doc = Company(w).doc /\ c.user = u
         /\ c.number = number /\ c.changes = changes
    OBVIOUS
  <1> HIDE DEF c
  <1>14. Sound(c, Known)
    BY <1>2, <1>9, <1>10, <1>11, <1>12, <1>13 DEF Sound, RowKinds
  <1>15. Abides(c)
    BY <1>3, <1>10, <1>13 DEF Abides, RowKinds
  <1> QED
    BY <1>1, <1>9, <1>13, <1>14, <1>15 DEF LookingUp

LEMMA RegisterReads ==
    ASSUME TypeInv, NEW w \in Workers, NEW code \in Codes, NEW work \in Offers(w),
           \/ RegisterNewRead(w, code, work)
           \/ \E u \in Known : \/ RegisterAgainRead(w, u, code, work)
                               \/ ImportUpdateRead(w, u, code, work)
    PROVE  \E c : LookingUp(w, c)
  <1>1. CASE RegisterNewRead(w, code, work)
    <2>1. 0 \notin Known
      BY DEF Known, Users
    <2>2. LoadRow(w, "insert", 0, code, work)
      BY <1>1 DEF RegisterNewRead
    <2> QED
      BY <2>1, <2>2, LookUp DEF RowKinds
  <1>2. ASSUME NEW u \in Known, RegisterAgainRead(w, u, code, work)
        PROVE  \E c : LookingUp(w, c)
    <2>1. people[u].status = "deleted" /\ LoadRow(w, "restore", u, code, work)
      BY <1>2 DEF RegisterAgainRead
    <2> QED
      BY <2>1, LookUp DEF RowKinds
  <1>3. ASSUME NEW u \in Known, ImportUpdateRead(w, u, code, work)
        PROVE  \E c : LookingUp(w, c)
    <2>1. people[u].status = "live" /\ LoadRow(w, "reimport", u, code, work)
      BY <1>3 DEF ImportUpdateRead
    <2> QED
      BY <2>1, LookUp DEF RowKinds
  <1> QED
    BY <1>1, <1>2, <1>3

(* What a payload makes of an employee's branch and projects               *)
LEMMA MovesForm ==
    ASSUME NEW u, NEW work \in Moves(u)
    PROVE  \E picked \in SUBSET DOMAIN Nowhere, chosen \in Workplace :
              work = [k \in DOMAIN Nowhere |->
                        IF k \in picked THEN Resolved(doc, chosen)[k] ELSE people[u].work[k]]
  BY SMTT(30) DEF Moves

LEMMA MovesType ==
    ASSUME TypeInv, NEW u \in Users, NEW work \in Moves(u)
    PROVE  work \in Workplace /\ (AllListed => Listed(doc, work))
  <1>1. PICK picked \in SUBSET DOMAIN Nowhere, chosen \in Workplace :
           work = [k \in DOMAIN Nowhere |->
                     IF k \in picked THEN Resolved(doc, chosen)[k] ELSE people[u].work[k]]
    BY MovesForm
  <1>2. DOMAIN Nowhere = {"branches", "projects"}
    BY DEF Nowhere, Empty
  <1>3. work = [branches |-> IF "branches" \in picked THEN Resolved(doc, chosen).branches
                             ELSE people[u].work.branches,
                projects |-> IF "projects" \in picked THEN Resolved(doc, chosen).projects
                             ELSE people[u].work.projects]
    BY <1>1, <1>2
  <1>4. people[u].work \in Workplace
    BY DEF TypeInv, TypeOK, Person
  <1>5. doc \in Document
    BY DEF TypeInv, TypeOK
  <1>6. Resolved(doc, chosen) \in Workplace /\ Listed(doc, Resolved(doc, chosen))
    BY <1>5, ResolvedType
  <1>7. work \in Workplace
    BY <1>3, <1>4, <1>6 DEF Workplace
  <1>8. ASSUME AllListed PROVE Listed(doc, work)
    <2>1. Listed(doc, people[u].work)
      BY <1>8 DEF AllListed
    <2> QED
      BY <2>1, <1>3, <1>4, <1>6, <1>7, ListedIn
  <1> QED
    BY <1>7, <1>8

Moved(row, code, work) == [row EXCEPT !.code = code, !.work = work]

LEMMA MovedRow ==
    ASSUME NEW row \in Person, NEW code \in 0 .. MaxCode \cup OwnCodes, NEW work \in Workplace
    PROVE  /\ Moved(row, code, work) \in Person
           /\ Moved(row, code, work).status = row.status
           /\ Moved(row, code, work).code = code
           /\ Moved(row, code, work).work = work
  BY DEF Person, Moved

LEMMA UpdateStarts ==
    ASSUME TypeInv, NEW w \in Workers, NEW u \in Known, NEW kind \in {"update", "set_status"},
           NEW code \in Corrections \cup {people[u].code}, NEW work \in Moves(u),
           UpdateRead(w, u, kind, code, work)
    PROVE  \E c : Starting(w, c)
  <1> DEFINE new == Moved(people[u], code, work)
             c   == [kind |-> kind, doc |-> doc, user |-> u,
                     changes |-> Changes(people[u], new)]
  <1>1. u \in Users /\ people[u] \in Person /\ doc \in Document
    BY DEF Known, TypeInv, TypeOK
  <1>2. Begin(w, c)
    BY DEF UpdateRead, Moved
  <1>3. work \in Workplace /\ (AllListed => Listed(doc, work))
    BY <1>1, MovesType
  <1>4. code \in {NoCode, people[u].code} \cup OwnCodes
    BY DirectoryAssumption DEF NoCode
  <1>5. /\ new \in Person
        /\ new.status = people[u].status /\ new.code = code /\ new.work = work
    <2>1. people[u].code \in 0 .. MaxCode \cup OwnCodes
      BY <1>1 DEF Person
    <2>2. code \in 0 .. MaxCode \cup OwnCodes
      BY <2>1, <1>4, DirectoryAssumption DEF NoCode
    <2> QED
      BY <1>1, <1>3, <2>2, MovedRow
  <1> HIDE DEF new
  <1>6. /\ Fits(Changes(people[u], new))
        /\ "status" \notin DOMAIN Changes(people[u], new)
        /\ "work" \in DOMAIN Changes(people[u], new) => Changes(people[u], new)["work"] = work
    BY <1>1, <1>4, <1>5, ChangesFit
  <1>7. /\ c.kind = kind /\ c.doc = doc /\ c.user = u
        /\ c.changes = Changes(people[u], new)
    OBVIOUS
  <1> HIDE DEF c
  <1>8. Sound(c, Known)
    BY <1>1, <1>6, <1>7 DEF Sound, RowKinds
  <1>9. AllListed => Abides(c)
    BY <1>3, <1>6, <1>7 DEF Abides
  <1> QED
    BY <1>2, <1>7, <1>8, <1>9 DEF Starting, Begin

LEMMA RewriteStarts ==
    ASSUME TypeInv, NEW w \in Workers, NEW site \in Document, Rewrite(w, site),
           doc.branches \subseteq site.branches, doc.projects \subseteq site.projects
    PROVE  \E c : Starting(w, c)
  <1> DEFINE c == [kind |-> "write", doc |-> doc, site |-> site]
  <1>1. Begin(w, c)
    BY DEF Rewrite
  <1>2. doc \in Document
    BY DEF TypeInv, TypeOK
  <1>3. c.kind = "write" /\ c.doc = doc /\ c.site = site
    OBVIOUS
  <1> HIDE DEF c
  <1>4. Sound(c, Known)
    BY <1>2, <1>3 DEF Sound, RowKinds
  <1>5. Abides(c)
    BY <1>3 DEF Abides, RowKinds
  <1> QED
    BY <1>1, <1>3, <1>4, <1>5 DEF Starting, Begin

(* What a deletion leaves an employee is what the document still lists.    *)
LEMMA ClearedType ==
    ASSUME TypeInv, NEW site \in Document
    PROVE  /\ DOMAIN Cleared(site) \subseteq Known
           /\ \A u \in DOMAIN Cleared(site) :
                 /\ Cleared(site)[u] \in Workplace
                 /\ AllListed => Listed(site, Cleared(site)[u])
  <1>0. Known \subseteq Users
    BY DEF Known
  <1>1. DOMAIN Cleared(site) \subseteq Known
    <2> SUFFICES ASSUME NEW u \in Users, people[u] = Unborn
                 PROVE  Resolved(site, people[u].work) = Resolved(doc, people[u].work)
      BY DEF Cleared, TypeInv, UnbornEmpty
    <2>1. people[u].work = Empty
      BY DEF Unborn, Nowhere
    <2> QED
      BY <2>1 DEF Resolved, Empty
  <1>2. ASSUME NEW u \in DOMAIN Cleared(site)
        PROVE  /\ Cleared(site)[u] \in Workplace
               /\ AllListed => Listed(site, Cleared(site)[u])
    <2>1. DOMAIN site = {"branches", "projects"}
      BY DEF Document
    <2>2. Cleared(site)[u] = [k \in DOMAIN site |->
                                IF site[k] = doc[k] THEN people[u].work[k]
                                ELSE people[u].work[k] \cap site[k]]
      BY DEF Cleared
    <2> DEFINE left == Cleared(site)[u]
               work == people[u].work
    <2>3. left = [branches |-> IF site.branches = doc.branches THEN work.branches
                               ELSE work.branches \cap site.branches,
                  projects |-> IF site.projects = doc.projects THEN work.projects
                               ELSE work.projects \cap site.projects]
      BY <2>1, <2>2
    <2>4. work \in Workplace
      BY <1>0, <1>1 DEF TypeInv, TypeOK, Person
    <2>5. u \in Users
      BY <1>0, <1>1
    <2>6. AllListed => Listed(doc, work)
      BY <2>5 DEF AllListed
    <2> HIDE DEF left, work
    <2>7. left \in Workplace
      BY <2>3, <2>4 DEF Workplace
    <2>8. AllListed => Listed(site, left)
      BY <2>3, <2>4, <2>6, <2>7, ListedIn
    <2> QED
      BY <2>7, <2>8 DEF left
  <1> QED
    BY <1>1, <1>2

LEMMA DeleteStarts ==
    ASSUME TypeInv, NEW w \in Workers, NEW site \in Document, DeleteRead(w, site)
    PROVE  \E c : Starting(w, c)
  <1> DEFINE c == [kind |-> "clear", doc |-> doc, site |-> site, cleared |-> Cleared(site)]
  <1>1. Begin(w, c)
    BY DEF DeleteRead
  <1>2. doc \in Document
    BY DEF TypeInv, TypeOK
  <1>3. c.kind = "clear" /\ c.doc = doc /\ c.site = site /\ c.cleared = Cleared(site)
    OBVIOUS
  <1> HIDE DEF c
  <1>4. Sound(c, Known)
    BY <1>2, <1>3, ClearedType DEF Sound, RowKinds
  <1>5. AllListed => Abides(c)
    BY <1>3, ClearedType DEF Abides, RowKinds
  <1> QED
    BY <1>1, <1>3, <1>4, <1>5 DEF Starting, Begin

LEMMA OrganizeStarts ==
    ASSUME TypeInv, NEW w \in Workers,
           \/ \E b \in Branches : UpsertBranchRead(w, b) \/ DeleteBranchRead(w, b)
           \/ \E p \in Projects : UpsertProjectRead(w, p) \/ DeleteProjectRead(w, p)
           \/ SettingsRead(w)
    PROVE  \E c : Starting(w, c)
  <1>0. doc \in Document
    BY DEF TypeInv, TypeOK
  <1>1. ASSUME NEW b \in Branches, UpsertBranchRead(w, b)
        PROVE  \E c : Starting(w, c)
    <2> DEFINE site == [doc EXCEPT !.branches = @ \cup {b}]
    <2>1. /\ site \in Document
          /\ doc.branches \subseteq site.branches /\ doc.projects \subseteq site.projects
      BY <1>0 DEF Document
    <2>2. Rewrite(w, site)
      BY <1>1 DEF UpsertBranchRead
    <2> HIDE DEF site
    <2> QED
      BY <2>1, <2>2, RewriteStarts
  <1>2. ASSUME NEW p \in Projects, UpsertProjectRead(w, p)
        PROVE  \E c : Starting(w, c)
    <2> DEFINE site == [doc EXCEPT !.projects = @ \cup {p}]
    <2>1. /\ site \in Document
          /\ doc.branches \subseteq site.branches /\ doc.projects \subseteq site.projects
      BY <1>0 DEF Document
    <2>2. Rewrite(w, site)
      BY <1>2 DEF UpsertProjectRead
    <2> HIDE DEF site
    <2> QED
      BY <2>1, <2>2, RewriteStarts
  <1>3. ASSUME SettingsRead(w)
        PROVE  \E c : Starting(w, c)
    BY <1>0, <1>3, RewriteStarts DEF SettingsRead
  <1>4. ASSUME NEW b \in Branches, DeleteBranchRead(w, b)
        PROVE  \E c : Starting(w, c)
    <2>1. [doc EXCEPT !.branches = @ \ {b}] \in Document
      BY <1>0 DEF Document
    <2> QED
      BY <1>4, <2>1, DeleteStarts DEF DeleteBranchRead
  <1>5. ASSUME NEW p \in Projects, DeleteProjectRead(w, p)
        PROVE  \E c : Starting(w, c)
    <2>1. [doc EXCEPT !.projects = @ \ {p}] \in Document
      BY <1>0 DEF Document
    <2> QED
      BY <1>5, <2>1, DeleteStarts DEF DeleteProjectRead
  <1> QED
    BY <1>1, <1>2, <1>3, <1>4, <1>5

-----------------------------------------------------------------------------
(* Commits, each by the rows and the call it leaves *)

(* The call a row's end leaves                                             *)
Rest(w) == IF op[w].left = 1 THEN Idle
           ELSE [kind |-> "rows", left |-> op[w].left - 1, loaded |-> FALSE,
                 seq |-> 0, doc |-> Empty]

LEMMA RestType ==
    ASSUME TypeInv, NEW w \in Workers, op[w].kind \in Registering
    PROVE  /\ Sound(Rest(w), Known)
           /\ \A n : InStep(Rest(w), n)
           /\ Abides(Rest(w))
  <1>1. op[w].left \in 1 .. MaxRows
    BY DEF TypeInv, CallsSound, Sound, Registering
  <1>2. CASE op[w].left = 1
    BY <1>2 DEF Rest, Idle, Sound, InStep, Abides, RowKinds
  <1>3. CASE op[w].left # 1
    <2> DEFINE c == [kind |-> "rows", left |-> op[w].left - 1, loaded |-> FALSE,
                     seq |-> 0, doc |-> Empty]
    <2>1. /\ c.kind = "rows" /\ c.left \in 1 .. MaxRows /\ c.loaded = FALSE
          /\ c.loaded \in BOOLEAN /\ c.seq = 0 /\ c.doc = Empty
      BY <1>1, <1>3, DirectoryAssumption
    <2>2. Rest(w) = c
      BY <1>3 DEF Rest
    <2> HIDE DEF c
    <2>3. Sound(c, Known)
      BY <2>1, DocumentType, DirectoryAssumption DEF Sound, RowKinds
    <2>4. \A n : InStep(c, n)
      BY <2>1 DEF InStep, RowKinds
    <2>5. Abides(c)
      BY <2>1 DEF Abides, RowKinds
    <2> QED
      BY <2>2, <2>3, <2>4, <2>5
  <1> QED
    BY <1>2, <1>3

(* A registered row: a new employee, or one taken up again                 *)
Registered(w, u, row) ==
    /\ op[w].kind \in {"insert", "restore"}
    /\ op' = [op EXCEPT ![w] = Rest(w)]
    /\ seq' = Sequence(w)
    /\ UNCHANGED doc
    /\ op[w].number <= MaxCode
    /\ Commit(w, [people EXCEPT ![u] = row], {u})
    /\ row.status # "absent"
    /\ op[w].kind = "insert" => people[u].code = NoCode
    /\ op[w].kind = "restore" => u = op[w].user
    /\ IF op[w].number = NoCode THEN row.code \in {people[u].code, NoCode} \cup OwnCodes
                                ELSE row.code = op[w].number
    /\ \/ row.work = people[u].work
       \/ "work" \in DOMAIN op[w].changes /\ row.work = op[w].changes["work"]

LEMMA CommitRowRegisters ==
    ASSUME TypeInv, NEW w \in Workers, NEW u \in Users, op[w].kind \in {"insert", "restore"},
           op[w].kind = "insert" => u \notin Known,
           op[w].kind = "restore" => u = op[w].user,
           CommitRow(w, u, people[u])
    PROVE  \E row \in Person : Registered(w, u, row)
  <1> DEFINE old == Written(people[u], op[w].changes)
             row == IF op[w].number = NoCode THEN old ELSE [old EXCEPT !.code = op[w].number]
  <1>1. /\ op[w].number <= MaxCode
        /\ seq' = Sequence(w)
        /\ Commit(w, [people EXCEPT ![u] = row], {u})
        /\ NextRow(w)
        /\ UNCHANGED doc
    BY DEF CommitRow
  <1>2. /\ people[u] \in Person
        /\ op[w].number \in 0 .. MaxCode + 1
        /\ Fits(op[w].changes)
        /\ op[w].kind = "insert" => "status" \in DOMAIN op[w].changes
        /\ op[w].kind = "restore" => u \in Known
    BY DEF TypeInv, TypeOK, CallsSound, Sound, RowKinds, Fields
  <1>3. /\ old \in Person
        /\ old.status # "absent"
        /\ old.code \in {people[u].code, NoCode} \cup OwnCodes
        /\ \/ old.work = people[u].work
           \/ "work" \in DOMAIN op[w].changes /\ old.work = op[w].changes["work"]
    <2>1. "status" \in DOMAIN op[w].changes \/ people[u].status # "absent"
      BY <1>2 DEF Known
    <2> QED
      BY <1>2, <2>1, WrittenType
  <1>4. op[w].number \in 0 .. MaxCode
    BY <1>1, <1>2, DirectoryAssumption
  <1> HIDE DEF old
  <1>5. /\ row \in Person /\ row.status = old.status /\ row.work = old.work
        /\ IF op[w].number = NoCode THEN row.code = old.code ELSE row.code = op[w].number
    BY <1>3, <1>4 DEF Person
  <1>6. op[w].kind = "insert" => people[u].code = NoCode
    BY DEF TypeInv, UnbornEmpty, Unborn
  <1>7. op' = [op EXCEPT ![w] = Rest(w)]
    BY <1>1 DEF NextRow, Rest
  <1> HIDE DEF row
  <1>8. Registered(w, u, row)
    BY <1>1, <1>3, <1>5, <1>6, <1>7 DEF Registered
  <1> QED
    BY <1>5, <1>8

LEMMA Least ==
    ASSUME NEW S \in SUBSET Nat, S # {}
    PROVE  Min(S) \in S /\ \A m \in S : Min(S) <= m
  <1>1. IsWellFoundedOn(OpToRel(<, Nat), Nat)
    BY NatLessThanWellFounded
  <1>2. PICK n \in S : \A m \in S : ~(<<m, n>> \in OpToRel(<, Nat))
    BY <1>1, WFMin
  <1>3. \A m \in S : ~(m < n)
    BY <1>2 DEF OpToRel
  <1>4. \A m \in S : n <= m
    BY <1>3
  <1> QED
    BY <1>4 DEF Min

LEMMA RegisterNewCommits ==
    ASSUME TypeInv, NEW w \in Workers, RegisterNewCommit(w)
    PROVE  \E u \in Users, row \in Person : Registered(w, u, row)
  <1> DEFINE u == Min(Users \ Known)
  <1>1. op[w].kind = "insert" /\ CommitRow(w, u, Unborn)
    BY DEF RegisterNewCommit, Serving
  <1>2. u \in Users \ Known
    BY Least DEF RegisterNewCommit, Users, Known
  <1>3. people[u] = Unborn
    BY <1>2 DEF TypeInv, UnbornEmpty
  <1> HIDE DEF u
  <1>4. CommitRow(w, u, people[u])
    BY <1>1, <1>3
  <1> QED
    BY <1>1, <1>2, <1>4, CommitRowRegisters

LEMMA RegisterAgainCommits ==
    ASSUME TypeInv, NEW w \in Workers, RegisterAgainCommit(w)
    PROVE  \E u \in Users, row \in Person : Registered(w, u, row)
  <1>1. op[w].kind = "restore" /\ CommitRow(w, op[w].user, people[op[w].user])
    BY DEF RegisterAgainCommit, Serving
  <1>2. op[w].user \in Users
    BY <1>1 DEF TypeInv, CallsSound, Sound, Known
  <1> QED
    BY <1>1, <1>2, CommitRowRegisters

(* A change to an employee who is there                                    *)
Changed(w, u, row) ==
    /\ Commit(w, [people EXCEPT ![u] = row], {})
    /\ UNCHANGED <<seq, doc>>
    /\ people[u].status # "absent" /\ row.status # "absent"
    /\ row.code \in {people[u].code, NoCode} \cup OwnCodes
    /\ \/ row.work = people[u].work
       \/ /\ op[w].kind \in {"update", "set_status", "reimport"}
          /\ "work" \in DOMAIN op[w].changes /\ row.work = op[w].changes["work"]

LEMMA ImportUpdates ==
    ASSUME TypeInv, NEW w \in Workers, ImportUpdateCommit(w)
    PROVE  /\ op[w].kind = "reimport" /\ op' = [op EXCEPT ![w] = Rest(w)]
           /\ \E u \in Users, row \in Person : Changed(w, u, row)
  <1> DEFINE u   == op[w].user
             row == Written(people[u], op[w].changes)
  <1>1. op[w].kind = "reimport"
    BY DEF ImportUpdateCommit, Serving
  <1>2. u \in Known /\ u \in Users /\ people[u] \in Person /\ Fits(op[w].changes)
    BY <1>1 DEF TypeInv, TypeOK, CallsSound, Sound, Known, RowKinds
  <1>3. people[u].status # "absent"
    BY <1>2 DEF Known
  <1>4. [people EXCEPT ![u] = Written(@, op[w].changes)] = [people EXCEPT ![u] = row]
    OBVIOUS
  <1>5. Commit(w, [people EXCEPT ![u] = row], {}) /\ UNCHANGED <<seq, doc>>
    BY <1>4 DEF ImportUpdateCommit
  <1>6. op' = [op EXCEPT ![w] = Rest(w)]
    BY DEF ImportUpdateCommit, NextRow, Rest
  <1>7. /\ row \in Person /\ row.status # "absent"
        /\ row.code \in {people[u].code, NoCode} \cup OwnCodes
        /\ \/ row.work = people[u].work
           \/ "work" \in DOMAIN op[w].changes /\ row.work = op[w].changes["work"]
    BY <1>2, <1>3, WrittenType
  <1> HIDE DEF row
  <1>8. Changed(w, u, row)
    BY <1>1, <1>3, <1>5, <1>7 DEF Changed
  <1> QED
    BY <1>1, <1>2, <1>6, <1>7, <1>8

LEMMA Updates ==
    ASSUME TypeInv, NEW w \in Workers, UpdateCommit(w)
    PROVE  /\ op[w].kind \in {"update", "set_status"} /\ op' = [op EXCEPT ![w] = Idle]
           /\ \E u \in Users, row \in Person : Changed(w, u, row)
  <1> DEFINE u   == op[w].user
             put == Written(people[u], op[w].changes)
             row == IF Serving(w, "update") THEN put ELSE [put EXCEPT !.status = "live"]
  <1>1. op[w].kind \in {"update", "set_status"} /\ op' = [op EXCEPT ![w] = Idle]
    BY DEF UpdateCommit, Finish
  <1>2. u \in Known /\ u \in Users /\ people[u] \in Person /\ Fits(op[w].changes)
    BY <1>1 DEF TypeInv, TypeOK, CallsSound, Sound, Known, RowKinds
  <1>3. people[u].status # "absent"
    BY <1>2 DEF Known
  <1>4. Commit(w, [people EXCEPT ![u] = row], {}) /\ UNCHANGED <<seq, doc>>
    BY DEF UpdateCommit
  <1>5. /\ put \in Person /\ put.status # "absent"
        /\ put.code \in {people[u].code, NoCode} \cup OwnCodes
        /\ \/ put.work = people[u].work
           \/ "work" \in DOMAIN op[w].changes /\ put.work = op[w].changes["work"]
    BY <1>2, <1>3, WrittenType
  <1> HIDE DEF put
  <1>6. row \in Person /\ row.status # "absent" /\ row.code = put.code /\ row.work = put.work
    BY <1>5 DEF Person
  <1> HIDE DEF row
  <1>7. Changed(w, u, row)
    BY <1>1, <1>3, <1>4, <1>5, <1>6 DEF Changed
  <1> QED
    BY <1>1, <1>2, <1>6, <1>7

LEMMA StatusSet ==
    ASSUME TypeInv, NEW w \in Workers, NEW u \in Known, NEW status \in {"live", "deleted"},
           SetStatus(w, u, status)
    PROVE  UNCHANGED op /\ \E row \in Person : u \in Users /\ Changed(w, u, row)
  <1> DEFINE row == [people[u] EXCEPT !.status = status]
  <1>1. u \in Users /\ people[u] \in Person /\ people[u].status # "absent"
    BY DEF Known, TypeInv, TypeOK
  <1>2. row \in Person /\ row.status # "absent" /\ row.code = people[u].code
        /\ row.work = people[u].work
    BY <1>1 DEF Person
  <1>3. [people EXCEPT ![u].status = status] = [people EXCEPT ![u] = row]
    OBVIOUS
  <1>4. Commit(w, [people EXCEPT ![u] = row], {}) /\ UNCHANGED <<seq, doc, op>>
    BY <1>3 DEF SetStatus
  <1> HIDE DEF row
  <1>5. Changed(w, u, row)
    BY <1>1, <1>2, <1>4 DEF Changed
  <1> QED
    BY <1>1, <1>2, <1>4, <1>5

(* A deletion: every row keeps its status and its code.                    *)
ClearedRows(w) == [u \in Users |-> IF u \in DOMAIN op[w].cleared
                                   THEN [people[u] EXCEPT !.work = op[w].cleared[u]]
                                   ELSE people[u]]

LEMMA Clears ==
    ASSUME TypeInv, NEW w \in Workers, ClearCommit(w)
    PROVE  /\ op[w].kind = "clear" /\ op' = [op EXCEPT ![w] = Idle]
           /\ doc' = op[w].site /\ doc' \in Document /\ seq' = seq
           /\ Commit(w, ClearedRows(w), {})
           /\ ClearedRows(w) \in [Users -> Person]
           /\ \A u \in Users :
                 /\ ClearedRows(w)[u].status = people[u].status
                 /\ ClearedRows(w)[u].code = people[u].code
                 /\ ClearedRows(w)[u].work = IF u \in DOMAIN op[w].cleared
                                             THEN op[w].cleared[u] ELSE people[u].work
  <1>1. /\ op[w].kind = "clear" /\ op' = [op EXCEPT ![w] = Idle]
        /\ doc' = op[w].site /\ seq' = seq
        /\ Commit(w, ClearedRows(w), {})
    BY DEF ClearCommit, Serving, Finish, ClearedRows
  <1>2. /\ op[w].site \in Document
        /\ \A u \in DOMAIN op[w].cleared : op[w].cleared[u] \in Workplace
    BY <1>1 DEF TypeInv, CallsSound, Sound
  <1>3. ASSUME NEW u \in Users
        PROVE  /\ ClearedRows(w)[u] \in Person
               /\ ClearedRows(w)[u].status = people[u].status
               /\ ClearedRows(w)[u].code = people[u].code
               /\ ClearedRows(w)[u].work = IF u \in DOMAIN op[w].cleared
                                           THEN op[w].cleared[u] ELSE people[u].work
    <2>1. people[u] \in Person
      BY DEF TypeInv, TypeOK
    <2> QED
      BY <1>2, <2>1 DEF ClearedRows, Person
  <1>4. ClearedRows(w) \in [Users -> Person]
    BY <1>3 DEF ClearedRows
  <1> QED
    BY <1>1, <1>2, <1>3, <1>4

-----------------------------------------------------------------------------
(* Every step of the system is one of these. *)

Steps(w) ==
    \/ \E n \in 1 .. MaxRows : RegisterCheck(w, n)
    \/ \E c : LookingUp(w, c)
    \/ \E c : Starting(w, c)
    \/ \E u \in Users, row \in Person : Registered(w, u, row)
    \/ RowFails(w)
    \/ \E u \in Users, row \in Person :
          /\ Changed(w, u, row)
          /\ \/ op[w].kind = "reimport" /\ op' = [op EXCEPT ![w] = Rest(w)]
             \/ op[w].kind \in {"update", "set_status"} /\ op' = [op EXCEPT ![w] = Idle]
             \/ UNCHANGED op
    \/ WriteCommit(w)
    \/ ClearCommit(w)
    \/ Abort(w)

LEMMA StepCases ==
    ASSUME TypeInv, Next
    PROVE  \E w \in Workers : Steps(w)
  <1> PICK w \in Workers : Register(w) \/ Administer(w) \/ Organize(w) \/ Abort(w)
    BY DEF Next
  <1>1. CASE Register(w)
    <2>1. CASE Serving(w, "rows") /\ \E code \in Codes, work \in Offers(w) :
                  \/ RegisterNewRead(w, code, work)
                  \/ \E u \in Known : \/ RegisterAgainRead(w, u, code, work)
                                      \/ ImportUpdateRead(w, u, code, work)
      BY <2>1, RegisterReads DEF Steps
    <2>2. CASE RegisterNewCommit(w)
      BY <2>2, RegisterNewCommits DEF Steps
    <2>3. CASE RegisterAgainCommit(w)
      BY <2>3, RegisterAgainCommits DEF Steps
    <2>4. CASE ImportUpdateCommit(w)
      BY <2>4, ImportUpdates DEF Steps
    <2>5. CASE RowFails(w) \/ \E n \in 1 .. MaxRows : RegisterCheck(w, n)
      BY <2>5 DEF Steps
    <2> QED
      BY <1>1, <2>1, <2>2, <2>3, <2>4, <2>5 DEF Register
  <1>2. CASE Administer(w)
    <2>1. ASSUME NEW u \in Known, NEW kind \in {"update", "set_status"},
                 NEW code \in Corrections \cup {people[u].code}, NEW work \in Moves(u),
                 UpdateRead(w, u, kind, code, work)
          PROVE  Steps(w)
      BY <2>1, UpdateStarts DEF Steps
    <2>2. ASSUME NEW u \in Known, UpdateStatus(w, u) \/ DeleteEmployee(w, u)
          PROVE  Steps(w)
      <3>1. PICK status \in {"live", "deleted"} : SetStatus(w, u, status)
        BY <2>2 DEF UpdateStatus, DeleteEmployee
      <3> QED
        BY <3>1, StatusSet DEF Steps
    <2>3. CASE UpdateCommit(w)
      BY <2>3, Updates DEF Steps
    <2> QED
      BY <1>2, <2>1, <2>2, <2>3 DEF Administer
  <1>3. CASE Organize(w)
    <2>1. CASE WriteCommit(w) \/ ClearCommit(w)
      BY <2>1 DEF Steps
    <2>2. CASE \/ \E b \in Branches : UpsertBranchRead(w, b) \/ DeleteBranchRead(w, b)
               \/ \E p \in Projects : UpsertProjectRead(w, p) \/ DeleteProjectRead(w, p)
               \/ SettingsRead(w)
      BY <2>2, OrganizeStarts DEF Steps
    <2> QED
      BY <1>3, <2>1, <2>2 DEF Organize
  <1>4. CASE Abort(w)
    BY <1>4 DEF Steps
  <1> QED
    BY <1>1, <1>2, <1>3, <1>4

-----------------------------------------------------------------------------
(* Types *)

LEMMA TypeInit == Init => TypeInv
  <1> SUFFICES ASSUME Init PROVE TypeInv
    OBVIOUS
  <1>1. seq \in 0 .. MaxCode /\ revived \subseteq Users
    BY DirectoryAssumption DEF Init
  <1>2. doc \in Document
    BY DocumentType DEF Init
  <1>3. \A u \in Users : people[u] = IF u = 1 THEN [Unborn EXCEPT !.status = "live", !.code = 1]
                                     ELSE Unborn
    BY DEF Init
  <1>4. /\ [Unborn EXCEPT !.status = "live", !.code = 1] \in Person
        /\ [Unborn EXCEPT !.status = "live", !.code = 1].status = "live"
    <2>1. 1 \in 0 .. MaxCode
      BY DirectoryAssumption
    <2> QED
      BY <2>1, DocumentType DEF Person
  <1>5. people \in [Users -> Person]
    BY <1>3, <1>4, DocumentType DEF Init
  <1>6. op = [w \in Workers |-> Idle] /\ \A w \in Workers : op[w] = Idle
    BY DEF Init
  <1>7. CallsSound
    BY <1>6, SoundIdle DEF CallsSound
  <1>8. UnbornEmpty
    BY <1>3, <1>4 DEF UnbornEmpty, Known
  <1>9. \A w \in Workers :
           op[w].kind \in {"idle", "rows", "insert", "restore", "reimport",
                           "update", "set_status", "write", "clear"}
    BY <1>6 DEF Idle
  <1>10. reused \in BOOLEAN /\ raced \in BOOLEAN
    BY DEF Init
  <1> QED
    BY <1>1, <1>2, <1>5, <1>7, <1>8, <1>9, <1>10 DEF TypeInv, TypeOK

LEMMA RegisteredType ==
    ASSUME TypeInv, NEW w \in Workers, NEW u \in Users, NEW row \in Person, Registered(w, u, row)
    PROVE  TypeInv'
  <1>1. op[w].kind \in Registering /\ op[w].number \in 0 .. MaxCode + 1
    BY DEF Registered, Registering, RowKinds, TypeInv, CallsSound, Sound
  <1>2. Sound(Rest(w), Known)
    BY <1>1, RestType
  <1>3. seq' \in 0 .. MaxCode /\ doc' \in Document
    BY <1>1, DirectoryAssumption DEF Registered, Sequence, TypeInv, TypeOK
  <1>4. /\ row.status # "absent"
        /\ Commit(w, [people EXCEPT ![u] = row], {u})
        /\ op' = [op EXCEPT ![w] = Rest(w)]
    BY DEF Registered
  <1>5. /\ [people EXCEPT ![u] = row] \in [Users -> Person]
        /\ \A v \in Users : \/ [people EXCEPT ![u] = row][v].status # "absent"
                            \/ [people EXCEPT ![u] = row][v] = people[v]
    BY <1>4, OneRowType
  <1> QED
    BY <1>2, <1>3, <1>4, <1>5, CommitStepType

LEMMA ChangedType ==
    ASSUME TypeInv, NEW w \in Workers, NEW u \in Users, NEW row \in Person, Changed(w, u, row),
           NEW c, Sound(c, Known), op' = [op EXCEPT ![w] = c]
    PROVE  TypeInv'
  <1>1. /\ row.status # "absent"
        /\ Commit(w, [people EXCEPT ![u] = row], {})
        /\ seq' \in 0 .. MaxCode /\ doc' \in Document
    BY DEF Changed, TypeInv, TypeOK
  <1>2. /\ [people EXCEPT ![u] = row] \in [Users -> Person]
        /\ \A v \in Users : \/ [people EXCEPT ![u] = row][v].status # "absent"
                            \/ [people EXCEPT ![u] = row][v] = people[v]
    BY <1>1, OneRowType
  <1> QED
    BY <1>1, <1>2, CommitStepType

LEMMA ClearedStepType ==
    ASSUME TypeInv, NEW w \in Workers, ClearCommit(w)
    PROVE  TypeInv'
  <1>1. /\ op' = [op EXCEPT ![w] = Idle]
        /\ doc' \in Document /\ seq' \in 0 .. MaxCode
        /\ Commit(w, ClearedRows(w), {})
        /\ ClearedRows(w) \in [Users -> Person]
        /\ \A u \in Users : ClearedRows(w)[u].status = people[u].status
    BY Clears DEF TypeInv, TypeOK
  <1>2. \A u \in Users : ClearedRows(w)[u].status # "absent" \/ ClearedRows(w)[u] = people[u]
    <2> SUFFICES ASSUME NEW u \in Users, people[u].status = "absent"
                 PROVE  ClearedRows(w)[u] = people[u]
      BY <1>1
    <2>1. u \notin DOMAIN op[w].cleared
      BY Clears DEF TypeInv, CallsSound, Sound, Known
    <2> QED
      BY <2>1 DEF ClearedRows
  <1> QED
    BY <1>1, <1>2, SoundIdle, CommitStepType

LEMMA TypeNext ==
    ASSUME TypeInv, [Next]_vars
    PROVE  TypeInv'
  <1>1. CASE Next
    <2> PICK w \in Workers : Steps(w)
      BY <1>1, StepCases
    <2>1. ASSUME NEW n \in 1 .. MaxRows, RegisterCheck(w, n)
          PROVE  TypeInv'
      <3> DEFINE c == [kind |-> "rows", left |-> n, loaded |-> TRUE, seq |-> seq, doc |-> doc]
      <3>1. /\ op' = [op EXCEPT ![w] = c]
            /\ UNCHANGED <<seq, doc, people, revived, reused, raced>>
        BY <2>1 DEF RegisterCheck, Begin
      <3>2. /\ c.kind = "rows" /\ c.left = n /\ c.loaded \in BOOLEAN
            /\ c.seq = seq /\ c.doc = doc
        OBVIOUS
      <3> HIDE DEF c
      <3>3. Sound(c, Known)
        BY <3>2 DEF Sound, RowKinds, TypeInv, TypeOK
      <3> QED
        BY <3>1, <3>3, CallStepType
    <2>2. ASSUME NEW c, LookingUp(w, c) \/ Starting(w, c)
          PROVE  TypeInv'
      <3>1. /\ op' = [op EXCEPT ![w] = c] /\ Sound(c, Known)
            /\ UNCHANGED <<seq, doc, people, revived, reused, raced>>
        BY <2>2 DEF LookingUp, Starting
      <3> QED
        BY <3>1, CallStepType
    <2>3. ASSUME NEW u \in Users, NEW row \in Person, Registered(w, u, row)
          PROVE  TypeInv'
      BY <2>3, RegisteredType
    <2>4. CASE RowFails(w)
      <3>1. /\ op[w].kind \in Registering /\ op' = [op EXCEPT ![w] = Rest(w)]
            /\ UNCHANGED <<seq, doc, people, revived, reused, raced>>
        BY <2>4 DEF RowFails, NextRow, Rest, Registering, RowKinds
      <3> QED
        BY <3>1, RestType, CallStepType
    <2>5. ASSUME NEW u \in Users, NEW row \in Person, Changed(w, u, row),
                 \/ op[w].kind = "reimport" /\ op' = [op EXCEPT ![w] = Rest(w)]
                 \/ op[w].kind \in {"update", "set_status"} /\ op' = [op EXCEPT ![w] = Idle]
                 \/ UNCHANGED op
          PROVE  TypeInv'
      <3>1. CASE op[w].kind = "reimport" /\ op' = [op EXCEPT ![w] = Rest(w)]
        BY <2>5, <3>1, RestType, ChangedType DEF Registering, RowKinds
      <3>2. CASE op' = [op EXCEPT ![w] = Idle]
        BY <2>5, <3>2, SoundIdle, ChangedType
      <3>3. CASE UNCHANGED op
        <4>1. op' = [op EXCEPT ![w] = op[w]] /\ Sound(op[w], Known)
          BY <3>3 DEF TypeInv, CallsSound
        <4> QED
          BY <2>5, <4>1, ChangedType
      <3> QED
        BY <2>5, <3>1, <3>2, <3>3
    <2>6. CASE WriteCommit(w)
      <3>1. /\ op' = [op EXCEPT ![w] = Idle] /\ doc' \in Document
            /\ raced' \in BOOLEAN
            /\ UNCHANGED <<seq, people, revived, reused>>
        BY <2>6 DEF WriteCommit, Serving, Finish, TypeInv, TypeOK, CallsSound, Sound
      <3>2. Known' = Known
        BY <3>1 DEF Known
      <3>3. CallsSound'
        BY <3>1, <3>2, SoundIdle, CallsType
      <3>4. UnbornEmpty'
        BY <3>1, <3>2 DEF TypeInv, UnbornEmpty
      <3>5. TypeOK'
        <4>1. \A v \in Workers :
                 op'[v].kind \in {"idle", "rows", "insert", "restore", "reimport",
                                  "update", "set_status", "write", "clear"}
          BY <3>3 DEF CallsSound, Sound, RowKinds
        <4> QED
          BY <3>1, <4>1 DEF TypeInv, TypeOK
      <3> QED
        BY <3>3, <3>4, <3>5 DEF TypeInv
    <2>7. CASE ClearCommit(w)
      BY <2>7, ClearedStepType
    <2>8. CASE Abort(w)
      <3>1. /\ op' = [op EXCEPT ![w] = Idle]
            /\ UNCHANGED <<seq, doc, people, revived, reused, raced>>
        BY <2>8 DEF Abort, Finish
      <3> QED
        BY <3>1, SoundIdle, CallStepType
    <2> QED
      BY <2>1, <2>2, <2>3, <2>4, <2>5, <2>6, <2>7, <2>8 DEF Steps
  <1>2. CASE UNCHANGED vars
    BY <1>2 DEF vars, TypeInv, TypeOK, CallsSound, UnbornEmpty, Known
  <1> QED
    BY <1>1, <1>2

LEMMA TypeAlways == Spec => []TypeInv
  BY TypeInit, TypeNext, PTL DEF Spec

(* The rows, the document and the sequence have the values of their kinds, *)
(* whatever calls overlap (employees.py, admin.py).                        *)
THEOREM TypeCorrect == Spec => []TypeOK
  BY TypeAlways, PTL DEF TypeInv

-----------------------------------------------------------------------------
(* The sequence *)

(* A number that is held before a commit, and was not given up by it       *)
LEMMA NumbersKept ==
    ASSUME TypeInv, NEW w \in Workers, NEW staff, NEW restored, Commit(w, staff, restored),
           ~reused'
    PROVE  /\ ~reused /\ ~GivenAgain(w) /\ Unique(staff) /\ people' = staff
           /\ \A u \in Users : people[u].code \in 1 .. MaxCode => staff[u].code = people[u].code
  BY DEF Commit, TypeInv, TypeOK

(* The calls in progress, after a step of one of them                      *)
LEMMA CallsInStep ==
    ASSUME TypeInv, \A v \in Workers : InStep(op[v], seq), seq' \in Nat, seq <= seq',
           NEW w \in Workers, NEW c, InStep(c, seq'), op' = [op EXCEPT ![w] = c]
    PROVE  \A v \in Workers : InStep(op'[v], seq')
  <1> SUFFICES ASSUME NEW v \in Workers PROVE InStep(op'[v], seq')
    OBVIOUS
  <1>1. op'[v] = IF v = w THEN c ELSE op[v]
    BY DEF TypeInv, CallsSound
  <1>2. InStep(op[v], seq')
    BY DEF InStep, TypeInv, TypeOK, CallsSound, Sound, RowKinds
  <1> QED
    BY <1>1, <1>2

(* A commit that allocates nothing                                         *)
LEMMA SequenceStays ==
    ASSUME TypeInv, SequenceInv, NEW w \in Workers, NEW staff \in [Users -> Person],
           NEW restored, Commit(w, staff, restored), ~reused', seq' = seq,
           \A u \in Users : staff[u].code \in {people[u].code, NoCode} \cup OwnCodes
    PROVE  NumbersWithin' /\ NumbersHeld'
  <1>1. /\ people' = staff /\ NumbersWithin /\ NumbersHeld
        /\ \A u \in Users : people[u].code \in 1 .. MaxCode => staff[u].code = people[u].code
    BY NumbersKept DEF SequenceInv
  <1>2. seq \in 0 .. MaxCode
    BY DEF TypeInv, TypeOK
  <1>3. NumbersWithin'
    <2> SUFFICES ASSUME NEW u \in Users, staff[u].code \in 1 .. MaxCode
                 PROVE  staff[u].code <= seq
      BY <1>1 DEF NumbersWithin
    <2>1. staff[u].code \notin {NoCode} \cup OwnCodes
      BY DirectoryAssumption DEF NoCode
    <2> QED
      BY <1>1, <2>1 DEF NumbersWithin
  <1>4. NumbersHeld'
    <2> SUFFICES ASSUME NEW n \in 1 .. seq
                 PROVE  \E u \in Users : staff[u].code = n
      BY <1>1 DEF NumbersHeld
    <2>1. PICK u \in Users : people[u].code = n
      BY <1>1 DEF NumbersHeld
    <2> QED
      BY <1>1, <1>2, <2>1, DirectoryAssumption
  <1> QED
    BY <1>3, <1>4

(* The number a row takes is the sequence's next: one handed out before is *)
(* held, and the constraint or the history tells.                          *)
LEMMA NumberIsNext ==
    ASSUME TypeInv, SequenceInv, NEW w \in Workers, NEW u \in Users, NEW row \in Person,
           Registered(w, u, row), ~reused', op[w].number # NoCode
    PROVE  op[w].number = seq + 1
  <1> DEFINE n    == op[w].number
             staff == [people EXCEPT ![u] = row]
  <1>1. /\ Commit(w, staff, {u}) /\ n <= MaxCode /\ row.code = n
        /\ op[w].kind \in {"insert", "restore"}
        /\ op[w].kind = "insert" => people[u].code = NoCode
        /\ op[w].kind = "restore" => u = op[w].user
    BY DEF Registered
  <1>2. seq \in 0 .. MaxCode /\ n \in 0 .. MaxCode + 1 /\ people \in [Users -> Person]
    BY <1>1 DEF TypeInv, TypeOK, CallsSound, Sound, RowKinds
  <1>3. /\ ~reused /\ ~GivenAgain(w) /\ Unique(staff)
        /\ \A v \in Users : people[v].code \in 1 .. MaxCode => staff[v].code = people[v].code
    BY <1>1, NumbersKept
  <1>4. n <= seq + 1 /\ NumbersHeld
    BY <1>1, <1>3 DEF SequenceInv, InStep, RowKinds
  <1>5. ASSUME n <= seq PROVE FALSE
    <2>1. n \in 1 .. seq
      BY <1>2, <1>5 DEF NoCode
    <2>2. PICK v \in Users : people[v].code = n
      BY <1>4, <2>1 DEF NumbersHeld
    <2>3. staff[v].code = n /\ staff[u].code = n
      BY <1>1, <1>2, <1>3, <2>1, <2>2, DirectoryAssumption
    <2>4. v = u
      BY <1>3, <2>3 DEF Unique
    <2>5. people[u].code = n /\ op[w].kind = "restore" /\ u = op[w].user
      BY <1>1, <2>2, <2>4
    <2> QED
      BY <1>3, <2>5 DEF GivenAgain
  <1> QED
    BY <1>2, <1>4, <1>5

LEMMA SequenceAdvances ==
    ASSUME TypeInv, SequenceInv, NEW w \in Workers, NEW u \in Users, NEW row \in Person,
           Registered(w, u, row), ~reused'
    PROVE  NumbersWithin' /\ NumbersHeld' /\ seq <= seq' /\ seq' \in Nat
  <1> DEFINE staff == [people EXCEPT ![u] = row]
  <1>1. /\ Commit(w, staff, {u}) /\ seq' = Sequence(w)
        /\ op[w].number <= MaxCode
        /\ IF op[w].number = NoCode THEN row.code \in {people[u].code, NoCode} \cup OwnCodes
                                    ELSE row.code = op[w].number
    BY DEF Registered
  <1>2. seq \in 0 .. MaxCode /\ people \in [Users -> Person] /\ staff \in [Users -> Person]
    BY DEF TypeInv, TypeOK
  <1>3. CASE op[w].number = NoCode
    <2>1. seq' = seq
      BY <1>1, <1>3 DEF Sequence
    <2>2. \A v \in Users : staff[v].code \in {people[v].code, NoCode} \cup OwnCodes
      BY <1>1, <1>2, <1>3
    <2> HIDE DEF staff
    <2> QED
      BY <1>1, <1>2, <2>1, <2>2, SequenceStays
  <1>4. CASE op[w].number # NoCode
    <2>1. /\ seq' = seq + 1 /\ row.code = seq + 1
          /\ \A v \in Users : staff[v].code = IF v = u THEN seq + 1 ELSE people[v].code
      BY <1>1, <1>2, <1>4, NumberIsNext DEF Sequence
    <2>2. /\ people' = staff /\ NumbersWithin /\ NumbersHeld
          /\ \A v \in Users : people[v].code \in 1 .. MaxCode => staff[v].code = people[v].code
      BY <1>1, NumbersKept DEF SequenceInv
    <2>3. NumbersWithin'
      <3> SUFFICES ASSUME NEW v \in Users, staff[v].code \in 1 .. MaxCode
                   PROVE  staff[v].code <= seq + 1
        BY <2>1, <2>2 DEF NumbersWithin
      <3> QED
        BY <1>2, <2>1, <2>2 DEF NumbersWithin
    <2>4. NumbersHeld'
      <3> SUFFICES ASSUME NEW n \in 1 .. seq + 1
                   PROVE  \E v \in Users : staff[v].code = n
        BY <2>1, <2>2 DEF NumbersHeld
      <3>1. CASE n = seq + 1
        BY <2>1, <3>1
      <3>2. CASE n \in 1 .. seq
        <4>1. PICK v \in Users : people[v].code = n
          BY <2>2, <3>2 DEF NumbersHeld
        <4> QED
          BY <1>2, <2>2, <3>2, <4>1, DirectoryAssumption
      <3> QED
        BY <1>2, <3>1, <3>2
    <2> QED
      BY <1>2, <2>1, <2>3, <2>4
  <1> QED
    BY <1>3, <1>4

LEMMA SequenceInit == Init => SequenceInv
  <1> SUFFICES ASSUME Init PROVE SequenceInv
    OBVIOUS
  <1>1. seq = 1 /\ \A w \in Workers : op[w] = Idle
    BY DEF Init
  <1>2. \A u \in Users : people[u].code = IF u = 1 THEN 1 ELSE NoCode
    BY DEF Init, Unborn
  <1>3. NumbersWithin
    BY <1>1, <1>2, DirectoryAssumption DEF NumbersWithin, NoCode
  <1>4. NumbersHeld
    BY <1>1, <1>2, DirectoryAssumption DEF NumbersHeld, Users
  <1>5. \A w \in Workers : InStep(op[w], seq)
    BY <1>1 DEF InStep, Idle, RowKinds
  <1> QED
    BY <1>3, <1>4, <1>5 DEF SequenceInv

LEMMA SequenceNext ==
    ASSUME TypeInv, SequenceInv, [Next]_vars
    PROVE  SequenceInv'
  <1> SUFFICES ASSUME ~reused' PROVE SequenceInv'
    BY DEF SequenceInv
  <1>0. seq \in 0 .. MaxCode /\ people \in [Users -> Person] /\ seq \in Nat
    BY DEF TypeInv, TypeOK
  <1>1. CASE Next
    <2> PICK w \in Workers : Steps(w)
      BY <1>1, StepCases
    <2>1. ASSUME NEW c, op' = [op EXCEPT ![w] = c], InStep(c, seq), ~reused,
                 UNCHANGED <<seq, people>>
          PROVE  SequenceInv'
      <3>1. /\ NumbersWithin /\ NumbersHeld /\ \A v \in Workers : InStep(op[v], seq)
        BY <2>1 DEF SequenceInv
      <3>2. \A v \in Workers : InStep(op'[v], seq')
        BY <1>0, <2>1, <3>1, CallsInStep
      <3>3. NumbersWithin' /\ NumbersHeld'
        BY <2>1, <3>1 DEF NumbersWithin, NumbersHeld
      <3> QED
        BY <3>2, <3>3 DEF SequenceInv
    <2>2. ASSUME NEW n \in 1 .. MaxRows, RegisterCheck(w, n)
          PROVE  SequenceInv'
      <3> DEFINE c == [kind |-> "rows", left |-> n, loaded |-> TRUE, seq |-> seq, doc |-> doc]
      <3>1. op' = [op EXCEPT ![w] = c] /\ UNCHANGED <<seq, people, reused>>
        BY <2>2 DEF RegisterCheck, Begin
      <3>2. InStep(c, seq)
        BY <1>0 DEF InStep, RowKinds
      <3> QED
        BY <2>1, <3>1, <3>2
    <2>3. ASSUME NEW c, LookingUp(w, c)
          PROVE  SequenceInv'
      <3>1. /\ op' = [op EXCEPT ![w] = c] /\ UNCHANGED <<seq, people, reused>>
            /\ Serving(w, "rows") /\ c.kind \in RowKinds /\ c.number <= Company(w).seq + 1
            /\ c.number \in 0 .. MaxCode + 1
        BY <2>3 DEF LookingUp, Sound
      <3>2. InStep(op[w], seq)
        BY <3>1 DEF SequenceInv
      <3>3. Company(w).seq <= seq /\ Company(w).seq \in 0 .. MaxCode
        BY <1>0, <3>1, <3>2, CompanyType DEF Company, InStep, Serving
      <3>4. InStep(c, seq)
        BY <1>0, <3>1, <3>3, DirectoryAssumption DEF InStep, RowKinds
      <3> QED
        BY <2>1, <3>1, <3>4
    <2>4. ASSUME NEW c, Starting(w, c)
          PROVE  SequenceInv'
      <3>1. /\ op' = [op EXCEPT ![w] = c] /\ UNCHANGED <<seq, people, reused>>
            /\ InStep(c, seq)
        BY <2>4 DEF Starting, InStep, RowKinds
      <3> QED
        BY <2>1, <3>1
    <2>5. ASSUME NEW u \in Users, NEW row \in Person, Registered(w, u, row)
          PROVE  SequenceInv'
      <3>1. /\ op' = [op EXCEPT ![w] = Rest(w)] /\ op[w].kind \in Registering
            /\ Commit(w, [people EXCEPT ![u] = row], {u})
        BY <2>5 DEF Registered, Registering, RowKinds
      <3>2. ~reused
        BY <3>1, NumbersKept
      <3>3. NumbersWithin' /\ NumbersHeld' /\ seq <= seq' /\ seq' \in Nat
        BY <2>5, SequenceAdvances
      <3>4. InStep(Rest(w), seq')
        BY <3>1, RestType
      <3>5. \A v \in Workers : InStep(op'[v], seq')
        BY <3>1, <3>2, <3>3, <3>4, CallsInStep DEF SequenceInv
      <3> QED
        BY <3>3, <3>5 DEF SequenceInv
    <2>6. CASE RowFails(w)
      <3>1. /\ op[w].kind \in Registering /\ op' = [op EXCEPT ![w] = Rest(w)]
            /\ UNCHANGED <<seq, people, reused>>
        BY <2>6 DEF RowFails, NextRow, Rest, Registering, RowKinds
      <3>2. InStep(Rest(w), seq)
        BY <3>1, RestType
      <3> QED
        BY <2>1, <3>1, <3>2
    <2>7. ASSUME NEW staff \in [Users -> Person], Commit(w, staff, {}), seq' = seq,
                 \A u \in Users : staff[u].code \in {people[u].code, NoCode} \cup OwnCodes,
                 NEW c, op' = [op EXCEPT ![w] = c], ~reused => InStep(c, seq)
          PROVE  SequenceInv'
      <3>1. ~reused
        BY <2>7, NumbersKept
      <3>2. NumbersWithin' /\ NumbersHeld'
        BY <2>7, SequenceStays
      <3>3. \A v \in Workers : InStep(op'[v], seq')
        BY <1>0, <2>7, <3>1, CallsInStep DEF SequenceInv
      <3> QED
        BY <3>2, <3>3 DEF SequenceInv
    <2>8. ASSUME NEW u \in Users, NEW row \in Person, Changed(w, u, row),
                 \/ op[w].kind = "reimport" /\ op' = [op EXCEPT ![w] = Rest(w)]
                 \/ op[w].kind \in {"update", "set_status"} /\ op' = [op EXCEPT ![w] = Idle]
                 \/ UNCHANGED op
          PROVE  SequenceInv'
      <3> DEFINE staff == [people EXCEPT ![u] = row]
      <3>1. /\ Commit(w, staff, {}) /\ seq' = seq /\ staff \in [Users -> Person]
            /\ \A v \in Users : staff[v].code \in {people[v].code, NoCode} \cup OwnCodes
        BY <1>0, <2>8 DEF Changed
      <3> HIDE DEF staff
      <3>2. CASE op[w].kind = "reimport" /\ op' = [op EXCEPT ![w] = Rest(w)]
        <4>1. InStep(Rest(w), seq)
          BY <3>2, RestType DEF Registering, RowKinds
        <4> QED
          BY <2>7, <3>1, <3>2, <4>1
      <3>3. CASE op' = [op EXCEPT ![w] = Idle]
        <4>1. InStep(Idle, seq)
          BY DEF InStep, Idle, RowKinds
        <4> QED
          BY <2>7, <3>1, <3>3, <4>1
      <3>4. CASE UNCHANGED op
        <4>1. op' = [op EXCEPT ![w] = op[w]] /\ (~reused => InStep(op[w], seq))
          BY <3>4 DEF TypeInv, CallsSound, SequenceInv
        <4> QED
          BY <2>7, <3>1, <4>1
      <3> QED
        BY <2>8, <3>2, <3>3, <3>4
    <2>9. CASE WriteCommit(w) \/ Abort(w)
      <3>1. /\ op' = [op EXCEPT ![w] = Idle] /\ UNCHANGED <<seq, people, reused>>
        BY <2>9 DEF WriteCommit, Abort, Finish
      <3>2. InStep(Idle, seq)
        BY DEF InStep, Idle, RowKinds
      <3> QED
        BY <2>1, <3>1, <3>2
    <2>10. CASE ClearCommit(w)
      <3>1. /\ op' = [op EXCEPT ![w] = Idle] /\ seq' = seq
            /\ Commit(w, ClearedRows(w), {}) /\ ClearedRows(w) \in [Users -> Person]
            /\ \A u \in Users : ClearedRows(w)[u].code = people[u].code
        BY <2>10, Clears
      <3>2. InStep(Idle, seq)
        BY DEF InStep, Idle, RowKinds
      <3> QED
        BY <2>7, <3>1, <3>2
    <2> QED
      BY <2>2, <2>3, <2>4, <2>5, <2>6, <2>8, <2>9, <2>10 DEF Steps
  <1>2. CASE UNCHANGED vars
    BY <1>2 DEF vars, SequenceInv, NumbersWithin, NumbersHeld
  <1> QED
    BY <1>1, <1>2

(* Whatever calls overlap, no employee holds a number the sequence has yet *)
(* to hand out, unless an employee gave a number up or one was given twice *)
(* (allocate_employee_code, register_employee, import_employees).          *)
THEOREM SequenceIsNeverBehind == Spec => []SequenceNeverBehind
  <1>1. TypeInv /\ SequenceInv /\ [Next]_vars => SequenceInv'
    BY SequenceNext
  <1>2. SequenceInv => SequenceNeverBehind
    BY DEF SequenceInv, NumbersWithin, SequenceNeverBehind
  <1> QED
    BY SequenceInit, TypeAlways, <1>1, <1>2, PTL DEF Spec

-----------------------------------------------------------------------------
(* References *)

LEMMA CallsAbide ==
    ASSUME TypeInv, \A v \in Workers : Abides(op[v]),
           NEW w \in Workers, NEW c, Abides(c), op' = [op EXCEPT ![w] = c]
    PROVE  \A v \in Workers : Abides(op'[v])
  <1> SUFFICES ASSUME NEW v \in Workers PROVE Abides(op'[v])
    OBVIOUS
  <1>1. op'[v] = IF v = w THEN c ELSE op[v]
    BY DEF TypeInv, CallsSound
  <1> QED
    BY <1>1

LEMMA AbidesIdle == Abides(Idle)
  BY DEF Abides, Idle, RowKinds

(* A step of one call that changes neither rows nor the document           *)
LEMMA CallReferences ==
    ASSUME TypeInv, ReferencesInv, NEW w \in Workers, NEW c, op' = [op EXCEPT ![w] = c],
           UNCHANGED <<doc, people, raced>>, AllListed => Abides(c)
    PROVE  ReferencesInv'
  <1> SUFFICES ASSUME ~raced PROVE ReferencesInv'
    BY DEF ReferencesInv
  <1>1. AllListed /\ \A v \in Workers : Abides(op[v])
    BY DEF ReferencesInv
  <1>2. \A v \in Workers : Abides(op'[v])
    BY <1>1, CallsAbide
  <1>3. AllListed'
    BY <1>1 DEF AllListed
  <1> QED
    BY <1>2, <1>3 DEF ReferencesInv

(* A commit of one row, when what the call writes is listed                *)
LEMMA RowReferences ==
    ASSUME TypeInv, ReferencesInv, NEW w \in Workers, NEW u \in Users, NEW row \in Person,
           NEW restored, Commit(w, [people EXCEPT ![u] = row], restored), doc' = doc,
           \/ row.work = people[u].work
           \/ /\ op[w].kind \in {"update", "set_status"} \cup RowKinds
              /\ "work" \in DOMAIN op[w].changes /\ row.work = op[w].changes["work"],
           NEW c, Abides(c), op' = [op EXCEPT ![w] = c] \/ UNCHANGED op
    PROVE  ReferencesInv'
  <1> SUFFICES ASSUME ~raced' PROVE ReferencesInv'
    BY DEF ReferencesInv
  <1>1. ~raced /\ ~Stale(w) /\ people' = [people EXCEPT ![u] = row]
    BY DEF Commit, TypeInv, TypeOK
  <1>2. AllListed /\ \A v \in Workers : Abides(op[v])
    BY <1>1 DEF ReferencesInv
  <1>3. \A v \in Workers : Abides(op'[v])
    BY <1>2, CallsAbide
  <1>4. Listed(doc, row.work)
    <2>1. CASE row.work = people[u].work
      BY <1>2, <2>1 DEF AllListed
    <2>2. CASE /\ op[w].kind \in {"update", "set_status"} \cup RowKinds
               /\ "work" \in DOMAIN op[w].changes /\ row.work = op[w].changes["work"]
      <3>1. op[w] # Idle
        BY <2>2 DEF Idle, RowKinds
      <3>2. op[w].doc = doc
        BY <1>1, <3>1 DEF Stale
      <3> QED
        BY <1>2, <2>2, <3>2 DEF Abides
    <2> QED
      BY <2>1, <2>2
  <1>5. AllListed'
    <2>1. \A v \in Users : people'[v] = IF v = u THEN row ELSE people[v]
      BY <1>1 DEF TypeInv, TypeOK
    <2> QED
      BY <1>2, <1>4, <2>1 DEF AllListed
  <1> QED
    BY <1>3, <1>5 DEF ReferencesInv

LEMMA WriteReferences ==
    ASSUME TypeInv, ReferencesInv, NEW w \in Workers, WriteCommit(w)
    PROVE  ReferencesInv'
  <1> SUFFICES ASSUME ~raced' PROVE ReferencesInv'
    BY DEF ReferencesInv
  <1>0. op[w].kind = "write" /\ op[w] # Idle
    BY DEF WriteCommit, Serving, Idle
  <1>1. /\ ~raced /\ ~Stale(w)
        /\ doc' = op[w].site /\ people' = people
        /\ op' = [op EXCEPT ![w] = Idle]
    BY DEF WriteCommit, Finish, TypeInv, TypeOK
  <1>2. AllListed /\ \A v \in Workers : Abides(op[v])
    BY <1>1 DEF ReferencesInv
  <1>3. /\ op[w].doc = doc
        /\ doc.branches \subseteq doc'.branches /\ doc.projects \subseteq doc'.projects
    BY <1>0, <1>1, <1>2 DEF Stale, Abides
  <1>4. AllListed'
    <2> SUFFICES ASSUME NEW u \in Users PROVE Listed(doc', people[u].work)
      BY <1>1 DEF AllListed
    <2>1. Listed(doc, people[u].work) /\ people[u].work \in Workplace
      BY <1>2 DEF AllListed, TypeInv, TypeOK, Person
    <2>2. Listed(doc', people[u].work) <=>
             /\ people[u].work.branches \subseteq doc'.branches
             /\ people[u].work.projects \subseteq doc'.projects
      BY <2>1, ListedIn
    <2> QED
      BY <1>3, <2>1, <2>2, ListedIn
  <1>5. \A v \in Workers : Abides(op'[v])
    BY <1>1, <1>2, AbidesIdle, CallsAbide
  <1> QED
    BY <1>4, <1>5 DEF ReferencesInv

LEMMA ClearReferences ==
    ASSUME TypeInv, ReferencesInv, NEW w \in Workers, ClearCommit(w)
    PROVE  ReferencesInv'
  <1> SUFFICES ASSUME ~raced' PROVE ReferencesInv'
    BY DEF ReferencesInv
  <1> DEFINE staff == ClearedRows(w)
  <1>1. /\ op[w].kind = "clear" /\ op' = [op EXCEPT ![w] = Idle]
        /\ doc' = op[w].site
        /\ Commit(w, staff, {})
        /\ \A u \in Users : staff[u].work = IF u \in DOMAIN op[w].cleared
                                           THEN op[w].cleared[u] ELSE people[u].work
    BY Clears
  <1> HIDE DEF staff
  <1>0. op[w] # Idle
    BY <1>1 DEF Idle
  <1>2. ~raced /\ ~Stale(w) /\ people' = staff
    BY <1>1 DEF Commit, TypeInv, TypeOK
  <1>3. AllListed /\ \A v \in Workers : Abides(op[v])
    BY <1>2 DEF ReferencesInv
  <1>4. AllListed'
    <2> SUFFICES ASSUME NEW u \in Users PROVE Listed(doc', staff[u].work)
      BY <1>2 DEF AllListed
    <2>1. CASE u \in DOMAIN op[w].cleared
      BY <1>1, <1>3, <2>1 DEF Abides
    <2>2. CASE u \notin DOMAIN op[w].cleared
      <3>1. Resolved(op[w].site, people[u].work) = Resolved(doc, people[u].work)
        BY <1>0, <1>1, <1>2, <2>2 DEF Stale, Serving
      <3> QED
        BY <1>1, <1>3, <2>2, <3>1 DEF AllListed, Listed
    <2> QED
      BY <2>1, <2>2
  <1>5. \A v \in Workers : Abides(op'[v])
    BY <1>1, <1>3, AbidesIdle, CallsAbide
  <1> QED
    BY <1>4, <1>5 DEF ReferencesInv

LEMMA ReferencesInit == Init => ReferencesInv
  <1> SUFFICES ASSUME Init PROVE ReferencesInv
    OBVIOUS
  <1>1. \A u \in Users : people[u].work = Empty
    BY DEF Init, Unborn, Nowhere
  <1>2. Listed(Empty, Empty) /\ doc = Empty
    BY DEF Listed, Resolved, Empty, Init
  <1>3. \A w \in Workers : op[w] = Idle
    BY DEF Init
  <1> QED
    BY <1>1, <1>2, <1>3, AbidesIdle DEF ReferencesInv, AllListed

LEMMA ReferencesNext ==
    ASSUME TypeInv, ReferencesInv, [Next]_vars
    PROVE  ReferencesInv'
  <1>1. CASE Next
    <2> PICK w \in Workers : Steps(w)
      BY <1>1, StepCases
    <2>1. ASSUME NEW n \in 1 .. MaxRows, RegisterCheck(w, n)
          PROVE  ReferencesInv'
      <3> DEFINE c == [kind |-> "rows", left |-> n, loaded |-> TRUE, seq |-> seq, doc |-> doc]
      <3>1. op' = [op EXCEPT ![w] = c] /\ UNCHANGED <<doc, people, raced>>
        BY <2>1 DEF RegisterCheck, Begin
      <3>2. Abides(c)
        BY DEF Abides, RowKinds
      <3> HIDE DEF c
      <3> QED
        BY <3>1, <3>2, CallReferences
    <2>2. ASSUME NEW c, LookingUp(w, c) \/ Starting(w, c)
          PROVE  ReferencesInv'
      <3>1. /\ op' = [op EXCEPT ![w] = c] /\ UNCHANGED <<doc, people, raced>>
            /\ AllListed => Abides(c)
        BY <2>2 DEF LookingUp, Starting
      <3> QED
        BY <3>1, CallReferences
    <2>3. ASSUME NEW u \in Users, NEW row \in Person, Registered(w, u, row)
          PROVE  ReferencesInv'
      <3>1. /\ Commit(w, [people EXCEPT ![u] = row], {u}) /\ doc' = doc
            /\ op' = [op EXCEPT ![w] = Rest(w)] /\ op[w].kind \in RowKinds
            /\ op[w].kind \in Registering
            /\ \/ row.work = people[u].work
               \/ /\ op[w].kind \in {"update", "set_status"} \cup RowKinds
                  /\ "work" \in DOMAIN op[w].changes /\ row.work = op[w].changes["work"]
        BY <2>3 DEF Registered, Registering, RowKinds
      <3>2. Abides(Rest(w))
        BY <3>1, RestType
      <3> QED
        BY <3>1, <3>2, RowReferences
    <2>4. CASE RowFails(w)
      <3>1. /\ op[w].kind \in Registering /\ op' = [op EXCEPT ![w] = Rest(w)]
            /\ UNCHANGED <<doc, people, raced>>
        BY <2>4 DEF RowFails, NextRow, Rest, Registering, RowKinds
      <3> QED
        BY <3>1, RestType, CallReferences
    <2>5. ASSUME NEW u \in Users, NEW row \in Person, Changed(w, u, row),
                 \/ op[w].kind = "reimport" /\ op' = [op EXCEPT ![w] = Rest(w)]
                 \/ op[w].kind \in {"update", "set_status"} /\ op' = [op EXCEPT ![w] = Idle]
                 \/ UNCHANGED op
          PROVE  ReferencesInv'
      <3>1. /\ Commit(w, [people EXCEPT ![u] = row], {}) /\ doc' = doc
            /\ \/ row.work = people[u].work
               \/ /\ op[w].kind \in {"update", "set_status"} \cup RowKinds
                  /\ "work" \in DOMAIN op[w].changes /\ row.work = op[w].changes["work"]
        BY <2>5 DEF Changed, RowKinds
      <3>2. CASE op[w].kind = "reimport" /\ op' = [op EXCEPT ![w] = Rest(w)]
        <4>1. Abides(Rest(w))
          BY <3>2, RestType DEF Registering, RowKinds
        <4> QED
          BY <3>1, <3>2, <4>1, RowReferences
      <3>3. CASE op' = [op EXCEPT ![w] = Idle] \/ UNCHANGED op
        BY <3>1, <3>3, AbidesIdle, RowReferences
      <3> QED
        BY <2>5, <3>2, <3>3
    <2>6. CASE WriteCommit(w)
      BY <2>6, WriteReferences
    <2>7. CASE ClearCommit(w)
      BY <2>7, ClearReferences
    <2>8. CASE Abort(w)
      <3>1. op' = [op EXCEPT ![w] = Idle] /\ UNCHANGED <<doc, people, raced>>
        BY <2>8 DEF Abort, Finish
      <3> QED
        BY <3>1, AbidesIdle, CallReferences
    <2> QED
      BY <2>1, <2>2, <2>3, <2>4, <2>5, <2>6, <2>7, <2>8 DEF Steps
  <1>2. CASE UNCHANGED vars
    BY <1>2 DEF vars, ReferencesInv, AllListed
  <1> QED
    BY <1>1, <1>2

(* Unless some commit went by a document or rows that had changed since it *)
(* read them, employees name branches and projects the company lists       *)
(* (upsert_branch, delete_branch, upsert_project, delete_project,          *)
(* get_branch, resolve_projects).                                          *)
THEOREM ReferencesAlwaysExist == Spec => []ReferencesExist
  <1>1. TypeInv /\ ReferencesInv /\ [Next]_vars => ReferencesInv'
    BY ReferencesNext
  <1>2. ReferencesInv => ReferencesExist
    BY DEF ReferencesInv, AllListed, Listed, ReferencesExist
  <1> QED
    BY ReferencesInit, TypeAlways, <1>1, <1>2, PTL DEF Spec

-----------------------------------------------------------------------------
(* The plan's limit *)

LEMMA CreditsFinite ==
    /\ IsFiniteSet(Users) /\ IsFiniteSet(Workers \X (1 .. MaxRows))
    /\ IsFiniteSet(Live \ revived) /\ IsFiniteSet(Credits)
    /\ Cardinality(Live \ revived) \in Nat /\ Cardinality(Credits) \in Nat
  <1>1. IsFiniteSet(Users) /\ IsFiniteSet(1 .. MaxRows)
    BY FS_Interval, DirectoryAssumption DEF Users
  <1>2. IsFiniteSet(Workers \X (1 .. MaxRows))
    BY <1>1, FS_Product, DirectoryAssumption
  <1>3. Live \ revived \in SUBSET Users /\ Credits \in SUBSET (Workers \X (1 .. MaxRows))
    BY DEF Live, Credits
  <1>4. IsFiniteSet(Live \ revived) /\ IsFiniteSet(Credits)
    BY <1>1, <1>2, <1>3, FS_Subset
  <1> QED
    BY <1>1, <1>2, <1>4, FS_CardinalityType

LEMMA BoundType ==
    /\ (Cardinality(Workers) - 1) * MaxRows \in Nat
    /\ Max({Limit, 1}) \in Nat /\ Limit <= Max({Limit, 1}) /\ 1 <= Max({Limit, 1})
  <1>1. Cardinality(Workers) \in Nat /\ Cardinality(Workers) # 0
    BY FS_CardinalityType, FS_EmptySet, DirectoryAssumption
  <1>2. \A a, b \in Nat : a * b \in Nat
    OBVIOUS
  <1>3. Cardinality(Workers) - 1 \in Nat /\ MaxRows \in Nat
    BY <1>1, DirectoryAssumption
  <1>4. \E m \in {Limit, 1} : Limit <= m /\ 1 <= m
    BY DirectoryAssumption
  <1>5. \E m \in {Limit, 1} : \A n \in {Limit, 1} : n <= m
    BY <1>4, DirectoryAssumption
  <1>6. Max({Limit, 1}) \in {Limit, 1} /\ \A n \in {Limit, 1} : n <= Max({Limit, 1})
    BY <1>5 DEF Max
  <1> QED
    BY <1>2, <1>3, <1>6, DirectoryAssumption

(* What the calls in progress may still add, after a step of one of them   *)
LEMMA CreditsAfter ==
    ASSUME TypeInv, NEW w \in Workers, NEW c, op' = [op EXCEPT ![w] = c]
    PROVE  \A v \in Workers, i \in 1 .. MaxRows :
              <<v, i>> \in Credits' <=>
                 IF v = w THEN c.kind \in Registering /\ i <= c.left
                 ELSE <<v, i>> \in Credits
  <1>1. \A v \in Workers : op'[v] = IF v = w THEN c ELSE op[v]
    BY DEF TypeInv, CallsSound
  <1> QED
    BY <1>1 DEF Credits

(* A step that adds nobody and lets nobody through                         *)
LEMMA LimitKept ==
    ASSUME LimitInv, Live' \ revived' \subseteq Live \ revived, Credits' \subseteq Credits
    PROVE  LimitInv'
  <1>1. /\ Cardinality(Live' \ revived') \in Nat /\ Cardinality(Credits') \in Nat
        /\ Cardinality(Live' \ revived') <= Cardinality(Live \ revived)
        /\ Cardinality(Credits') <= Cardinality(Credits)
    BY CreditsFinite, FS_Subset, FS_CardinalityType
  <1>2. Bound' = Bound
    BY DEF Bound
  <1>3. Bound \in Nat
    BY BoundType DEF Bound
  <1> QED
    BY <1>1, <1>2, <1>3, CreditsFinite DEF LimitInv

(* A step that adds an employee, and uses up what let it do so             *)
LEMMA LimitUsed ==
    ASSUME LimitInv, NEW u, NEW x \in Credits, Live' \ revived' \subseteq (Live \ revived) \cup {u},
           Credits' \subseteq Credits \ {x}
    PROVE  LimitInv'
  <1>1. /\ IsFiniteSet((Live \ revived) \cup {u})
        /\ Cardinality((Live \ revived) \cup {u}) <= Cardinality(Live \ revived) + 1
    <2>1. IsFiniteSet(Live \ revived) /\ Cardinality(Live \ revived) \in Nat
      BY CreditsFinite
    <2>2. /\ IsFiniteSet((Live \ revived) \cup {u})
          /\ Cardinality((Live \ revived) \cup {u}) =
                IF u \in Live \ revived THEN Cardinality(Live \ revived)
                ELSE Cardinality(Live \ revived) + 1
      BY <2>1, FS_AddElement
    <2> QED
      BY <2>1, <2>2
  <1>2. /\ IsFiniteSet(Credits \ {x})
        /\ Cardinality(Credits \ {x}) = Cardinality(Credits) - 1
    BY CreditsFinite, FS_RemoveElement
  <1>3. /\ Cardinality(Live' \ revived') \in Nat /\ Cardinality(Credits') \in Nat
        /\ Cardinality(Live' \ revived') <= Cardinality((Live \ revived) \cup {u})
        /\ Cardinality(Credits') <= Cardinality(Credits \ {x})
    BY <1>1, <1>2, FS_Subset, FS_CardinalityType
  <1>4. Cardinality((Live \ revived) \cup {u}) \in Nat
    BY <1>1, FS_CardinalityType
  <1>5. Bound' = Bound /\ Bound \in Nat
    BY BoundType DEF Bound
  <1> QED
    BY <1>1, <1>2, <1>3, <1>4, <1>5, CreditsFinite DEF LimitInv

(* A check that passes lets n rows through, beside the employees there and *)
(* what every other call may still add.                                    *)
LEMMA LimitChecked ==
    ASSUME TypeInv, LimitInv, NEW w \in Workers, NEW n \in 1 .. MaxRows, RegisterCheck(w, n)
    PROVE  LimitInv'
  <1> DEFINE c      == [kind |-> "rows", left |-> n, loaded |-> TRUE, seq |-> seq, doc |-> doc]
             others == (Workers \ {w}) \X (1 .. MaxRows)
             mine   == {w} \X (1 .. n)
  <1>1. /\ Cardinality(Live) + n <= Limit
        /\ op' = [op EXCEPT ![w] = c] /\ people' = people /\ revived' = revived
    BY DEF RegisterCheck, RoomFor, Begin
  <1>2. IsFiniteSet(Live) /\ Cardinality(Live) \in Nat
    BY CreditsFinite, FS_Subset, FS_CardinalityType DEF Live
  <1>3. Live' = Live /\ Cardinality(Live' \ revived') <= Cardinality(Live)
        /\ Cardinality(Live' \ revived') \in Nat
    <2>1. Live' = Live
      BY <1>1 DEF Live
    <2> QED
      BY <1>2, <2>1, FS_Subset, FS_CardinalityType
  <1>4. IsFiniteSet(1 .. MaxRows) /\ Cardinality(1 .. MaxRows) = MaxRows
    BY FS_Interval, DirectoryAssumption
  <1>5. /\ IsFiniteSet(others)
        /\ Cardinality(others) = (Cardinality(Workers) - 1) * MaxRows
    <2>1. /\ IsFiniteSet(Workers \ {w})
          /\ Cardinality(Workers \ {w}) = Cardinality(Workers) - 1
      BY FS_RemoveElement, DirectoryAssumption
    <2> QED
      BY <1>4, <2>1, FS_Product
  <1>6. IsFiniteSet(mine) /\ Cardinality(mine) = n
    <2>1. IsFiniteSet(1 .. n) /\ Cardinality(1 .. n) = n
      BY FS_Interval
    <2>2. IsFiniteSet({w}) /\ Cardinality({w}) = 1
      BY FS_Singleton
    <2>3. IsFiniteSet(mine) /\ Cardinality(mine) = 1 * n
      BY <2>1, <2>2, FS_Product
    <2> QED
      BY <2>3
  <1>7. Credits' \subseteq others \cup mine
    <2>1. \A v \in Workers, i \in 1 .. MaxRows :
             <<v, i>> \in Credits' <=>
                IF v = w THEN c.kind \in Registering /\ i <= c.left ELSE <<v, i>> \in Credits
      BY <1>1, CreditsAfter
    <2>2. c.left = n
      OBVIOUS
    <2> HIDE DEF c
    <2> SUFFICES ASSUME NEW v \in Workers, NEW i \in 1 .. MaxRows, <<v, i>> \in Credits'
                 PROVE  <<v, i>> \in others \cup mine
      BY DEF Credits
    <2>3. v = w => i <= n
      BY <2>1, <2>2
    <2> QED
      BY <2>3
  <1> HIDE DEF others, mine
  <1>8. IsFiniteSet(others \cup mine)
        /\ Cardinality(others \cup mine) <= Cardinality(others) + n
    <2>1. /\ IsFiniteSet(others \cup mine)
          /\ Cardinality(others \cup mine) =
                Cardinality(others) + Cardinality(mine) - Cardinality(others \cap mine)
      BY <1>5, <1>6, FS_Union
    <2>2. Cardinality(others \cap mine) \in Nat /\ Cardinality(others) \in Nat
      BY <1>5, FS_Intersection, FS_CardinalityType
    <2> QED
      BY <1>6, <2>1, <2>2
  <1>9. Cardinality(Credits') <= Cardinality(others) + n /\ Cardinality(Credits') \in Nat
    <2>1. /\ IsFiniteSet(Credits') /\ Cardinality(Credits') <= Cardinality(others \cup mine)
      BY <1>7, <1>8, FS_Subset
    <2>2. Cardinality(Credits') \in Nat /\ Cardinality(others \cup mine) \in Nat
          /\ Cardinality(others) \in Nat
      BY <1>5, <1>8, <2>1, FS_CardinalityType
    <2> QED
      BY <1>8, <2>1, <2>2
  <1>10. Cardinality(others) \in Nat /\ Cardinality(others) = (Cardinality(Workers) - 1) * MaxRows
    BY <1>5, FS_CardinalityType
  <1>11. Bound' = Max({Limit, 1}) + Cardinality(others)
    BY <1>10 DEF Bound
  <1> QED
    BY <1>1, <1>2, <1>3, <1>9, <1>10, <1>11, BoundType, DirectoryAssumption DEF LimitInv

(* A commit brings back only employees it was to restore.                  *)
LEMMA CommitLive ==
    ASSUME TypeInv, NEW w \in Workers, NEW staff \in [Users -> Person], NEW restored,
           Commit(w, staff, restored),
           \A u \in Users \ restored : staff[u].status = "live" => people[u].status # "absent"
    PROVE  Live' \ revived' \subseteq (Live \ revived) \cup restored
  <1> SUFFICES ASSUME NEW u \in Users, u \notin restored, staff[u].status = "live",
                      u \notin revived'
               PROVE  u \in Live \ revived
    BY DEF Commit, Live
  <1>1. people[u].status \in {"absent", "live", "deleted"}
    BY DEF TypeInv, TypeOK, Person
  <1> QED
    BY <1>1 DEF Commit, Live

(* The end of a row uses up one of them.                                   *)
LEMMA CreditsRest ==
    ASSUME TypeInv, NEW w \in Workers, op[w].kind \in Registering,
           op' = [op EXCEPT ![w] = Rest(w)]
    PROVE  /\ <<w, op[w].left>> \in Credits
           /\ Credits' \subseteq Credits \ {<<w, op[w].left>>}
  <1>1. op[w].left \in 1 .. MaxRows
    BY DEF TypeInv, CallsSound, Sound, Registering
  <1>2. <<w, op[w].left>> \in Credits
    BY <1>1 DEF Credits
  <1>3. \A i \in 1 .. MaxRows : Rest(w).kind \in Registering /\ i <= Rest(w).left =>
           i <= op[w].left - 1
    <2>1. CASE op[w].left = 1
      BY <2>1 DEF Rest, Idle, Registering, RowKinds
    <2>2. CASE op[w].left # 1
      BY <2>2 DEF Rest
    <2> QED
      BY <2>1, <2>2
  <1>4. \A v \in Workers, i \in 1 .. MaxRows :
           <<v, i>> \in Credits' <=>
              IF v = w THEN Rest(w).kind \in Registering /\ i <= Rest(w).left
              ELSE <<v, i>> \in Credits
    BY CreditsAfter
  <1>5. ASSUME NEW v \in Workers, NEW i \in 1 .. MaxRows, <<v, i>> \in Credits'
        PROVE  <<v, i>> \in Credits \ {<<w, op[w].left>>}
    <2>1. CASE v = w
      <3>1. i <= op[w].left - 1
        BY <1>3, <1>4, <1>5, <2>1
      <3> QED
        BY <1>1, <2>1, <3>1 DEF Credits
    <2>2. CASE v # w
      BY <1>4, <1>5, <2>2
    <2> QED
      BY <2>1, <2>2
  <1> QED
    BY <1>2, <1>5 DEF Credits

(* A step of a call that has or keeps no such rows                         *)
LEMMA CreditsKept ==
    ASSUME TypeInv, NEW w \in Workers, NEW c, op' = [op EXCEPT ![w] = c],
           \/ c.kind \notin Registering
           \/ op[w].kind \in Registering /\ c.left = op[w].left
    PROVE  Credits' \subseteq Credits
  <1>1. \A v \in Workers, i \in 1 .. MaxRows :
           <<v, i>> \in Credits' <=>
              IF v = w THEN c.kind \in Registering /\ i <= c.left ELSE <<v, i>> \in Credits
    BY CreditsAfter
  <1> SUFFICES ASSUME NEW v \in Workers, NEW i \in 1 .. MaxRows, <<v, i>> \in Credits'
               PROVE  <<v, i>> \in Credits
    BY DEF Credits
  <1> QED
    BY <1>1 DEF Credits

LEMMA LimitInit == Init => LimitInv
  <1> SUFFICES ASSUME Init PROVE LimitInv
    OBVIOUS
  <1>1. \A u \in Users : u # 1 => people[u].status = "absent"
    BY DEF Init, Unborn
  <1>2. Live \ revived \subseteq {1}
    BY <1>1 DEF Live
  <1>3. Cardinality(Live \ revived) <= 1
    <2>1. IsFiniteSet({1}) /\ Cardinality({1}) = 1
      BY FS_Singleton
    <2> QED
      BY <1>2, <2>1, FS_Subset
  <1>4. \A w \in Workers : op[w] = Idle
    BY DEF Init
  <1>5. Credits = {}
    BY <1>4 DEF Credits, Idle, Registering, RowKinds
  <1>6. Cardinality(Credits) = 0
    BY <1>5, FS_EmptySet
  <1> QED
    BY <1>3, <1>6, BoundType, CreditsFinite DEF LimitInv, Bound

LEMMA LimitNext ==
    ASSUME TypeInv, LimitInv, [Next]_vars
    PROVE  LimitInv'
  <1>0. people \in [Users -> Person]
    BY DEF TypeInv, TypeOK
  <1>1. CASE Next
    <2> PICK w \in Workers : Steps(w)
      BY <1>1, StepCases
    <2>1. ASSUME NEW n \in 1 .. MaxRows, RegisterCheck(w, n)
          PROVE  LimitInv'
      BY <2>1, LimitChecked
    <2>2. ASSUME NEW c, op' = [op EXCEPT ![w] = c], UNCHANGED <<people, revived>>,
                 \/ c.kind \notin Registering
                 \/ op[w].kind \in Registering /\ c.left = op[w].left
          PROVE  LimitInv'
      <3>1. Credits' \subseteq Credits
        BY <2>2, CreditsKept
      <3>2. Live' \ revived' \subseteq Live \ revived
        BY <2>2 DEF Live
      <3> QED
        BY <3>1, <3>2, LimitKept
    <2>3. ASSUME NEW c, LookingUp(w, c)
          PROVE  LimitInv'
      BY <2>2, <2>3 DEF LookingUp, Serving, Registering
    <2>4. ASSUME NEW c, Starting(w, c)
          PROVE  LimitInv'
      <3>1. c.kind \notin Registering
        BY <2>4 DEF Starting, Registering, RowKinds
      <3> QED
        BY <2>2, <2>4, <3>1 DEF Starting
    <2>5. ASSUME NEW u \in Users, NEW row \in Person, Registered(w, u, row)
          PROVE  LimitInv'
      <3> DEFINE staff == [people EXCEPT ![u] = row]
      <3>1. /\ op' = [op EXCEPT ![w] = Rest(w)] /\ op[w].kind \in Registering
            /\ Commit(w, staff, {u}) /\ staff \in [Users -> Person]
            /\ \A v \in Users \ {u} : staff[v] = people[v]
        BY <1>0, <2>5 DEF Registered, Registering, RowKinds
      <3>2. \A v \in Users \ {u} : staff[v].status = "live" => people[v].status # "absent"
        BY <3>1
      <3> HIDE DEF staff
      <3>3. Live' \ revived' \subseteq (Live \ revived) \cup {u}
        BY <3>1, <3>2, CommitLive
      <3>4. /\ <<w, op[w].left>> \in Credits
            /\ Credits' \subseteq Credits \ {<<w, op[w].left>>}
        BY <3>1, CreditsRest
      <3> QED
        BY <3>3, <3>4, LimitUsed
    <2>6. CASE RowFails(w)
      <3>1. /\ op[w].kind \in Registering /\ op' = [op EXCEPT ![w] = Rest(w)]
            /\ UNCHANGED <<people, revived>>
        BY <2>6 DEF RowFails, NextRow, Rest, Registering, RowKinds
      <3>2. Credits' \subseteq Credits
        BY <3>1, CreditsRest
      <3>3. Live' \ revived' \subseteq Live \ revived
        BY <3>1 DEF Live
      <3> QED
        BY <3>2, <3>3, LimitKept
    <2>7. ASSUME NEW u \in Users, NEW row \in Person, Changed(w, u, row),
                 \/ op[w].kind = "reimport" /\ op' = [op EXCEPT ![w] = Rest(w)]
                 \/ op[w].kind \in {"update", "set_status"} /\ op' = [op EXCEPT ![w] = Idle]
                 \/ UNCHANGED op
          PROVE  LimitInv'
      <3> DEFINE staff == [people EXCEPT ![u] = row]
      <3>1. /\ Commit(w, staff, {}) /\ staff \in [Users -> Person]
            /\ \A v \in Users : staff[v].status = "live" => people[v].status # "absent"
        BY <1>0, <2>7 DEF Changed
      <3> HIDE DEF staff
      <3>2. Live' \ revived' \subseteq Live \ revived
        BY <3>1, CommitLive
      <3>3. Credits' \subseteq Credits
        <4>1. CASE op[w].kind = "reimport" /\ op' = [op EXCEPT ![w] = Rest(w)]
          BY <4>1, CreditsRest DEF Registering, RowKinds
        <4>2. CASE op' = [op EXCEPT ![w] = Idle]
          <5>1. Idle.kind \notin Registering
            BY DEF Idle, Registering, RowKinds
          <5> QED
            BY <4>2, <5>1, CreditsKept
        <4>3. CASE UNCHANGED op
          BY <4>3 DEF Credits
        <4> QED
          BY <2>7, <4>1, <4>2, <4>3
      <3> QED
        BY <3>2, <3>3, LimitKept
    <2>8. CASE WriteCommit(w) \/ Abort(w)
      <3>1. op' = [op EXCEPT ![w] = Idle] /\ UNCHANGED <<people, revived>>
        BY <2>8 DEF WriteCommit, Abort, Finish
      <3>2. Idle.kind \notin Registering
        BY DEF Idle, Registering, RowKinds
      <3> QED
        BY <2>2, <3>1, <3>2
    <2>9. CASE ClearCommit(w)
      <3>1. /\ op' = [op EXCEPT ![w] = Idle]
            /\ Commit(w, ClearedRows(w), {}) /\ ClearedRows(w) \in [Users -> Person]
            /\ \A u \in Users : ClearedRows(w)[u].status = people[u].status
        BY <2>9, Clears
      <3>2. Live' \ revived' \subseteq Live \ revived
        BY <3>1, CommitLive
      <3>3. Idle.kind \notin Registering
        BY DEF Idle, Registering, RowKinds
      <3>4. Credits' \subseteq Credits
        BY <3>1, <3>3, CreditsKept
      <3> QED
        BY <3>2, <3>4, LimitKept
    <2> QED
      BY <2>1, <2>3, <2>4, <2>5, <2>6, <2>7, <2>8, <2>9 DEF Steps
  <1>2. CASE UNCHANGED vars
    <2>1. Live' \ revived' = Live \ revived /\ Credits' = Credits /\ Bound' = Bound
      BY <1>2 DEF vars, Live, Credits, Bound
    <2> QED
      BY <2>1 DEF LimitInv
  <1> QED
    BY <1>1, <1>2

(* However many registrations overlap, the plan's limit is exceeded by no  *)
(* more than the rows the other calls were let through with                *)
(* (create_employee, create_bulk, import_employees,                        *)
(* assert_limit_available).                                                *)
THEOREM OvershootIsBounded == Spec => []LimitOvershootBounded
  <1>1. TypeInv /\ LimitInv /\ [Next]_vars => LimitInv'
    BY LimitNext
  <1>2. LimitInv => LimitOvershootBounded
    BY CreditsFinite, BoundType DEF LimitInv, Bound, LimitOvershootBounded
  <1> QED
    BY LimitInit, TypeAlways, <1>1, <1>2, PTL DEF Spec

-----------------------------------------------------------------------------
(* Shift templates and assignments, for any number of templates,           *)
(* assignments, employees, names and requests: every repeated code and     *)
(* every double assignment has one of the reasons named.                   *)

(* Codes *)

CodeOf(prefix, n) == [prefix |-> prefix, number |-> n]

LEMMA RadixSquare == Radix * Radix \in Nat /\ Radix \in 1 .. Radix * Radix - 1
  <1>1. Radix \in Nat /\ 2 <= Radix
    BY SchedulingAssumption
  <1>2. Radix * Radix \in Nat /\ 2 * Radix <= Radix * Radix
    BY <1>1
  <1> QED BY <1>1, <1>2

LEMMA CodeIsSomething ==
  ASSUME NEW name \in DOMAIN Prefix, NEW n \in Nat
  PROVE  CodeOf(Prefix[name], n) # Nothing
  <1>1. CodeOf(Prefix[name], n) \in Numbered(Nat)
    BY DEF CodeOf, Numbered
  <1> QED BY <1>1, SchedulingAssumption

LEMMA CodeType ==
  ASSUME NEW name \in DOMAIN Prefix, NEW n \in 1 .. Radix * Radix - 1
  PROVE  CodeOf(Prefix[name], n) \in TemplateCodes /\ CodeOf(Prefix[name], n) # Nothing
  <1>1. CodeOf(Prefix[name], n) \in TemplateCodes
    BY DEF CodeOf, TemplateCodes, Numbered
  <1> QED BY <1>1, CodeIsSomething, RadixSquare

LEMMA TemplateType ==
  ASSUME NEW row \in Template
  PROVE  /\ row.code \in TemplateCodes \union {Nothing}
         /\ row # NoShift => /\ row.code \in TemplateCodes
                             /\ row.status \in {"active", "inactive"}
                             /\ row.name \in Names /\ row.time \in Times
         /\ row = NoShift <=> row.status = "absent"
  BY DEF Template, NoShift

(* The first free number, which has two digits or is cut to two            *)
LEMMA CounterFree ==
  ASSUME shifts \in [Shifts -> Template], NEW s \in Shifts, NEW name \in DOMAIN Prefix
  PROVE  LET n == Counter(s, Prefix[name]) IN
         /\ n \in 1 .. Radix * Radix
         /\ CodeOf(Prefix[name], n) \notin Taken(s)
         /\ Cropped(n) \in 1 .. Radix * Radix - 1
         /\ n # Radix * Radix => Cropped(n) = n
  <1> DEFINE free == {n \in 1 .. Radix * Radix : CodeOf(Prefix[name], n) \notin Taken(s)}
             n == Counter(s, Prefix[name])
  <1>1. Radix * Radix \in free
    <2>1. \A c \in TemplateCodes : c.number # Radix * Radix
      BY RadixSquare DEF TemplateCodes, Numbered
    <2>2. CodeOf(Prefix[name], Radix * Radix) \notin TemplateCodes
      BY <2>1 DEF CodeOf
    <2>3. CASE CodeOf(Prefix[name], Radix * Radix) \in Taken(s)
      <3>1. PICK t \in Shifts : CodeOf(Prefix[name], Radix * Radix) = shifts[t].code
        BY <2>3 DEF Taken
      <3>2. CodeOf(Prefix[name], Radix * Radix) = Nothing
        BY <2>2, <3>1, TemplateType
      <3> QED BY <3>2, RadixSquare, CodeIsSomething
    <2> QED BY <2>3, RadixSquare
  <1>2. n = Min(free)
    BY DEF Counter, CodeOf
  <1>3. free \in SUBSET Nat
    BY RadixSquare
  <1>4. n \in free
    BY <1>1, <1>2, <1>3, Least
  <1>5. n \in 1 .. Radix * Radix /\ CodeOf(Prefix[name], n) \notin Taken(s)
    BY <1>4
  <1> HIDE DEF n
  <1>6. Cropped(n) \in 1 .. Radix * Radix - 1 /\ (n # Radix * Radix => Cropped(n) = n)
    BY <1>5, RadixSquare DEF Cropped
  <1> QED BY <1>5, <1>6 DEF n
-----------------------------------------------------------------------------
(* Type correctness.  A commit writes the columns that its request         *)
(* changed; the result is a row only because a row that was read is still  *)
(* there: ReadStands.                                                      *)

ReadStands ==
    \A w \in Threads :
        /\ call[w].stage = "shift" /\ call[w].read # NoShift => shifts[call[w].of] # NoShift
        /\ call[w].stage = "assign" /\ call[w].read # NoRow => rows[call[w].of] # NoRow

SchedulingTypeInv == SchedulingTypeOK /\ ReadStands

LEMMA RowType ==
  ASSUME NEW row \in Row
  PROVE  /\ row # NoRow => row.status \in {"standing", "cancelled"} /\ row.at \in Place
         /\ row = NoRow <=> row.status = "absent"
  BY DEF Row, NoRow

LEMMA IdleType == SchedulingIdle \in Call
  BY DEF SchedulingIdle, Call

LEMMA ShiftCall ==
  ASSUME NEW c \in Call, c.stage = "shift"
  PROVE  /\ c.of \in Shifts /\ c.read \in Template
         /\ c.want \in Template /\ c.want # NoShift
  BY DEF Call

LEMMA AssignCall ==
  ASSUME NEW c \in Call, c.stage = "assign"
  PROVE  /\ c.of \in Assignments /\ c.read \in Row
         /\ c.want \in Row /\ c.want # NoRow
  BY DEF Call

(* What upsert_shift will store                                            *)
Want(s, p) == [p EXCEPT !.code = IF p.code # Nothing THEN p.code ELSE Generated(s, p.name)]

LEMMA WantType ==
  ASSUME SchedulingTypeOK, NEW s \in Shifts, NEW p \in Payloads
  PROVE  /\ Want(s, p) \in Template /\ Want(s, p) # NoShift
         /\ Want(s, p).code = IF p.code # Nothing THEN p.code ELSE Generated(s, p.name)
  <1> DEFINE code == IF p.code # Nothing THEN p.code ELSE Generated(s, p.name)
  <1>1. p \in [status : {"active", "inactive"}, name : DOMAIN Prefix, time : Times,
               code : TemplateCodes \union {Nothing}]
    BY SchedulingAssumption
  <1>2. Generated(s, p.name) \in TemplateCodes
    <2>1. Cropped(Counter(s, Prefix[p.name])) \in 1 .. Radix * Radix - 1
      BY <1>1, CounterFree DEF SchedulingTypeOK
    <2>2. Generated(s, p.name) = CodeOf(Prefix[p.name], Cropped(Counter(s, Prefix[p.name])))
      BY DEF Generated, CodeOf
    <2> QED BY <1>1, <2>1, <2>2, CodeType
  <1>3. code \in TemplateCodes
    BY <1>1, <1>2
  <1>4. Want(s, p) = [p EXCEPT !.code = code]
    BY DEF Want
  <1> HIDE DEF code
  <1>5. Want(s, p) \in [status : {"active", "inactive"}, name : Names, time : Times, code : TemplateCodes]
    BY <1>1, <1>3, <1>4 DEF Names
  <1>6. Want(s, p).code = code
    BY <1>1, <1>4
  <1> QED BY <1>5, <1>6 DEF Template, NoShift, code

LEMMA TypeShiftRead ==
  ASSUME SchedulingTypeInv, NEW w \in Threads, NEW s \in Shifts, NEW p \in Payloads, ShiftRead(w, s, p)
  PROVE  SchedulingTypeInv'
  <1> DEFINE c == [stage |-> "shift", of |-> s, read |-> shifts[s], want |-> Want(s, p)]
  <1>1. shifts[s] \in Template /\ Want(s, p) \in Template \ {NoShift}
    BY WantType DEF SchedulingTypeInv, SchedulingTypeOK
  <1>2. c \in Call
    BY <1>1 DEF Call
  <1>3. call' = [call EXCEPT ![w] = c]
    BY DEF ShiftRead, Becomes, Want
  <1>4. Saving(w, "shift") \subseteq Shifts
    BY ShiftCall DEF Saving, SchedulingTypeInv, SchedulingTypeOK
  <1>5. /\ given' \subseteq Shifts /\ cropped' \subseteq Shifts /\ hurried' \subseteq Shifts
    BY <1>4 DEF ShiftRead, SchedulingTypeInv, SchedulingTypeOK
  <1>6. asked' \in 0 .. MaxRequests
    BY SchedulingAssumption DEF ShiftRead, Request, SchedulingTypeInv, SchedulingTypeOK
  <1>7. c.stage = "shift" /\ c.of = s /\ c.read = shifts[s]
    OBVIOUS
  <1> HIDE DEF c
  <1>8. SchedulingTypeOK'
    BY <1>2, <1>3, <1>5, <1>6 DEF ShiftRead, SchedulingTypeInv, SchedulingTypeOK
  <1>9. ReadStands'
    BY <1>3, <1>7 DEF ShiftRead, SchedulingTypeInv, SchedulingTypeOK, ReadStands
  <1> QED BY <1>8, <1>9 DEF SchedulingTypeInv

(* The row that a commit of upsert_shift leaves                            *)
StoredShift(now, read, want) ==
    [status |-> Column(want.status, read.status, now.status),
     name   |-> Column(want.name, read.name, now.name),
     time   |-> Column(want.time, read.time, now.time),
     code   |-> Column(want.code, read.code, now.code)]

LEMMA StoredShiftType ==
  ASSUME NEW now \in Template, NEW read \in Template, NEW want \in Template, want # NoShift,
         read # NoShift => now # NoShift
  PROVE  /\ StoredShift(now, read, want) \in Template
         /\ StoredShift(now, read, want) # NoShift
         /\ StoredShift(now, read, want).code \in {want.code, now.code} \intersect TemplateCodes
  <1> DEFINE row == StoredShift(now, read, want)
  <1>1. row.status \in {"active", "inactive"} /\ row.name \in Names /\ row.time \in Times
    BY DEF StoredShift, Column, Template, NoShift
  <1>2. read = NoShift => read.code = Nothing /\ want.code # Nothing
    <2>1. want.code \in TemplateCodes
      BY TemplateType
    <2>2. Nothing \notin TemplateCodes
      BY SchedulingAssumption, RadixSquare DEF TemplateCodes, Numbered
    <2> QED BY <2>1, <2>2 DEF NoShift
  <1>3. row.code \in {want.code, now.code} /\ row.code \in TemplateCodes
    BY <1>2, TemplateType DEF StoredShift, Column
  <1>4. row \in [status : {"active", "inactive"}, name : Names, time : Times, code : TemplateCodes]
    BY <1>1, <1>3 DEF StoredShift
  <1> QED BY <1>3, <1>4 DEF Template, NoShift

LEMMA TypeShiftCommit ==
  ASSUME SchedulingTypeInv, NEW w \in Threads, ShiftCommit(w)
  PROVE  SchedulingTypeInv'
  <1> DEFINE s == call[w].of
             row == StoredShift(shifts[s], call[w].read, call[w].want)
  <1>1. call[w] \in Call /\ call[w].stage = "shift"
    BY DEF ShiftCommit, SchedulingTypeInv, SchedulingTypeOK
  <1>2. s \in Shifts /\ row \in Template /\ row # NoShift
    BY <1>1, ShiftCall, StoredShiftType DEF SchedulingTypeInv, SchedulingTypeOK, ReadStands
  <1>3. shifts' = [shifts EXCEPT ![s] = row]
    BY DEF ShiftCommit, StoredShift
  <1>4. call' = [call EXCEPT ![w] = SchedulingIdle]
    BY DEF ShiftCommit, Becomes
  <1>5. edited' \subseteq Shifts
    BY <1>2 DEF ShiftCommit, SchedulingTypeInv, SchedulingTypeOK
  <1> HIDE DEF row, s
  <1>6. SchedulingTypeOK'
    BY <1>2, <1>3, <1>4, <1>5, IdleType DEF ShiftCommit, SchedulingTypeInv, SchedulingTypeOK
  <1>7. \A t \in Shifts : shifts[t] # NoShift => shifts'[t] # NoShift
    BY <1>2, <1>3 DEF SchedulingTypeInv, SchedulingTypeOK
  <1>8. ReadStands'
    BY <1>4, <1>7, ShiftCall DEF ShiftCommit, SchedulingTypeInv, SchedulingTypeOK, ReadStands, SchedulingIdle
  <1> QED BY <1>6, <1>8 DEF SchedulingTypeInv

LEMMA TypeDeleteShift ==
  ASSUME SchedulingTypeInv, NEW w \in Threads, NEW s \in Shifts, DeleteShift(w, s)
  PROVE  SchedulingTypeInv'
  <1> DEFINE row == [shifts[s] EXCEPT !.status = "inactive"]
  <1>1. shifts[s] \in [status : {"active", "inactive"}, name : Names, time : Times, code : TemplateCodes]
    BY DEF DeleteShift, SchedulingTypeInv, SchedulingTypeOK, Template
  <1>2. row \in [status : {"active", "inactive"}, name : Names, time : Times, code : TemplateCodes]
    BY <1>1
  <1>3. row \in Template /\ row # NoShift
    BY <1>2 DEF Template, NoShift
  <1>4. shifts' = [shifts EXCEPT ![s] = row]
    BY DEF DeleteShift
  <1>5. asked' \in 0 .. MaxRequests
    BY SchedulingAssumption DEF DeleteShift, Request, SchedulingTypeInv, SchedulingTypeOK
  <1> HIDE DEF row
  <1>6. SchedulingTypeOK'
    BY <1>3, <1>4, <1>5 DEF DeleteShift, SchedulingTypeInv, SchedulingTypeOK
  <1>7. ReadStands'
    BY <1>3, <1>4 DEF DeleteShift, SchedulingTypeInv, SchedulingTypeOK, ReadStands
  <1> QED BY <1>6, <1>7 DEF SchedulingTypeInv

LEMMA TypeAssignRead ==
  ASSUME SchedulingTypeInv, NEW w \in Threads, NEW a \in Assignments,
         NEW status \in {"standing", "cancelled"}, NEW at \in Place, NEW force \in BOOLEAN,
         AssignRead(w, a, status, at, force)
  PROVE  SchedulingTypeInv'
  <1> DEFINE want == [status |-> status, at |-> at]
             c    == [stage |-> "assign", of |-> a, read |-> rows[a], want |-> want]
  <1>1. rows[a] \in Row /\ want \in Row \ {NoRow}
    BY DEF SchedulingTypeInv, SchedulingTypeOK, Row, NoRow
  <1>2. call' = [call EXCEPT ![w] = c]
    BY DEF AssignRead, Becomes
  <1> HIDE DEF want
  <1>3. c \in Call
    BY <1>1 DEF Call
  <1>4. Saving(w, "assign") \subseteq Assignments
    BY AssignCall DEF Saving, SchedulingTypeInv, SchedulingTypeOK
  <1>5. excused' \subseteq Assignments
    BY <1>4 DEF AssignRead, SchedulingTypeInv, SchedulingTypeOK
  <1>6. asked' \in 0 .. MaxRequests
    BY SchedulingAssumption DEF AssignRead, Request, SchedulingTypeInv, SchedulingTypeOK
  <1>7. c.stage = "assign" /\ c.of = a /\ c.read = rows[a]
    OBVIOUS
  <1> HIDE DEF c
  <1>8. SchedulingTypeOK'
    BY <1>2, <1>3, <1>5, <1>6 DEF AssignRead, SchedulingTypeInv, SchedulingTypeOK
  <1>9. ReadStands'
    BY <1>2, <1>7 DEF AssignRead, SchedulingTypeInv, SchedulingTypeOK, ReadStands
  <1> QED BY <1>8, <1>9 DEF SchedulingTypeInv

(* The row that a commit of upsert_assignment leaves                       *)
StoredRow(now, read, want) ==
    [status |-> Column(want.status, read.status, now.status),
     at |-> IF read = NoRow THEN want.at
            ELSE [who    |-> Column(want.at.who, read.at.who, now.at.who),
                  day    |-> Column(want.at.day, read.at.day, now.at.day),
                  shift  |-> Column(want.at.shift, read.at.shift, now.at.shift),
                  guests |-> Column(want.at.guests, read.at.guests, now.at.guests)]]

LEMMA StoredRowType ==
  ASSUME NEW now \in Row, NEW read \in Row, NEW want \in Row, want # NoRow,
         read # NoRow => now # NoRow
  PROVE  StoredRow(now, read, want) \in Row \ {NoRow}
  <1> DEFINE row == StoredRow(now, read, want)
             mix == [who    |-> Column(want.at.who, read.at.who, now.at.who),
                     day    |-> Column(want.at.day, read.at.day, now.at.day),
                     shift  |-> Column(want.at.shift, read.at.shift, now.at.shift),
                     guests |-> Column(want.at.guests, read.at.guests, now.at.guests)]
  <1>1. want.status \in {"standing", "cancelled"} /\ want.at \in Place
    BY RowType
  <1>2. row.status \in {"standing", "cancelled"}
    <2>1. CASE read = NoRow
      BY <1>1, <2>1 DEF StoredRow, Column, NoRow
    <2>2. CASE read # NoRow
      BY <1>1, <2>2, RowType DEF StoredRow, Column
    <2> QED BY <2>1, <2>2
  <1>3. ASSUME read # NoRow PROVE mix \in Place
    <2>1. now.at \in Place
      BY <1>3, RowType
    <2>2. mix.who \in Employees /\ mix.day \in Days /\ mix.shift \in Shifts
      BY <1>1, <2>1 DEF Place, Column
    <2>3. mix.guests \in BOOLEAN
      BY <1>1, <2>1 DEF Place, Column
    <2> HIDE DEF Column
    <2> QED BY <2>2, <2>3 DEF Place
  <1>4. row.at \in Place
    BY <1>1, <1>3 DEF StoredRow
  <1>5. row = [status |-> row.status, at |-> row.at]
    BY DEF StoredRow
  <1> HIDE DEF row
  <1>6. row \in [status : {"standing", "cancelled"}, at : Place]
    BY <1>2, <1>4, <1>5
  <1> QED BY <1>6 DEF Row, NoRow, row

LEMMA TypeAssignCommit ==
  ASSUME SchedulingTypeInv, NEW w \in Threads, AssignCommit(w)
  PROVE  SchedulingTypeInv'
  <1> DEFINE a == call[w].of
             row == StoredRow(rows[a], call[w].read, call[w].want)
  <1>1. call[w] \in Call /\ call[w].stage = "assign"
    BY DEF AssignCommit, SchedulingTypeInv, SchedulingTypeOK
  <1>2. a \in Assignments /\ row \in Row /\ row # NoRow
    BY <1>1, AssignCall, StoredRowType DEF SchedulingTypeInv, SchedulingTypeOK, ReadStands
  <1>3. rows' = [rows EXCEPT ![a] = row]
    BY DEF AssignCommit, StoredRow
  <1>4. call' = [call EXCEPT ![w] = SchedulingIdle]
    BY DEF AssignCommit, Becomes
  <1> HIDE DEF row, a
  <1>5. SchedulingTypeOK'
    BY <1>2, <1>3, <1>4, IdleType DEF AssignCommit, SchedulingTypeInv, SchedulingTypeOK
  <1>6. \A b \in Assignments : rows[b] # NoRow => rows'[b] # NoRow
    BY <1>2, <1>3 DEF SchedulingTypeInv, SchedulingTypeOK
  <1>7. ReadStands'
    BY <1>4, <1>6, AssignCall DEF AssignCommit, SchedulingTypeInv, SchedulingTypeOK, ReadStands, SchedulingIdle
  <1> QED BY <1>5, <1>7 DEF SchedulingTypeInv

LEMMA TypeDeleteAssignment ==
  ASSUME SchedulingTypeInv, NEW w \in Threads, NEW a \in Assignments, DeleteAssignment(w, a)
  PROVE  SchedulingTypeInv'
  <1> DEFINE row == [rows[a] EXCEPT !.status = "cancelled"]
  <1>1. rows[a] \in [status : {"standing", "cancelled"}, at : Place]
    BY DEF DeleteAssignment, SchedulingTypeInv, SchedulingTypeOK, Row
  <1>2. row \in [status : {"standing", "cancelled"}, at : Place]
    BY <1>1
  <1>3. row \in Row /\ row # NoRow
    BY <1>2 DEF Row, NoRow
  <1>4. rows' = [rows EXCEPT ![a] = row]
    BY DEF DeleteAssignment
  <1>5. asked' \in 0 .. MaxRequests
    BY SchedulingAssumption DEF DeleteAssignment, Request, SchedulingTypeInv, SchedulingTypeOK
  <1> HIDE DEF row
  <1>6. SchedulingTypeOK'
    BY <1>3, <1>4, <1>5 DEF DeleteAssignment, SchedulingTypeInv, SchedulingTypeOK
  <1>7. ReadStands'
    BY <1>3, <1>4 DEF DeleteAssignment, SchedulingTypeInv, SchedulingTypeOK, ReadStands
  <1> QED BY <1>6, <1>7 DEF SchedulingTypeInv

LEMMA SchedulingTypeInit == SchedulingInit => SchedulingTypeInv
  <1> SUFFICES ASSUME SchedulingInit PROVE SchedulingTypeInv
    OBVIOUS
  <1>1. asked \in 0 .. MaxRequests
    BY SchedulingAssumption DEF SchedulingInit
  <1>2. SchedulingTypeOK
    BY <1>1, IdleType DEF SchedulingInit, SchedulingTypeOK, Template, Row
  <1>3. ReadStands
    BY DEF SchedulingInit, ReadStands, SchedulingIdle
  <1> QED BY <1>2, <1>3 DEF SchedulingTypeInv

LEMMA TypeStep == SchedulingTypeInv /\ [SchedulingNext]_schedulingVars => SchedulingTypeInv'
  <1> SUFFICES ASSUME SchedulingTypeInv, [SchedulingNext]_schedulingVars PROVE SchedulingTypeInv'
    OBVIOUS
  <1>1. CASE UNCHANGED schedulingVars
    BY <1>1 DEF schedulingVars, SchedulingTypeInv, SchedulingTypeOK, ReadStands
  <1>2. ASSUME NEW w \in Threads, ShiftRoutes(w) PROVE SchedulingTypeInv'
    BY <1>2, TypeShiftRead, TypeDeleteShift, TypeShiftCommit DEF ShiftRoutes
  <1>3. ASSUME NEW w \in Threads, AssignmentRoutes(w) PROVE SchedulingTypeInv'
    BY <1>3, TypeAssignRead, TypeDeleteAssignment, TypeAssignCommit DEF AssignmentRoutes
  <1> QED BY <1>1, <1>2, <1>3 DEF SchedulingNext

(* Every column keeps a value of its kind, and a row that was read is not  *)
(* gone when the request that read it commits: rows are never removed.     *)
THEOREM SchedulingTypeCorrect == SchedulingSpec => []SchedulingTypeOK
  <1>1. SchedulingTypeInv => SchedulingTypeOK
    BY DEF SchedulingTypeInv
  <1> QED BY <1>1, SchedulingTypeInit, TypeStep, PTL DEF SchedulingSpec

-----------------------------------------------------------------------------
(* Codes.  What a request is about to store was free when it was made, and *)
(* can have been taken since only by a request that was under way at the   *)
(* same time, which is then noted of both.                                 *)

Reasons == given \union hurried \union cropped

PendingCodes ==
    \A w \in Threads : \A t \in Shifts :
        /\ call[w].stage = "shift"
        /\ t # call[w].of
        /\ shifts[t].code = call[w].want.code
        => {call[w].of, t} \intersect Reasons # {}

SavesNoted ==
    \A v, w \in Threads :
        v # w /\ call[v].stage = "shift" /\ call[w].stage = "shift" => call[w].of \in hurried

CodesInv == SchedulingTypeInv /\ CodesExplained /\ PendingCodes /\ SavesNoted

LEMMA CodesShiftRead ==
  ASSUME CodesInv, NEW w \in Threads, NEW s \in Shifts, NEW p \in Payloads, ShiftRead(w, s, p)
  PROVE  (CodesExplained /\ PendingCodes /\ SavesNoted)'
  <1> DEFINE c == [stage |-> "shift", of |-> s, read |-> shifts[s], want |-> Want(s, p)]
  <1>1. SchedulingTypeOK
    BY DEF CodesInv, SchedulingTypeInv
  <1>2. call' = [call EXCEPT ![w] = c] /\ shifts' = shifts
    BY DEF ShiftRead, Becomes, Want
  <1>3. c.stage = "shift" /\ c.of = s /\ c.want = Want(s, p)
    OBVIOUS
  <1>4. Reasons \subseteq Reasons' /\ hurried \subseteq hurried' /\ hurried' \subseteq Reasons'
    BY DEF ShiftRead, Reasons
  <1> HIDE DEF c
  <1>5. CodesExplained'
    BY <1>2, <1>4 DEF CodesInv, CodesExplained, Reasons
  <1>6. ASSUME NEW t \in Shifts, t # s, shifts[t].code = c.want.code
        PROVE  s \in Reasons'
    <2>1. CASE p.code # Nothing
      BY <2>1 DEF ShiftRead, Reasons
    <2>2. CASE p.code = Nothing
      <3> DEFINE n == Counter(s, Prefix[p.name])
      <3>1. p.name \in DOMAIN Prefix
        BY SchedulingAssumption
      <3>2. n = Radix * Radix \/ (Cropped(n) = n /\ CodeOf(Prefix[p.name], n) \notin Taken(s))
        BY <1>1, <3>1, CounterFree DEF SchedulingTypeOK
      <3>3. c.want.code = CodeOf(Prefix[p.name], Cropped(n))
        BY <1>1, <1>3, <2>2, WantType DEF Generated, CodeOf
      <3>4. shifts[t].code \in Taken(s)
        BY <1>6 DEF Taken
      <3>5. n = Radix * Radix
        BY <1>6, <3>2, <3>3, <3>4
      <3> QED BY <2>2, <3>5 DEF ShiftRead, Reasons
    <2> QED BY <2>1, <2>2
  <1>7. PendingCodes'
    <2> SUFFICES ASSUME NEW v \in Threads, NEW t \in Shifts, call'[v].stage = "shift",
                        t # call'[v].of, shifts'[t].code = call'[v].want.code
                 PROVE  {call'[v].of, t} \intersect Reasons' # {}
      BY DEF PendingCodes
    <2>1. CASE v = w
      BY <1>1, <1>2, <1>3, <1>6, <2>1 DEF SchedulingTypeOK
    <2>2. CASE v # w
      BY <1>1, <1>2, <1>4, <2>2 DEF CodesInv, PendingCodes, SchedulingTypeOK
    <2> QED BY <2>1, <2>2
  <1>8. ASSUME NEW v \in Threads, v # w, call[v].stage = "shift"
        PROVE  s \in hurried' /\ call[v].of \in hurried'
    <2>1. call[v].of \in Saving(w, "shift")
      BY <1>8 DEF Saving
    <2> QED BY <2>1 DEF ShiftRead
  <1>9. SavesNoted'
    BY <1>1, <1>2, <1>3, <1>4, <1>8 DEF CodesInv, SavesNoted, SchedulingTypeOK
  <1> QED BY <1>5, <1>7, <1>9

LEMMA CodesShiftCommit ==
  ASSUME CodesInv, NEW w \in Threads, ShiftCommit(w)
  PROVE  (CodesExplained /\ PendingCodes /\ SavesNoted)'
  <1> DEFINE s    == call[w].of
             want == call[w].want
             row  == StoredShift(shifts[s], call[w].read, want)
  <1>1. SchedulingTypeOK /\ ReadStands
    BY DEF CodesInv, SchedulingTypeInv
  <1>2. call[w] \in Call /\ call[w].stage = "shift"
    BY <1>1 DEF ShiftCommit, SchedulingTypeOK
  <1>3. s \in Shifts /\ shifts[s] \in Template /\ row # NoShift
        /\ row.code \in {want.code, shifts[s].code} \intersect TemplateCodes
    BY <1>1, <1>2, ShiftCall, StoredShiftType DEF SchedulingTypeOK, ReadStands
  <1>4. shifts' = [shifts EXCEPT ![s] = row] /\ call' = [call EXCEPT ![w] = SchedulingIdle]
    BY DEF ShiftCommit, StoredShift, Becomes
  <1>5. Reasons' = Reasons /\ hurried' = hurried
    BY DEF ShiftCommit, Reasons
  <1>6. Nothing \notin TemplateCodes
    BY SchedulingAssumption, RadixSquare DEF TemplateCodes, Numbered
  <1>7. ASSUME NEW t \in Shifts, t # s, shifts[t].code = row.code
        PROVE  {s, t} \intersect Reasons # {}
    <2>1. CASE row.code = want.code
      BY <1>2, <1>7, <2>1 DEF CodesInv, PendingCodes
    <2>2. CASE row.code = shifts[s].code
      <3>1. shifts[s] # NoShift
        BY <1>3, <1>6, <2>2 DEF NoShift
      <3> QED BY <1>3, <1>7, <2>2, <3>1 DEF CodesInv, CodesExplained, Reasons
    <2> QED BY <1>3, <2>1, <2>2
  <1> HIDE DEF s, want, row
  <1>8. CodesExplained'
    <2> SUFFICES ASSUME NEW t \in Shifts, NEW u \in Shifts, t # u, shifts'[t] # NoShift,
                        shifts'[t].code = shifts'[u].code
                 PROVE  {t, u} \intersect Reasons # {}
      BY <1>5 DEF CodesExplained, Reasons
    <2>1. CASE t = s
      BY <1>1, <1>3, <1>4, <1>7, <2>1 DEF SchedulingTypeOK
    <2>2. CASE u = s
      BY <1>1, <1>3, <1>4, <1>7, <2>2 DEF SchedulingTypeOK
    <2>3. CASE t # s /\ u # s
      BY <1>1, <1>3, <1>4, <2>3 DEF SchedulingTypeOK, CodesInv, CodesExplained, Reasons
    <2> QED BY <2>1, <2>2, <2>3
  <1>9. PendingCodes'
    <2> SUFFICES ASSUME NEW v \in Threads, call'[v].stage = "shift"
                 PROVE  call'[v].of \in Reasons'
      BY DEF PendingCodes
    <2>1. v # w /\ call'[v] = call[v]
      BY <1>1, <1>4 DEF SchedulingTypeOK, SchedulingIdle
    <2> QED BY <1>2, <1>5, <2>1 DEF CodesInv, SavesNoted, Reasons
  <1>10. SavesNoted'
    BY <1>1, <1>4, <1>5 DEF SchedulingTypeOK, SchedulingIdle, CodesInv, SavesNoted
  <1> QED BY <1>8, <1>9, <1>10

(* The other actions start no save of a template and change no code.       *)
LEMMA CodesElse ==
  ASSUME CodesInv, UNCHANGED <<given, hurried, cropped>>,
         \A s \in Shifts : /\ shifts'[s].code = shifts[s].code
                           /\ shifts[s] = NoShift => shifts'[s] = NoShift,
         \A w \in Threads : call'[w] = call[w] \/ call'[w].stage # "shift"
  PROVE  (CodesExplained /\ PendingCodes /\ SavesNoted)'
  <1>1. Reasons' = Reasons
    BY DEF Reasons
  <1>2. CodesExplained'
    BY DEF CodesInv, CodesExplained
  <1>3. PendingCodes'
    BY <1>1 DEF CodesInv, PendingCodes
  <1>4. SavesNoted'
    BY DEF CodesInv, SavesNoted
  <1> QED BY <1>2, <1>3, <1>4

LEMMA CodesStep == CodesInv /\ [SchedulingNext]_schedulingVars => CodesInv'
  <1> SUFFICES ASSUME CodesInv, [SchedulingNext]_schedulingVars PROVE (CodesExplained /\ PendingCodes /\ SavesNoted)'
    BY TypeStep DEF CodesInv
  <1>1. SchedulingTypeOK
    BY DEF CodesInv, SchedulingTypeInv
  <1>2. CASE UNCHANGED schedulingVars
    BY <1>2, CodesElse DEF schedulingVars
  <1>3. ASSUME NEW w \in Threads, NEW s \in Shifts, DeleteShift(w, s)
        PROVE  (CodesExplained /\ PendingCodes /\ SavesNoted)'
    BY <1>1, <1>3, CodesElse DEF DeleteShift, SchedulingTypeOK, Template, NoShift
  <1>4. ASSUME NEW w \in Threads, AssignmentRoutes(w)
        PROVE  (CodesExplained /\ PendingCodes /\ SavesNoted)'
    <2>1. shifts' = shifts /\ UNCHANGED <<given, hurried, cropped>>
      BY <1>4 DEF AssignmentRoutes, AssignRead, AssignCommit, DeleteAssignment
    <2>2. \A v \in Threads : call'[v] = call[v] \/ call'[v].stage # "shift"
      BY <1>1, <1>4 DEF AssignmentRoutes, AssignRead, AssignCommit, DeleteAssignment, Becomes,
                       SchedulingIdle, SchedulingTypeOK
    <2> QED BY <2>1, <2>2, CodesElse
  <1>5. ASSUME NEW w \in Threads, ShiftRoutes(w)
        PROVE  (CodesExplained /\ PendingCodes /\ SavesNoted)'
    BY <1>3, <1>5, CodesShiftRead, CodesShiftCommit DEF ShiftRoutes
  <1> QED BY <1>2, <1>4, <1>5 DEF SchedulingNext

LEMMA CodesInit == SchedulingInit => CodesInv
  BY SchedulingTypeInit DEF SchedulingInit, CodesInv, CodesExplained, PendingCodes, SavesNoted, SchedulingIdle

(* Two templates have one code only if one of them asked for its code, was *)
(* saved while another was, or came when the two-digit numbers had run out *)
(* (_generate_unique_code and upsert_shift).                               *)
THEOREM CodesHold == SchedulingSpec => []CodesExplained
  <1>1. CodesInv => CodesExplained
    BY DEF CodesInv
  <1> QED BY <1>1, CodesInit, CodesStep, PTL DEF SchedulingSpec

-----------------------------------------------------------------------------
(* Assignments.  What a request is about to store was tested against every *)
(* assignment that stood, and the row it changes is as it read it, unless  *)
(* another assignment was being saved.  Templates in use are never absent, *)
(* so a clash appears only by an edit.                                     *)

Twice(p, q) == p.who = q.who /\ p.day = q.day /\ Clash(p.shift, q.shift)

Excuse(a, p, b, q) ==
    \/ {a, b} \intersect excused # {}
    \/ p.guests \/ q.guests
    \/ p.shift # q.shift /\ {p.shift, q.shift} \intersect edited # {}

PendingAssignments ==
    \A w \in Threads : \A b \in Assignments :
        /\ call[w].stage = "assign"
        /\ b # call[w].of /\ rows[b].status = "standing"
        /\ Twice(call[w].want.at, rows[b].at)
        => Excuse(call[w].of, call[w].want.at, b, rows[b].at)

ShiftsExist ==
    /\ \A a \in Assignments : rows[a] # NoRow => shifts[rows[a].at.shift] # NoShift
    /\ \A w \in Threads : call[w].stage = "assign" => shifts[call[w].want.at.shift] # NoShift

ReadCurrent ==
    \A w \in Threads :
        call[w].stage = "assign" /\ call[w].read # NoRow
        => call[w].of \in excused \/ rows[call[w].of].at = call[w].read.at

AssignsNoted ==
    \A v, w \in Threads :
        v # w /\ call[v].stage = "assign" /\ call[w].stage = "assign" => call[w].of \in excused

AssignInv == /\ AssignmentsExplained
             /\ PendingAssignments
             /\ ShiftsExist
             /\ ReadCurrent
             /\ AssignsNoted

LEMMA AsTwice ==
  AssignmentsExplained <=>
    \A a, b \in Assignments :
        /\ a # b /\ rows[a].status = "standing" /\ rows[b].status = "standing"
        /\ Twice(rows[a].at, rows[b].at)
        => Excuse(a, rows[a].at, b, rows[b].at)
  BY DEF AssignmentsExplained, Twice, Excuse

LEMMA PlaceType ==
  ASSUME SchedulingTypeOK
  PROVE  /\ \A a \in Assignments : rows[a] # NoRow => rows[a].at \in Place
         /\ \A w \in Threads : call[w].stage = "assign" => call[w].want.at \in Place
  BY RowType, AssignCall DEF SchedulingTypeOK

(* Steps that only touch templates                                         *)
LEMMA AssignShifts ==
  ASSUME SchedulingTypeOK, AssignInv, UNCHANGED <<rows, excused>>, edited \subseteq edited',
         \A s \in Shifts : shifts[s] # NoShift =>
             /\ shifts'[s] # NoShift
             /\ \/ s \in edited'
                \/ shifts'[s].name = shifts[s].name /\ shifts'[s].time = shifts[s].time,
         \A w \in Threads : call'[w] = call[w] \/ call'[w].stage # "assign"
  PROVE  AssignInv'
  <1>1. ASSUME NEW a, NEW b, NEW p \in Place, NEW q \in Place,
               shifts[p.shift] # NoShift, shifts[q.shift] # NoShift,
               Twice(p, q)', Twice(p, q) => Excuse(a, p, b, q)
        PROVE  Excuse(a, p, b, q)'
    <2>1. p.shift \in Shifts /\ q.shift \in Shifts
      BY DEF Place
    <2>2. CASE {p.shift, q.shift} \intersect edited' # {} /\ p.shift # q.shift
      BY <2>2 DEF Excuse
    <2>3. CASE p.shift = q.shift \/ {p.shift, q.shift} \intersect edited' = {}
      <3>1. Twice(p, q)
        BY <1>1, <2>1, <2>3 DEF Twice, Clash
      <3> QED BY <1>1, <3>1 DEF Excuse
    <2> QED BY <2>2, <2>3
  <1>2. AssignmentsExplained'
    <2> SUFFICES ASSUME NEW a \in Assignments, NEW b \in Assignments, a # b,
                        rows[a].status = "standing", rows[b].status = "standing",
                        Twice(rows[a].at, rows[b].at)'
                 PROVE  Excuse(a, rows[a].at, b, rows[b].at)'
      BY AsTwice DEF AssignmentsExplained, Twice, Excuse
    <2>1. rows[a] # NoRow /\ rows[b] # NoRow
      BY DEF NoRow
    <2>2. Twice(rows[a].at, rows[b].at) => Excuse(a, rows[a].at, b, rows[b].at)
      BY AsTwice DEF AssignInv
    <2>3. PICK p \in Place, q \in Place : p = rows[a].at /\ q = rows[b].at
      BY <2>1, PlaceType
    <2>4. shifts[p.shift] # NoShift /\ shifts[q.shift] # NoShift
      BY <2>1, <2>3 DEF AssignInv, ShiftsExist
    <2>5. Twice(p, q)' /\ (Twice(p, q) => Excuse(a, p, b, q))
      BY <2>2, <2>3 DEF Twice, Clash
    <2>6. Excuse(a, p, b, q)'
      BY <1>1, <2>4, <2>5
    <2> QED BY <2>3, <2>6 DEF Excuse
  <1>3. PendingAssignments'
    <2> SUFFICES ASSUME NEW w \in Threads, NEW b \in Assignments, call'[w] = call[w],
                        call[w].stage = "assign", b # call[w].of, rows[b].status = "standing",
                        Twice(call[w].want.at, rows[b].at)'
                 PROVE  Excuse(call[w].of, call[w].want.at, b, rows[b].at)'
      BY DEF PendingAssignments
    <2>1. rows[b] # NoRow
      BY DEF NoRow
    <2>2. PICK a \in Assignments, p \in Place, q \in Place :
              a = call[w].of /\ p = call[w].want.at /\ q = rows[b].at
      BY <2>1, PlaceType, AssignCall DEF SchedulingTypeOK
    <2>3. shifts[p.shift] # NoShift /\ shifts[q.shift] # NoShift
      BY <2>1, <2>2 DEF AssignInv, ShiftsExist
    <2>4. Twice(p, q)' /\ (Twice(p, q) => Excuse(a, p, b, q))
      BY <2>2 DEF Twice, Clash, AssignInv, PendingAssignments
    <2>5. Excuse(a, p, b, q)'
      BY <1>1, <2>3, <2>4
    <2> QED BY <2>2, <2>5 DEF Excuse
  <1>4. ShiftsExist'
    <2>1. \A a \in Assignments : rows[a] # NoRow => rows[a].at.shift \in Shifts
      BY PlaceType DEF Place
    <2>2. \A w \in Threads : call[w].stage = "assign" => call[w].want.at.shift \in Shifts
      BY PlaceType DEF Place
    <2> QED BY <2>1, <2>2 DEF AssignInv, ShiftsExist
  <1>5. ReadCurrent' /\ AssignsNoted'
    BY DEF AssignInv, ReadCurrent, AssignsNoted
  <1> QED BY <1>2, <1>3, <1>4, <1>5 DEF AssignInv

LEMMA AssignShiftCommit ==
  ASSUME SchedulingTypeInv, AssignInv, NEW w \in Threads, ShiftCommit(w)
  PROVE  AssignInv'
  <1> DEFINE s == call[w].of
             row == StoredShift(shifts[s], call[w].read, call[w].want)
  <1>1. call[w] \in Call /\ call[w].stage = "shift"
    BY DEF ShiftCommit, SchedulingTypeInv, SchedulingTypeOK
  <1>2. s \in Shifts /\ row # NoShift
    BY <1>1, ShiftCall, StoredShiftType DEF SchedulingTypeInv, SchedulingTypeOK, ReadStands
  <1>3. shifts' = [shifts EXCEPT ![s] = row] /\ call' = [call EXCEPT ![w] = SchedulingIdle]
    BY DEF ShiftCommit, StoredShift, Becomes
  <1>4. /\ UNCHANGED <<rows, excused>> /\ edited \subseteq edited'
        /\ \/ s \in edited' \/ shifts[s] = NoShift
           \/ shifts'[s].name = shifts[s].name /\ shifts'[s].time = shifts[s].time
    BY DEF ShiftCommit
  <1> HIDE DEF row, s
  <1>5. \A t \in Shifts : shifts[t] # NoShift =>
             /\ shifts'[t] # NoShift
             /\ \/ t \in edited'
                \/ shifts'[t].name = shifts[t].name /\ shifts'[t].time = shifts[t].time
    BY <1>2, <1>3, <1>4 DEF SchedulingTypeInv, SchedulingTypeOK
  <1>6. \A v \in Threads : call'[v] = call[v] \/ call'[v].stage # "assign"
    BY <1>3 DEF SchedulingTypeInv, SchedulingTypeOK, SchedulingIdle
  <1> QED BY <1>4, <1>5, <1>6, AssignShifts DEF SchedulingTypeInv

LEMMA AssignRoutesOfShifts ==
  ASSUME SchedulingTypeInv, AssignInv, NEW w \in Threads, ShiftRoutes(w)
  PROVE  AssignInv'
  <1>1. CASE ShiftCommit(w)
    BY <1>1, AssignShiftCommit
  <1>2. ASSUME NEW s \in Shifts, NEW p \in Payloads, ShiftRead(w, s, p) PROVE AssignInv'
    <2>1. UNCHANGED <<rows, excused, edited, shifts>>
      BY <1>2 DEF ShiftRead
    <2>2. \A v \in Threads : call'[v] = call[v] \/ call'[v].stage # "assign"
      BY <1>2 DEF ShiftRead, Becomes, SchedulingTypeInv, SchedulingTypeOK
    <2> QED BY <2>1, <2>2, AssignShifts DEF SchedulingTypeInv
  <1>3. ASSUME NEW s \in Shifts, DeleteShift(w, s) PROVE AssignInv'
    <2>1. UNCHANGED <<rows, excused, edited, call>>
      BY <1>3 DEF DeleteShift
    <2>2. \A t \in Shifts : /\ shifts[t] # NoShift => shifts'[t] # NoShift
                            /\ shifts'[t].name = shifts[t].name
                            /\ shifts'[t].time = shifts[t].time
      BY <1>3 DEF DeleteShift, SchedulingTypeInv, SchedulingTypeOK, Template, NoShift
    <2> QED BY <2>1, <2>2, AssignShifts DEF SchedulingTypeInv
  <1> QED BY <1>1, <1>2, <1>3 DEF ShiftRoutes

LEMMA AssignAssignRead ==
  ASSUME SchedulingTypeInv, AssignInv, NEW w \in Threads, NEW a \in Assignments,
         NEW status \in {"standing", "cancelled"}, NEW at \in Place, NEW force \in BOOLEAN,
         AssignRead(w, a, status, at, force)
  PROVE  AssignInv'
  <1> DEFINE c == [stage |-> "assign", of |-> a, read |-> rows[a],
                   want |-> [status |-> status, at |-> at]]
  <1>1. call' = [call EXCEPT ![w] = c] /\ UNCHANGED <<shifts, rows, edited>>
    BY DEF AssignRead, Becomes
  <1>2. c.stage = "assign" /\ c.of = a /\ c.read = rows[a] /\ c.want.at = at
    OBVIOUS
  <1>3. call \in [Threads -> Call]
    BY DEF SchedulingTypeInv, SchedulingTypeOK
  <1>4. excused \subseteq excused' /\ shifts[at.shift] # NoShift
    BY DEF AssignRead, NoShift
  <1> HIDE DEF c
  <1>5. AssignmentsExplained'
    BY <1>1, <1>4 DEF AssignInv, AssignmentsExplained, Clash
  <1>6. ASSUME NEW b \in Assignments, b # a, rows[b].status = "standing", Twice(at, rows[b].at)
        PROVE  a \in excused' \/ rows[b].at.guests
    <2>1. CASE b \in Conflicts(a, at)
      BY <2>1 DEF AssignRead
    <2>2. CASE b \notin Conflicts(a, at)
      BY <1>6, <2>2 DEF Conflicts, Twice, IsShift
    <2> QED BY <2>1, <2>2
  <1>7. PendingAssignments'
    <2> SUFFICES ASSUME NEW v \in Threads, NEW b \in Assignments, call'[v].stage = "assign",
                        b # call'[v].of, rows[b].status = "standing",
                        Twice(call'[v].want.at, rows[b].at)
                 PROVE  Excuse(call[v].of, call[v].want.at, b, rows[b].at)'
      BY <1>1 DEF PendingAssignments, Twice, Clash
    <2>1. CASE v = w
      BY <1>1, <1>2, <1>3, <1>6, <2>1 DEF Excuse
    <2>2. CASE v # w
      <3>1. call'[v] = call[v]
        BY <1>1, <1>3, <2>2
      <3>2. Excuse(call[v].of, call[v].want.at, b, rows[b].at)
        BY <3>1 DEF AssignInv, PendingAssignments
      <3> QED BY <1>1, <1>4, <3>1, <3>2 DEF Excuse
    <2> QED BY <2>1, <2>2
  <1>8. ShiftsExist'
    BY <1>1, <1>2, <1>3, <1>4 DEF AssignInv, ShiftsExist
  <1>9. ReadCurrent'
    BY <1>1, <1>2, <1>3, <1>4 DEF AssignInv, ReadCurrent
  <1>10. ASSUME NEW v \in Threads, v # w, call[v].stage = "assign"
         PROVE  a \in excused' /\ call[v].of \in excused'
    <2>1. call[v].of \in Saving(w, "assign")
      BY <1>10 DEF Saving
    <2> QED BY <2>1 DEF AssignRead
  <1>11. AssignsNoted'
    BY <1>1, <1>2, <1>3, <1>4, <1>10 DEF AssignInv, AssignsNoted
  <1> QED BY <1>5, <1>7, <1>8, <1>9, <1>11 DEF AssignInv

(* A commit leaves what was wanted in a row that is as it was read.        *)
LEMMA StoredWanted ==
  ASSUME NEW now \in Row, NEW read \in Row, NEW want \in Row, want # NoRow,
         read = NoRow \/ now.at = read.at
  PROVE  StoredRow(now, read, want).at = want.at
  <1>1. want.at \in Place
    BY RowType
  <1>2. CASE read = NoRow
    BY <1>2 DEF StoredRow
  <1>3. CASE read # NoRow
    <2>1. Column(want.at.who, read.at.who, now.at.who) = want.at.who
      BY <1>3 DEF Column
    <2>2. Column(want.at.day, read.at.day, now.at.day) = want.at.day
      BY <1>3 DEF Column
    <2>3. Column(want.at.shift, read.at.shift, now.at.shift) = want.at.shift
      BY <1>3 DEF Column
    <2>4. Column(want.at.guests, read.at.guests, now.at.guests) = want.at.guests
      BY <1>3 DEF Column
    <2>5. StoredRow(now, read, want).at
            = [who |-> want.at.who, day |-> want.at.day, shift |-> want.at.shift,
               guests |-> want.at.guests]
      BY <1>3, <2>1, <2>2, <2>3, <2>4 DEF StoredRow
    <2> QED BY <1>1, <2>5 DEF Place
  <1> QED BY <1>2, <1>3

LEMMA AssignAssignCommit ==
  ASSUME SchedulingTypeInv, AssignInv, NEW w \in Threads, AssignCommit(w)
  PROVE  AssignInv'
  <1> DEFINE a    == call[w].of
             want == call[w].want
             row  == StoredRow(rows[a], call[w].read, want)
  <1>1. call \in [Threads -> Call] /\ rows \in [Assignments -> Row] /\ ReadStands
    BY DEF SchedulingTypeInv, SchedulingTypeOK
  <1>2. call[w] \in Call /\ call[w].stage = "assign"
    BY <1>1 DEF AssignCommit
  <1>3. a \in Assignments /\ want \in Row /\ want # NoRow /\ row # NoRow
        /\ rows[a] \in Row /\ call[w].read \in Row
    BY <1>1, <1>2, AssignCall, StoredRowType DEF ReadStands
  <1>4. rows' = [rows EXCEPT ![a] = row] /\ call' = [call EXCEPT ![w] = SchedulingIdle]
        /\ UNCHANGED <<shifts, excused, edited>>
    BY DEF AssignCommit, StoredRow, Becomes
  <1>5. a \in excused \/ row.at = want.at
    BY <1>2, <1>3, StoredWanted DEF AssignInv, ReadCurrent
  <1>6. shifts[row.at.shift] # NoShift
    <2>1. CASE call[w].read = NoRow
      BY <1>2, <2>1 DEF StoredRow, AssignInv, ShiftsExist
    <2>2. CASE call[w].read # NoRow
      <3>1. rows[a] # NoRow
        BY <1>1, <1>2, <2>2 DEF ReadStands
      <3>2. row.at.shift \in {want.at.shift, rows[a].at.shift}
        BY <2>2 DEF StoredRow, Column
      <3> QED BY <1>2, <1>3, <3>1, <3>2 DEF AssignInv, ShiftsExist
    <2> QED BY <2>1, <2>2
  <1>7. ASSUME NEW b \in Assignments, b # a, rows[b].status = "standing", Twice(row.at, rows[b].at)
        PROVE  Excuse(a, row.at, b, rows[b].at)
    BY <1>2, <1>5, <1>7 DEF Excuse, AssignInv, PendingAssignments
  <1>8. PICK k \in Assignments : k = a
    BY <1>3
  <1>9. PICK r \in Row : r = row
    BY <1>1, <1>2, <1>3, AssignCall, StoredRowType DEF ReadStands
  <1> HIDE DEF row, want, a
  <1>10. rows' = [rows EXCEPT ![k] = r]
    BY <1>4, <1>8, <1>9
  <1>11. AssignmentsExplained'
    <2> SUFFICES ASSUME NEW b \in Assignments, NEW d \in Assignments, b # d,
                        rows'[b].status = "standing", rows'[d].status = "standing",
                        Twice(rows'[b].at, rows'[d].at)
                 PROVE  Excuse(b, rows'[b].at, d, rows'[d].at)
      BY <1>4 DEF AssignmentsExplained, Excuse, Twice, Clash
    <2>1. CASE b = k
      BY <1>1, <1>7, <1>8, <1>9, <1>10, <2>1
    <2>2. CASE d = k
      <3>1. rows'[d] = r /\ rows'[b] = rows[b]
        BY <1>1, <1>10, <2>2
      <3>2. Twice(r.at, rows[b].at)
        BY <3>1 DEF Twice, Clash
      <3>3. Excuse(k, r.at, b, rows[b].at)
        BY <1>7, <1>8, <1>9, <2>2, <3>1, <3>2
      <3> QED BY <2>2, <3>1, <3>3 DEF Excuse
    <2>3. CASE b # k /\ d # k
      BY <1>1, <1>10, <2>3, AsTwice DEF AssignInv
    <2> QED BY <2>1, <2>2, <2>3
  <1>12. ASSUME NEW v \in Threads, call'[v].stage = "assign"
         PROVE  v # w /\ call'[v] = call[v] /\ call[v].of \in excused
    <2>1. v # w /\ call'[v] = call[v]
      BY <1>1, <1>4, <1>12 DEF SchedulingIdle
    <2> QED BY <1>2, <1>12, <2>1 DEF AssignInv, AssignsNoted
  <1>13. PendingAssignments'
    BY <1>4, <1>12 DEF PendingAssignments, Excuse
  <1>14. ShiftsExist'
    BY <1>1, <1>4, <1>6, <1>9, <1>10, <1>12 DEF AssignInv, ShiftsExist
  <1>15. ReadCurrent' /\ AssignsNoted'
    BY <1>4, <1>12 DEF ReadCurrent, AssignsNoted
  <1> QED BY <1>11, <1>13, <1>14, <1>15 DEF AssignInv

LEMMA AssignDelete ==
  ASSUME SchedulingTypeInv, AssignInv, NEW w \in Threads, NEW a \in Assignments, DeleteAssignment(w, a)
  PROVE  AssignInv'
  <1> DEFINE row == [rows[a] EXCEPT !.status = "cancelled"]
  <1>1. rows \in [Assignments -> Row] /\ UNCHANGED <<shifts, call, edited, excused>>
    BY DEF DeleteAssignment, SchedulingTypeInv, SchedulingTypeOK
  <1>2. rows[a] # NoRow /\ rows[a] \in [status : {"standing", "cancelled"}, at : Place]
    BY <1>1 DEF DeleteAssignment, Row
  <1>3. row.at = rows[a].at /\ row.status = "cancelled"
    BY <1>2
  <1>4. rows' = [rows EXCEPT ![a] = row]
    BY DEF DeleteAssignment
  <1> HIDE DEF row
  <1>5. ASSUME NEW b \in Assignments
        PROVE  /\ rows'[b].at = rows[b].at
               /\ rows'[b].status = "standing" => rows[b].status = "standing"
               /\ rows'[b] # NoRow => rows[b] # NoRow
    BY <1>1, <1>2, <1>3, <1>4
  <1>6. AssignmentsExplained'
    <2> SUFFICES ASSUME NEW b \in Assignments, NEW d \in Assignments, b # d,
                        rows'[b].status = "standing", rows'[d].status = "standing",
                        Twice(rows'[b].at, rows'[d].at)
                 PROVE  Excuse(b, rows'[b].at, d, rows'[d].at)
      BY <1>1 DEF AssignmentsExplained, Excuse, Twice, Clash
    <2>1. rows'[b].at = rows[b].at /\ rows'[d].at = rows[d].at
          /\ rows[b].status = "standing" /\ rows[d].status = "standing"
      BY <1>5
    <2> QED BY <2>1, AsTwice DEF AssignInv
  <1>7. PendingAssignments'
    <2> SUFFICES ASSUME NEW v \in Threads, NEW b \in Assignments, call[v].stage = "assign",
                        b # call[v].of, rows'[b].status = "standing",
                        Twice(call[v].want.at, rows'[b].at)
                 PROVE  Excuse(call[v].of, call[v].want.at, b, rows'[b].at)
      BY <1>1 DEF PendingAssignments, Excuse, Twice, Clash
    <2>1. rows'[b].at = rows[b].at /\ rows[b].status = "standing"
      BY <1>5
    <2> QED BY <2>1 DEF AssignInv, PendingAssignments
  <1>8. ShiftsExist'
    BY <1>1, <1>5 DEF AssignInv, ShiftsExist
  <1>9. ReadCurrent' /\ AssignsNoted'
    <2>1. \A v \in Threads : call[v].stage = "assign" => call[v].of \in Assignments
      BY AssignCall DEF SchedulingTypeInv, SchedulingTypeOK
    <2>2. AssignsNoted'
      BY <1>1 DEF AssignInv, AssignsNoted
    <2>3. ReadCurrent'
      BY <1>1, <1>5, <2>1 DEF AssignInv, ReadCurrent
    <2> QED BY <2>2, <2>3
  <1> QED BY <1>6, <1>7, <1>8, <1>9 DEF AssignInv

LEMMA AssignInit == SchedulingInit => AssignInv
  BY DEF SchedulingInit, AssignInv, AssignmentsExplained, PendingAssignments, ShiftsExist, ReadCurrent,
         AssignsNoted, NoRow, SchedulingIdle

LEMMA AssignStep == SchedulingTypeInv /\ AssignInv /\ [SchedulingNext]_schedulingVars => AssignInv'
  <1> SUFFICES ASSUME SchedulingTypeInv, AssignInv, [SchedulingNext]_schedulingVars PROVE AssignInv'
    OBVIOUS
  <1>1. CASE UNCHANGED schedulingVars
    BY <1>1, AssignShifts DEF schedulingVars, SchedulingTypeInv
  <1>2. ASSUME NEW w \in Threads, ShiftRoutes(w) PROVE AssignInv'
    BY <1>2, AssignRoutesOfShifts
  <1>3. ASSUME NEW w \in Threads, AssignmentRoutes(w) PROVE AssignInv'
    BY <1>3, AssignAssignRead, AssignDelete, AssignAssignCommit DEF AssignmentRoutes
  <1> QED BY <1>1, <1>2, <1>3 DEF SchedulingNext

(* An employee stands twice on a day in clashing shifts only if that was   *)
(* forced, saved while another assignment was, hidden by attendees, or     *)
(* brought about by an edit of a template (_schedule_conflict).            *)
THEOREM AssignmentsHold == SchedulingSpec => []AssignmentsExplained
  <1>1. SchedulingInit => SchedulingTypeInv /\ AssignInv
    BY SchedulingTypeInit, AssignInit
  <1>2. SchedulingTypeInv /\ AssignInv /\ [SchedulingNext]_schedulingVars => (SchedulingTypeInv /\ AssignInv)'
    BY TypeStep, AssignStep
  <1>3. AssignInv => AssignmentsExplained
    BY DEF AssignInv
  <1> QED BY <1>1, <1>2, <1>3, PTL DEF SchedulingSpec
=============================================================================
