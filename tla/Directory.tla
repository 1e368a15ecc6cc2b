------------------------------ MODULE Directory ------------------------------
(***************************************************************************)
(* The employee directory of the auth service: a company's employees, the  *)
(* codes its sequence hands out, the plan's limit on employees, and the    *)
(* branches and projects its metadata document lists and employees name    *)
(* (auth-service/app/services/auth.py, app/api/routes/employees.py and     *)
(* app/api/routes/admin.py).                                               *)
(*                                                                         *)
(* Handlers run in worker threads, each with a session of its own under    *)
(* READ COMMITTED.  A session reads a row once per transaction and its     *)
(* commit writes the columns that changed: a JSON document is one column,  *)
(* and goes back whole.                                                    *)
(*                                                                         *)
(* One company is modelled.  Of an employee the status, the code and the   *)
(* branch and projects are kept; every status but deleted is "live".  Who  *)
(* a payload's email and identifiers match is a choice of the payload.     *)
(***************************************************************************)
EXTENDS Integers, FiniteSets, FiniteSetsExt

CONSTANTS Workers,
          Branches, Projects,
          OwnCodes,        \* codes administrators make up, in a format of their own
          Corrections,     \* codes they may give an employee who has one, NoCode too
          Limit,           \* employees the plan allows
          MaxRows,         \* bound on the rows of one bulk or import call
          MaxUsers,        \* bound on employees
          MaxCode          \* bound on the sequence

ASSUME DirectoryAssumption ==
    /\ IsFiniteSet(Workers) /\ Workers # {}
    /\ Limit \in Nat /\ MaxRows \in Nat \ {0}
    /\ MaxUsers \in Nat \ {0} /\ MaxCode \in Nat \ {0}
    /\ OwnCodes \subseteq Nat /\ \A c \in OwnCodes : c > MaxCode
    /\ Corrections \subseteq {0} \cup OwnCodes

Users  == 1 .. MaxUsers
NoCode == 0

VARIABLES
    seq,        \* Company.employee_sequence
    doc,        \* branches and projects of Company.metadata_json
    people,     \* User rows
    revived,    \* history: employees who came back by a change of status
    reused,     \* history: has a number been given up, or given a second time?
    raced,      \* history: has a commit relied on a document or on rows since changed?
    op          \* the call each worker is in the middle of

vars == <<seq, doc, people, revived, reused, raced, op>>

-----------------------------------------------------------------------------
(* Rows *)

Document  == [branches : SUBSET Branches, projects : SUBSET Projects]
Workplace == [branches : {{}} \cup {{b} : b \in Branches},   \* one branch, or none
              projects : SUBSET Projects]
Person    == [status : {"absent", "live", "deleted"},
              code : 0 .. MaxCode \cup OwnCodes, work : Workplace]

Empty   == [branches |-> {}, projects |-> {}]
Nowhere == Empty
Unborn  == [status |-> "absent", code |-> NoCode, work |-> Nowhere]

Known == {u \in Users : people[u].status # "absent"}
Live  == {u \in Users : people[u].status = "live"}

(* A session's UPDATE names the columns whose value it changed.            *)
Changes(read, new) == [c \in {d \in DOMAIN read : new[d] # read[d]} |-> new[c]]
Written(row, changes) ==
    [c \in DOMAIN row |-> IF c \in DOMAIN changes THEN changes[c] ELSE row[c]]

(* users_company_employee_code_uq *)
Unique(rows) ==
    \A u, v \in Users : rows[u].code = rows[v].code /\ u # v => rows[u].code = NoCode

(* get_branch, resolve_projects: what the document does not list is dropped *)
Resolved(d, work) ==
    [branches |-> work.branches \cap d.branches, projects |-> work.projects \cap d.projects]

-----------------------------------------------------------------------------
(* Calls in progress *)

Idle == [kind |-> "idle"]

(* Fields of calls in progress:                                            *)
(*   seq, doc  the company as the session read it                          *)
(*   left      the rows to register, this one included                     *)
(*   loaded    does the session still hold the company?  A commit and a    *)
(*             rollback expire it                                          *)
(*   user, changes, number     a row to write, and the sequence's next     *)
(*             number as the session read it if the row needs a code         *)
(*   site      the document to write                                       *)
(*   cleared   the employees a deletion changes                            *)
Serving(w, kind) == op[w].kind = kind

Begin(w, call) ==
    /\ op[w] = Idle
    /\ op' = [op EXCEPT ![w] = call]
    /\ UNCHANGED <<seq, doc, people, revived, reused, raced>>

Finish(w) == op' = [op EXCEPT ![w] = Idle]

Abort(w) ==
    /\ op[w] # Idle
    /\ Finish(w)
    /\ UNCHANGED <<seq, doc, people, revived, reused, raced>>

(* Does a commit go by a document that has changed since it was read, or   *)
(* by a list of the employees to clear that is no longer complete?         *)
Stale(w) ==
    /\ op[w] # Idle
    /\ \/ op[w].doc # doc
       \/ /\ Serving(w, "clear")
          /\ \E u \in Users \ DOMAIN op[w].cleared :
                Resolved(op[w].site, people[u].work) # Resolved(doc, people[u].work)

(* Two calls take up the same removed employee, and both allocate a code:  *)
(* the second finds the number it computed in the very row it writes.      *)
GivenAgain(w) ==
    /\ op[w].kind = "restore"
    /\ op[w].number # NoCode
    /\ people[op[w].user].code = op[w].number

(* A commit of employees' rows, and what it leaves in the history          *)
Commit(w, rows, restored) ==
    /\ Unique(rows)
    /\ people' = rows
    /\ revived' = (revived \ {u \in Users : rows[u].status = "deleted"})
                  \cup {u \in Users \ restored :
                          people[u].status = "deleted" /\ rows[u].status = "live"}
    /\ reused' = (reused \/ GivenAgain(w) \/ \E u \in Users :
                      people[u].code \in 1 .. MaxCode /\ rows[u].code # people[u].code)
    /\ raced' = (raced \/ Stale(w))

-----------------------------------------------------------------------------
(* Registration: one employee, a list of them, or the rows of a file *)

(* Wrong: the rows to add are not counted.                                 *)
RoomLeft(n) == Cardinality(Live) <= Limit

(* assert_limit_available: the employees list_employees counts, and the    *)
(* rows to add                                                             *)
RoomFor(n) == Cardinality(Live) + n <= Limit

RegisterCheck(w, n) ==
    /\ RoomFor(n)
    /\ Begin(w, [kind |-> "rows", left |-> n, loaded |-> TRUE, seq |-> seq, doc |-> doc])

(* allocate_employee_code *)
Allocated(company) == company.seq + 1

(* The company a row is registered in, and what its document leaves of the *)
(* branch and the projects a payload may name                              *)
Company(w) == IF op[w].loaded THEN [seq |-> op[w].seq, doc |-> op[w].doc]
                              ELSE [seq |-> seq, doc |-> doc]
Offers(w)  == {Resolved(Company(w).doc, work) : work \in Workplace}

(* A row's lookup                                                          *)
LoadRow(w, kind, u, code, work) ==
    LET held == IF u \in Known THEN people[u].code ELSE NoCode
        new  == [status |-> "live", code |-> IF code = NoCode THEN held ELSE code,
                 work |-> work]
    IN  /\ Serving(w, "rows")
        /\ op' = [op EXCEPT ![w] =
                    [kind |-> kind, left |-> op[w].left, doc |-> Company(w).doc, user |-> u,
                     number |-> IF new.code = NoCode /\ kind # "reimport"
                                THEN Allocated(Company(w)) ELSE NoCode,
                     changes |-> IF u \in Known THEN Changes(people[u], new) ELSE new]]
        /\ UNCHANGED <<seq, doc, people, revived, reused, raced>>

(* Nobody has the payload's email or identifiers: a new employee           *)
RegisterNewRead(w, code, work) ==
    /\ \A u \in Known : code # NoCode => people[u].code # code
    /\ LoadRow(w, "insert", 0, code, work)

(* A removed employee has: the row is taken up again, with its code        *)
RegisterAgainRead(w, u, code, work) ==
    /\ people[u].status = "deleted"
    /\ LoadRow(w, "restore", u, code, work)

(* import_employees updates the employee a row's email names, and leaves   *)
(* one without a code so.                                                  *)
ImportUpdateRead(w, u, code, work) ==
    /\ people[u].status = "live"
    /\ LoadRow(w, "reimport", u, code, work)

(* The row is done, with success or without.                               *)
NextRow(w) ==
    op' = [op EXCEPT ![w] =
             IF op[w].left = 1 THEN Idle
             ELSE [kind |-> "rows", left |-> op[w].left - 1, loaded |-> FALSE,
                   seq |-> 0, doc |-> Empty]]

(* A refused row, or one that meets a unique constraint: a bulk call rolls *)
(* back and goes on with the next.                                         *)
RowFails(w) ==
    /\ op[w].kind \in {"rows", "insert", "restore", "reimport"}
    /\ NextRow(w)
    /\ UNCHANGED <<seq, doc, people, revived, reused, raced>>

(* Faults: the number is handed out and not saved; or a row with a code of *)
(* its own gives a number back.                                            *)
Unsaved(w)   == seq
GivenBack(w) == IF op[w].number = NoCode THEN seq - 1 ELSE op[w].number

(* The sequence after a row: the number allocated, were it lower by now    *)
Sequence(w) == IF op[w].number = NoCode THEN seq ELSE op[w].number

(* The UPDATE of the sequence and the employee's row are one transaction.  *)
CommitRow(w, u, old) ==
    LET row == Written(old, op[w].changes)
    IN  /\ op[w].number <= MaxCode
        /\ seq' = Sequence(w)
        /\ Commit(w, [people EXCEPT ![u] =
                        IF op[w].number = NoCode THEN row
                        ELSE [row EXCEPT !.code = op[w].number]],
                  {u})
        /\ NextRow(w)
        /\ UNCHANGED doc

RegisterNewCommit(w) ==
    /\ Serving(w, "insert")
    /\ Users # Known
    /\ CommitRow(w, Min(Users \ Known), Unborn)

RegisterAgainCommit(w) ==
    /\ Serving(w, "restore")
    /\ CommitRow(w, op[w].user, people[op[w].user])

ImportUpdateCommit(w) ==
    /\ Serving(w, "reimport")
    /\ Commit(w, [people EXCEPT ![op[w].user] = Written(@, op[w].changes)], {})
    /\ NextRow(w)
    /\ UNCHANGED <<seq, doc>>

-----------------------------------------------------------------------------
(* Changes to an employee.  Any status but deleted is live, so that a call *)
(* that sets the status may write it whatever it read.                     *)

(* What a payload makes of the branch and the projects, given or not       *)
Moves(u) ==
    {[k \in DOMAIN Nowhere |->
        IF k \in given THEN Resolved(doc, work)[k] ELSE people[u].work[k]] :
            given \in SUBSET DOMAIN Nowhere, work \in Workplace}

(* update_employee: a payload's code, branch and projects, where they are  *)
(* other than the employee's                                               *)
UpdateRead(w, u, kind, code, work) ==
    LET new == [people[u] EXCEPT !.code = code, !.work = work]
    IN  /\ new # people[u]
        /\ Begin(w, [kind |-> kind, doc |-> doc, user |-> u,
                     changes |-> Changes(people[u], new)])

UpdateCommit(w) ==
    /\ op[w].kind \in {"update", "set_status"}
    /\ LET u   == op[w].user
           row == Written(people[u], op[w].changes)
       IN  Commit(w, [people EXCEPT ![u] =
                        IF Serving(w, "update") THEN row ELSE [row EXCEPT !.status = "live"]],
                  {})
    /\ Finish(w)
    /\ UNCHANGED <<seq, doc>>

(* These calls write a status and go by nothing they read: their commit is *)
(* all there is to them.                                                   *)
SetStatus(w, u, status) ==
    /\ op[w] = Idle
    /\ u \in Known
    /\ Commit(w, [people EXCEPT ![u].status = status], {})
    /\ UNCHANGED <<seq, doc, op>>

UpdateStatus(w, u) == SetStatus(w, u, "live")

(* An administrator removes others only. *)
DeleteEmployee(w, u) ==
    /\ Known # {u}
    /\ SetStatus(w, u, "deleted")

-----------------------------------------------------------------------------
(* The company's document.  Every writer puts the whole of it back: branch *)
(* and project calls, and the settings, security policy, integration and   *)
(* ownership calls, which change other keys of it.                         *)

Rewrite(w, site) == Begin(w, [kind |-> "write", doc |-> doc, site |-> site])

UpsertBranchRead(w, b)  == Rewrite(w, [doc EXCEPT !.branches = @ \cup {b}])
UpsertProjectRead(w, p) == Rewrite(w, [doc EXCEPT !.projects = @ \cup {p}])
SettingsRead(w)         == Rewrite(w, doc)

WriteCommit(w) ==
    /\ Serving(w, "write")
    /\ doc' = op[w].site
    /\ raced' = (raced \/ Stale(w))
    /\ Finish(w)
    /\ UNCHANGED <<seq, people, revived, reused>>

(* Wrong: the metadata computed for the employees is never assigned to them. *)
NotCleared(site) == [u \in Users |-> people[u].work]

(* The employees who name what a deletion takes off the document, and what *)
(* it leaves them: of the kind deleted, what is still listed               *)
Cleared(site) ==
    [u \in {v \in Users : Resolved(site, people[v].work) # Resolved(doc, people[v].work)}
        |-> [k \in DOMAIN site |-> IF site[k] = doc[k] THEN people[u].work[k]
                                   ELSE people[u].work[k] \cap site[k]]]

DeleteRead(w, site) ==
    /\ site # doc
    /\ Begin(w, [kind |-> "clear", doc |-> doc, site |-> site, cleared |-> Cleared(site)])

DeleteBranchRead(w, b)  == DeleteRead(w, [doc EXCEPT !.branches = @ \ {b}])
DeleteProjectRead(w, p) == DeleteRead(w, [doc EXCEPT !.projects = @ \ {p}])

ClearCommit(w) ==
    /\ Serving(w, "clear")
    /\ doc' = op[w].site
    /\ Commit(w, [u \in Users |-> IF u \in DOMAIN op[w].cleared
                                  THEN [people[u] EXCEPT !.work = op[w].cleared[u]]
                                  ELSE people[u]], {})
    /\ Finish(w)
    /\ UNCHANGED seq

-----------------------------------------------------------------------------
(* bootstrap_company: the owner has the sequence's first code *)

Init ==
    /\ seq = 1
    /\ doc = Empty
    /\ people = [u \in Users |-> IF u = 1 THEN [Unborn EXCEPT !.status = "live", !.code = 1]
                                 ELSE Unborn]
    /\ revived = {}
    /\ reused = FALSE
    /\ raced = FALSE
    /\ op = [w \in Workers |-> Idle]

Codes == {NoCode} \cup OwnCodes

Register(w) ==
    \/ \E n \in 1 .. MaxRows : RegisterCheck(w, n)
    \/ /\ Serving(w, "rows")
       /\ \E code \in Codes, work \in Offers(w) :
            \/ RegisterNewRead(w, code, work)
            \/ \E u \in Known : \/ RegisterAgainRead(w, u, code, work)
                                \/ ImportUpdateRead(w, u, code, work)
    \/ RegisterNewCommit(w)
    \/ RegisterAgainCommit(w)
    \/ ImportUpdateCommit(w)
    \/ RowFails(w)

Administer(w) ==
    \/ /\ Serving(w, "idle")
       /\ \E u \in Known :
            \/ \E kind \in {"update", "set_status"},
                  code \in Corrections \cup {people[u].code},
                  work \in Moves(u) :
                  UpdateRead(w, u, kind, code, work)
            \/ UpdateStatus(w, u)
            \/ DeleteEmployee(w, u)
    \/ UpdateCommit(w)

Organize(w) ==
    \/ \E b \in Branches : UpsertBranchRead(w, b) \/ DeleteBranchRead(w, b)
    \/ \E p \in Projects : UpsertProjectRead(w, p) \/ DeleteProjectRead(w, p)
    \/ SettingsRead(w)
    \/ WriteCommit(w)
    \/ ClearCommit(w)

Next == \E w \in Workers : Register(w) \/ Administer(w) \/ Organize(w) \/ Abort(w)

Spec == Init /\ [][Next]_vars

-----------------------------------------------------------------------------
(* Properties *)

TypeOK ==
    /\ seq \in 0 .. MaxCode
    /\ doc \in Document
    /\ people \in [Users -> Person]
    /\ revived \subseteq Users
    /\ reused \in BOOLEAN /\ raced \in BOOLEAN
    /\ \A w \in Workers :
          op[w].kind \in {"idle", "rows", "insert", "restore", "reimport",
                         "update", "set_status", "write", "clear"}

(* No employee holds a number the sequence has yet to hand out, which      *)
(* would make every later registration without a code fail.  Overlapping   *)
(* calls compute the same next number, and would set the sequence back:    *)
(* the transaction of all but one meets the unique constraint and fails as *)
(* a whole.  Two things defeat that, an employee giving a number up and a  *)
(* removed employee taken up by two calls at once                          *)
(* (allocate_employee_code, register_employee, import_employees).          *)
SequenceNeverBehind ==
    reused \/ \A u \in Users : people[u].code \in 1 .. MaxCode => people[u].code <= seq

(* A plan's limit is checked before rows are registered, and each row is a *)
(* transaction: overlapping calls exceed it by no more than the rows they  *)
(* were let through with.  Employees brought back by a change of their     *)
(* status never pass the check (create_employee, create_bulk,              *)
(* import_employees, assert_limit_available).                              *)
LimitOvershootBounded ==
    Cardinality(Live \ revived) <= Max({Limit, 1}) + (Cardinality(Workers) - 1) * MaxRows

(* An employee's branch and projects are ones the company lists, whoever   *)
(* registers, moves, removes or reinstates the employee and whatever is    *)
(* deleted, unless some commit went by a document or by rows that had      *)
(* changed since it read them (upsert_branch, delete_branch,               *)
(* upsert_project, delete_project, get_branch, resolve_projects).          *)
ReferencesExist ==
    raced \/ \A u \in Users : Resolved(doc, people[u].work) = people[u].work
=============================================================================
