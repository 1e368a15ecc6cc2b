------------------------------ MODULE Scheduling ------------------------------
(***************************************************************************)
(* Shift templates of a company and the assignments of its employees to    *)
(* them (auth-service/app/services/scheduling.py, api/routes/scheduling.py,*)
(* models/scheduling.py).                                                  *)
(*                                                                         *)
(* A request that saves a template gives it a code no other template has,  *)
(* one that saves an assignment tests it for conflicts; both read first    *)
(* and commit later, and nothing holds two requests apart.  A request cut  *)
(* off before its commit leaves no trace.                                  *)
(*                                                                         *)
(* Rosters are left out: nothing reads them.  So are breaks, places, notes *)
(* and colours, and all statuses of an assignment but 'cancelled'.         *)
(***************************************************************************)
EXTENDS Integers, FiniteSetsExt

CONSTANTS Shifts,       \* ids of templates
          Assignments,  \* ids of assignments
          Employees, Days,
          Prefix,       \* the four letters made of each name
          Payloads,     \* what requests may ask a template to be
          Radix,        \* of the numbers in codes, 10 in the code
          Threads,      \* threads that serve requests
          Nothing,      \* no id
          MaxRequests   \* bound on requests

(* A code is a prefix alone, which counts as number 1, or followed by two  *)
(* digits.                                                                 *)
Numbered(numbers) == [prefix : {Prefix[n] : n \in DOMAIN Prefix}, number : numbers]
TemplateCodes == Numbered(1 .. Radix * Radix - 1)

Names == {p.name : p \in Payloads}
Times == {p.time : p \in Payloads}

ASSUME SchedulingAssumption ==
    /\ Radix \in Nat \ {0, 1}
    /\ Payloads \subseteq [status : {"active", "inactive"}, name : DOMAIN Prefix, time : Times,
                           code : TemplateCodes \union {Nothing}]
    /\ Nothing \notin Shifts \union Assignments \union Employees \union Days \union Numbered(Nat)
    /\ MaxRequests \in Nat

VARIABLES
    shifts,    \* ShiftTemplate rows
    rows,      \* ScheduleAssignment rows
    call,      \* what each worker is doing
    asked,     \* requests so far
    given,     \* history: templates whose code was asked for, not generated
    hurried,   \* history: templates saved while another save was under way
    cropped,   \* history: templates whose generated number had three digits
    edited,    \* history: templates given another name or another time
    excused    \* history: assignments forced, or saved while another save was under way

schedulingVars == <<shifts, rows, call, asked, given, hurried, cropped, edited, excused>>

-----------------------------------------------------------------------------
NoShift  == [status |-> "absent", name |-> Nothing, time |-> Nothing, code |-> Nothing]
Template ==
    {NoShift}
    \union [status : {"active", "inactive"}, name : Names, time : Times, code : TemplateCodes]

(* 'guests': the assignment has attendee_emails.                           *)
Place  == [who : Employees, day : Days, shift : Shifts, guests : BOOLEAN]
NoRow  == [status |-> "absent", at |-> Nothing]
Row    == {NoRow} \union [status : {"standing", "cancelled"}, at : Place]

(* 'read' is the row as the request read it, 'want' what it will store.    *)
Call == [stage : {"idle"}, of : {Nothing}, read : {NoRow}, want : {NoRow}]
          \union [stage : {"shift"}, of : Shifts, read : Template, want : Template \ {NoShift}]
          \union [stage : {"assign"}, of : Assignments, read : Row, want : Row \ {NoRow}]

SchedulingIdle == [stage |-> "idle", of |-> Nothing, read |-> NoRow, want |-> NoRow]

SchedulingTypeOK ==
    /\ shifts \in [Shifts -> Template]
    /\ rows \in [Assignments -> Row]
    /\ call \in [Threads -> Call]
    /\ given \subseteq Shifts /\ hurried \subseteq Shifts
    /\ cropped \subseteq Shifts /\ edited \subseteq Shifts
    /\ excused \subseteq Assignments
    /\ asked \in 0 .. MaxRequests

SchedulingInit ==
    /\ shifts = [s \in Shifts |-> NoShift]
    /\ rows = [a \in Assignments |-> NoRow]
    /\ call = [w \in Threads |-> SchedulingIdle]
    /\ asked = 0
    /\ given = {} /\ hurried = {} /\ cropped = {} /\ edited = {} /\ excused = {}

-----------------------------------------------------------------------------
Becomes(w, c) == call' = [call EXCEPT ![w] = c]
Request       == asked < MaxRequests /\ asked' = asked + 1

(* What the other workers are saving                                       *)
Saving(w, stage) == {call[v].of : v \in {u \in Threads \ {w} : call[u].stage = stage}}

(* Only columns that differ from what was read are written.                *)
Column(new, read, now) == IF new # read THEN new ELSE now

-----------------------------------------------------------------------------
(* upsert_shift *)

(* Wrong: the codes of inactive templates count as free                    *)
TakenActive(s) == {shifts[t].code : t \in {u \in Shifts \ {s} : shifts[u].status = "active"}}

Taken(s) == {shifts[t].code : t \in Shifts \ {s}}

(* The first code that is free.  One with three digits always is: stored   *)
(* codes have six characters.                                              *)
Counter(s, prefix) ==
    Min({n \in 1 .. Radix * Radix : [prefix |-> prefix, number |-> n] \notin Taken(s)})

(* code[:6]                                                                *)
Cropped(n) == IF n < Radix * Radix THEN n ELSE Radix

Generated(s, name) == [prefix |-> Prefix[name], number |-> Cropped(Counter(s, Prefix[name]))]

ShiftRead(w, s, p) ==
    LET chosen == p.code # Nothing
        want   == [p EXCEPT !.code = IF chosen THEN p.code ELSE Generated(s, p.name)]
    IN
    /\ call[w] = SchedulingIdle /\ Request
    /\ Becomes(w, [stage |-> "shift", of |-> s, read |-> shifts[s], want |-> want])
    /\ given' = IF chosen THEN given \union {s} ELSE given
    /\ cropped' = IF ~chosen /\ Counter(s, Prefix[p.name]) = Radix * Radix
                  THEN cropped \union {s} ELSE cropped
    /\ hurried' = IF Saving(w, "shift") = {} THEN hurried
                  ELSE hurried \union {s} \union Saving(w, "shift")
    /\ UNCHANGED <<shifts, rows, edited, excused>>

ShiftCommit(w) ==
    LET s == call[w].of read == call[w].read want == call[w].want IN
    /\ call[w].stage = "shift"
    /\ shifts' = [shifts EXCEPT ![s] =
                     [status |-> Column(want.status, read.status, @.status),
                      name   |-> Column(want.name, read.name, @.name),
                      time   |-> Column(want.time, read.time, @.time),
                      code   |-> Column(want.code, read.code, @.code)]]
    /\ edited' = IF /\ shifts[s] # NoShift
                    /\ shifts'[s].name # shifts[s].name \/ shifts'[s].time # shifts[s].time
                 THEN edited \union {s} ELSE edited
    /\ Becomes(w, SchedulingIdle)
    /\ UNCHANGED <<rows, asked, given, hurried, cropped, excused>>

(* delete_shift                                                            *)
DeleteShift(w, s) ==
    /\ call[w] = SchedulingIdle /\ Request
    /\ shifts[s] # NoShift
    /\ shifts' = [shifts EXCEPT ![s].status = "inactive"]
    /\ UNCHANGED <<rows, call, given, hurried, cropped, edited, excused>>

-----------------------------------------------------------------------------
(* upsert_assignment *)

(* _schedule_conflict: overlapping times of different shifts are not one.  *)
Clash(s, t) == s = t \/ shifts[s].name = shifts[t].name \/ shifts[s].time = shifts[t].time

(* _assignment_entry_kind: an assignment with attendees is taken for a     *)
(* meeting, and meetings are no conflict.                                  *)
IsShift(at) == ~at.guests

(* Wrong: only the same shift is a conflict                                *)
ConflictsSame(a, at) ==
    {b \in Assignments \ {a} : rows[b].status = "standing" /\ rows[b].at = at}

Conflicts(a, at) ==
    {b \in Assignments \ {a} :
        /\ rows[b].status = "standing"
        /\ rows[b].at.who = at.who /\ rows[b].at.day = at.day
        /\ IsShift(rows[b].at)
        /\ Clash(at.shift, rows[b].at.shift)}

AssignRead(w, a, status, at, force) ==
    LET clash == Conflicts(a, at) # {} IN
    /\ call[w] = SchedulingIdle /\ Request
    /\ shifts[at.shift].status = "active"
    /\ clash => force
    /\ Becomes(w, [stage |-> "assign", of |-> a, read |-> rows[a],
                   want |-> [status |-> status, at |-> at]])
    /\ excused' = IF Saving(w, "assign") = {} /\ ~clash THEN excused
                  ELSE excused \union {a} \union Saving(w, "assign")
    /\ UNCHANGED <<shifts, rows, given, hurried, cropped, edited>>

AssignCommit(w) ==
    LET a == call[w].of read == call[w].read want == call[w].want IN
    /\ call[w].stage = "assign"
    /\ rows' = [rows EXCEPT ![a] =
                   [status |-> Column(want.status, read.status, @.status),
                    at |-> IF read = NoRow THEN want.at
                           ELSE [who    |-> Column(want.at.who, read.at.who, @.at.who),
                                 day    |-> Column(want.at.day, read.at.day, @.at.day),
                                 shift  |-> Column(want.at.shift, read.at.shift, @.at.shift),
                                 guests |-> Column(want.at.guests, read.at.guests, @.at.guests)]]]
    /\ Becomes(w, SchedulingIdle)
    /\ UNCHANGED <<shifts, asked, given, hurried, cropped, edited, excused>>

(* delete_assignment                                                       *)
DeleteAssignment(w, a) ==
    /\ call[w] = SchedulingIdle /\ Request
    /\ rows[a] # NoRow
    /\ rows' = [rows EXCEPT ![a].status = "cancelled"]
    /\ UNCHANGED <<shifts, call, given, hurried, cropped, edited, excused>>

-----------------------------------------------------------------------------
ShiftRoutes(w) ==
    \/ \E s \in Shifts :
        \/ \E p \in Payloads : ShiftRead(w, s, p)
        \/ DeleteShift(w, s)
    \/ ShiftCommit(w)

AssignmentRoutes(w) ==
    \/ \E a \in Assignments :
        \/ \E status \in {"standing", "cancelled"}, at \in Place, force \in BOOLEAN :
            AssignRead(w, a, status, at, force)
        \/ DeleteAssignment(w, a)
    \/ AssignCommit(w)

SchedulingNext == \E w \in Threads : ShiftRoutes(w) \/ AssignmentRoutes(w)

SchedulingSpec == SchedulingInit /\ [][SchedulingNext]_schedulingVars

-----------------------------------------------------------------------------
(* Properties *)

(* Two templates have the same code only if one of them asked for it, or   *)
(* was saved while another was being saved, or came when all numbers of    *)
(* two digits were taken: all such templates get the same code.            *)
CodesExplained ==
    \A s, t \in Shifts :
        s # t /\ shifts[s] # NoShift /\ shifts[s].code = shifts[t].code
        => {s, t} \intersect (given \union hurried \union cropped) # {}

(* An employee stands twice on a day in the same shift, or in two of the   *)
(* same name or time, only if that was forced, or two assignments were     *)
(* being saved at once, or one has attendees, or, for different shifts,    *)
(* one of the two has been given its name or time since.                   *)
AssignmentsExplained ==
    \A a, b \in Assignments :
        LET p == rows[a].at q == rows[b].at IN
        /\ a # b /\ rows[a].status = "standing" /\ rows[b].status = "standing"
        /\ p.who = q.who /\ p.day = q.day /\ Clash(p.shift, q.shift)
        => \/ {a, b} \intersect excused # {}
           \/ p.guests \/ q.guests
           \/ p.shift # q.shift /\ {p.shift, q.shift} \intersect edited # {}
=============================================================================
