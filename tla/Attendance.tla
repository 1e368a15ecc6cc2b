----------------------------- MODULE Attendance -----------------------------
(***************************************************************************)
(* The attendance service: sessions, breaks, manual entries, day resets,   *)
(* correction requests and their review, and period locks                  *)
(* (attendance-service/app/services/attendance_service.py).                *)
(*                                                                         *)
(* Every handler runs in a worker thread with a database session of its    *)
(* own, reads what it needs under READ COMMITTED, and writes and commits   *)
(* afterwards: no row is locked between the reads and the commit, and no   *)
(* table but its primary key is unique.  A handler is therefore a Read     *)
(* action, which applies the early returns and remembers what was read in  *)
(* op[w], and a Commit action, which writes from what was remembered.  A   *)
(* handler that refuses a request changes nothing and has no action.       *)
(*                                                                         *)
(* Instants are numbers; DayOf maps an instant to its local date.  Row ids *)
(* are handed out in order and never reused.  Minutes are not computed     *)
(* here: basis[e] is what the stored minutes of e were computed from.      *)
(* One company is modelled: every query is scoped by company_id.           *)
(***************************************************************************)
EXTENDS Integers, FiniteSets

CONSTANTS Users,           \* employees of the company
          Workers,         \* request threads
          Times,           \* instants a client may name
          DayOf,           \* local_date_for: [Times -> Int]
          Today,           \* today_date()
          Wishes,          \* what the correction requests of an instance ask for
          Periods,         \* the periods an instance locks, as <<from, to>>
          MaxEntries, MaxBreaks, MaxCorrections, MaxLocks   \* bounds on ids

NoTime == 0                \* NULL in a DateTime column

(* requested_check_in_at, requested_check_out_at, requested_break_minutes  *)
(* (not given, zero, or some): of a request for correction                 *)
Wish == [in : Times \cup {NoTime}, out : Times \cup {NoTime},
         rest : {"keep", "none", "some"}]

ASSUME TimesAssumption ==
    /\ Times \subseteq Nat \ {NoTime}
    /\ DayOf \in [Times -> Int]
    /\ Today \in Int
    /\ Users # {}
    /\ Wishes \subseteq Wish
    /\ Periods \subseteq Int \X Int
    /\ {MaxEntries, MaxBreaks, MaxCorrections, MaxLocks} \subseteq Nat

ASSUME WorkersAssumption == IsFiniteSet(Workers)   \* the thread pool

Days        == {DayOf[t] : t \in Times}
Entries     == 1 .. MaxEntries
Breaks      == 1 .. MaxBreaks
Corrections == 1 .. MaxCorrections
Locks       == 1 .. MaxLocks
MaybeTime   == Times \cup {NoTime}

VARIABLES
    status,       \* AttendanceEntry.status, or "absent" / "deleted"
    owner,        \* AttendanceEntry.user_id
    date,         \* AttendanceEntry.date
    checkIn,      \* AttendanceEntry.check_in_at
    checkOut,     \* AttendanceEntry.check_out_at
    basis,        \* what worked/break/late/... minutes were computed from
    running,      \* breaks of the entry with end_at NULL
    ended,        \* breaks of the entry with end_at set
    nextBreak,    \* first unused break id
    corrStatus,   \* AttendanceCorrectionRequest.status, "absent" / "deleted"
    ask,          \* what the correction asks for
    approval,     \* status of the AttendanceApproval inserted with it
    lock,         \* AttendanceLock rows
    op,           \* the request each worker is in the middle of
    unsettled     \* history: entries committed with no rebuild committed since

entryVars == <<status, owner, date, checkIn, checkOut, basis>>
breakVars == <<running, ended, nextBreak>>
corrVars  == <<corrStatus, ask, approval>>
vars == <<entryVars, breakVars, corrVars, lock, op, unsettled>>

-----------------------------------------------------------------------------
(* Rows *)

EntryStatus == {"absent", "open", "closed", "corrected", "locked", "deleted"}
CorrStatus  == {"absent", "pending", "approved", "rejected", "deleted"}
Decision    == {"approved", "rejected"}
Basis       == [in : MaybeTime, out : MaybeTime, pauses : SUBSET Breaks]
Ask         == [entry : Entries \cup {0}, wish : Wish]
NoAsk       == [entry |-> 0, wish |-> [in |-> NoTime, out |-> NoTime, rest |-> "keep"]]
Lock        == [status : {"absent", "locked", "unlocked"}, from : Int, to : Int]
Snapshot    == [status : EntryStatus, in : MaybeTime, out : MaybeTime,
                basis : Basis, running : SUBSET Breaks]

(* The minutes of an entry depend on its times and on its ended breaks;    *)
(* breaks count for nothing while check_out_at is NULL.                    *)
Metrics(i, o, pauses) ==
    [in |-> i, out |-> o, pauses |-> IF o = NoTime THEN {} ELSE pauses]

NoMinutes == Metrics(NoTime, NoTime, {})   \* the columns' defaults, all 0

(* What a session object holds of an entry once it has been loaded: with   *)
(* expire_on_commit=False it is never refreshed.                           *)
Loaded(e) == [status |-> status[e], in |-> checkIn[e], out |-> checkOut[e],
              basis |-> basis[e], running |-> running[e]]

(* The copy of an entry the same session has just inserted *)
Inserted(s, i, o) == [status |-> s, in |-> i, out |-> o,
                      basis |-> NoMinutes, running |-> {}]

(* The ORM writes a column only when the new value differs from the value  *)
(* it loaded; otherwise the stored value stays, whatever it has become.    *)
Written(loaded, new, stored) == IF new = loaded THEN stored ELSE new

InDb(e)  == status[e] \notin {"absent", "deleted"}
CorrInDb(c) == corrStatus[c] \notin {"absent", "deleted"}

NewEntry(e) == status[e] = "absent" /\ \A f \in Entries : f < e => status[f] # "absent"
NewCorr(c)  == corrStatus[c] = "absent" /\ \A d \in Corrections : d < c => corrStatus[d] # "absent"
NewLock(l)  == lock[l].status = "absent" /\ \A k \in Locks : k < l => lock[k].status # "absent"

Covers(l, d) == lock[l].from <= d /\ d <= lock[l].to
Active(l)    == lock[l].status = "locked"

(* is_locked *)
IsLocked(d) == \E l \in Locks : Active(l) /\ Covers(l, d)

OpenSessions(u) == {e \in Entries : status[e] = "open" /\ owner[e] = u}

(* get_open_attendance: the open session with the latest check_in_at *)
LatestOpen(u) ==
    {e \in OpenSessions(u) : \A f \in OpenSessions(u) : checkIn[f] <= checkIn[e]}

OnDay(u, d) == {e \in Entries : InDb(e) /\ owner[e] = u /\ date[e] = d}

(* Wrong: only closed entries are searched for approvals. *)
SlipsOnClosed(e) ==
    {c \in Corrections : approval[c] = "pending" /\ ask[c].entry = e /\ status[e] = "closed"}

PendingOn(e) == {c \in Corrections : corrStatus[c] = "pending" /\ ask[c].entry = e}
SlipsOn(e)   == {c \in Corrections : approval[c] = "pending" /\ ask[c].entry = e}

(* Query.first() with no ORDER BY: any one row, or none *)
AnyOne(S) == IF S = {} THEN {{}} ELSE {{x} : x \in S}

-----------------------------------------------------------------------------
(* Requests in progress *)

Idle == [kind |-> "idle"]

CheckIn    == [kind : {"check_in"}, user : Users, time : Times, kiosk : BOOLEAN]
CheckOut   == [kind : {"check_out"}, entry : Entries, time : Times,
               ending : SUBSET Breaks, loaded : Snapshot]
StartBreak == [kind : {"start_break"}, entry : Entries]
EndBreak   == [kind : {"end_break"}, entry : Entries, ending : SUBSET Breaks,
               loaded : Snapshot]
ManualOne  == [kind : {"manual"}, user : Users, in : Times, out : Times,
               rest : BOOLEAN, self : BOOLEAN]
Reset      == [kind : {"reset"}, rows : SUBSET Entries]
Correct    == [kind : {"correct"}, ask : Ask]
Review     == [kind : {"review"}, corr : Corrections, seen : CorrStatus,
               decision : Decision, slip : SUBSET Corrections, loaded : Snapshot]
Rebuild    == [kind : {"rebuild"}, entry : Entries, loaded : Snapshot]

Request == {Idle} \cup CheckIn \cup CheckOut \cup StartBreak \cup EndBreak
           \cup ManualOne \cup Reset \cup Correct \cup Review \cup Rebuild

Begin(w, request) ==
    /\ op[w] = Idle
    /\ op' = [op EXCEPT ![w] = request]
    /\ UNCHANGED <<entryVars, breakVars, corrVars, lock, unsettled>>

Serving(w, kind) == op[w].kind = kind

Finish(w) == op' = [op EXCEPT ![w] = Idle]

(* The commit is done and the handler still has minutes to recompute.      *)
Rebuilding(w, e, copy) ==
    op' = [op EXCEPT ![w] = [kind |-> "rebuild", entry |-> e, loaded |-> copy]]

(* The request dies before its next commit: an IntegrityError, an UPDATE   *)
(* that matches no row, a lost connection, a crash.  What it has flushed   *)
(* is rolled back, what it has committed stays.                            *)
Abort(w) ==
    /\ op[w] # Idle
    /\ Finish(w)
    /\ UNCHANGED <<entryVars, breakVars, corrVars, lock, unsettled>>

(* INSERT of an attendance entry under the next id *)
Insert(e, u, d, i, o, s) ==
    /\ NewEntry(e)
    /\ status' = [status EXCEPT ![e] = s]
    /\ owner' = [owner EXCEPT ![e] = u]
    /\ date' = [date EXCEPT ![e] = d]
    /\ checkIn' = [checkIn EXCEPT ![e] = i]
    /\ checkOut' = [checkOut EXCEPT ![e] = o]
    /\ unsettled' = unsettled \cup {e}
    /\ UNCHANGED basis

-----------------------------------------------------------------------------
(* Checking in *)

(* check_in up to db.add: the day is not locked, the user has no open      *)
(* session, and no session of that day has been checked out.               *)
CheckInRead(w, u, t, kiosk) ==
    /\ ~IsLocked(DayOf[t])
    /\ OpenSessions(u) = {}
    /\ \A e \in OnDay(u, DayOf[t]) : checkOut[e] = NoTime
    /\ Begin(w, [kind |-> "check_in", user |-> u, time |-> t, kiosk |-> kiosk])

(* The insert and its commit.  The rebuild after it is only flushed, except*)
(* for kiosk_check_in, which commits again.                                *)
CheckInCommit(w) ==
    /\ Serving(w, "check_in")
    /\ \E e \in Entries :
         /\ Insert(e, op[w].user, DayOf[op[w].time], op[w].time, NoTime, "open")
         /\ IF op[w].kiosk
              THEN Rebuilding(w, e, Inserted("open", op[w].time, NoTime))
              ELSE Finish(w)
    /\ UNCHANGED <<breakVars, corrVars, lock>>

(* Checking out *)

CheckOutRead(w, u, t) ==
    \E e \in LatestOpen(u) : \E b \in AnyOne(running[e]) :
        Begin(w, [kind |-> "check_out", entry |-> e, time |-> t,
                  ending |-> b, loaded |-> Loaded(e)])

(* Wrong: the minutes are rebuilt from the times read before check-out. *)
CheckedOutLate(copy, t, breaks) == [copy EXCEPT !.status = "closed", !.running = @ \ breaks]

(* The session's copy after its own assignments *)
CheckedOut(copy, t, breaks) ==
    [copy EXCEPT !.status = "closed", !.out = t, !.running = @ \ breaks]

(* Ends the break that was read, closes the session, commits; nothing is   *)
(* re-read, and the rebuild comes in a second transaction.                 *)
CheckOutCommit(w) ==
    LET e == op[w].entry
        t == op[w].time
    IN
    /\ Serving(w, "check_out")
    /\ InDb(e)
    /\ op[w].ending \subseteq running[e] \cup ended[e]
    /\ running' = [running EXCEPT ![e] = @ \ op[w].ending]
    /\ ended' = [ended EXCEPT ![e] = @ \cup op[w].ending]
    /\ status' = [status EXCEPT ![e] = "closed"]
    /\ checkOut' = [checkOut EXCEPT ![e] = t]
    /\ unsettled' = unsettled \cup {e}
    /\ Rebuilding(w, e, CheckedOut(op[w].loaded, t, op[w].ending))
    /\ UNCHANGED <<owner, date, checkIn, basis, nextBreak, corrVars, lock>>

(* rebuild_entry_metrics and its commit: the times come from the copy of   *)
(* the entry in the session, the breaks from a new query, in which a break *)
(* the session has loaded as running is still running.                     *)
RebuildCommit(w) ==
    LET e   == op[w].entry
        old == op[w].loaded
    IN
    /\ Serving(w, "rebuild")
    /\ InDb(e)
    /\ basis' = [basis EXCEPT
                   ![e] = Written(old.basis, Metrics(old.in, old.out, ended[e] \ old.running), @)]
    /\ unsettled' = unsettled \ {e}
    /\ Finish(w)
    /\ UNCHANGED <<status, owner, date, checkIn, checkOut, breakVars, corrVars, lock>>

-----------------------------------------------------------------------------
(* Breaks *)

(* Wrong: a break can be started while one is running. *)
StartBreakAgain(w, u) ==
    \E e \in LatestOpen(u) : Begin(w, [kind |-> "start_break", entry |-> e])

StartBreakRead(w, u) ==
    \E e \in LatestOpen(u) :
        /\ running[e] = {}
        /\ Begin(w, [kind |-> "start_break", entry |-> e])

StartBreakCommit(w) ==
    LET e == op[w].entry IN
    /\ Serving(w, "start_break")
    /\ InDb(e)
    /\ nextBreak \in Breaks
    /\ running' = [running EXCEPT ![e] = @ \cup {nextBreak}]
    /\ nextBreak' = nextBreak + 1
    /\ Finish(w)
    /\ UNCHANGED <<entryVars, ended, corrVars, lock, unsettled>>

EndBreakRead(w, u) ==
    \E e \in LatestOpen(u) : \E b \in running[e] :
        Begin(w, [kind |-> "end_break", entry |-> e, ending |-> {b},
                  loaded |-> Loaded(e)])

EndBreakCommit(w) ==
    LET e == op[w].entry IN
    /\ Serving(w, "end_break")
    /\ op[w].ending \subseteq running[e] \cup ended[e]
    /\ running' = [running EXCEPT ![e] = @ \ op[w].ending]
    /\ ended' = [ended EXCEPT ![e] = @ \cup op[w].ending]
    /\ unsettled' = unsettled \cup {e}
    /\ Rebuilding(w, e, [op[w].loaded EXCEPT !.running = @ \ op[w].ending])
    /\ UNCHANGED <<entryVars, nextBreak, corrVars, lock>>

-----------------------------------------------------------------------------
(* Manual entries and resets *)

(* create_manual_entry's checks.  A break is taken to be shorter than one  *)
(* tick, so that it always fits a positive span.                           *)
ManualRead(w, u, i, o, rest, self) ==
    LET d == DayOf[i] IN
    /\ d <= Today
    /\ DayOf[o] = d
    /\ ~IsLocked(d)
    /\ i < o
    /\ OnDay(u, d) = {}
    /\ Begin(w, [kind |-> "manual", user |-> u, in |-> i, out |-> o,
                 rest |-> rest, self |-> self])

(* The insert, with its break, and its commit.  create_manual_entry only   *)
(* flushes the rebuild; submit_self_entry commits it with its audit row.   *)
ManualCommit(w) ==
    LET r == op[w] IN
    /\ Serving(w, "manual")
    /\ \E e \in Entries :
         /\ Insert(e, r.user, DayOf[r.in], r.in, r.out, "corrected")
         /\ IF r.rest
              THEN /\ nextBreak \in Breaks
                   /\ ended' = [ended EXCEPT ![e] = {nextBreak}]
                   /\ nextBreak' = nextBreak + 1
              ELSE UNCHANGED <<ended, nextBreak>>
         /\ IF r.self
              THEN Rebuilding(w, e, Inserted("corrected", r.in, r.out))
              ELSE Finish(w)
    /\ UNCHANGED <<running, corrVars, lock>>

(* Wrong: the reset does not ask whether the day is locked. *)
ResetUnchecked(w, u, d) ==
    /\ d <= Today
    /\ OnDay(u, d) # {}
    /\ Begin(w, [kind |-> "reset", rows |-> OnDay(u, d)])

(* reset_self_date: what it will delete is decided by the rows it reads *)
ResetRead(w, u, d) ==
    /\ d <= Today
    /\ ~IsLocked(d)
    /\ OnDay(u, d) # {}
    /\ Begin(w, [kind |-> "reset", rows |-> OnDay(u, d)])

(* The entries go with all their breaks, corrections and approvals. *)
ResetCommit(w) ==
    LET gone == op[w].rows
        orphan(c) == corrStatus[c] # "absent" /\ ask[c].entry \in gone
    IN
    /\ Serving(w, "reset")
    /\ status' = [e \in Entries |-> IF e \in gone THEN "deleted" ELSE status[e]]
    /\ running' = [e \in Entries |-> IF e \in gone THEN {} ELSE running[e]]
    /\ ended' = [e \in Entries |-> IF e \in gone THEN {} ELSE ended[e]]
    /\ corrStatus' = [c \in Corrections |->
                        IF orphan(c) THEN "deleted" ELSE corrStatus[c]]
    /\ approval' = [c \in Corrections |->
                        IF orphan(c) THEN "deleted" ELSE approval[c]]
    /\ checkIn' = [e \in Entries |-> IF e \in gone THEN NoTime ELSE checkIn[e]]
    /\ checkOut' = [e \in Entries |-> IF e \in gone THEN NoTime ELSE checkOut[e]]
    /\ basis' = [e \in Entries |-> IF e \in gone THEN NoMinutes ELSE basis[e]]
    /\ unsettled' = unsettled \ gone
    /\ Finish(w)
    /\ UNCHANGED <<owner, date, nextBreak, ask, lock>>
-----------------------------------------------------------------------------
(* Corrections *)

(* request_correction's checks: the entry exists, nothing is pending for   *)
(* it, something is asked for, and a new break total has a span to fit in. *)
CorrectRead(w, e, a) ==
    LET i == IF a.in # NoTime THEN a.in ELSE checkIn[e]
        o == IF a.out # NoTime THEN a.out ELSE checkOut[e]
    IN
    /\ InDb(e)
    /\ PendingOn(e) = {}
    /\ a.in # NoTime \/ a.out # NoTime \/ a.rest # "keep"
    /\ a.rest # "keep" => i # NoTime /\ o # NoTime /\ i < o
    /\ Begin(w, [kind |-> "correct", ask |-> [entry |-> e, wish |-> a]])

CorrectCommit(w) ==
    LET a == op[w].ask IN
    /\ Serving(w, "correct")
    /\ InDb(a.entry)
    /\ \E c \in Corrections :
         /\ NewCorr(c)
         /\ corrStatus' = [corrStatus EXCEPT ![c] = "pending"]
         /\ ask' = [ask EXCEPT ![c] = a]
         /\ approval' = [approval EXCEPT ![c] = "pending"]
    /\ Finish(w)
    /\ UNCHANGED <<entryVars, breakVars, lock, unsettled>>

(* review_correction looks the request up by id only: not by its status,   *)
(* and not whether the day has been locked.  The approval it will decide   *)
(* is any pending one of the same entry.                                   *)
ReviewRead(w, c, decision) ==
    /\ CorrInDb(c)
    /\ \E s \in AnyOne(SlipsOn(ask[c].entry)) :
         Begin(w, [kind |-> "review", corr |-> c, seen |-> corrStatus[c],
                   decision |-> decision, slip |-> s,
                   loaded |-> Loaded(ask[c].entry)])

(* An approval rewrites the entry and its breaks, sets it 'corrected' and  *)
(* rebuilds its minutes, all in the transaction of the decision.           *)
Apply(c, old) ==
    LET a    == ask[c].wish
        e    == ask[c].entry
        i    == IF a.in # NoTime THEN a.in ELSE old.in
        o    == IF a.out # NoTime THEN a.out ELSE old.out
        span == i # NoTime /\ o # NoTime /\ i < o
    IN
    /\ IF a.rest = "keep"
         THEN UNCHANGED breakVars
         ELSE /\ running' = [running EXCEPT ![e] = {}]
              /\ IF a.rest = "some" /\ span
                   THEN /\ nextBreak \in Breaks
                        /\ ended' = [ended EXCEPT ![e] = {nextBreak}]
                        /\ nextBreak' = nextBreak + 1
                   ELSE /\ ended' = [ended EXCEPT ![e] = {}]
                        /\ UNCHANGED nextBreak
    /\ status' = [status EXCEPT ![e] = Written(old.status, "corrected", @)]
    /\ checkIn' = [checkIn EXCEPT ![e] = Written(old.in, i, @)]
    /\ checkOut' = [checkOut EXCEPT ![e] = Written(old.out, o, @)]
    /\ basis' = [basis EXCEPT ![e] = Written(old.basis, Metrics(i, o, ended'[e]), @)]
    /\ unsettled' = unsettled \ {e}

ReviewCommit(w) ==
    LET r == op[w]
        c == r.corr
    IN
    /\ Serving(w, "review")
    /\ CorrInDb(c)
    /\ corrStatus' = [corrStatus EXCEPT ![c] = Written(r.seen, r.decision, @)]
    /\ approval' = [d \in Corrections |->
                      IF d \in r.slip THEN r.decision ELSE approval[d]]
    /\ IF r.decision = "approved"
         THEN Apply(c, r.loaded)
         ELSE UNCHANGED <<status, checkIn, checkOut, basis, breakVars, unsettled>>
    /\ Finish(w)
    /\ UNCHANGED <<owner, date, ask, lock>>

-----------------------------------------------------------------------------
(* Period locks: one short transaction each *)

(* Inserts the lock and marks every entry of the period that is not open. *)
LockPeriod(w, from, to) ==
    /\ op[w] = Idle
    /\ \E l \in Locks :
         /\ NewLock(l)
         /\ lock' = [lock EXCEPT ![l] = [status |-> "locked", from |-> from, to |-> to]]
    /\ status' = [e \in Entries |->
                    IF InDb(e) /\ status[e] # "open" /\ from <= date[e] /\ date[e] <= to
                      THEN "locked" ELSE status[e]]
    /\ UNCHANGED <<owner, date, checkIn, checkOut, basis, breakVars, corrVars, op, unsettled>>

(* Wrong: any other lock row of the day keeps it marked, also a released one. *)
UnmarkedUnlessCovered(l) ==
    {e \in Entries : /\ status[e] = "locked" /\ Covers(l, date[e])
                     /\ ~ \E k \in Locks \ {l} : lock[k].status # "absent" /\ Covers(k, date[e])}

(* The entries an unlock turns back to 'closed' *)
Unmarked(l) == {e \in Entries : status[e] = "locked" /\ Covers(l, date[e])}

(* Any lock row may be unlocked, whatever its status; every entry of its   *)
(* period that is 'locked' becomes 'closed', whichever lock marked it.     *)
UnlockPeriod(w, l) ==
    /\ op[w] = Idle
    /\ lock[l].status # "absent"
    /\ lock' = [lock EXCEPT ![l].status = "unlocked"]
    /\ status' = [e \in Entries |->
                    IF e \in Unmarked(l) THEN "closed" ELSE status[e]]
    /\ UNCHANGED <<owner, date, checkIn, checkOut, basis, breakVars, corrVars, op, unsettled>>

-----------------------------------------------------------------------------
(* Specification *)

Init ==
    /\ status = [e \in Entries |-> "absent"]
    /\ owner = [e \in Entries |-> CHOOSE u \in Users : TRUE]
    /\ date = [e \in Entries |-> 0]
    /\ checkIn = [e \in Entries |-> NoTime]
    /\ checkOut = [e \in Entries |-> NoTime]
    /\ basis = [e \in Entries |-> NoMinutes]
    /\ running = [e \in Entries |-> {}]
    /\ ended = [e \in Entries |-> {}]
    /\ nextBreak = 1
    /\ corrStatus = [c \in Corrections |-> "absent"]
    /\ ask = [c \in Corrections |-> NoAsk]
    /\ approval = [c \in Corrections |-> "absent"]
    /\ lock = [l \in Locks |-> [status |-> "absent", from |-> 0, to |-> 0]]
    /\ op = [w \in Workers |-> Idle]
    /\ unsettled = {}

Session(w) ==
    \/ \E u \in Users, t \in Times, k \in BOOLEAN : CheckInRead(w, u, t, k)
    \/ CheckInCommit(w)
    \/ \E u \in Users, t \in Times : CheckOutRead(w, u, t)
    \/ CheckOutCommit(w)
    \/ RebuildCommit(w)

Break(w) ==
    \/ \E u \in Users : StartBreakRead(w, u)
    \/ StartBreakCommit(w)
    \/ \E u \in Users : EndBreakRead(w, u)
    \/ EndBreakCommit(w)

Manual(w) ==
    \/ \E u \in Users, i, o \in Times, rest, self \in BOOLEAN :
          ManualRead(w, u, i, o, rest, self)
    \/ ManualCommit(w)
    \/ \E u \in Users, d \in Days : ResetRead(w, u, d)
    \/ ResetCommit(w)

Correction(w) ==
    \/ \E e \in Entries, a \in Wishes : CorrectRead(w, e, a)
    \/ CorrectCommit(w)
    \/ \E c \in Corrections, d \in Decision : ReviewRead(w, c, d)
    \/ ReviewCommit(w)

Period(w) ==
    \/ \E p \in Periods : LockPeriod(w, p[1], p[2])
    \/ \E l \in Locks : UnlockPeriod(w, l)

Next == \E w \in Workers :
    Session(w) \/ Break(w) \/ Manual(w) \/ Correction(w) \/ Period(w) \/ Abort(w)

Spec == Init /\ [][Next]_vars
-----------------------------------------------------------------------------
(* Properties *)

(* Every variable keeps the shape of the rows and requests it stands for   *)
(* (models/attendance.py).                                                 *)
TypeOK ==
    /\ status \in [Entries -> EntryStatus]
    /\ owner \in [Entries -> Users]
    /\ date \in [Entries -> Int]
    /\ checkIn \in [Entries -> MaybeTime]
    /\ checkOut \in [Entries -> MaybeTime]
    /\ basis \in [Entries -> Basis]
    /\ running \in [Entries -> SUBSET Breaks]
    /\ ended \in [Entries -> SUBSET Breaks]
    /\ nextBreak \in Nat \ {0}
    /\ corrStatus \in [Corrections -> CorrStatus]
    /\ ask \in [Corrections -> Ask]
    /\ approval \in [Corrections -> CorrStatus]
    /\ lock \in [Locks -> Lock]
    /\ op \in [Workers -> Request]
    /\ unsettled \subseteq Entries

(* check_in refuses a user who has an open session, but nothing makes the  *)
(* insert and that test one step.  A user never has more open sessions     *)
(* than there are requests served at once: with one worker, never two.     *)
OpenSessionsBounded ==
    \A u \in Users :
        Cardinality({e \in Entries : status[e] = "open" /\ owner[e] = u})
            <= Cardinality(Workers)

(* start_break refuses a second running break in the same way: the breaks  *)
(* running on one session never outnumber the requests served at once.     *)
RunningBreaksBounded ==
    \A e \in Entries : Cardinality(running[e]) <= Cardinality(Workers)

(* request_correction refuses an entry that has a pending request: those   *)
(* pending for one entry never outnumber the requests served at once.      *)
PendingCorrectionsBounded ==
    \A e \in Entries :
        Cardinality({c \in Corrections : corrStatus[c] = "pending" /\ ask[c].entry = e})
            <= Cardinality(Workers)

(* What a handler tests before it inserts - no open session of the user,   *)
(* no running break, no pending request - is never there more often than   *)
(* handlers run at once; served one at a time, it is there once.           *)
InsertsBounded == OpenSessionsBounded /\ RunningBreaksBounded /\ PendingCorrectionsBounded

(* An entry is 'locked' only while some active lock covers its day: no     *)
(* order of overlapping locks, unlocks, reviews and check-outs leaves an   *)
(* entry marked after the last lock on it is released.                     *)
LockedHasLock ==
    \A e \in Entries : status[e] = "locked" => IsLocked(date[e])
=============================================================================
