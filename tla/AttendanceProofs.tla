-------------------------- MODULE AttendanceProofs --------------------------
(***************************************************************************)
(* Attendance, for any number of users, workers, instants and rows.        *)
(*                                                                         *)
(* Type correctness needs that corrections, and requests to make one, name *)
(* an entry: TypeInv.  That a locked entry lies under an active lock is    *)
(* preserved by every action as it stands.                                 *)
(*                                                                         *)
(* A user's open sessions are bounded by the workers although the test for *)
(* one and its insert are two steps, because a worker that has passed the  *)
(* test counts as much as the session it will insert: the number of the    *)
(* user's open sessions plus that of the workers about to insert one never *)
(* exceeds the number of workers.  It grows only when a worker passes the  *)
(* test, and then there is no session and that worker was idle (Budget).   *)
(* Running breaks and pending corrections are bounded in the same way.     *)
(*                                                                         *)
(* How requests overtake one another is told by the history of             *)
(* AttendanceHistory.  A request in progress knows what it has read of     *)
(* every entry that is not in behind (Knows), and of the days it asked     *)
(* is_locked about that each active lock on them is newer (Asked); so a    *)
(* worker's step leaves in order every entry it is not behind of           *)
(* (Leaves).  Whatever the number of workers, the entries no overtaken     *)
(* request wrote to have their approvals and their minutes (HistoryInv),   *)
(* and nothing comes or goes on a day locked before the request began.     *)
(***************************************************************************)
EXTENDS AttendanceHistory, FiniteSetTheorems, TLAPS

(* Corrections, and requests to make one, name an entry. *)
EntriesNamed ==
    /\ \A c \in Corrections : corrStatus[c] # "absent" => ask[c].entry \in Entries
    /\ \A w \in Workers : op[w].kind = "correct" => op[w].ask.entry \in Entries

TypeInv == TypeOK /\ EntriesNamed

(* A request in progress has the fields of its kind. *)
LEMMA Shape ==
    ASSUME NEW r \in Request
    PROVE  /\ r.kind = "check_in" => r \in CheckIn
           /\ r.kind = "check_out" => r \in CheckOut
           /\ r.kind = "start_break" => r \in StartBreak
           /\ r.kind = "end_break" => r \in EndBreak
           /\ r.kind = "manual" => r \in ManualOne
           /\ r.kind = "reset" => r \in Reset
           /\ r.kind = "correct" => r \in Correct
           /\ r.kind = "review" => r \in Review
           /\ r.kind = "rebuild" => r \in Rebuild
  BY DEF Request, Idle, CheckIn, CheckOut, StartBreak, EndBreak, ManualOne, Reset,
         Correct, Review, Rebuild

LEMMA TypeInit == Init => TypeInv
  BY TimesAssumption
  DEF Init, TypeInv, TypeOK, EntriesNamed, EntryStatus, MaybeTime, NoTime, Basis,
      NoMinutes, Metrics, Ask, NoAsk, Wish, CorrStatus, Lock, Request, Idle, Corrections

USE DEF TypeInv, TypeOK, EntriesNamed

(* The copies a session keeps of an entry are well-formed. *)
LEMMA LoadedType ==
    ASSUME TypeOK, NEW e \in Entries
    PROVE  Loaded(e) \in Snapshot
  BY DEF Loaded, Snapshot

LEMMA NoMinutesType == NoMinutes \in Basis
  BY DEF NoMinutes, Metrics, Basis, MaybeTime, NoTime

LEMMA InsertedType ==
    ASSUME NEW s \in EntryStatus, NEW i \in MaybeTime, NEW o \in MaybeTime
    PROVE  Inserted(s, i, o) \in Snapshot
  BY NoMinutesType DEF Inserted, Snapshot

LEMMA MetricsType ==
    ASSUME NEW i \in MaybeTime, NEW o \in MaybeTime, NEW pauses \in SUBSET Breaks
    PROVE  Metrics(i, o, pauses) \in Basis
  BY DEF Metrics, Basis

(* The worker's request is replaced by another, or finished. *)
LEMMA BeginType ==
    ASSUME TypeInv, NEW w \in Workers, NEW r \in Request, Begin(w, r),
           r.kind = "correct" => r.ask.entry \in Entries
    PROVE  TypeInv'
  BY DEF Begin, entryVars, breakVars, corrVars

LEMMA FinishType ==
    ASSUME op \in [Workers -> Request], NEW w \in Workers, Finish(w)
    PROVE  /\ op' \in [Workers -> Request]
           /\ \A v \in Workers : op'[v].kind = "correct" => op'[v] = op[v]
  BY DEF Finish, Request, Idle

LEMMA RebuildingType ==
    ASSUME op \in [Workers -> Request], NEW w \in Workers, NEW e \in Entries,
           NEW copy \in Snapshot, Rebuilding(w, e, copy)
    PROVE  /\ op' \in [Workers -> Request]
           /\ \A v \in Workers : op'[v].kind = "correct" => op'[v] = op[v]
  BY DEF Rebuilding, Request, Rebuild

LEMMA SessionKeeps ==
    ASSUME TypeInv, NEW w \in Workers, Session(w)
    PROVE  TypeInv'
  <1>r. op[w] \in Request
    OBVIOUS
  <1>1. ASSUME NEW u \in Users, NEW t \in Times, NEW k \in BOOLEAN, CheckInRead(w, u, t, k)
        PROVE  TypeInv'
    <2> DEFINE r == [kind |-> "check_in", user |-> u, time |-> t, kiosk |-> k]
    <2>1. r \in Request /\ r.kind # "correct"
      BY DEF Request, CheckIn
    <2> QED
      BY <1>1, <2>1, BeginType DEF CheckInRead
  <1>2. CASE CheckInCommit(w)
    <2>1. op[w] \in CheckIn
      BY <1>2, <1>r, Shape DEF CheckInCommit, Serving
    <2>2. PICK e \in Entries :
            /\ Insert(e, op[w].user, DayOf[op[w].time], op[w].time, NoTime, "open")
            /\ IF op[w].kiosk
                 THEN Rebuilding(w, e, Inserted("open", op[w].time, NoTime))
                 ELSE Finish(w)
      BY <1>2 DEF CheckInCommit
    <2>3. DayOf[op[w].time] \in Int /\ op[w].time \in MaybeTime /\ NoTime \in MaybeTime
      BY <2>1, TimesAssumption DEF CheckIn, MaybeTime
    <2>4. op' \in [Workers -> Request] /\ \A v \in Workers : op'[v].kind = "correct" => op'[v] = op[v]
      BY <2>2, <2>3, FinishType, RebuildingType, InsertedType DEF EntryStatus
    <2> QED
      BY <1>2, <2>1, <2>2, <2>3, <2>4 DEF CheckInCommit, Insert, CheckIn, EntryStatus, breakVars, corrVars
  <1>3. ASSUME NEW u \in Users, NEW t \in Times, CheckOutRead(w, u, t)
        PROVE  TypeInv'
    <2>1. PICK e \in LatestOpen(u) : \E b \in AnyOne(running[e]) :
            Begin(w, [kind |-> "check_out", entry |-> e, time |-> t,
                      ending |-> b, loaded |-> Loaded(e)])
      BY <1>3 DEF CheckOutRead
    <2>2. e \in Entries
      BY DEF LatestOpen, OpenSessions
    <2>3. AnyOne(running[e]) \subseteq SUBSET Breaks
      BY <2>2 DEF AnyOne
    <2>4. PICK b \in AnyOne(running[e]) :
            Begin(w, [kind |-> "check_out", entry |-> e, time |-> t,
                      ending |-> b, loaded |-> Loaded(e)])
      BY <2>1
    <2> DEFINE r == [kind |-> "check_out", entry |-> e, time |-> t,
                      ending |-> b, loaded |-> Loaded(e)]
    <2>5. r \in Request /\ r.kind # "correct"
      BY <2>2, <2>3, LoadedType DEF Request, CheckOut
    <2> QED
      BY <2>4, <2>5, BeginType
  <1>4. CASE CheckOutCommit(w)
    <2>1. op[w] \in CheckOut
      BY <1>4, <1>r, Shape DEF CheckOutCommit, Serving
    <2>2. CheckedOut(op[w].loaded, op[w].time, op[w].ending) \in Snapshot
      BY <2>1 DEF CheckedOut, CheckOut, Snapshot, EntryStatus, MaybeTime
    <2>3. op' \in [Workers -> Request] /\ \A v \in Workers : op'[v].kind = "correct" => op'[v] = op[v]
      BY <1>4, <2>1, <2>2, RebuildingType DEF CheckOutCommit, CheckOut
    <2> QED
      BY <1>4, <2>1, <2>3 DEF CheckOutCommit, CheckOut, EntryStatus, MaybeTime, corrVars
  <1>5. CASE RebuildCommit(w)
    <2>1. op[w] \in Rebuild
      BY <1>5, <1>r, Shape DEF RebuildCommit, Serving
    <2> DEFINE old == op[w].loaded
               m == Metrics(old.in, old.out, ended[op[w].entry] \ old.running)
    <2>2. m \in Basis
      BY <2>1, MetricsType DEF Rebuild, Snapshot
    <2>3. op' \in [Workers -> Request] /\ \A v \in Workers : op'[v].kind = "correct" => op'[v] = op[v]
      BY <1>5, FinishType DEF RebuildCommit
    <2> QED
      BY <1>5, <2>1, <2>2, <2>3 DEF RebuildCommit, Rebuild, Written, breakVars, corrVars
  <1> QED
    BY <1>1, <1>2, <1>3, <1>4, <1>5 DEF Session

LEMMA BreakKeeps ==
    ASSUME TypeInv, NEW w \in Workers, Break(w)
    PROVE  TypeInv'
  <1>r. op[w] \in Request
    OBVIOUS
  <1>1. ASSUME NEW u \in Users, StartBreakRead(w, u)
        PROVE  TypeInv'
    <2>1. PICK e \in LatestOpen(u) : Begin(w, [kind |-> "start_break", entry |-> e])
      BY <1>1 DEF StartBreakRead
    <2> DEFINE r == [kind |-> "start_break", entry |-> e]
    <2>2. r \in Request /\ r.kind # "correct"
      BY DEF LatestOpen, OpenSessions, Request, StartBreak
    <2> QED
      BY <2>1, <2>2, BeginType
  <1>2. CASE StartBreakCommit(w)
    <2>1. op[w] \in StartBreak
      BY <1>2, <1>r, Shape DEF StartBreakCommit, Serving
    <2>2. op' \in [Workers -> Request] /\ \A v \in Workers : op'[v].kind = "correct" => op'[v] = op[v]
      BY <1>2, FinishType DEF StartBreakCommit
    <2> QED
      BY <1>2, <2>1, <2>2 DEF StartBreakCommit, StartBreak, entryVars, corrVars
  <1>3. ASSUME NEW u \in Users, EndBreakRead(w, u)
        PROVE  TypeInv'
    <2>0. PICK e \in LatestOpen(u) : \E b \in running[e] :
            Begin(w, [kind |-> "end_break", entry |-> e, ending |-> {b},
                      loaded |-> Loaded(e)])
      BY <1>3 DEF EndBreakRead
    <2>1. PICK b \in running[e] :
            Begin(w, [kind |-> "end_break", entry |-> e, ending |-> {b},
                      loaded |-> Loaded(e)])
      BY <2>0
    <2>2. e \in Entries
      BY DEF LatestOpen, OpenSessions
    <2> DEFINE r == [kind |-> "end_break", entry |-> e, ending |-> {b},
                      loaded |-> Loaded(e)]
    <2>3. r \in Request /\ r.kind # "correct"
      BY <2>2, LoadedType DEF Request, EndBreak
    <2> QED
      BY <2>1, <2>3, BeginType
  <1>4. CASE EndBreakCommit(w)
    <2>1. op[w] \in EndBreak
      BY <1>4, <1>r, Shape DEF EndBreakCommit, Serving
    <2>2. [op[w].loaded EXCEPT !.running = @ \ op[w].ending] \in Snapshot
      BY <2>1 DEF EndBreak, Snapshot
    <2>3. op' \in [Workers -> Request] /\ \A v \in Workers : op'[v].kind = "correct" => op'[v] = op[v]
      BY <1>4, <2>1, <2>2, RebuildingType DEF EndBreakCommit, EndBreak
    <2> QED
      BY <1>4, <2>1, <2>3 DEF EndBreakCommit, EndBreak, entryVars, corrVars
  <1> QED
    BY <1>1, <1>2, <1>3, <1>4 DEF Break

LEMMA ManualKeeps ==
    ASSUME TypeInv, NEW w \in Workers, Manual(w)
    PROVE  TypeInv'
  <1>r. op[w] \in Request
    OBVIOUS
  <1>1. ASSUME NEW u \in Users, NEW i \in Times, NEW o \in Times,
               NEW rest \in BOOLEAN, NEW self \in BOOLEAN, ManualRead(w, u, i, o, rest, self)
        PROVE  TypeInv'
    <2> DEFINE r == [kind |-> "manual", user |-> u, in |-> i, out |-> o,
                     rest |-> rest, self |-> self]
    <2>1. r \in Request /\ r.kind # "correct"
      BY DEF Request, ManualOne
    <2> QED
      BY <1>1, <2>1, BeginType DEF ManualRead
  <1>2. CASE ManualCommit(w)
    <2> DEFINE r == op[w]
    <2>1. r \in ManualOne
      BY <1>2, <1>r, Shape DEF ManualCommit, Serving
    <2>2. PICK e \in Entries :
            /\ Insert(e, r.user, DayOf[r.in], r.in, r.out, "corrected")
            /\ IF r.rest
                 THEN /\ nextBreak \in Breaks
                      /\ ended' = [ended EXCEPT ![e] = {nextBreak}]
                      /\ nextBreak' = nextBreak + 1
                 ELSE UNCHANGED <<ended, nextBreak>>
            /\ IF r.self
                 THEN Rebuilding(w, e, Inserted("corrected", r.in, r.out))
                 ELSE Finish(w)
      BY <1>2 DEF ManualCommit
    <2>3. DayOf[r.in] \in Int /\ r.in \in MaybeTime /\ r.out \in MaybeTime
      BY <2>1, TimesAssumption DEF ManualOne, MaybeTime
    <2>4. op' \in [Workers -> Request] /\ \A v \in Workers : op'[v].kind = "correct" => op'[v] = op[v]
      BY <2>2, <2>3, FinishType, RebuildingType, InsertedType DEF EntryStatus
    <2>5. ended' \in [Entries -> SUBSET Breaks] /\ nextBreak' \in Nat \ {0}
      BY <2>2
    <2> QED
      BY <1>2, <2>1, <2>2, <2>3, <2>4, <2>5 DEF ManualCommit, Insert, ManualOne, EntryStatus, corrVars
  <1>3. ASSUME NEW u \in Users, NEW d \in Days, ResetRead(w, u, d)
        PROVE  TypeInv'
    <2> DEFINE r == [kind |-> "reset", rows |-> OnDay(u, d)]
    <2>1. r \in Request /\ r.kind # "correct"
      BY DEF Request, Reset, OnDay
    <2> QED
      BY <1>3, <2>1, BeginType DEF ResetRead
  <1>4. CASE ResetCommit(w)
    <2>1. op[w] \in Reset
      BY <1>4, <1>r, Shape DEF ResetCommit, Serving
    <2>2. op' \in [Workers -> Request] /\ \A v \in Workers : op'[v].kind = "correct" => op'[v] = op[v]
      BY <1>4, FinishType DEF ResetCommit
    <2> QED
      BY <1>4, <2>1, <2>2, NoMinutesType
      DEF ResetCommit, Reset, EntryStatus, CorrStatus, MaybeTime
  <1> QED
    BY <1>1, <1>2, <1>3, <1>4 DEF Manual

LEMMA CorrectionKeeps ==
    ASSUME TypeInv, NEW w \in Workers, Correction(w)
    PROVE  TypeInv'
  <1>r. op[w] \in Request
    OBVIOUS
  <1>1. ASSUME NEW e \in Entries, NEW a \in Wishes, CorrectRead(w, e, a)
        PROVE  TypeInv'
    <2> DEFINE r == [kind |-> "correct", ask |-> [entry |-> e, wish |-> a]]
    <2>1. r \in Request /\ r.ask.entry \in Entries
      BY TimesAssumption DEF Request, Correct, Ask
    <2> QED
      BY <1>1, <2>1, BeginType DEF CorrectRead
  <1>2. CASE CorrectCommit(w)
    <2>1. op[w] \in Correct /\ op[w].ask.entry \in Entries
      BY <1>2, <1>r, Shape DEF CorrectCommit, Serving
    <2>2. op' \in [Workers -> Request] /\ \A v \in Workers : op'[v].kind = "correct" => op'[v] = op[v]
      BY <1>2, FinishType DEF CorrectCommit
    <2> QED
      BY <1>2, <2>1, <2>2 DEF CorrectCommit, Correct, CorrStatus, entryVars, breakVars
  <1>3. ASSUME NEW c \in Corrections, NEW d \in Decision, ReviewRead(w, c, d)
        PROVE  TypeInv'
    <2>1. ask[c].entry \in Entries
      BY <1>3 DEF ReviewRead, CorrInDb
    <2>2. AnyOne(SlipsOn(ask[c].entry)) \subseteq SUBSET Corrections
      BY DEF AnyOne, SlipsOn
    <2>3. PICK s \in AnyOne(SlipsOn(ask[c].entry)) :
            Begin(w, [kind |-> "review", corr |-> c, seen |-> corrStatus[c],
                      decision |-> d, slip |-> s, loaded |-> Loaded(ask[c].entry)])
      BY <1>3 DEF ReviewRead
    <2> DEFINE r == [kind |-> "review", corr |-> c, seen |-> corrStatus[c],
                     decision |-> d, slip |-> s, loaded |-> Loaded(ask[c].entry)]
    <2>4. r \in Request /\ r.kind # "correct"
      BY <2>1, <2>2, LoadedType DEF Request, Review
    <2> QED
      BY <2>3, <2>4, BeginType
  <1>4. CASE ReviewCommit(w)
    <2> DEFINE r == op[w]
               e == ask[r.corr].entry
               a == ask[r.corr].wish
               i == IF a.in # NoTime THEN a.in ELSE r.loaded.in
               o == IF a.out # NoTime THEN a.out ELSE r.loaded.out
    <2>1. r \in Review
      BY <1>4, <1>r, Shape DEF ReviewCommit, Serving
    <2>2. op' \in [Workers -> Request] /\ \A v \in Workers : op'[v].kind = "correct" => op'[v] = op[v]
      BY <1>4, FinishType DEF ReviewCommit
    <2>3. corrStatus' \in [Corrections -> CorrStatus] /\ approval' \in [Corrections -> CorrStatus]
      BY <1>4, <2>1 DEF ReviewCommit, Review, Written, CorrStatus, Decision
    <2>4. e \in Entries /\ \A c \in Corrections : corrStatus'[c] # "absent" => corrStatus[c] # "absent"
      BY <1>4, <2>1 DEF ReviewCommit, Review, CorrInDb
    <2>5. CASE r.decision = "approved"
      <3>1. Apply(r.corr, r.loaded)
        BY <1>4, <2>5 DEF ReviewCommit
      <3>2. running' \in [Entries -> SUBSET Breaks] /\ ended' \in [Entries -> SUBSET Breaks]
            /\ nextBreak' \in Nat \ {0}
        BY <3>1, <2>4 DEF Apply, breakVars
      <3>3. i \in MaybeTime /\ o \in MaybeTime
        <4>1. a \in Wish
          BY <2>1 DEF Review, Ask
        <4> QED
          BY <2>1, <4>1 DEF Wish, Review, Snapshot, MaybeTime
      <3>4. Metrics(i, o, ended'[e]) \in Basis
        BY <3>2, <3>3, <2>4, MetricsType
      <3>5. status' \in [Entries -> EntryStatus] /\ checkIn' \in [Entries -> MaybeTime]
            /\ checkOut' \in [Entries -> MaybeTime]
        BY <3>1, <3>3, <2>4 DEF Apply, Written, EntryStatus
      <3>6. basis' \in [Entries -> Basis] /\ unsettled' \subseteq Entries
        BY <3>1, <3>4, <2>4 DEF Apply, Written
      <3> QED
        BY <1>4, <2>2, <2>3, <2>4, <3>2, <3>5, <3>6 DEF ReviewCommit
    <2>6. CASE r.decision # "approved"
      BY <1>4, <2>2, <2>3, <2>4, <2>6 DEF ReviewCommit, breakVars
    <2> QED
      BY <2>5, <2>6
  <1> QED
    BY <1>1, <1>2, <1>3, <1>4 DEF Correction

LEMMA PeriodKeeps ==
    ASSUME TypeInv, NEW w \in Workers, Period(w)
    PROVE  TypeInv'
  <1>1. ASSUME NEW p \in Periods, LockPeriod(w, p[1], p[2])
        PROVE  TypeInv'
    <2>1. p[1] \in Int /\ p[2] \in Int
      BY TimesAssumption
    <2> QED
      BY <1>1, <2>1 DEF LockPeriod, Lock, EntryStatus, breakVars, corrVars
  <1>2. ASSUME NEW l \in Locks, UnlockPeriod(w, l)
        PROVE  TypeInv'
    BY <1>2 DEF UnlockPeriod, Lock, EntryStatus, breakVars, corrVars
  <1> QED
    BY <1>1, <1>2 DEF Period

LEMMA TypeStep == TypeInv /\ [Next]_vars => TypeInv'
  <1> SUFFICES ASSUME TypeInv, [Next]_vars
               PROVE  TypeInv'
    OBVIOUS
  <1>1. CASE UNCHANGED vars
    BY <1>1 DEF vars, entryVars, breakVars, corrVars
  <1>2. ASSUME NEW w \in Workers, Abort(w)
        PROVE  TypeInv'
    BY <1>2, FinishType DEF Abort, entryVars, breakVars, corrVars
  <1> QED
    BY <1>1, <1>2, SessionKeeps, BreakKeeps, ManualKeeps, CorrectionKeeps, PeriodKeeps DEF Next

THEOREM TypeInvariant == Spec => []TypeInv
  BY TypeInit, TypeStep, PTL DEF Spec

(* Every variable keeps the shape of the rows and requests it stands for.  *)
THEOREM TypeCorrect == Spec => []TypeOK
  <1>1. TypeInv => TypeOK
    OBVIOUS
  <1> QED
    BY TypeInvariant, <1>1, PTL

-----------------------------------------------------------------------------
(* Locks: no step but LockPeriod marks an entry, and a step that releases  *)
(* a lock unmarks the whole of its period.                                 *)

(* The steps that leave the locks alone mark nothing and move no marked    *)
(* entry to another day.                                                   *)
MarksStay ==
    /\ lock' = lock
    /\ \A e \in Entries : status'[e] = "locked" =>
          status[e] = "locked" /\ date'[e] = date[e]

LEMMA MarksStayKeep ==
    ASSUME LockedHasLock, MarksStay
    PROVE  LockedHasLock'
  BY DEF LockedHasLock, MarksStay, IsLocked, Active, Covers

LEMMA SessionStays ==
    ASSUME TypeInv, NEW w \in Workers, Session(w)
    PROVE  MarksStay
  <1>1. CASE CheckInCommit(w)
    BY <1>1 DEF CheckInCommit, Insert, MarksStay
  <1>2. CASE CheckOutCommit(w)
    BY <1>2 DEF CheckOutCommit, MarksStay
  <1>3. CASE RebuildCommit(w)
    BY <1>3 DEF RebuildCommit, MarksStay
  <1> QED
    BY <1>1, <1>2, <1>3
    DEF Session, CheckInRead, CheckOutRead, Begin, entryVars, MarksStay

LEMMA BreakStays ==
    ASSUME TypeInv, NEW w \in Workers, Break(w)
    PROVE  MarksStay
  BY DEF Break, StartBreakRead, StartBreakCommit, EndBreakRead, EndBreakCommit, Begin,
         entryVars, MarksStay

LEMMA ManualStays ==
    ASSUME TypeInv, NEW w \in Workers, Manual(w)
    PROVE  MarksStay
  <1>1. CASE ManualCommit(w)
    BY <1>1 DEF ManualCommit, Insert, MarksStay
  <1>2. CASE ResetCommit(w)
    BY <1>2 DEF ResetCommit, MarksStay
  <1> QED
    BY <1>1, <1>2 DEF Manual, ManualRead, ResetRead, Begin, entryVars, MarksStay

LEMMA CorrectionStays ==
    ASSUME TypeInv, NEW w \in Workers, Correction(w)
    PROVE  MarksStay
  <1>1. CASE ReviewCommit(w)
    BY <1>1 DEF ReviewCommit, Apply, Written, MarksStay
  <1> QED
    BY <1>1 DEF Correction, CorrectRead, CorrectCommit, ReviewRead, Begin, entryVars, MarksStay

LEMMA LocksStep == TypeInv /\ LockedHasLock /\ [Next]_vars => LockedHasLock'
  <1> SUFFICES ASSUME TypeInv, LockedHasLock, [Next]_vars
               PROVE  LockedHasLock'
    OBVIOUS
  <1>1. ASSUME NEW w \in Workers, Session(w) \/ Break(w) \/ Manual(w) \/ Correction(w)
        PROVE  LockedHasLock'
    BY <1>1, SessionStays, BreakStays, ManualStays, CorrectionStays, MarksStayKeep
  <1>2. ASSUME NEW w \in Workers, NEW p \in Periods, LockPeriod(w, p[1], p[2])
        PROVE  LockedHasLock'
    <2>1. PICK l \in Locks :
            /\ lock[l].status = "absent"
            /\ lock' = [lock EXCEPT ![l] = [status |-> "locked", from |-> p[1], to |-> p[2]]]
      BY <1>2 DEF LockPeriod, NewLock
    <2> SUFFICES ASSUME NEW e \in Entries, status'[e] = "locked"
                 PROVE  IsLocked(date[e])'
      BY DEF LockedHasLock
    <2>2. date' = date
      BY <1>2 DEF LockPeriod
    <2>3. CASE p[1] <= date[e] /\ date[e] <= p[2]
      BY <2>1, <2>2, <2>3 DEF IsLocked, Active, Covers
    <2>4. CASE ~(p[1] <= date[e] /\ date[e] <= p[2])
      <3>1. status[e] = "locked"
        BY <1>2, <2>4 DEF LockPeriod
      <3>2. PICK k \in Locks : Active(k) /\ Covers(k, date[e])
        BY <3>1 DEF LockedHasLock, IsLocked
      <3>3. k # l /\ lock'[k] = lock[k]
        BY <2>1, <3>2 DEF Active
      <3> QED
        BY <2>2, <3>2, <3>3 DEF IsLocked, Active, Covers
    <2> QED
      BY <2>3, <2>4
  <1>3. ASSUME NEW w \in Workers, NEW l \in Locks, UnlockPeriod(w, l)
        PROVE  LockedHasLock'
    <2> SUFFICES ASSUME NEW e \in Entries, status'[e] = "locked"
                 PROVE  IsLocked(date[e])'
      BY DEF LockedHasLock
    <2>1. date' = date /\ status[e] = "locked" /\ ~Covers(l, date[e])
      BY <1>3 DEF UnlockPeriod, Unmarked
    <2>2. PICK k \in Locks : Active(k) /\ Covers(k, date[e])
      BY <2>1 DEF LockedHasLock, IsLocked
    <2>3. k # l /\ lock'[k] = lock[k]
      BY <1>3, <2>1, <2>2 DEF UnlockPeriod
    <2> QED
      BY <2>1, <2>2, <2>3 DEF IsLocked, Active, Covers
  <1>4. ASSUME NEW w \in Workers, Abort(w)
        PROVE  LockedHasLock'
    BY <1>4, MarksStayKeep DEF Abort, entryVars, MarksStay
  <1>5. CASE UNCHANGED vars
    BY <1>5, MarksStayKeep DEF vars, entryVars, MarksStay
  <1> QED
    BY <1>1, <1>2, <1>3, <1>4, <1>5 DEF Next, Period

(* An entry is 'locked' only while some active lock covers its day,        *)
(* whatever the periods, their overlaps and the requests in progress.      *)
THEOREM LockedOnlyWhileLocked == Spec => []LockedHasLock
  <1>1. Init => LockedHasLock
    BY DEF Init, LockedHasLock
  <1> QED
    BY <1>1, LocksStep, TypeInvariant, PTL DEF Spec

-----------------------------------------------------------------------------
(* Bounds: what a check allows at most once is bounded by the number of    *)
(* workers, because a worker that passes the check finds no row, and then  *)
(* stands for one row at most.  Rows and workers that have passed the      *)
(* check are counted together.                                             *)

LEMMA Budget ==
    ASSUME NEW rows, NEW busy \in SUBSET Workers, NEW rows2, NEW busy2 \in SUBSET Workers,
           IsFiniteSet(rows),
           Cardinality(rows) + Cardinality(busy) <= Cardinality(Workers),
           \/ rows2 \subseteq rows /\ busy2 \subseteq busy
           \/ rows2 = {}
           \/ \E row, w : w \in busy /\ rows2 \subseteq rows \cup {row} /\ busy2 \subseteq busy \ {w}
    PROVE  Cardinality(rows2) + Cardinality(busy2) <= Cardinality(Workers)
  <1>1. IsFiniteSet(busy) /\ IsFiniteSet(busy2) /\ Cardinality(busy2) <= Cardinality(Workers)
    BY WorkersAssumption, FS_Subset
  <1>2. /\ Cardinality(rows) \in Nat /\ Cardinality(busy) \in Nat
        /\ Cardinality(busy2) \in Nat /\ Cardinality(Workers) \in Nat
    BY <1>1, WorkersAssumption, FS_CardinalityType
  <1>3. CASE rows2 \subseteq rows /\ busy2 \subseteq busy
    <2>1. Cardinality(rows2) <= Cardinality(rows) /\ Cardinality(busy2) <= Cardinality(busy)
      BY <1>1, <1>3, FS_Subset
    <2>2. Cardinality(rows2) \in Nat
      BY <1>3, FS_Subset, FS_CardinalityType
    <2> QED
      BY <1>2, <2>1, <2>2
  <1>4. CASE rows2 = {}
    <2>1. Cardinality(rows2) = 0
      BY <1>4, FS_EmptySet
    <2> QED
      BY <1>1, <1>2, <2>1
  <1>5. ASSUME NEW row, NEW w \in busy, rows2 \subseteq rows \cup {row}, busy2 \subseteq busy \ {w}
        PROVE  Cardinality(rows2) + Cardinality(busy2) <= Cardinality(Workers)
    <2>1. /\ IsFiniteSet(rows \cup {row})
          /\ Cardinality(rows \cup {row}) <= Cardinality(rows) + 1
      <3> DEFINE more == rows \cup {row}
      <3>1. /\ IsFiniteSet(more)
            /\ Cardinality(more) =
                 IF row \in rows THEN Cardinality(rows) ELSE Cardinality(rows) + 1
        BY FS_AddElement
      <3> HIDE DEF more
      <3>2. IsFiniteSet(more) /\ Cardinality(more) <= Cardinality(rows) + 1
        BY <1>2, <3>1
      <3> QED
        BY <3>2 DEF more
    <2>2. IsFiniteSet(busy \ {w}) /\ Cardinality(busy \ {w}) = Cardinality(busy) - 1
      BY <1>1, FS_RemoveElement
    <2>3. Cardinality(rows2) <= Cardinality(rows \cup {row}) /\ IsFiniteSet(rows2)
      BY <1>5, <2>1, FS_Subset
    <2>4. Cardinality(busy2) <= Cardinality(busy \ {w})
      BY <1>5, <2>2, FS_Subset
    <2>5. Cardinality(rows \cup {row}) \in Nat /\ Cardinality(rows2) \in Nat
      BY <2>1, <2>3, FS_CardinalityType
    <2> QED
      BY <1>2, <2>1, <2>2, <2>3, <2>4, <2>5
  <1> QED
    BY <1>3, <1>4, <1>5

LEMMA FiniteIds == IsFiniteSet(Entries) /\ IsFiniteSet(Breaks) /\ IsFiniteSet(Corrections)
  BY TimesAssumption, FS_Interval DEF Entries, Breaks, Corrections

(* The workers that have passed the check, and have not committed yet *)
CheckingIn(u)  == {w \in Workers : op[w].kind = "check_in" /\ op[w].user = u}
StartingOn(e)  == {w \in Workers : op[w].kind = "start_break" /\ op[w].entry = e}
CorrectingOn(e) == {w \in Workers : op[w].kind = "correct" /\ op[w].ask.entry = e}

SessionsInv == \A u \in Users :
    Cardinality(OpenSessions(u)) + Cardinality(CheckingIn(u)) <= Cardinality(Workers)
BreaksInv == \A e \in Entries :
    Cardinality(running[e]) + Cardinality(StartingOn(e)) <= Cardinality(Workers)
CorrectionsInv == \A e \in Entries :
    Cardinality(PendingOn(e)) + Cardinality(CorrectingOn(e)) <= Cardinality(Workers)

(* A step that opens no session and lets nobody pass the check *)
NoneOpened ==
    /\ \A e \in Entries : status'[e] = "open" => status[e] = "open" /\ owner'[e] = owner[e]
    /\ \A w \in Workers : op'[w].kind = "check_in" => op'[w] = op[w]
NoneStarted ==
    /\ \A e \in Entries : running'[e] \subseteq running[e]
    /\ \A w \in Workers : op'[w].kind = "start_break" => op'[w] = op[w]
NoneAsked ==
    /\ \A c \in Corrections :
          corrStatus'[c] = "pending" => corrStatus[c] = "pending" /\ ask'[c] = ask[c]
    /\ \A w \in Workers : op'[w].kind = "correct" => op'[w] = op[w]

LEMMA SessionQuiet ==
    ASSUME TypeInv, NEW w \in Workers, Session(w)
    PROVE  /\ NoneStarted /\ NoneAsked
           /\ \/ NoneOpened
              \/ CheckInCommit(w)
              \/ \E u \in Users, t \in Times, k \in BOOLEAN : CheckInRead(w, u, t, k)
  <1>1. CASE CheckInCommit(w)
    <2>1. NoneStarted /\ NoneAsked
      BY <1>1 DEF CheckInCommit, Insert, Finish, Rebuilding, Idle, breakVars, corrVars,
             NoneStarted, NoneAsked
    <2> QED
      BY <1>1, <2>1
  <1>2. CASE CheckOutCommit(w)
    BY <1>2 DEF CheckOutCommit, Rebuilding, corrVars, NoneStarted, NoneAsked, NoneOpened
  <1>3. CASE RebuildCommit(w)
    BY <1>3 DEF RebuildCommit, Finish, Idle, breakVars, corrVars,
           NoneStarted, NoneAsked, NoneOpened
  <1>4. ASSUME NEW u \in Users, NEW t \in Times, CheckOutRead(w, u, t)
        PROVE  NoneStarted /\ NoneAsked /\ NoneOpened
    BY <1>4 DEF CheckOutRead, Begin, entryVars, breakVars, corrVars,
           NoneStarted, NoneAsked, NoneOpened
  <1>5. ASSUME NEW u \in Users, NEW t \in Times, NEW k \in BOOLEAN, CheckInRead(w, u, t, k)
        PROVE  NoneStarted /\ NoneAsked
    BY <1>5 DEF CheckInRead, Begin, breakVars, corrVars, NoneStarted, NoneAsked
  <1>6. CASE \E u \in Users, t \in Times, k \in BOOLEAN : CheckInRead(w, u, t, k)
    <2>1. NoneStarted /\ NoneAsked
      BY <1>5, <1>6
    <2> QED
      BY <1>6, <2>1
  <1>7. CASE \E u \in Users, t \in Times : CheckOutRead(w, u, t)
    BY <1>4, <1>7
  <1> QED
    BY <1>1, <1>2, <1>3, <1>6, <1>7 DEF Session

LEMMA BreakQuiet ==
    ASSUME TypeInv, NEW w \in Workers, Break(w)
    PROVE  /\ NoneOpened /\ NoneAsked
           /\ \/ NoneStarted
              \/ StartBreakCommit(w)
              \/ \E u \in Users : StartBreakRead(w, u)
  <1>1. CASE StartBreakCommit(w)
    BY <1>1 DEF StartBreakCommit, Finish, Idle, entryVars, corrVars, NoneOpened, NoneAsked
  <1>2. CASE EndBreakCommit(w)
    BY <1>2 DEF EndBreakCommit, Rebuilding, entryVars, corrVars,
           NoneStarted, NoneAsked, NoneOpened
  <1>3. ASSUME NEW u \in Users, StartBreakRead(w, u)
        PROVE  NoneOpened /\ NoneAsked
    BY <1>3 DEF StartBreakRead, Begin, entryVars, corrVars, NoneOpened, NoneAsked
  <1>4. ASSUME NEW u \in Users, EndBreakRead(w, u)
        PROVE  NoneStarted /\ NoneAsked /\ NoneOpened
    BY <1>4 DEF EndBreakRead, Begin, entryVars, breakVars, corrVars,
           NoneStarted, NoneAsked, NoneOpened
  <1> QED
    BY <1>1, <1>2, <1>3, <1>4 DEF Break

LEMMA ManualQuiet ==
    ASSUME TypeInv, NEW w \in Workers, Manual(w)
    PROVE  NoneOpened /\ NoneStarted /\ NoneAsked
  <1>1. CASE ManualCommit(w)
    BY <1>1 DEF ManualCommit, Insert, Finish, Rebuilding, Idle, corrVars,
           NoneStarted, NoneAsked, NoneOpened
  <1>2. CASE ResetCommit(w)
    BY <1>2 DEF ResetCommit, Finish, Idle, NoneStarted, NoneAsked, NoneOpened
  <1>3. ASSUME NEW u \in Users, NEW i \in Times, NEW o \in Times,
               NEW rest \in BOOLEAN, NEW self \in BOOLEAN, ManualRead(w, u, i, o, rest, self)
        PROVE  NoneStarted /\ NoneAsked /\ NoneOpened
    BY <1>3 DEF ManualRead, Begin, entryVars, breakVars, corrVars,
           NoneStarted, NoneAsked, NoneOpened
  <1>4. ASSUME NEW u \in Users, NEW d \in Days, ResetRead(w, u, d)
        PROVE  NoneStarted /\ NoneAsked /\ NoneOpened
    BY <1>4 DEF ResetRead, Begin, entryVars, breakVars, corrVars,
           NoneStarted, NoneAsked, NoneOpened
  <1> QED
    BY <1>1, <1>2, <1>3, <1>4 DEF Manual

LEMMA CorrectionQuiet ==
    ASSUME TypeInv, NEW w \in Workers, Correction(w)
    PROVE  /\ NoneOpened /\ NoneStarted
           /\ \/ NoneAsked
              \/ CorrectCommit(w)
              \/ \E e \in Entries, a \in Wishes : CorrectRead(w, e, a)
  <1>1. CASE CorrectCommit(w)
    BY <1>1 DEF CorrectCommit, Finish, Idle, entryVars, breakVars, NoneStarted, NoneOpened
  <1>2. CASE ReviewCommit(w)
    <2>1. op[w] \in Review
      BY <1>2, Shape DEF ReviewCommit, Serving
    <2>2. NoneAsked
      BY <1>2, <2>1 DEF ReviewCommit, Written, Review, Decision, Finish, Idle, NoneAsked
    <2>3. NoneStarted /\ NoneOpened
      BY <1>2 DEF ReviewCommit, Apply, Written, Finish, Idle, breakVars, NoneStarted, NoneOpened
    <2> QED
      BY <2>2, <2>3
  <1>3. ASSUME NEW e \in Entries, NEW a \in Wishes, CorrectRead(w, e, a)
        PROVE  NoneStarted /\ NoneOpened
    BY <1>3 DEF CorrectRead, Begin, entryVars, breakVars, NoneStarted, NoneOpened
  <1>4. ASSUME NEW c \in Corrections, NEW d \in Decision, ReviewRead(w, c, d)
        PROVE  NoneStarted /\ NoneAsked /\ NoneOpened
    BY <1>4 DEF ReviewRead, Begin, entryVars, breakVars, corrVars,
           NoneStarted, NoneAsked, NoneOpened
  <1> QED
    BY <1>1, <1>2, <1>3, <1>4 DEF Correction

LEMMA OtherQuiet ==
    ASSUME TypeInv, NEW w \in Workers, Period(w) \/ Abort(w)
    PROVE  NoneOpened /\ NoneStarted /\ NoneAsked
  BY DEF Period, LockPeriod, UnlockPeriod, Abort, Finish, Idle, entryVars, breakVars, corrVars,
         NoneStarted, NoneAsked, NoneOpened

(* A user's open sessions and the check-ins about to commit for that user  *)
(* never outnumber the workers.                                            *)
LEMMA SessionsStep == TypeInv /\ SessionsInv /\ [Next]_vars => SessionsInv'
  <1> SUFFICES ASSUME TypeInv, SessionsInv, [Next]_vars, NEW u \in Users
               PROVE  (Cardinality(OpenSessions(u)) + Cardinality(CheckingIn(u))
                         <= Cardinality(Workers))'
    BY DEF SessionsInv
  <1> DEFINE rows == OpenSessions(u)
             busy == CheckingIn(u)
  <1>1. IsFiniteSet(rows) /\ Cardinality(rows) + Cardinality(busy) <= Cardinality(Workers)
    <2>1. rows \subseteq Entries
      BY DEF OpenSessions
    <2> QED
      BY <2>1, FiniteIds, FS_Subset DEF SessionsInv
  <1>2. busy \in SUBSET Workers /\ busy' \in SUBSET Workers
    BY DEF CheckingIn
  <1>3. ASSUME \/ rows' \subseteq rows /\ busy' \subseteq busy
               \/ rows' = {}
               \/ \E row, w : w \in busy /\ rows' \subseteq rows \cup {row}
                                /\ busy' \subseteq busy \ {w}
        PROVE  Cardinality(rows') + Cardinality(busy') <= Cardinality(Workers)
    <2> HIDE DEF rows, busy
    <2> QED
      BY <1>1, <1>2, <1>3, Budget
  <1>4. CASE NoneOpened
    <2>1. rows' \subseteq rows /\ busy' \subseteq busy
      BY <1>4 DEF NoneOpened, OpenSessions, CheckingIn
    <2> QED
      BY <1>3, <2>1
  <1>5. ASSUME NEW w \in Workers, CheckInCommit(w)
        PROVE  Cardinality(rows') + Cardinality(busy') <= Cardinality(Workers)
    <2>1. op[w] \in CheckIn
      BY <1>5, Shape DEF CheckInCommit, Serving
    <2>2. PICK e \in Entries :
            /\ Insert(e, op[w].user, DayOf[op[w].time], op[w].time, NoTime, "open")
            /\ op[w].kiosk => Rebuilding(w, e, Inserted("open", op[w].time, NoTime))
            /\ ~op[w].kiosk => Finish(w)
      BY <1>5 DEF CheckInCommit
    <2>3. CASE op[w].user = u
      <3>1. w \in busy
        BY <1>5, <2>3 DEF CheckingIn, CheckInCommit, Serving
      <3>2. rows' \subseteq rows \cup {e}
        BY <2>2 DEF Insert, OpenSessions
      <3>3. busy' \subseteq busy \ {w}
        BY <2>2 DEF CheckingIn, Rebuilding, Finish, Idle
      <3> QED
        BY <1>3, <3>1, <3>2, <3>3
    <2>4. CASE op[w].user # u
      <3>1. rows' \subseteq rows
        BY <2>2, <2>4 DEF Insert, OpenSessions
      <3>2. busy' \subseteq busy
        BY <2>2 DEF CheckingIn, Rebuilding, Finish, Idle
      <3> QED
        BY <1>3, <3>1, <3>2
    <2> QED
      BY <2>3, <2>4
  <1>6. ASSUME NEW w \in Workers, NEW v \in Users, NEW t \in Times, NEW k \in BOOLEAN,
               CheckInRead(w, v, t, k)
        PROVE  Cardinality(rows') + Cardinality(busy') <= Cardinality(Workers)
    <2>1. rows' = rows
      BY <1>6 DEF CheckInRead, Begin, entryVars, OpenSessions
    <2>2. CASE v = u
      BY <1>3, <1>6, <2>1, <2>2 DEF CheckInRead
    <2>3. CASE v # u
      <3>1. busy' \subseteq busy
        BY <1>6, <2>3 DEF CheckInRead, Begin, CheckingIn
      <3> QED
        BY <1>3, <2>1, <3>1
    <2> QED
      BY <2>2, <2>3
  <1>7. CASE UNCHANGED vars
    <2>1. NoneOpened
      BY <1>7 DEF vars, entryVars, NoneOpened
    <2> QED
      BY <1>4, <2>1
  <1>8. ASSUME NEW w \in Workers, Session(w)
        PROVE  Cardinality(rows') + Cardinality(busy') <= Cardinality(Workers)
    BY <1>4, <1>5, <1>6, <1>8, SessionQuiet
  <1> QED
    BY <1>4, <1>7, <1>8, BreakQuiet, ManualQuiet, CorrectionQuiet, OtherQuiet DEF Next

(* check_in's test bounds a user's open sessions by the number of workers; *)
(* with one worker there is never a second.                                *)
THEOREM OpenSessionsBound == Spec => []OpenSessionsBounded
  <1>1. Init => SessionsInv
    <2> SUFFICES ASSUME Init, NEW u \in Users
                 PROVE  Cardinality(OpenSessions(u)) + Cardinality(CheckingIn(u))
                          <= Cardinality(Workers)
      BY DEF SessionsInv
    <2>1. OpenSessions(u) = {} /\ CheckingIn(u) = {}
      BY DEF Init, OpenSessions, CheckingIn, Idle
    <2>2. Cardinality(Workers) \in Nat
      BY WorkersAssumption, FS_CardinalityType
    <2> QED
      BY <2>1, <2>2, FS_EmptySet
  <1>2. TypeInv /\ SessionsInv => OpenSessionsBounded
    <2> SUFFICES ASSUME TypeInv, SessionsInv, NEW u \in Users
                 PROVE  Cardinality(OpenSessions(u)) <= Cardinality(Workers)
      BY DEF OpenSessionsBounded, OpenSessions
    <2>0. OpenSessions(u) \subseteq Entries /\ CheckingIn(u) \subseteq Workers
      BY DEF OpenSessions, CheckingIn
    <2>1. IsFiniteSet(OpenSessions(u)) /\ IsFiniteSet(CheckingIn(u))
      BY <2>0, FiniteIds, WorkersAssumption, FS_Subset
    <2>2. /\ Cardinality(OpenSessions(u)) \in Nat /\ Cardinality(CheckingIn(u)) \in Nat
          /\ Cardinality(Workers) \in Nat
      BY <2>1, WorkersAssumption, FS_CardinalityType
    <2> QED
      BY <2>2 DEF SessionsInv
  <1> QED
    BY <1>1, <1>2, SessionsStep, TypeInvariant, PTL DEF Spec

(* The breaks running on a session and the breaks about to start on it     *)
(* never outnumber the workers.                                            *)
LEMMA BreaksStep == TypeInv /\ BreaksInv /\ [Next]_vars => BreaksInv'
  <1> SUFFICES ASSUME TypeInv, BreaksInv, [Next]_vars, NEW e \in Entries
               PROVE  (Cardinality(running[e]) + Cardinality(StartingOn(e))
                         <= Cardinality(Workers))'
    BY DEF BreaksInv
  <1> DEFINE rows == running[e]
             busy == StartingOn(e)
  <1>1. IsFiniteSet(rows) /\ Cardinality(rows) + Cardinality(busy) <= Cardinality(Workers)
    <2>1. rows \subseteq Breaks
      OBVIOUS
    <2> QED
      BY <2>1, FiniteIds, FS_Subset DEF BreaksInv
  <1>2. busy \in SUBSET Workers /\ busy' \in SUBSET Workers
    BY DEF StartingOn
  <1>3. ASSUME \/ rows' \subseteq rows /\ busy' \subseteq busy
               \/ rows' = {}
               \/ \E row, w : w \in busy /\ rows' \subseteq rows \cup {row}
                                /\ busy' \subseteq busy \ {w}
        PROVE  Cardinality(rows') + Cardinality(busy') <= Cardinality(Workers)
    <2> HIDE DEF rows, busy
    <2> QED
      BY <1>1, <1>2, <1>3, Budget
  <1>4. CASE NoneStarted
    <2>1. rows' \subseteq rows /\ busy' \subseteq busy
      BY <1>4 DEF NoneStarted, StartingOn
    <2> QED
      BY <1>3, <2>1
  <1>5. ASSUME NEW w \in Workers, StartBreakCommit(w)
        PROVE  Cardinality(rows') + Cardinality(busy') <= Cardinality(Workers)
    <2>1. op[w] \in StartBreak
      BY <1>5, Shape DEF StartBreakCommit, Serving
    <2>2. CASE op[w].entry = e
      <3>1. w \in busy
        BY <1>5, <2>2 DEF StartingOn, StartBreakCommit, Serving
      <3>2. rows' \subseteq rows \cup {nextBreak} /\ busy' \subseteq busy \ {w}
        BY <1>5, <2>2 DEF StartBreakCommit, StartingOn, Finish, Idle
      <3> QED
        BY <1>3, <3>1, <3>2
    <2>3. CASE op[w].entry # e
      <3>1. rows' \subseteq rows /\ busy' \subseteq busy
        BY <1>5, <2>3 DEF StartBreakCommit, StartingOn, Finish, Idle
      <3> QED
        BY <1>3, <3>1
    <2> QED
      BY <2>2, <2>3
  <1>6. ASSUME NEW w \in Workers, NEW u \in Users, StartBreakRead(w, u)
        PROVE  Cardinality(rows') + Cardinality(busy') <= Cardinality(Workers)
    <2>1. PICK f \in LatestOpen(u) :
            running[f] = {} /\ Begin(w, [kind |-> "start_break", entry |-> f])
      BY <1>6 DEF StartBreakRead
    <2>2. rows' = rows
      BY <2>1 DEF Begin, breakVars
    <2>3. CASE f = e
      BY <1>3, <2>1, <2>2, <2>3
    <2>4. CASE f # e
      <3>1. busy' \subseteq busy
        BY <2>1, <2>4 DEF Begin, StartingOn
      <3> QED
        BY <1>3, <2>2, <3>1
    <2> QED
      BY <2>3, <2>4
  <1>7. CASE UNCHANGED vars
    <2>1. NoneStarted
      BY <1>7 DEF vars, breakVars, NoneStarted
    <2> QED
      BY <1>4, <2>1
  <1>8. ASSUME NEW w \in Workers, Break(w)
        PROVE  Cardinality(rows') + Cardinality(busy') <= Cardinality(Workers)
    BY <1>4, <1>5, <1>6, <1>8, BreakQuiet
  <1> QED
    BY <1>4, <1>7, <1>8, SessionQuiet, ManualQuiet, CorrectionQuiet, OtherQuiet DEF Next

(* start_break's test bounds the breaks running on a session likewise.     *)
THEOREM RunningBreaksBound == Spec => []RunningBreaksBounded
  <1>1. Init => BreaksInv
    <2> SUFFICES ASSUME Init, NEW e \in Entries
                 PROVE  Cardinality(running[e]) + Cardinality(StartingOn(e))
                          <= Cardinality(Workers)
      BY DEF BreaksInv
    <2>1. running[e] = {} /\ StartingOn(e) = {}
      BY DEF Init, StartingOn, Idle
    <2>2. Cardinality(Workers) \in Nat
      BY WorkersAssumption, FS_CardinalityType
    <2> QED
      BY <2>1, <2>2, FS_EmptySet
  <1>2. TypeInv /\ BreaksInv => RunningBreaksBounded
    <2> SUFFICES ASSUME TypeInv, BreaksInv, NEW e \in Entries
                 PROVE  Cardinality(running[e]) <= Cardinality(Workers)
      BY DEF RunningBreaksBounded
    <2>0. running[e] \subseteq Breaks /\ StartingOn(e) \subseteq Workers
      BY DEF StartingOn
    <2>1. IsFiniteSet(running[e]) /\ IsFiniteSet(StartingOn(e))
      BY <2>0, FiniteIds, WorkersAssumption, FS_Subset
    <2>2. /\ Cardinality(running[e]) \in Nat /\ Cardinality(StartingOn(e)) \in Nat
          /\ Cardinality(Workers) \in Nat
      BY <2>1, WorkersAssumption, FS_CardinalityType
    <2> QED
      BY <2>2 DEF BreaksInv
  <1> QED
    BY <1>1, <1>2, BreaksStep, TypeInvariant, PTL DEF Spec

(* The corrections pending for an entry and those about to be requested    *)
(* never outnumber the workers.                                            *)
LEMMA CorrectionsStep == TypeInv /\ CorrectionsInv /\ [Next]_vars => CorrectionsInv'
  <1> SUFFICES ASSUME TypeInv, CorrectionsInv, [Next]_vars, NEW e \in Entries
               PROVE  (Cardinality(PendingOn(e)) + Cardinality(CorrectingOn(e))
                         <= Cardinality(Workers))'
    BY DEF CorrectionsInv
  <1> DEFINE rows == PendingOn(e)
             busy == CorrectingOn(e)
  <1>1. IsFiniteSet(rows) /\ Cardinality(rows) + Cardinality(busy) <= Cardinality(Workers)
    <2>1. rows \subseteq Corrections
      BY DEF PendingOn
    <2> QED
      BY <2>1, FiniteIds, FS_Subset DEF CorrectionsInv
  <1>2. busy \in SUBSET Workers /\ busy' \in SUBSET Workers
    BY DEF CorrectingOn
  <1>3. ASSUME \/ rows' \subseteq rows /\ busy' \subseteq busy
               \/ rows' = {}
               \/ \E row, w : w \in busy /\ rows' \subseteq rows \cup {row}
                                /\ busy' \subseteq busy \ {w}
        PROVE  Cardinality(rows') + Cardinality(busy') <= Cardinality(Workers)
    <2> HIDE DEF rows, busy
    <2> QED
      BY <1>1, <1>2, <1>3, Budget
  <1>4. CASE NoneAsked
    <2>1. rows' \subseteq rows /\ busy' \subseteq busy
      BY <1>4 DEF NoneAsked, PendingOn, CorrectingOn
    <2> QED
      BY <1>3, <2>1
  <1>5. ASSUME NEW w \in Workers, CorrectCommit(w)
        PROVE  Cardinality(rows') + Cardinality(busy') <= Cardinality(Workers)
    <2>1. op[w] \in Correct
      BY <1>5, Shape DEF CorrectCommit, Serving
    <2>2. PICK c \in Corrections :
            /\ corrStatus' = [corrStatus EXCEPT ![c] = "pending"]
            /\ ask' = [ask EXCEPT ![c] = op[w].ask]
      BY <1>5 DEF CorrectCommit
    <2>3. CASE op[w].ask.entry = e
      <3>1. w \in busy
        BY <1>5, <2>3 DEF CorrectingOn, CorrectCommit, Serving
      <3>2. rows' \subseteq rows \cup {c}
        BY <2>2 DEF PendingOn
      <3>3. busy' \subseteq busy \ {w}
        BY <1>5 DEF CorrectCommit, CorrectingOn, Finish, Idle
      <3> QED
        BY <1>3, <3>1, <3>2, <3>3
    <2>4. CASE op[w].ask.entry # e
      <3>1. rows' \subseteq rows
        BY <2>2, <2>4 DEF PendingOn
      <3>2. busy' \subseteq busy
        BY <1>5 DEF CorrectCommit, CorrectingOn, Finish, Idle
      <3> QED
        BY <1>3, <3>1, <3>2
    <2> QED
      BY <2>3, <2>4
  <1>6. ASSUME NEW w \in Workers, NEW f \in Entries, NEW a \in Wishes, CorrectRead(w, f, a)
        PROVE  Cardinality(rows') + Cardinality(busy') <= Cardinality(Workers)
    <2>1. rows' = rows
      BY <1>6 DEF CorrectRead, Begin, corrVars, PendingOn
    <2>2. CASE f = e
      BY <1>3, <1>6, <2>1, <2>2 DEF CorrectRead
    <2>3. CASE f # e
      <3>1. busy' \subseteq busy
        BY <1>6, <2>3 DEF CorrectRead, Begin, CorrectingOn
      <3> QED
        BY <1>3, <2>1, <3>1
    <2> QED
      BY <2>2, <2>3
  <1>7. CASE UNCHANGED vars
    <2>1. NoneAsked
      BY <1>7 DEF vars, corrVars, NoneAsked
    <2> QED
      BY <1>4, <2>1
  <1>8. ASSUME NEW w \in Workers, Correction(w)
        PROVE  Cardinality(rows') + Cardinality(busy') <= Cardinality(Workers)
    BY <1>4, <1>5, <1>6, <1>8, CorrectionQuiet
  <1> QED
    BY <1>4, <1>7, <1>8, SessionQuiet, BreakQuiet, ManualQuiet, OtherQuiet DEF Next

(* request_correction's test bounds an entry's pending corrections too.    *)
THEOREM PendingCorrectionsBound == Spec => []PendingCorrectionsBounded
  <1>1. Init => CorrectionsInv
    <2> SUFFICES ASSUME Init, NEW e \in Entries
                 PROVE  Cardinality(PendingOn(e)) + Cardinality(CorrectingOn(e))
                          <= Cardinality(Workers)
      BY DEF CorrectionsInv
    <2>1. PendingOn(e) = {} /\ CorrectingOn(e) = {}
      BY DEF Init, PendingOn, CorrectingOn, Idle
    <2>2. Cardinality(Workers) \in Nat
      BY WorkersAssumption, FS_CardinalityType
    <2> QED
      BY <2>1, <2>2, FS_EmptySet
  <1>2. TypeInv /\ CorrectionsInv => PendingCorrectionsBounded
    <2> SUFFICES ASSUME TypeInv, CorrectionsInv, NEW e \in Entries
                 PROVE  Cardinality(PendingOn(e)) <= Cardinality(Workers)
      BY DEF PendingCorrectionsBounded, PendingOn
    <2>0. PendingOn(e) \subseteq Corrections /\ CorrectingOn(e) \subseteq Workers
      BY DEF PendingOn, CorrectingOn
    <2>1. IsFiniteSet(PendingOn(e)) /\ IsFiniteSet(CorrectingOn(e))
      BY <2>0, FiniteIds, WorkersAssumption, FS_Subset
    <2>2. /\ Cardinality(PendingOn(e)) \in Nat /\ Cardinality(CorrectingOn(e)) \in Nat
          /\ Cardinality(Workers) \in Nat
      BY <2>1, WorkersAssumption, FS_CardinalityType
    <2> QED
      BY <2>2 DEF CorrectionsInv
  <1> QED
    BY <1>1, <1>2, CorrectionsStep, TypeInvariant, PTL DEF Spec

(* The three bounds together, as the run checks them.                     *)
THEOREM InsertsBound == Spec => []InsertsBounded
  <1>1. OpenSessionsBounded /\ RunningBreaksBounded /\ PendingCorrectionsBounded => InsertsBounded
    BY DEF InsertsBounded
  <1> QED
    BY <1>1, OpenSessionsBound, RunningBreaksBound, PendingCorrectionsBound, PTL

-----------------------------------------------------------------------------
(***************************************************************************)
(* Requests that overtake one another                                      *)
(***************************************************************************)

(* A copy of an entry is the entry as it is stored.                        *)
Copies(copy, e) ==
    /\ copy.status = status[e] /\ copy.in = checkIn[e] /\ copy.out = checkOut[e]
    /\ copy.basis = basis[e] /\ copy.running = running[e]

(* A row not inserted yet has its defaults.                                *)
FreshRows == \A e \in Entries :
    status[e] = "absent" => basis[e] = NoMinutes /\ running[e] = {} /\ ended[e] = {}

(* No break is running and over, nor has an id that is still to come.      *)
BreaksApart == \A e \in Entries :
    /\ running[e] \cap ended[e] = {}
    /\ \A b \in running[e] \cup ended[e] : b < nextBreak

(* A correction that is there has its entry, and only one that was asked   *)
(* for has an approval.                                                    *)
AskedInv == \A c \in Corrections :
    /\ CorrInDb(c) => InDb(ask[c].entry)
    /\ corrStatus[c] = "absent" => approval[c] = "absent"

RowsInv == FreshRows /\ BreaksApart /\ AskedInv

(* What a request in progress works on has been inserted, and the approval *)
(* a review has found is of the entry its correction is for.               *)
Sound(r) ==
    /\ r.kind = "reset" => \A e \in r.rows : status[e] # "absent"
    /\ r.kind = "review" =>
          /\ corrStatus[r.corr] # "absent"
          /\ \A d \in r.slip : corrStatus[d] # "absent" /\ ask[d].entry = ask[r.corr].entry

(* What a request has read of an entry still holds if nobody has written   *)
(* to the entry since.                                                     *)
Knows(r, written) ==
    /\ r.kind \in {"check_out", "end_break", "rebuild"} /\ r.entry \notin written =>
          Copies(r.loaded, r.entry)
    /\ r.kind \in {"check_out", "end_break"} /\ r.entry \notin written =>
          r.ending \subseteq running[r.entry]
    /\ r.kind = "correct" /\ r.ask.entry \notin written => PendingOn(r.ask.entry) = {}
    /\ r.kind = "review" /\ ask[r.corr].entry \notin written =>
          /\ Copies(r.loaded, ask[r.corr].entry)
          /\ r.slip \subseteq SlipsOn(ask[r.corr].entry)
          /\ r.slip = {} => SlipsOn(ask[r.corr].entry) = {}

(* An entry has one pending approval at most, and with it a request; when  *)
(* its session is over its minutes are those of its times and breaks.      *)
EntryInv(e) ==
    /\ \A c, d \in SlipsOn(e) : c = d
    /\ SlipsOn(e) # {} => PendingOn(e) # {}
    /\ e \notin unsettled /\ status[e] \in {"closed", "corrected", "locked"} =>
          basis[e] = Metrics(checkIn[e], checkOut[e], ended[e])

(* What a worker's step leaves in order: all rows, and the entries nobody  *)
(* has written to behind its back.                                         *)
Keeps(w) ==
    /\ RowsInv'
    /\ \A e \in Entries \ behind[w] : EntryInv(e) => EntryInv(e)'

LEMMA LoadedCopies ==
    ASSUME NEW e
    PROVE  Copies(Loaded(e), e)
  BY DEF Copies, Loaded

LEMMA AnyOneOf ==
    ASSUME NEW S, NEW s \in AnyOne(S)
    PROVE  s \subseteq S /\ (s = {} => S = {})
  BY DEF AnyOne

LEMMA RowParts ==
    ASSUME NEW e, Row(e)' = Row(e)
    PROVE  /\ status'[e] = status[e] /\ checkIn'[e] = checkIn[e] /\ checkOut'[e] = checkOut[e]
           /\ basis'[e] = basis[e] /\ running'[e] = running[e] /\ ended'[e] = ended[e]
           /\ PendingOn(e)' = PendingOn(e) /\ SlipsOn(e)' = SlipsOn(e)
           /\ e \in unsettled' <=> e \in unsettled
  <1> DEFINE a == e \in unsettled
  <1>1. a' = a
    BY DEF Row
  <1>2. a' <=> a
    BY <1>1
  <1> QED
    BY <1>2 DEF Row

(* An entry that stays as it is stays in order.                            *)
LEMMA RowStays ==
    ASSUME NEW e, Row(e)' = Row(e), EntryInv(e)
    PROVE  EntryInv(e)'
  BY RowParts DEF EntryInv

(* A step that writes no row keeps everything.                             *)
LEMMA NothingWritten ==
    ASSUME RowsInv, UNCHANGED <<entryVars, breakVars, corrVars, unsettled>>
    PROVE  RowsInv' /\ \A e \in Entries : EntryInv(e) => EntryInv(e)'
  <1>1. /\ status' = status /\ checkIn' = checkIn /\ checkOut' = checkOut /\ basis' = basis
        /\ running' = running /\ ended' = ended /\ nextBreak' = nextBreak
        /\ corrStatus' = corrStatus /\ ask' = ask /\ approval' = approval
        /\ unsettled' = unsettled
    BY DEF entryVars, breakVars, corrVars
  <1>2. RowsInv'
    BY <1>1 DEF RowsInv, FreshRows, BreaksApart, AskedInv, InDb, CorrInDb
  <1>3. ASSUME NEW e \in Entries, EntryInv(e)
        PROVE  EntryInv(e)'
    BY <1>1, <1>3 DEF EntryInv, SlipsOn, PendingOn
  <1> QED
    BY <1>2, <1>3

-----------------------------------------------------------------------------
(* What the commits write *)

LEMMA InsertRows ==
    ASSUME TypeOK, RowsInv, NEW w \in Workers, NEW e \in Entries, NEW s \in {"open", "corrected"},
           NEW u, NEW d, NEW i, NEW o, Insert(e, u, d, i, o, s),
           UNCHANGED <<running, corrVars>>,
           \/ UNCHANGED <<ended, nextBreak>>
           \/ /\ ended' = [ended EXCEPT ![e] = {nextBreak}]
              /\ nextBreak' = nextBreak + 1
    PROVE  Keeps(w) /\ Copies(Inserted(s, i, o), e)'
  <1>1. /\ status[e] = "absent" /\ status' = [status EXCEPT ![e] = s]
        /\ checkIn' = [checkIn EXCEPT ![e] = i] /\ checkOut' = [checkOut EXCEPT ![e] = o]
        /\ basis' = basis /\ unsettled' = unsettled \cup {e}
        /\ UNCHANGED <<running, corrStatus, ask, approval>>
    BY DEF Insert, NewEntry, corrVars
  <1>2. basis[e] = NoMinutes /\ running[e] = {} /\ ended[e] = {}
    BY <1>1 DEF RowsInv, FreshRows
  <1>3. FreshRows'
    BY <1>1 DEF RowsInv, FreshRows
  <1>4. BreaksApart'
    <2> SUFFICES ASSUME NEW f \in Entries
                 PROVE  /\ running'[f] \cap ended'[f] = {}
                        /\ \A b \in running'[f] \cup ended'[f] : b < nextBreak'
      BY DEF BreaksApart
    <2>1. /\ running[f] \cap ended[f] = {}
          /\ \A b \in running[f] \cup ended[f] : b < nextBreak
          /\ running[f] \cup ended[f] \subseteq Int /\ nextBreak \in Int
      BY DEF RowsInv, BreaksApart, Breaks
    <2>2. /\ running'[f] = running[f]
          /\ \/ ended'[f] = ended[f] /\ nextBreak' = nextBreak
             \/ ended'[f] = ended[f] /\ nextBreak' = nextBreak + 1
             \/ f = e /\ ended'[f] = {nextBreak} /\ nextBreak' = nextBreak + 1
      BY <1>1
    <2> QED
      BY <1>2, <2>1, <2>2
  <1>5. AskedInv'
    BY <1>1 DEF RowsInv, AskedInv, InDb, CorrInDb
  <1>6. ASSUME NEW f \in Entries, EntryInv(f)
        PROVE  EntryInv(f)'
    <2>1. SlipsOn(f)' = SlipsOn(f) /\ PendingOn(f)' = PendingOn(f)
      BY <1>1 DEF SlipsOn, PendingOn
    <2>2. f = e => f \in unsettled'
      BY <1>1
    <2>3. f # e => /\ status'[f] = status[f] /\ checkIn'[f] = checkIn[f]
                   /\ checkOut'[f] = checkOut[f] /\ basis'[f] = basis[f] /\ ended'[f] = ended[f]
                   /\ (f \in unsettled' <=> f \in unsettled)
      BY <1>1
    <2> QED
      BY <1>6, <2>1, <2>2, <2>3 DEF EntryInv
  <1>8. Copies(Inserted(s, i, o), e)'
    BY <1>1, <1>2 DEF Copies, Inserted
  <1> QED
    BY <1>3, <1>4, <1>5, <1>6, <1>8 DEF RowsInv, Keeps

LEMMA CheckInKeeps ==
    ASSUME TypeInv, RowsInv, NEW w \in Workers, CheckInCommit(w)
    PROVE  /\ Keeps(w)
           /\ op'[w].kind = "rebuild" => Copies(op[w].loaded, op[w].entry)'
  <1>0. PICK i : i = op[w].time
    OBVIOUS
  <1>1. PICK e \in Entries :
          /\ Insert(e, op[w].user, DayOf[i], i, NoTime, "open")
          /\ Rebuilding(w, e, Inserted("open", i, NoTime)) \/ Finish(w)
    BY <1>0 DEF CheckInCommit
  <1>2. UNCHANGED <<running, ended, nextBreak, corrVars>>
    BY DEF CheckInCommit, breakVars
  <1>3. Keeps(w) /\ Copies(Inserted("open", i, NoTime), e)'
    BY <1>1, <1>2, InsertRows
  <1>4. op'[w].kind = "rebuild" =>
            op'[w].loaded = Inserted("open", i, NoTime) /\ op'[w].entry = e
    BY <1>1 DEF Rebuilding, Finish, Idle
  <1> QED
    BY <1>3, <1>4 DEF Copies

LEMMA ManualKeepsRows ==
    ASSUME TypeInv, RowsInv, NEW w \in Workers, ManualCommit(w)
    PROVE  /\ Keeps(w)
           /\ op'[w].kind = "rebuild" => Copies(op[w].loaded, op[w].entry)'
  <1>0. PICK i, o : i = op[w].in /\ o = op[w].out
    OBVIOUS
  <1>1. PICK e \in Entries :
          /\ Insert(e, op[w].user, DayOf[i], i, o, "corrected")
          /\ Rebuilding(w, e, Inserted("corrected", i, o)) \/ Finish(w)
          /\ \/ UNCHANGED <<ended, nextBreak>>
             \/ ended' = [ended EXCEPT ![e] = {nextBreak}] /\ nextBreak' = nextBreak + 1
    BY <1>0 DEF ManualCommit
  <1>2. UNCHANGED <<running, corrVars>>
    BY DEF ManualCommit
  <1>3. Keeps(w) /\ Copies(Inserted("corrected", i, o), e)'
    BY <1>1, <1>2, InsertRows
  <1>4. op'[w].kind = "rebuild" =>
            op'[w].loaded = Inserted("corrected", i, o) /\ op'[w].entry = e
    BY <1>1 DEF Rebuilding, Finish, Idle
  <1> QED
    BY <1>3, <1>4 DEF Copies

(* A break of a session ends, if it has not ended already; the session may *)
(* end with it.                                                            *)
LEMMA EndedRows ==
    ASSUME TypeInv, RowsInv, NEW w \in Workers, NEW e \in Entries,
           NEW b, b \subseteq running[e] \cup ended[e],
           running' = [running EXCEPT ![e] = @ \ b], ended' = [ended EXCEPT ![e] = @ \cup b],
           unsettled' = unsettled \cup {e}, UNCHANGED <<nextBreak, corrVars, checkIn, basis>>,
           \/ UNCHANGED <<status, checkOut>>
           \/ /\ status' = [status EXCEPT ![e] = "closed"]
              /\ \E t : checkOut' = [checkOut EXCEPT ![e] = t]
    PROVE  Keeps(w)
  <1>1. /\ \A f \in Entries : status'[f] = "absent" => status[f] = "absent"
        /\ \A f \in Entries : InDb(f) => InDb(f)'
        /\ \A f \in Entries \ {e} : status'[f] = status[f] /\ checkOut'[f] = checkOut[f]
        /\ UNCHANGED <<corrStatus, ask, approval>>
    BY DEF InDb, corrVars
  <1>2. ASSUME NEW f \in Entries
        PROVE  /\ running'[f] \cap ended'[f] = {}
               /\ running'[f] \cup ended'[f] \subseteq running[f] \cup ended[f]
    <2>1. running[f] \cap ended[f] = {}
      BY DEF RowsInv, BreaksApart
    <2>2. \/ f # e /\ running'[f] = running[f] /\ ended'[f] = ended[f]
          \/ /\ running'[f] = running[f] \ b /\ ended'[f] = ended[f] \cup b
             /\ b \subseteq running[f] \cup ended[f]
      OBVIOUS
    <2> QED
      BY <2>1, <2>2
  <1>3. FreshRows'
    <2> SUFFICES ASSUME NEW f \in Entries, status'[f] = "absent"
                 PROVE  basis'[f] = NoMinutes /\ running'[f] = {} /\ ended'[f] = {}
      BY DEF FreshRows
    <2>1. basis[f] = NoMinutes /\ running[f] = {} /\ ended[f] = {}
      BY <1>1 DEF RowsInv, FreshRows
    <2>2. basis'[f] = basis[f]
      OBVIOUS
    <2> QED
      BY <1>2, <2>1, <2>2
  <1>4. BreaksApart'
    <2>1. nextBreak' = nextBreak
      OBVIOUS
    <2>2. \A f \in Entries : \A k \in running[f] \cup ended[f] : k < nextBreak
      BY DEF RowsInv, BreaksApart
    <2> QED
      BY <1>2, <2>1, <2>2 DEF BreaksApart
  <1>5. AskedInv'
    BY <1>1 DEF RowsInv, AskedInv, CorrInDb
  <1>6. ASSUME NEW f \in Entries, EntryInv(f)
        PROVE  EntryInv(f)'
    <2>1. SlipsOn(f)' = SlipsOn(f) /\ PendingOn(f)' = PendingOn(f)
      BY <1>1 DEF SlipsOn, PendingOn
    <2>2. f = e => f \in unsettled'
      OBVIOUS
    <2>3. f # e => /\ status'[f] = status[f] /\ checkIn'[f] = checkIn[f]
                   /\ checkOut'[f] = checkOut[f] /\ basis'[f] = basis[f] /\ ended'[f] = ended[f]
                   /\ (f \in unsettled' <=> f \in unsettled)
      BY <1>1
    <2> QED
      BY <1>6, <2>1, <2>2, <2>3 DEF EntryInv
  <1> QED
    BY <1>3, <1>4, <1>5, <1>6 DEF RowsInv, Keeps

LEMMA CheckOutKeeps ==
    ASSUME TypeInv, RowsInv, NEW w \in Workers, Knows(op[w], behind[w]), CheckOutCommit(w)
    PROVE  /\ Keeps(w)
           /\ op'[w].entry \notin behind[w] => Copies(op[w].loaded, op[w].entry)'
  <1>0. PICK e, t, b, copy : /\ e = op[w].entry /\ t = op[w].time /\ b = op[w].ending
                             /\ copy = op[w].loaded
    OBVIOUS
  <1>1. /\ e \in Entries /\ copy \in Snapshot /\ op[w].kind = "check_out"
        /\ e \notin behind[w] => b \subseteq running[e] /\ Copies(copy, e)
    <2>1. op[w] \in CheckOut /\ op[w].kind = "check_out"
      BY Shape DEF CheckOutCommit, Serving
    <2> QED
      BY <1>0, <2>1 DEF CheckOut, Knows
  <1>2. /\ running' = [running EXCEPT ![e] = @ \ b] /\ ended' = [ended EXCEPT ![e] = @ \cup b]
        /\ status' = [status EXCEPT ![e] = "closed"] /\ checkOut' = [checkOut EXCEPT ![e] = t]
        /\ unsettled' = unsettled \cup {e} /\ Rebuilding(w, e, CheckedOut(copy, t, b))
        /\ UNCHANGED <<checkIn, basis, nextBreak, corrVars>>
        /\ b \subseteq running[e] \cup ended[e]
    BY <1>0 DEF CheckOutCommit
  <1>3. Keeps(w)
    BY <1>1, <1>2, EndedRows
  <1> DEFINE new == CheckedOut(copy, t, b)
  <1>4. /\ new.status = "closed" /\ new.out = t /\ new.running = copy.running \ b
        /\ new.in = copy.in /\ new.basis = copy.basis
    BY <1>1 DEF CheckedOut, Snapshot
  <1> HIDE DEF new
  <1>5. op'[w].loaded = new /\ op'[w].entry = e
    BY <1>2 DEF Rebuilding, new
  <1>6. e \notin behind[w] =>
            /\ new.status = status'[e] /\ new.in = checkIn'[e] /\ new.out = checkOut'[e]
            /\ new.basis = basis'[e] /\ new.running = running'[e]
    BY <1>1, <1>2, <1>4 DEF Copies
  <1> QED
    BY <1>3, <1>5, <1>6 DEF Copies

LEMMA EndBreakKeeps ==
    ASSUME TypeInv, RowsInv, NEW w \in Workers, Knows(op[w], behind[w]), EndBreakCommit(w)
    PROVE  /\ Keeps(w)
           /\ op'[w].entry \notin behind[w] => Copies(op[w].loaded, op[w].entry)'
  <1>0. PICK e, b, copy : e = op[w].entry /\ b = op[w].ending /\ copy = op[w].loaded
    OBVIOUS
  <1>1. /\ e \in Entries /\ copy \in Snapshot
        /\ e \notin behind[w] => b \subseteq running[e] /\ Copies(copy, e)
    <2>1. op[w] \in EndBreak /\ op[w].kind = "end_break"
      BY Shape DEF EndBreakCommit, Serving
    <2> QED
      BY <1>0, <2>1 DEF EndBreak, Knows
  <1>2. /\ running' = [running EXCEPT ![e] = @ \ b] /\ ended' = [ended EXCEPT ![e] = @ \cup b]
        /\ unsettled' = unsettled \cup {e}
        /\ Rebuilding(w, e, [copy EXCEPT !.running = @ \ b])
        /\ UNCHANGED <<status, checkIn, checkOut, basis, nextBreak, corrVars>>
        /\ b \subseteq running[e] \cup ended[e]
    BY <1>0 DEF EndBreakCommit, entryVars
  <1>3. Keeps(w)
    BY <1>1, <1>2, EndedRows
  <1> DEFINE new == [copy EXCEPT !.running = @ \ b]
  <1>4. /\ new.status = copy.status /\ new.out = copy.out /\ new.running = copy.running \ b
        /\ new.in = copy.in /\ new.basis = copy.basis
    BY <1>1 DEF Snapshot
  <1> HIDE DEF new
  <1>5. op'[w].loaded = new /\ op'[w].entry = e
    BY <1>2 DEF Rebuilding, new
  <1>6. e \notin behind[w] =>
            /\ new.status = status'[e] /\ new.in = checkIn'[e] /\ new.out = checkOut'[e]
            /\ new.basis = basis'[e] /\ new.running = running'[e]
    BY <1>1, <1>2, <1>4 DEF Copies
  <1> QED
    BY <1>3, <1>5, <1>6 DEF Copies

LEMMA StartBreakKeeps ==
    ASSUME TypeInv, RowsInv, NEW w \in Workers, StartBreakCommit(w)
    PROVE  Keeps(w)
  <1>0. PICK e : e = op[w].entry
    OBVIOUS
  <1>1. e \in Entries
    BY <1>0, Shape DEF StartBreakCommit, Serving, StartBreak
  <1>2. /\ InDb(e) /\ running' = [running EXCEPT ![e] = @ \cup {nextBreak}]
        /\ nextBreak' = nextBreak + 1
        /\ UNCHANGED <<status, checkIn, checkOut, basis, ended, corrStatus, ask, approval, unsettled>>
    BY <1>0 DEF StartBreakCommit, entryVars, corrVars
  <1>3. FreshRows'
    BY <1>1, <1>2 DEF RowsInv, FreshRows, InDb
  <1>4. BreaksApart'
    <2> SUFFICES ASSUME NEW f \in Entries
                 PROVE  /\ running'[f] \cap ended'[f] = {}
                        /\ \A b \in running'[f] \cup ended'[f] : b < nextBreak'
      BY DEF BreaksApart
    <2>1. /\ running[f] \cap ended[f] = {}
          /\ \A b \in running[f] \cup ended[f] : b < nextBreak
          /\ running[f] \cup ended[f] \subseteq Int /\ nextBreak \in Int
      BY DEF RowsInv, BreaksApart, Breaks
    <2>2. /\ running'[f] \subseteq running[f] \cup {nextBreak} /\ ended'[f] = ended[f]
          /\ nextBreak' = nextBreak + 1
      BY <1>1, <1>2
    <2> QED
      BY <2>1, <2>2
  <1>5. AskedInv'
    BY <1>2 DEF RowsInv, AskedInv, CorrInDb, InDb
  <1>6. ASSUME NEW f \in Entries, EntryInv(f)
        PROVE  EntryInv(f)'
    BY <1>2, <1>6 DEF EntryInv, SlipsOn, PendingOn
  <1> QED
    BY <1>3, <1>4, <1>5, <1>6 DEF RowsInv, Keeps

(* The copy the minutes are rebuilt from is the row, and what it has of    *)
(* running breaks is running.                                              *)
LEMMA RebuildKeeps ==
    ASSUME TypeInv, RowsInv, NEW w \in Workers, Knows(op[w], behind[w]), RebuildCommit(w)
    PROVE  Keeps(w)
  <1>0. PICK e, old : e = op[w].entry /\ old = op[w].loaded
    OBVIOUS
  <1>1. e \in Entries /\ (e \notin behind[w] => Copies(old, e))
    <2>1. op[w] \in Rebuild /\ op[w].kind = "rebuild"
      BY Shape DEF RebuildCommit, Serving
    <2> QED
      BY <1>0, <2>1 DEF Rebuild, Knows
  <1>2. /\ InDb(e) /\ unsettled' = unsettled \ {e}
        /\ basis' = [basis EXCEPT
              ![e] = Written(old.basis, Metrics(old.in, old.out, ended[e] \ old.running), @)]
        /\ UNCHANGED <<status, checkIn, checkOut, running, ended, nextBreak,
                       corrStatus, ask, approval>>
    BY <1>0 DEF RebuildCommit, breakVars, corrVars
  <1>3. FreshRows'
    BY <1>2 DEF RowsInv, FreshRows, InDb
  <1>4. BreaksApart'
    BY <1>2 DEF RowsInv, BreaksApart
  <1>5. AskedInv'
    BY <1>2 DEF RowsInv, AskedInv, CorrInDb, InDb
  <1>6. ASSUME NEW f \in Entries \ behind[w], EntryInv(f)
        PROVE  EntryInv(f)'
    <2>1. SlipsOn(f)' = SlipsOn(f) /\ PendingOn(f)' = PendingOn(f)
      BY <1>2 DEF SlipsOn, PendingOn
    <2>2. CASE f = e
      <3>1. Copies(old, e)
        BY <1>1, <2>2
      <3>2. ended[e] \ old.running = ended[e]
        BY <1>1, <3>1 DEF Copies, RowsInv, BreaksApart
      <3>3. basis'[e] = Metrics(checkIn[e], checkOut[e], ended[e])
        BY <1>1, <1>2, <3>1, <3>2 DEF Copies, Written
      <3> QED
        BY <1>2, <1>6, <2>1, <2>2, <3>3 DEF EntryInv
    <2>3. CASE f # e
      BY <1>2, <1>6, <2>1, <2>3 DEF EntryInv
    <2> QED
      BY <2>2, <2>3
  <1> QED
    BY <1>3, <1>4, <1>5, <1>6 DEF RowsInv, Keeps

LEMMA ResetKeeps ==
    ASSUME TypeInv, RowsInv, NEW w \in Workers, ResetCommit(w)
    PROVE  Keeps(w)
  <1>0. PICK gone : gone = op[w].rows
    OBVIOUS
  <1>1. /\ status' = [e \in Entries |-> IF e \in gone THEN "deleted" ELSE status[e]]
        /\ running' = [e \in Entries |-> IF e \in gone THEN {} ELSE running[e]]
        /\ ended' = [e \in Entries |-> IF e \in gone THEN {} ELSE ended[e]]
        /\ corrStatus' = [c \in Corrections |->
              IF corrStatus[c] # "absent" /\ ask[c].entry \in gone THEN "deleted" ELSE corrStatus[c]]
        /\ approval' = [c \in Corrections |->
              IF corrStatus[c] # "absent" /\ ask[c].entry \in gone THEN "deleted" ELSE approval[c]]
        /\ checkIn' = [e \in Entries |-> IF e \in gone THEN NoTime ELSE checkIn[e]]
        /\ checkOut' = [e \in Entries |-> IF e \in gone THEN NoTime ELSE checkOut[e]]
        /\ basis' = [e \in Entries |-> IF e \in gone THEN NoMinutes ELSE basis[e]]
        /\ unsettled' = unsettled \ gone
        /\ UNCHANGED <<nextBreak, ask>>
    BY <1>0 DEF ResetCommit
  <1>2. FreshRows'
    BY <1>1 DEF RowsInv, FreshRows
  <1>3. BreaksApart'
    BY <1>1 DEF RowsInv, BreaksApart
  <1>4. AskedInv'
    <2> SUFFICES ASSUME NEW c \in Corrections
                 PROVE  /\ CorrInDb(c)' => InDb(ask[c].entry)'
                        /\ corrStatus'[c] = "absent" => approval'[c] = "absent"
      BY DEF AskedInv
    <2>1. /\ CorrInDb(c) => InDb(ask[c].entry)
          /\ corrStatus[c] = "absent" => approval[c] = "absent"
      BY DEF RowsInv, AskedInv
    <2> QED
      BY <1>1, <2>1 DEF CorrInDb, InDb
  <1>5. ASSUME NEW e \in Entries, EntryInv(e)
        PROVE  EntryInv(e)'
    <2>1. \A c \in Corrections : corrStatus[c] = "absent" => approval[c] = "absent"
      BY DEF RowsInv, AskedInv
    <2>2. CASE e \in gone
      <3>1. SlipsOn(e)' = {}
        BY <1>1, <2>1, <2>2 DEF SlipsOn
      <3>2. status'[e] = "deleted"
        BY <1>1, <2>2
      <3> QED
        BY <3>1, <3>2 DEF EntryInv
    <2>3. CASE e \notin gone
      <3>1. SlipsOn(e)' = SlipsOn(e) /\ PendingOn(e)' = PendingOn(e)
        BY <1>1, <2>3 DEF SlipsOn, PendingOn
      <3>2. /\ status'[e] = status[e] /\ checkIn'[e] = checkIn[e] /\ checkOut'[e] = checkOut[e]
            /\ basis'[e] = basis[e] /\ ended'[e] = ended[e]
            /\ e \in unsettled' <=> e \in unsettled
        BY <1>1, <2>3
      <3> QED
        BY <1>5, <3>1, <3>2 DEF EntryInv
    <2> QED
      BY <2>2, <2>3
  <1> QED
    BY <1>2, <1>3, <1>4, <1>5 DEF RowsInv, Keeps

LEMMA CorrectKeeps ==
    ASSUME TypeInv, RowsInv, NEW w \in Workers, Knows(op[w], behind[w]), CorrectCommit(w)
    PROVE  Keeps(w)
  <1>0. PICK a : a = op[w].ask
    OBVIOUS
  <1>1. a.entry \in Entries /\ a \in Ask /\ (a.entry \notin behind[w] => PendingOn(a.entry) = {})
    <2>1. op[w].kind = "correct" /\ op[w] \in Correct
      BY Shape DEF CorrectCommit, Serving
    <2> QED
      BY <1>0, <2>1 DEF Knows, Correct
  <1>2. PICK c \in Corrections :
          /\ corrStatus[c] = "absent"
          /\ corrStatus' = [corrStatus EXCEPT ![c] = "pending"]
          /\ ask' = [ask EXCEPT ![c] = a]
          /\ approval' = [approval EXCEPT ![c] = "pending"]
    BY <1>0 DEF CorrectCommit, NewCorr
  <1>3. InDb(a.entry) /\ UNCHANGED <<entryVars, breakVars, unsettled>>
    BY <1>0 DEF CorrectCommit
  <1>4. FreshRows' /\ BreaksApart'
    BY <1>3 DEF RowsInv, FreshRows, BreaksApart, entryVars, breakVars
  <1>5. AskedInv'
    BY <1>1, <1>2, <1>3 DEF RowsInv, AskedInv, CorrInDb, InDb, entryVars
  <1>6. ASSUME NEW e \in Entries \ behind[w], EntryInv(e)
        PROVE  EntryInv(e)'
    <2>1. /\ \A d, f \in SlipsOn(e) : d = f
          /\ SlipsOn(e) # {} => PendingOn(e) # {}
      BY <1>6 DEF EntryInv
    <2>2. /\ \A d, f \in SlipsOn(e)' : d = f
          /\ SlipsOn(e)' # {} => PendingOn(e)' # {}
      <3>1. CASE e = a.entry
        <4>1. SlipsOn(e) = {}
          BY <1>1, <2>1, <3>1
        <4>2. SlipsOn(e)' \subseteq {c} /\ c \in PendingOn(e)'
          BY <1>2, <3>1, <4>1 DEF SlipsOn, PendingOn
        <4> QED
          BY <4>2
      <3>2. CASE e # a.entry
        <4>1. SlipsOn(e)' \subseteq SlipsOn(e) /\ PendingOn(e) \subseteq PendingOn(e)'
          BY <1>2, <3>2 DEF SlipsOn, PendingOn
        <4> QED
          BY <2>1, <4>1
      <3> QED
        BY <3>1, <3>2
    <2> QED
      BY <1>3, <1>6, <2>2 DEF EntryInv, entryVars, breakVars
  <1> QED
    BY <1>4, <1>5, <1>6 DEF RowsInv, Keeps

(* The decision, on the request and on the approval that was found: all of *)
(* them are of one entry.                                                  *)
LEMMA DecisionKeeps ==
    ASSUME TypeInv, RowsInv, NEW w \in Workers, Sound(op[w]), Knows(op[w], behind[w]),
           ReviewCommit(w)
    PROVE  /\ \A e \in Entries \ behind[w] : EntryInv(e) =>
                 /\ \A d, f \in SlipsOn(e)' : d = f
                 /\ SlipsOn(e)' # {} => PendingOn(e)' # {}
           /\ \A d \in Corrections : /\ CorrInDb(d)' => CorrInDb(d)
                                     /\ corrStatus'[d] = "absent" => approval'[d] = "absent"
           /\ CorrInDb(op[w].corr) /\ op[w].corr \in Corrections
           /\ ask[op[w].corr].entry \notin behind[w] =>
                 Copies(op[w].loaded, ask[op[w].corr].entry)
  <1>0. PICK c, slip, seen, decision : /\ c = op[w].corr /\ slip = op[w].slip
                                       /\ seen = op[w].seen /\ decision = op[w].decision
    OBVIOUS
  <1>1. /\ op[w] \in Review /\ op[w].kind = "review"
    BY Shape DEF ReviewCommit, Serving
  <1>2. /\ c \in Corrections /\ decision \in Decision /\ slip \subseteq Corrections
        /\ \A d \in slip : corrStatus[d] # "absent" /\ ask[d].entry = ask[c].entry
        /\ ask[c].entry \notin behind[w] =>
              /\ slip \subseteq SlipsOn(ask[c].entry) /\ (slip = {} => SlipsOn(ask[c].entry) = {})
              /\ Copies(op[w].loaded, ask[c].entry)
    BY <1>0, <1>1 DEF Review, Knows, Sound
  <1>3. /\ CorrInDb(c) /\ ask' = ask
        /\ corrStatus' = [corrStatus EXCEPT ![c] = Written(seen, decision, @)]
        /\ approval' = [d \in Corrections |-> IF d \in slip THEN decision ELSE approval[d]]
    BY <1>0 DEF ReviewCommit
  <1>4. /\ corrStatus'[c] \in {corrStatus[c], decision} /\ decision \in {"approved", "rejected"}
        /\ \A d \in Corrections \ {c} : corrStatus'[d] = corrStatus[d]
    BY <1>2, <1>3 DEF Written, Decision
  <1>6. ASSUME NEW e \in Entries \ behind[w], EntryInv(e)
        PROVE  /\ \A d, f \in SlipsOn(e)' : d = f
               /\ SlipsOn(e)' # {} => PendingOn(e)' # {}
    <2>1. /\ \A d, f \in SlipsOn(e) : d = f
          /\ SlipsOn(e) # {} => PendingOn(e) # {}
      BY <1>6 DEF EntryInv
    <2>2. SlipsOn(e)' \subseteq SlipsOn(e) \ slip
      BY <1>2, <1>3, <1>4 DEF SlipsOn
    <2>3. CASE e = ask[c].entry
      <3>1. SlipsOn(e)' = {}
        BY <1>2, <2>1, <2>2, <2>3
      <3> QED
        BY <3>1
    <2>4. CASE e # ask[c].entry
      <3>1. PendingOn(e)' = PendingOn(e)
        BY <1>3, <1>4, <2>4 DEF PendingOn
      <3> QED
        BY <2>1, <2>2, <3>1
    <2> QED
      BY <2>3, <2>4
  <1>7. ASSUME NEW d \in Corrections
        PROVE  /\ CorrInDb(d)' => CorrInDb(d)
               /\ corrStatus'[d] = "absent" => approval'[d] = "absent"
    <2>1. corrStatus[d] = "absent" => approval[d] = "absent"
      BY DEF RowsInv, AskedInv
    <2>2. d \in slip => corrStatus[d] # "absent"
      BY <1>2
    <2>3. /\ CorrInDb(d)' => CorrInDb(d)
          /\ corrStatus'[d] = "absent" => corrStatus[d] = "absent"
      BY <1>3, <1>4 DEF CorrInDb
    <2> QED
      BY <1>3, <2>1, <2>2, <2>3
  <1> QED
    BY <1>0, <1>2, <1>3, <1>6, <1>7

(* A column of a row nobody else has written becomes what it is set to.    *)
LEMMA WrittenAlone ==
    ASSUME NEW stored, NEW new
    PROVE  Written(stored, new, stored) = new
  BY DEF Written

LEMMA ApplyRows ==
    ASSUME TypeInv, RowsInv, NEW c \in Corrections, NEW e \in Entries, e = ask[c].entry,
           InDb(e), NEW old, Apply(c, old)
    PROVE  /\ FreshRows' /\ BreaksApart' /\ \A f \in Entries : InDb(f) => InDb(f)'
           /\ \A f \in Entries \ {e} :
                /\ status'[f] = status[f] /\ checkIn'[f] = checkIn[f]
                /\ checkOut'[f] = checkOut[f] /\ basis'[f] = basis[f] /\ ended'[f] = ended[f]
                /\ f \in unsettled' <=> f \in unsettled
           /\ Copies(old, e) => basis'[e] = Metrics(checkIn'[e], checkOut'[e], ended'[e])
  <1>0. PICK i, o : /\ i = IF ask[c].wish.in # NoTime THEN ask[c].wish.in ELSE old.in
                    /\ o = IF ask[c].wish.out # NoTime THEN ask[c].wish.out ELSE old.out
    OBVIOUS
  <1>1. /\ status' = [status EXCEPT ![e] = Written(old.status, "corrected", @)]
        /\ checkIn' = [checkIn EXCEPT ![e] = Written(old.in, i, @)]
        /\ checkOut' = [checkOut EXCEPT ![e] = Written(old.out, o, @)]
        /\ basis' = [basis EXCEPT ![e] = Written(old.basis, Metrics(i, o, ended'[e]), @)]
        /\ unsettled' = unsettled \ {e}
    BY <1>0 DEF Apply
  <1>2. \/ UNCHANGED <<running, ended, nextBreak>>
        \/ /\ running' = [running EXCEPT ![e] = {}]
           /\ \/ ended' = [ended EXCEPT ![e] = {nextBreak}] /\ nextBreak' = nextBreak + 1
              \/ ended' = [ended EXCEPT ![e] = {}] /\ nextBreak' = nextBreak
    BY DEF Apply, breakVars
  <1>3. /\ status'[e] \in {status[e], "corrected"}
        /\ Copies(old, e) => basis'[e] = Metrics(checkIn'[e], checkOut'[e], ended'[e])
    <2>1. status'[e] \in {status[e], "corrected"}
      BY <1>1 DEF Written
    <2>2. ASSUME Copies(old, e)
          PROVE  checkIn'[e] = i /\ checkOut'[e] = o /\ basis'[e] = Metrics(i, o, ended'[e])
      <3>1. old.in = checkIn[e] /\ old.out = checkOut[e] /\ old.basis = basis[e]
        BY <2>2 DEF Copies
      <3> QED
        BY <1>1, <3>1, WrittenAlone
    <2> QED
      BY <2>1, <2>2
  <1>4. \A f \in Entries \ {e} :
          /\ status'[f] = status[f] /\ checkIn'[f] = checkIn[f] /\ checkOut'[f] = checkOut[f]
          /\ basis'[f] = basis[f] /\ running'[f] = running[f] /\ ended'[f] = ended[f]
          /\ f \in unsettled' <=> f \in unsettled
    BY <1>1, <1>2
  <1>5. status[e] # "absent" /\ status'[e] # "absent"
    BY <1>3 DEF InDb
  <1>6. FreshRows'
    BY <1>4, <1>5 DEF RowsInv, FreshRows
  <1>7. BreaksApart'
    <2> SUFFICES ASSUME NEW f \in Entries
                 PROVE  /\ running'[f] \cap ended'[f] = {}
                        /\ \A b \in running'[f] \cup ended'[f] : b < nextBreak'
      BY DEF BreaksApart
    <2>1. /\ running[f] \cap ended[f] = {}
          /\ \A b \in running[f] \cup ended[f] : b < nextBreak
          /\ running[f] \cup ended[f] \subseteq Int /\ nextBreak \in Int
      BY DEF RowsInv, BreaksApart, Breaks
    <2>2. CASE f = e
      BY <1>2, <2>1, <2>2
    <2>3. CASE f # e
      <3>1. running'[f] = running[f] /\ ended'[f] = ended[f]
        BY <1>4, <2>3
      <3>2. nextBreak' \in {nextBreak, nextBreak + 1}
        BY <1>2
      <3> QED
        BY <2>1, <3>1, <3>2
    <2> QED
      BY <2>2, <2>3
  <1>8. \A f \in Entries : InDb(f) => InDb(f)'
    BY <1>3, <1>4 DEF InDb
  <1> QED
    BY <1>3, <1>4, <1>6, <1>7, <1>8

LEMMA ReviewKeeps ==
    ASSUME TypeInv, RowsInv, NEW w \in Workers, Sound(op[w]), Knows(op[w], behind[w]),
           ReviewCommit(w)
    PROVE  Keeps(w)
  <1>0. PICK c, old : c = op[w].corr /\ old = op[w].loaded
    OBVIOUS
  <1>1. /\ CorrInDb(c) /\ c \in Corrections
        /\ ask[c].entry \notin behind[w] => Copies(old, ask[c].entry)
        /\ \A e \in Entries \ behind[w] : EntryInv(e) =>
                 /\ \A d, f \in SlipsOn(e)' : d = f
                 /\ SlipsOn(e)' # {} => PendingOn(e)' # {}
        /\ \A d \in Corrections : /\ CorrInDb(d)' => CorrInDb(d)
                                  /\ corrStatus'[d] = "absent" => approval'[d] = "absent"
    BY <1>0, DecisionKeeps
  <1>2. /\ Apply(c, old) \/ UNCHANGED <<status, checkIn, checkOut, basis, breakVars, unsettled>>
        /\ ask' = ask
    BY <1>0 DEF ReviewCommit
  <1>3. PICK e \in Entries : e = ask[c].entry /\ InDb(e)
    BY <1>1 DEF CorrInDb, RowsInv, AskedInv
  <1>4. FreshRows' /\ BreaksApart' /\ \A f \in Entries : InDb(f) => InDb(f)'
    <2>1. CASE Apply(c, old)
      BY <1>1, <1>3, <2>1, ApplyRows
    <2>2. CASE UNCHANGED <<status, checkIn, checkOut, basis, breakVars, unsettled>>
      BY <2>2 DEF RowsInv, FreshRows, BreaksApart, InDb, breakVars
    <2> QED
      BY <1>2, <2>1, <2>2
  <1>6. ASSUME NEW f \in Entries \ behind[w], EntryInv(f),
               f \notin unsettled', status'[f] \in {"closed", "corrected", "locked"}
        PROVE  basis'[f] = Metrics(checkIn'[f], checkOut'[f], ended'[f])
    <2>1. f \notin unsettled /\ status[f] \in {"closed", "corrected", "locked"} =>
              basis[f] = Metrics(checkIn[f], checkOut[f], ended[f])
      BY <1>6 DEF EntryInv
    <2>2. CASE Apply(c, old) /\ f = e
      BY <1>1, <1>3, <2>2, ApplyRows
    <2>3. CASE Apply(c, old) /\ f # e
      <3>1. /\ status'[f] = status[f] /\ checkIn'[f] = checkIn[f]
            /\ checkOut'[f] = checkOut[f] /\ basis'[f] = basis[f] /\ ended'[f] = ended[f]
            /\ f \in unsettled' <=> f \in unsettled
        BY <1>1, <1>3, <2>3, ApplyRows
      <3> QED
        BY <1>6, <2>1, <3>1
    <2>4. CASE UNCHANGED <<status, checkIn, checkOut, basis, breakVars, unsettled>>
      BY <1>6, <2>1, <2>4 DEF breakVars
    <2> QED
      BY <1>2, <2>2, <2>3, <2>4
  <1>5. AskedInv'
    <2> SUFFICES ASSUME NEW d \in Corrections, CorrInDb(d)'
                 PROVE  InDb(ask[d].entry)'
      BY <1>1 DEF AskedInv
    <2>1. CorrInDb(d) /\ ask'[d] = ask[d]
      BY <1>1, <1>2
    <2>2. ask[d].entry \in Entries /\ InDb(ask[d].entry)
      BY <2>1 DEF CorrInDb, RowsInv, AskedInv
    <2>3. PICK f \in Entries : f = ask[d].entry
      BY <2>2
    <2>4. InDb(f)'
      BY <1>4, <2>2, <2>3
    <2> QED
      BY <2>1, <2>3, <2>4 DEF InDb
  <1> QED
    BY <1>1, <1>4, <1>5, <1>6 DEF RowsInv, EntryInv, Keeps

LEMMA PeriodKeepsRows ==
    ASSUME TypeInv, RowsInv, NEW w \in Workers, Period(w)
    PROVE  RowsInv' /\ \A e \in Entries : EntryInv(e) => EntryInv(e)'
  <1>1. /\ \A e \in Entries : \/ status'[e] = status[e]
                              \/ /\ status[e] \in {"closed", "corrected", "locked"}
                                 /\ status'[e] \in {"locked", "closed"}
        /\ UNCHANGED <<owner, date, checkIn, checkOut, basis, breakVars, corrVars, op, unsettled>>
    <2>1. ASSUME NEW p \in Periods, LockPeriod(w, p[1], p[2])
          PROVE  \A e \in Entries : \/ status'[e] = status[e]
                              \/ /\ status[e] \in {"closed", "corrected", "locked"}
                                 /\ status'[e] \in {"locked", "closed"}
      BY <2>1 DEF LockPeriod, InDb, EntryStatus
    <2>2. ASSUME NEW l \in Locks, UnlockPeriod(w, l)
          PROVE  \A e \in Entries : \/ status'[e] = status[e]
                              \/ /\ status[e] \in {"closed", "corrected", "locked"}
                                 /\ status'[e] \in {"locked", "closed"}
      BY <2>2 DEF UnlockPeriod, Unmarked
    <2> QED
      BY <2>1, <2>2 DEF Period, LockPeriod, UnlockPeriod
  <1>2. FreshRows' /\ BreaksApart'
    BY <1>1 DEF RowsInv, FreshRows, BreaksApart, breakVars
  <1>3. AskedInv'
    <2>1. \A e \in Entries : InDb(e) => InDb(e)'
      BY <1>1 DEF InDb
    <2> QED
      BY <1>1, <2>1 DEF RowsInv, AskedInv, CorrInDb, corrVars
  <1>4. ASSUME NEW e \in Entries, EntryInv(e)
        PROVE  EntryInv(e)'
    <2>1. SlipsOn(e)' = SlipsOn(e) /\ PendingOn(e)' = PendingOn(e)
      BY <1>1 DEF SlipsOn, PendingOn, corrVars
    <2>2. \/ status'[e] = status[e]
          \/ status[e] \in {"closed", "corrected", "locked"}
      BY <1>1
    <2> QED
      BY <1>1, <1>4, <2>1, <2>2 DEF EntryInv, breakVars
  <1> QED
    BY <1>2, <1>3, <1>4 DEF RowsInv

-----------------------------------------------------------------------------
(* From the read to the commit *)

(* Every active lock on a day is newer than the request.                   *)
Told(d, since) == \A l \in Locks : Active(l) /\ Covers(l, d) => l \in since

(* What a request has asked is_locked about                                *)
Asked(r, since) ==
    /\ r.kind = "check_in" => Told(DayOf[r.time], since)
    /\ r.kind = "manual" => Told(DayOf[r.in], since)
    /\ r.kind = "reset" => \A e \in r.rows : Told(date[e], since)

InOrder(w) == Sound(op[w]) /\ Knows(op[w], behind[w]) /\ Asked(op[w], newer[w])

HistoryInv ==
    /\ RowsInv
    /\ \A w \in Workers : InOrder(w)
    /\ \A e \in Entries \ crossed : EntryInv(e)

(* Rows are never made anew, and a lock comes into force only when it is   *)
(* inserted.                                                               *)
LEMMA RowsLast ==
    ASSUME TypeInv, Next
    PROVE  /\ \A e \in Entries : status[e] # "absent" =>
                 status'[e] # "absent" /\ date'[e] = date[e]
           /\ \A c \in Corrections : corrStatus[c] # "absent" =>
                 corrStatus'[c] # "absent" /\ ask'[c] = ask[c]
           /\ \A l \in Locks : Active(l)' =>
                 \/ l \in Brought
                 \/ Active(l) /\ lock'[l].from = lock[l].from /\ lock'[l].to = lock[l].to
  <1> DEFINE Last == /\ \A e \in Entries : status[e] # "absent" =>
                           status'[e] # "absent" /\ date'[e] = date[e]
                     /\ \A c \in Corrections : corrStatus[c] # "absent" =>
                           corrStatus'[c] # "absent" /\ ask'[c] = ask[c]
  <1>1. ASSUME NEW w \in Workers, Session(w) \/ Break(w) \/ Abort(w)
        PROVE  Last /\ lock' = lock
    BY <1>1 DEF Session, Break, Abort, Begin, Insert, NewEntry, entryVars, breakVars, corrVars,
       CheckInRead, CheckInCommit, CheckOutRead, CheckOutCommit, RebuildCommit,
       StartBreakRead, StartBreakCommit, EndBreakRead, EndBreakCommit
  <1>2. ASSUME NEW w \in Workers, Manual(w)
        PROVE  Last /\ lock' = lock
    BY <1>2 DEF Manual, Begin, Insert, NewEntry, entryVars, breakVars, corrVars,
       ManualRead, ManualCommit, ResetRead, ResetCommit
  <1>3. ASSUME NEW w \in Workers, Correction(w)
        PROVE  Last /\ lock' = lock
    <2>1. CASE ReviewCommit(w)
      <3>1. op[w] \in Review
        BY <2>1, Shape DEF ReviewCommit, Serving
      <3>2. /\ lock' = lock /\ date' = date /\ ask' = ask
            /\ corrStatus' = [corrStatus EXCEPT ![op[w].corr] =
                                Written(op[w].seen, op[w].decision, @)]
            /\ \/ status' = status
               \/ status' = [status EXCEPT ![ask[op[w].corr].entry] =
                                Written(op[w].loaded.status, "corrected", @)]
        BY <2>1 DEF ReviewCommit, Apply
      <3>3. /\ \A c \in Corrections : corrStatus'[c] \in {corrStatus[c], "approved", "rejected"}
            /\ \A e \in Entries : status'[e] \in {status[e], "corrected"}
        BY <3>1, <3>2 DEF Written, Review, Decision
      <3> QED
        BY <3>2, <3>3
    <2>2. CASE ~ReviewCommit(w)
      BY <1>3, <2>2 DEF Correction, Begin, NewCorr, entryVars, breakVars, corrVars,
         CorrectRead, CorrectCommit, ReviewRead
    <2> QED
      BY <2>1, <2>2
  <1>4. ASSUME NEW w \in Workers, Period(w)
        PROVE  /\ Last
               /\ \A l \in Locks : Active(l)' =>
                    \/ l \in Brought
                    \/ Active(l) /\ lock'[l].from = lock[l].from /\ lock'[l].to = lock[l].to
    <2>1. ASSUME NEW p \in Periods, LockPeriod(w, p[1], p[2])
          PROVE  /\ Last
                 /\ \A l \in Locks : Active(l)' =>
                      \/ l \in Brought
                      \/ Active(l) /\ lock'[l].from = lock[l].from /\ lock'[l].to = lock[l].to
      BY <2>1 DEF LockPeriod, NewLock, Active, Brought, corrVars
    <2>2. ASSUME NEW l \in Locks, UnlockPeriod(w, l)
          PROVE  /\ Last
                 /\ \A k \in Locks : Active(k)' =>
                      \/ k \in Brought
                      \/ Active(k) /\ lock'[k].from = lock[k].from /\ lock'[k].to = lock[k].to
      <3>1. \A k \in Locks : /\ k # l => lock'[k] = lock[k]
                             /\ lock'[l].status = "unlocked"
        BY <2>2 DEF UnlockPeriod, Lock
      <3> QED
        BY <2>2, <3>1 DEF UnlockPeriod, Unmarked, Active, corrVars
    <2> QED
      BY <1>4, <2>1, <2>2 DEF Period
  <1>5. lock' = lock => \A l \in Locks : Active(l)' =>
            Active(l) /\ lock'[l].from = lock[l].from /\ lock'[l].to = lock[l].to
    BY DEF Active
  <1> QED
    BY <1>1, <1>2, <1>3, <1>4, <1>5 DEF Next

(* Whoever does not move adds what happens to its history, and whoever     *)
(* goes on keeps it.                                                       *)
LEMMA HistoryGrows ==
    ASSUME HistoryNext, NEW x \in Workers, op[x] # Idle
    PROVE  /\ op'[x] = op[x] => /\ behind'[x] = behind[x] \cup Touched
                                /\ newer'[x] = newer[x] \cup Brought
           /\ op'[x] # op[x] /\ op'[x] # Idle => behind'[x] = behind[x]
  <1>1. /\ behind'[x] = Since(x, behind[x], Touched)
        /\ newer'[x] = Since(x, newer[x], Brought)
    BY DEF HistoryNext
  <1> QED
    BY <1>1 DEF Since, Waits, GoesOn

(* What a request has asked stays answered while others move.              *)
LEMMA AskedStays ==
    ASSUME TypeInv, Next, NEW x \in Workers, op'[x] = op[x],
           newer'[x] = newer[x] \cup Brought, Sound(op[x]), Asked(op[x], newer[x])
    PROVE  Asked(op[x], newer[x])'
  <1>1. ASSUME NEW d, Told(d, newer[x])
        PROVE  \A l \in Locks : Active(l)' /\ lock'[l].from <= d /\ d <= lock'[l].to =>
                   l \in newer'[x]
    BY <1>1, RowsLast DEF Told, Covers
  <1> DEFINE Still(d) == \A l \in Locks :
                 Active(l)' /\ lock'[l].from <= d /\ d <= lock'[l].to => l \in newer'[x]
  <1>2. op[x].kind = "check_in" => Still(DayOf[op[x].time])
    BY <1>1 DEF Asked
  <1>3. op[x].kind = "manual" => Still(DayOf[op[x].in])
    BY <1>1 DEF Asked
  <1>4. op[x].kind = "reset" => \A e \in op[x].rows : Still(date'[e])
    <2> SUFFICES ASSUME op[x].kind = "reset", NEW e \in op[x].rows
                 PROVE  Still(date'[e])
      OBVIOUS
    <2>1. op[x].rows \subseteq Entries
      BY Shape DEF Reset
    <2>2. date'[e] = date[e]
      BY <2>1, RowsLast DEF Sound
    <2>3. Told(date[e], newer[x])
      BY DEF Asked
    <2> QED
      BY <1>1, <2>2, <2>3
  <1> QED
    BY <1>2, <1>3, <1>4 DEF Asked, Told, Covers, Active

(* A request that waits knows as much as before of every entry nobody has  *)
(* written to meanwhile.                                                   *)
LEMMA WaitingInOrder ==
    ASSUME TypeInv, HistoryNext, NEW x \in Workers, op'[x] = op[x], InOrder(x)
    PROVE  InOrder(x)'
  <1>1. CASE op[x] = Idle
    BY <1>1 DEF InOrder, Sound, Knows, Asked, Idle
  <1>2. CASE op[x] # Idle
    <2>0. Next /\ Sound(op[x]) /\ Knows(op[x], behind[x]) /\ Asked(op[x], newer[x])
      BY DEF HistoryNext, InOrder
    <2>1. behind'[x] = behind[x] \cup Touched /\ newer'[x] = newer[x] \cup Brought
      BY <1>2, HistoryGrows
    <2>2. Asked(op[x], newer[x])'
      BY <2>0, <2>1, AskedStays
    <2>3. ASSUME NEW e \in Entries, e \notin behind'[x]
          PROVE  e \notin behind[x] /\ Row(e)' = Row(e)
      BY <2>1, <2>3 DEF Touched
    <2>4. Sound(op[x])'
      <3>1. op[x].kind = "reset" => op[x].rows \subseteq Entries
        BY Shape DEF Reset
      <3>2. op[x].kind = "review" => op[x].corr \in Corrections /\ op[x].slip \subseteq Corrections
        BY Shape DEF Review
      <3> QED
        BY <2>0, <3>1, <3>2, RowsLast DEF Sound
    <2>5. ASSUME op[x].kind \in {"check_out", "end_break", "rebuild"},
                 op[x].entry \notin behind'[x]
          PROVE  /\ Copies(op[x].loaded, op[x].entry)'
                 /\ op[x].kind \in {"check_out", "end_break"} =>
                       op[x].ending \subseteq running'[op[x].entry]
      <3>1. op[x].entry \in Entries
        BY <2>5, Shape DEF CheckOut, EndBreak, Rebuild
      <3>2. PICK e \in Entries : e = op[x].entry
        BY <3>1
      <3>3. e \notin behind[x] /\ Row(e)' = Row(e)
        BY <2>3, <2>5, <3>2
      <3>4. /\ status'[e] = status[e] /\ checkIn'[e] = checkIn[e] /\ checkOut'[e] = checkOut[e]
            /\ basis'[e] = basis[e] /\ running'[e] = running[e]
        BY <3>3, RowParts
      <3> QED
        BY <2>0, <2>5, <3>2, <3>3, <3>4 DEF Knows, Copies
    <2>6. ASSUME op[x].kind = "correct", op[x].ask.entry \notin behind'[x]
          PROVE  PendingOn(op[x].ask.entry)' = {}
      <3>1. PICK e \in Entries : e = op[x].ask.entry
        BY <2>6
      <3>2. e \notin behind[x] /\ Row(e)' = Row(e)
        BY <2>3, <2>6, <3>1
      <3>3. PendingOn(e) = {} /\ PendingOn(e)' = PendingOn(e)
        BY <2>0, <2>6, <3>1, <3>2, RowParts DEF Knows
      <3> QED
        BY <3>1, <3>3 DEF PendingOn
    <2>7. ASSUME op[x].kind = "review", ask'[op[x].corr].entry \notin behind'[x]
          PROVE  /\ Copies(op[x].loaded, ask[op[x].corr].entry)'
                 /\ op[x].slip \subseteq SlipsOn(ask[op[x].corr].entry)'
                 /\ op[x].slip = {} => SlipsOn(ask[op[x].corr].entry)' = {}
      <3>0. op[x].corr \in Corrections /\ corrStatus[op[x].corr] # "absent"
        BY <2>0, <2>7, Shape DEF Review, Sound
      <3>1. PICK e \in Entries : e = ask[op[x].corr].entry /\ e = ask'[op[x].corr].entry
        BY <2>0, <3>0, RowsLast
      <3>2. e \notin behind[x] /\ Row(e)' = Row(e)
        BY <2>3, <2>7, <3>1
      <3>3. /\ status'[e] = status[e] /\ checkIn'[e] = checkIn[e] /\ checkOut'[e] = checkOut[e]
            /\ basis'[e] = basis[e] /\ running'[e] = running[e] /\ SlipsOn(e)' = SlipsOn(e)
        BY <3>2, RowParts
      <3>4. /\ Copies(op[x].loaded, e) /\ op[x].slip \subseteq SlipsOn(e)
            /\ op[x].slip = {} => SlipsOn(e) = {}
        BY <2>0, <2>7, <3>1, <3>2 DEF Knows
      <3>5. Copies(op[x].loaded, ask[op[x].corr].entry)'
        BY <3>1, <3>3, <3>4 DEF Copies
      <3>6. SlipsOn(ask[op[x].corr].entry)' = SlipsOn(e)
        BY <3>1, <3>3 DEF SlipsOn
      <3> QED
        BY <3>4, <3>5, <3>6
    <2>8. Knows(op[x], behind[x])'
      BY <2>5, <2>6, <2>7 DEF Knows, Copies, PendingOn, SlipsOn
    <2> QED
      BY <2>2, <2>4, <2>8 DEF InOrder
  <1> QED
    BY <1>1, <1>2

(* A request that begins knows what it has just read.                      *)
LEMMA BeginInOrder ==
    ASSUME TypeOK, NEW w \in Workers, NEW r, Begin(w, r), Sound(r), Knows(r, {}), Asked(r, {})
    PROVE  InOrder(w)'
  <1>1. /\ op'[w] = r
        /\ UNCHANGED <<entryVars, breakVars, corrVars, lock>>
    BY DEF Begin
  <1>2. /\ status' = status /\ date' = date /\ checkIn' = checkIn /\ checkOut' = checkOut
        /\ basis' = basis /\ running' = running /\ corrStatus' = corrStatus /\ ask' = ask
        /\ approval' = approval /\ lock' = lock
    BY <1>1 DEF entryVars, breakVars, corrVars
  <1>3. Sound(op[w])'
    BY <1>1, <1>2 DEF Sound
  <1>4. Knows(op[w], behind[w])'
    BY <1>1, <1>2 DEF Knows, Copies, PendingOn, SlipsOn
  <1>5. Asked(op[w], newer[w])'
    BY <1>1, <1>2 DEF Asked, Told, Active, Covers
  <1> QED
    BY <1>3, <1>4, <1>5 DEF InOrder

LEMMA SessionReads ==
    ASSUME TypeInv, NEW w \in Workers
    PROVE  /\ \A u \in Users, t \in Times, k \in BOOLEAN : CheckInRead(w, u, t, k) => InOrder(w)'
           /\ \A u \in Users, t \in Times : CheckOutRead(w, u, t) => InOrder(w)'
           /\ \A u \in Users : StartBreakRead(w, u) \/ EndBreakRead(w, u) => InOrder(w)'
  <1>1. ASSUME NEW u \in Users, NEW t \in Times, NEW k \in BOOLEAN, CheckInRead(w, u, t, k)
        PROVE  InOrder(w)'
    <2> DEFINE r == [kind |-> "check_in", user |-> u, time |-> t, kiosk |-> k]
    <2>1. Sound(r) /\ Knows(r, {}) /\ Asked(r, {})
      BY <1>1 DEF CheckInRead, Sound, Knows, Asked, Told, IsLocked
    <2> QED
      BY <1>1, <2>1, BeginInOrder DEF CheckInRead
  <1>2. ASSUME NEW u \in Users, NEW t \in Times, CheckOutRead(w, u, t)
        PROVE  InOrder(w)'
    <2>0. PICK e \in LatestOpen(u) : \E b \in AnyOne(running[e]) :
            Begin(w, [kind |-> "check_out", entry |-> e, time |-> t,
                      ending |-> b, loaded |-> Loaded(e)])
      BY <1>2 DEF CheckOutRead
    <2>1. PICK b \in SUBSET running[e] :
            Begin(w, [kind |-> "check_out", entry |-> e, time |-> t,
                      ending |-> b, loaded |-> Loaded(e)])
      BY <2>0 DEF AnyOne
    <2> DEFINE r == [kind |-> "check_out", entry |-> e, time |-> t, ending |-> b,
                     loaded |-> Loaded(e)]
    <2>2. Sound(r) /\ Knows(r, {}) /\ Asked(r, {})
      BY LoadedCopies DEF Sound, Knows, Asked
    <2> QED
      BY <2>1, <2>2, BeginInOrder
  <1>3. ASSUME NEW u \in Users, StartBreakRead(w, u)
        PROVE  InOrder(w)'
    <2>1. PICK e : Begin(w, [kind |-> "start_break", entry |-> e])
      BY <1>3 DEF StartBreakRead
    <2> DEFINE r == [kind |-> "start_break", entry |-> e]
    <2>2. Sound(r) /\ Knows(r, {}) /\ Asked(r, {})
      BY DEF Sound, Knows, Asked
    <2> QED
      BY <2>1, <2>2, BeginInOrder
  <1>4. ASSUME NEW u \in Users, EndBreakRead(w, u)
        PROVE  InOrder(w)'
    <2>0. PICK e \in LatestOpen(u) : \E b \in running[e] :
            Begin(w, [kind |-> "end_break", entry |-> e, ending |-> {b}, loaded |-> Loaded(e)])
      BY <1>4 DEF EndBreakRead
    <2>1. PICK b \in running[e] :
            Begin(w, [kind |-> "end_break", entry |-> e, ending |-> {b}, loaded |-> Loaded(e)])
      BY <2>0
    <2> DEFINE r == [kind |-> "end_break", entry |-> e, ending |-> {b}, loaded |-> Loaded(e)]
    <2>2. Sound(r) /\ Knows(r, {}) /\ Asked(r, {})
      BY LoadedCopies DEF Sound, Knows, Asked
    <2> QED
      BY <2>1, <2>2, BeginInOrder
  <1> QED
    BY <1>1, <1>2, <1>3, <1>4

LEMMA ManualReads ==
    ASSUME TypeInv, NEW w \in Workers
    PROVE  /\ \A u \in Users, i, o \in Times, rest, self \in BOOLEAN :
                 ManualRead(w, u, i, o, rest, self) => InOrder(w)'
           /\ \A u \in Users, d \in Days : ResetRead(w, u, d) => InOrder(w)'
  <1>1. ASSUME NEW u \in Users, NEW i \in Times, NEW o \in Times, NEW rest \in BOOLEAN,
               NEW self \in BOOLEAN, ManualRead(w, u, i, o, rest, self)
        PROVE  InOrder(w)'
    <2> DEFINE r == [kind |-> "manual", user |-> u, in |-> i, out |-> o, rest |-> rest,
                     self |-> self]
    <2>1. Sound(r) /\ Knows(r, {}) /\ Asked(r, {})
      BY <1>1 DEF ManualRead, Sound, Knows, Asked, Told, IsLocked
    <2> QED
      BY <1>1, <2>1, BeginInOrder DEF ManualRead
  <1>2. ASSUME NEW u \in Users, NEW d \in Days, ResetRead(w, u, d)
        PROVE  InOrder(w)'
    <2> DEFINE r == [kind |-> "reset", rows |-> OnDay(u, d)]
    <2>1. Sound(r) /\ Knows(r, {}) /\ Asked(r, {})
      BY <1>2 DEF ResetRead, OnDay, InDb, Sound, Knows, Asked, Told, IsLocked
    <2> QED
      BY <1>2, <2>1, BeginInOrder DEF ResetRead
  <1> QED
    BY <1>1, <1>2

LEMMA CorrectionReads ==
    ASSUME TypeInv, RowsInv, NEW w \in Workers
    PROVE  /\ \A e \in Entries, a \in Wishes : CorrectRead(w, e, a) => InOrder(w)'
           /\ \A c \in Corrections, d \in Decision : ReviewRead(w, c, d) => InOrder(w)'
  <1>1. ASSUME NEW e \in Entries, NEW a \in Wishes, CorrectRead(w, e, a)
        PROVE  InOrder(w)'
    <2> DEFINE r == [kind |-> "correct", ask |-> [entry |-> e, wish |-> a]]
    <2>1. Begin(w, r) /\ PendingOn(e) = {}
      BY <1>1 DEF CorrectRead
    <2>2. Sound(r) /\ Knows(r, {}) /\ Asked(r, {})
      BY <2>1 DEF Sound, Knows, Asked
    <2> QED
      BY <2>1, <2>2, BeginInOrder
  <1>2. ASSUME NEW c \in Corrections, NEW d \in Decision, ReviewRead(w, c, d)
        PROVE  InOrder(w)'
    <2>0. PICK s \in AnyOne(SlipsOn(ask[c].entry)) :
            Begin(w, [kind |-> "review", corr |-> c, seen |-> corrStatus[c], decision |-> d,
                      slip |-> s, loaded |-> Loaded(ask[c].entry)])
      BY <1>2 DEF ReviewRead
    <2> DEFINE r == [kind |-> "review", corr |-> c, seen |-> corrStatus[c], decision |-> d,
                     slip |-> s, loaded |-> Loaded(ask[c].entry)]
    <2>1. s \subseteq SlipsOn(ask[c].entry) /\ (s = {} => SlipsOn(ask[c].entry) = {})
      BY AnyOneOf
    <2>2. corrStatus[c] # "absent"
      BY <1>2 DEF ReviewRead, CorrInDb
    <2>3. \A f \in SlipsOn(ask[c].entry) : corrStatus[f] # "absent" /\ ask[f].entry = ask[c].entry
      BY DEF SlipsOn, RowsInv, AskedInv
    <2>4. Sound(r) /\ Asked(r, {})
      BY <2>1, <2>2, <2>3 DEF Sound, Asked
    <2>5. Knows(r, {})
      BY <2>1, LoadedCopies DEF Knows
    <2> QED
      BY <2>0, <2>4, <2>5, BeginInOrder
  <1> QED
    BY <1>1, <1>2

(* A worker's step, whatever it is: the rows stay in order, and so do the  *)
(* entries, but for those others have written to since it began.           *)
Leaves(w) ==
    /\ RowsInv'
    /\ \A e \in Entries : EntryInv(e) /\ (op'[w] # op[w] => e \notin behind[w]) => EntryInv(e)'

(* A commit ends the request or goes on to the rebuild.                    *)
Ends(w) == op'[w] = Idle \/ op'[w].kind = "rebuild"

LEMMA RebuildInOrder ==
    ASSUME HistoryNext, NEW w \in Workers, op[w].kind # "idle", op'[w] # op[w], Ends(w),
           op'[w].kind = "rebuild" /\ op'[w].entry \notin behind[w] =>
               Copies(op[w].loaded, op[w].entry)'
    PROVE  InOrder(w)'
  <1>1. CASE op'[w] = Idle
    BY <1>1 DEF InOrder, Sound, Knows, Asked, Idle
  <1>2. CASE op'[w].kind = "rebuild"
    <2>1. behind'[w] = behind[w]
      BY <1>2, HistoryGrows DEF Idle
    <2> QED
      BY <1>2, <2>1 DEF InOrder, Sound, Knows, Asked, Copies
  <1> QED
    BY <1>1, <1>2 DEF Ends

LEMMA SessionLeaves ==
    ASSUME TypeInv, HistoryNext, HistoryInv, NEW w \in Workers, Session(w)
    PROVE  Leaves(w) /\ InOrder(w)'
  <1>0. RowsInv /\ InOrder(w) /\ Sound(op[w]) /\ Knows(op[w], behind[w])
    BY DEF HistoryInv, InOrder
  <1>1. ASSUME NEW u \in Users, NEW t \in Times, NEW k \in BOOLEAN, CheckInRead(w, u, t, k)
        PROVE  Leaves(w) /\ InOrder(w)'
    BY <1>0, <1>1, NothingWritten, SessionReads DEF CheckInRead, Begin, Leaves
  <1>2. ASSUME NEW u \in Users, NEW t \in Times, CheckOutRead(w, u, t)
        PROVE  Leaves(w) /\ InOrder(w)'
    BY <1>0, <1>2, NothingWritten, SessionReads DEF CheckOutRead, Begin, Leaves
  <1>3. CASE CheckInCommit(w)
    <2>1. op[w].kind = "check_in" /\ Ends(w)
      BY <1>3 DEF CheckInCommit, Serving, Rebuilding, Finish, Ends
    <2>2. Leaves(w)
      BY <1>0, <1>3, <2>1, CheckInKeeps DEF Keeps, Leaves, Ends, Idle
    <2>3. op[w].kind # "idle" /\ op'[w] # op[w]
      BY <2>1 DEF Ends, Idle
    <2> QED
      BY <1>0, <1>3, <2>1, <2>2, <2>3, RebuildInOrder, CheckInKeeps
  <1>4. CASE CheckOutCommit(w)
    <2>1. op[w].kind = "check_out" /\ Ends(w)
      BY <1>4 DEF CheckOutCommit, Serving, Rebuilding, Ends
    <2>2. Leaves(w)
      BY <1>0, <1>4, <2>1, CheckOutKeeps DEF Keeps, Leaves, Ends, Idle
    <2>3. op[w].kind # "idle" /\ op'[w] # op[w]
      BY <2>1 DEF Ends, Idle
    <2> QED
      BY <1>0, <1>4, <2>1, <2>2, <2>3, RebuildInOrder, CheckOutKeeps
  <1>5. CASE RebuildCommit(w)
    <2>1. op[w].kind = "rebuild" /\ op'[w] = Idle
      BY <1>5 DEF RebuildCommit, Serving, Finish
    <2>2. Leaves(w)
      BY <1>0, <1>5, <2>1, RebuildKeeps DEF Keeps, Leaves, Idle
    <2> QED
      BY <2>1, <2>2, RebuildInOrder DEF Ends, Idle
  <1> QED
    BY <1>1, <1>2, <1>3, <1>4, <1>5 DEF Session

LEMMA BreakLeaves ==
    ASSUME TypeInv, HistoryNext, HistoryInv, NEW w \in Workers, Break(w)
    PROVE  Leaves(w) /\ InOrder(w)'
  <1>0. RowsInv /\ InOrder(w) /\ Sound(op[w]) /\ Knows(op[w], behind[w])
    BY DEF HistoryInv, InOrder
  <1>1. ASSUME NEW u \in Users, StartBreakRead(w, u) \/ EndBreakRead(w, u)
        PROVE  Leaves(w) /\ InOrder(w)'
    BY <1>0, <1>1, NothingWritten, SessionReads DEF StartBreakRead, EndBreakRead, Begin, Leaves
  <1>2. CASE StartBreakCommit(w)
    <2>1. op[w].kind = "start_break" /\ op'[w] = Idle
      BY <1>2 DEF StartBreakCommit, Serving, Finish
    <2>2. Leaves(w)
      BY <1>0, <1>2, <2>1, StartBreakKeeps DEF Keeps, Leaves, Idle
    <2> QED
      BY <2>1, <2>2, RebuildInOrder DEF Ends, Idle
  <1>3. CASE EndBreakCommit(w)
    <2>1. op[w].kind = "end_break" /\ Ends(w)
      BY <1>3 DEF EndBreakCommit, Serving, Rebuilding, Ends
    <2>2. Leaves(w)
      BY <1>0, <1>3, <2>1, EndBreakKeeps DEF Keeps, Leaves, Ends, Idle
    <2>3. op[w].kind # "idle" /\ op'[w] # op[w]
      BY <2>1 DEF Ends, Idle
    <2> QED
      BY <1>0, <1>3, <2>1, <2>2, <2>3, RebuildInOrder, EndBreakKeeps
  <1> QED
    BY <1>1, <1>2, <1>3 DEF Break

LEMMA ManualLeaves ==
    ASSUME TypeInv, HistoryNext, HistoryInv, NEW w \in Workers, Manual(w)
    PROVE  Leaves(w) /\ InOrder(w)'
  <1>0. RowsInv /\ InOrder(w) /\ Sound(op[w]) /\ Knows(op[w], behind[w])
    BY DEF HistoryInv, InOrder
  <1>1. ASSUME NEW u \in Users, NEW i \in Times, NEW o \in Times, NEW rest \in BOOLEAN,
               NEW self \in BOOLEAN, ManualRead(w, u, i, o, rest, self)
        PROVE  Leaves(w) /\ InOrder(w)'
    BY <1>0, <1>1, NothingWritten, ManualReads DEF ManualRead, Begin, Leaves
  <1>2. ASSUME NEW u \in Users, NEW d \in Days, ResetRead(w, u, d)
        PROVE  Leaves(w) /\ InOrder(w)'
    BY <1>0, <1>2, NothingWritten, ManualReads DEF ResetRead, Begin, Leaves
  <1>3. CASE ManualCommit(w)
    <2>1. op[w].kind = "manual" /\ Ends(w)
      BY <1>3 DEF ManualCommit, Serving, Rebuilding, Finish, Ends
    <2>2. Leaves(w)
      BY <1>0, <1>3, <2>1, ManualKeepsRows DEF Keeps, Leaves, Ends, Idle
    <2>3. op[w].kind # "idle" /\ op'[w] # op[w]
      BY <2>1 DEF Ends, Idle
    <2> QED
      BY <1>0, <1>3, <2>1, <2>2, <2>3, RebuildInOrder, ManualKeepsRows
  <1>4. CASE ResetCommit(w)
    <2>1. op[w].kind = "reset" /\ op'[w] = Idle
      BY <1>4 DEF ResetCommit, Serving, Finish
    <2>2. Leaves(w)
      BY <1>0, <1>4, <2>1, ResetKeeps DEF Keeps, Leaves, Idle
    <2> QED
      BY <2>1, <2>2, RebuildInOrder DEF Ends, Idle
  <1> QED
    BY <1>1, <1>2, <1>3, <1>4 DEF Manual

LEMMA CorrectionLeaves ==
    ASSUME TypeInv, HistoryNext, HistoryInv, NEW w \in Workers, Correction(w)
    PROVE  Leaves(w) /\ InOrder(w)'
  <1>0. RowsInv /\ InOrder(w) /\ Sound(op[w]) /\ Knows(op[w], behind[w])
    BY DEF HistoryInv, InOrder
  <1>1. ASSUME NEW e \in Entries, NEW a \in Wishes, CorrectRead(w, e, a)
        PROVE  Leaves(w) /\ InOrder(w)'
    BY <1>0, <1>1, NothingWritten, CorrectionReads DEF CorrectRead, Begin, Leaves
  <1>2. ASSUME NEW c \in Corrections, NEW d \in Decision, ReviewRead(w, c, d)
        PROVE  Leaves(w) /\ InOrder(w)'
    BY <1>0, <1>2, NothingWritten, CorrectionReads DEF ReviewRead, Begin, Leaves
  <1>3. CASE CorrectCommit(w)
    <2>1. op[w].kind = "correct" /\ op'[w] = Idle
      BY <1>3 DEF CorrectCommit, Serving, Finish
    <2>2. Leaves(w)
      BY <1>0, <1>3, <2>1, CorrectKeeps DEF Keeps, Leaves, Idle
    <2> QED
      BY <2>1, <2>2, RebuildInOrder DEF Ends, Idle
  <1>4. CASE ReviewCommit(w)
    <2>1. op[w].kind = "review" /\ op'[w] = Idle
      BY <1>4 DEF ReviewCommit, Serving, Finish
    <2>2. Leaves(w)
      BY <1>0, <1>4, <2>1, ReviewKeeps DEF Keeps, Leaves, Idle
    <2> QED
      BY <2>1, <2>2, RebuildInOrder DEF Ends, Idle
  <1> QED
    BY <1>1, <1>2, <1>3, <1>4 DEF Correction

(* Only one worker moves at a time.                                        *)
LEMMA OneMoves ==
    ASSUME TypeInv, NEW w \in Workers, NEW x \in Workers, x # w,
           Session(w) \/ Break(w) \/ Manual(w) \/ Correction(w) \/ Period(w) \/ Abort(w)
    PROVE  op'[x] = op[x]
  <1>1. ASSUME NEW r, op' = [op EXCEPT ![w] = r]
        PROVE  op'[x] = op[x]
    BY <1>1
  <1>2. \A e, copy : Rebuilding(w, e, copy) => op'[x] = op[x]
    BY <1>1 DEF Rebuilding
  <1>3. Finish(w) => op'[x] = op[x]
    BY <1>1 DEF Finish
  <1>4. \A r : Begin(w, r) => op'[x] = op[x]
    BY <1>1 DEF Begin
  <1>5. CASE Session(w) \/ Break(w) \/ Abort(w)
    BY <1>2, <1>3, <1>4, <1>5 DEF Session, Break, Abort, CheckInRead, CheckInCommit,
       CheckOutRead, CheckOutCommit, RebuildCommit, StartBreakRead, StartBreakCommit,
       EndBreakRead, EndBreakCommit
  <1>6. CASE Manual(w) \/ Correction(w)
    BY <1>2, <1>3, <1>4, <1>6 DEF Manual, Correction, ManualRead, ManualCommit, ResetRead,
       ResetCommit, CorrectRead, CorrectCommit, ReviewRead, ReviewCommit
  <1>7. CASE Period(w)
    BY <1>7 DEF Period, LockPeriod, UnlockPeriod
  <1> QED
    BY <1>5, <1>6, <1>7

LEMMA WorkerLeaves ==
    ASSUME TypeInv, HistoryNext, HistoryInv, NEW w \in Workers,
           Session(w) \/ Break(w) \/ Manual(w) \/ Correction(w) \/ Period(w) \/ Abort(w)
    PROVE  Leaves(w) /\ InOrder(w)'
  <1>0. RowsInv /\ InOrder(w)
    BY DEF HistoryInv
  <1>1. CASE Period(w)
    <2>1. op' = op
      BY <1>1 DEF Period, LockPeriod, UnlockPeriod
    <2>2. Leaves(w)
      BY <1>0, <1>1, PeriodKeepsRows DEF Leaves
    <2> QED
      BY <1>0, <2>1, <2>2, WaitingInOrder
  <1>2. CASE Abort(w)
    <2>1. op'[w] = Idle
      BY <1>2 DEF Abort, Finish
    <2>2. Leaves(w)
      BY <1>0, <1>2, NothingWritten DEF Abort, Leaves
    <2> QED
      BY <2>1, <2>2 DEF InOrder, Sound, Knows, Asked, Idle
  <1> QED
    BY <1>1, <1>2, SessionLeaves, BreakLeaves, ManualLeaves, CorrectionLeaves

LEMMA HistoryStep == TypeInv /\ HistoryInv /\ HistoryNext => HistoryInv'
  <1> SUFFICES ASSUME TypeInv, HistoryInv, HistoryNext PROVE HistoryInv'
    OBVIOUS
  <1>1. PICK w \in Workers :
          Session(w) \/ Break(w) \/ Manual(w) \/ Correction(w) \/ Period(w) \/ Abort(w)
    BY DEF HistoryNext, Next
  <1>2. Leaves(w) /\ InOrder(w)'
    BY <1>1, WorkerLeaves
  <1>3. ASSUME NEW x \in Workers
        PROVE  InOrder(x)'
    <2>1. CASE x = w
      BY <1>2, <2>1
    <2>2. CASE x # w
      <3>1. op'[x] = op[x] /\ InOrder(x)
        BY <1>1, <2>2, OneMoves DEF HistoryInv
      <3> QED
        BY <3>1, WaitingInOrder
    <2> QED
      BY <2>1, <2>2
  <1>4. ASSUME NEW e \in Entries, e \notin crossed'
        PROVE  EntryInv(e)'
    <2>1. /\ e \notin crossed
          /\ op'[w] # op[w] /\ e \in behind[w] => Row(e)' = Row(e)
      BY <1>4 DEF HistoryNext
    <2>2. EntryInv(e)
      BY <2>1 DEF HistoryInv
    <2>3. CASE Row(e)' = Row(e)
      BY <2>2, <2>3, RowStays
    <2>4. CASE Row(e)' # Row(e)
      BY <1>2, <2>1, <2>2, <2>4 DEF Leaves
    <2> QED
      BY <2>3, <2>4
  <1> QED
    BY <1>2, <1>3, <1>4 DEF HistoryInv, Leaves

LEMMA HistoryStarts == HistoryInit => HistoryInv
  <1> SUFFICES ASSUME HistoryInit PROVE HistoryInv
    OBVIOUS
  <1>1. RowsInv
    BY DEF HistoryInit, Init, RowsInv, FreshRows, BreaksApart, AskedInv, CorrInDb
  <1>2. \A e \in Entries : EntryInv(e)
    BY DEF HistoryInit, Init, EntryInv, SlipsOn
  <1>3. \A w \in Workers : InOrder(w)
    BY DEF HistoryInit, Init, InOrder, Sound, Knows, Asked, Idle
  <1> QED
    BY <1>1, <1>2, <1>3 DEF HistoryInv

LEMMA HistoryStutters ==
    HistoryInv /\ UNCHANGED <<vars, historyVars>> => HistoryInv'
  <1> SUFFICES ASSUME HistoryInv, UNCHANGED <<vars, historyVars>> PROVE HistoryInv'
    OBVIOUS
  <1>1. /\ UNCHANGED <<entryVars, breakVars, corrVars, unsettled>>
        /\ status' = status /\ date' = date /\ checkIn' = checkIn /\ checkOut' = checkOut
        /\ basis' = basis /\ running' = running /\ corrStatus' = corrStatus /\ ask' = ask
        /\ approval' = approval /\ lock' = lock /\ op' = op
        /\ newer' = newer /\ behind' = behind /\ crossed' = crossed
    BY DEF vars, entryVars, breakVars, corrVars, historyVars
  <1>2. RowsInv' /\ \A e \in Entries \ crossed' : EntryInv(e)'
    BY <1>1, NothingWritten DEF HistoryInv
  <1>3. ASSUME NEW w \in Workers
        PROVE  InOrder(w)'
    <2>0. Sound(op[w]) /\ Knows(op[w], behind[w]) /\ Asked(op[w], newer[w])
      BY DEF HistoryInv, InOrder
    <2>1. Sound(op[w])'
      BY <1>1, <2>0 DEF Sound
    <2>2. Knows(op[w], behind[w])'
      BY <1>1, <2>0 DEF Knows, Copies, PendingOn, SlipsOn
    <2>3. Asked(op[w], newer[w])'
      BY <1>1, <2>0 DEF Asked, Told, Active, Covers
    <2> QED
      BY <2>1, <2>2, <2>3 DEF InOrder
  <1> QED
    BY <1>2, <1>3 DEF HistoryInv

LEMMA HistoryInvariant == HistorySpec => [](TypeInv /\ HistoryInv)
  <1>1. HistoryInit => TypeInv /\ HistoryInv
    BY TypeInit, HistoryStarts DEF HistoryInit
  <1>2. TypeInv /\ HistoryInv /\ [HistoryNext]_<<vars, historyVars>> => TypeInv' /\ HistoryInv'
    <2>1. [HistoryNext]_<<vars, historyVars>> => [Next]_vars
      BY DEF HistoryNext
    <2> QED
      BY <2>1, TypeStep, HistoryStep, HistoryStutters
  <1> QED
    BY <1>1, <1>2, PTL DEF HistorySpec

(* An entry has no more pending approvals than pending corrections,        *)
(* although a review decides whichever approval of the entry it finds,     *)
(* until a request about the entry that another one overtook writes all    *)
(* the same (request_correction, review_correction).                       *)
THEOREM NoApprovalStrays == HistorySpec => []NoStrayApproval
  <1>1. TypeInv /\ HistoryInv => NoStrayApproval
    <2> SUFFICES ASSUME TypeInv, HistoryInv, NEW e \in Entries \ crossed
                 PROVE  Cardinality(SlipsOn(e)) <= Cardinality(PendingOn(e))
      BY DEF NoStrayApproval, SlipsOn, PendingOn
    <2>1. /\ \A c, d \in SlipsOn(e) : c = d
          /\ SlipsOn(e) # {} => PendingOn(e) # {}
      BY DEF HistoryInv, EntryInv
    <2>2. IsFiniteSet(PendingOn(e)) /\ PendingOn(e) \subseteq Corrections
      BY FiniteIds, FS_Subset DEF PendingOn
    <2>3. /\ Cardinality(PendingOn(e)) \in Nat
          /\ PendingOn(e) # {} => Cardinality(PendingOn(e)) # 0
      BY <2>2, FS_CardinalityType, FS_EmptySet
    <2>4. CASE SlipsOn(e) = {}
      BY <2>3, <2>4, FS_EmptySet
    <2>5. CASE SlipsOn(e) # {}
      <3>1. PICK c : c \in SlipsOn(e)
        BY <2>5
      <3>2. SlipsOn(e) = {c}
        BY <2>1, <3>1
      <3>3. Cardinality({c}) = 1
        BY FS_Singleton
      <3> QED
        BY <2>1, <2>3, <2>5, <3>2, <3>3
    <2> QED
      BY <2>4, <2>5
  <1> QED
    BY <1>1, HistoryInvariant, PTL

(* The stored minutes of a session that is over are those of its times and *)
(* breaks, unless a request was cut off between its two commits or never   *)
(* made the second, until a request about the session that another one     *)
(* overtook writes all the same (rebuild_entry_metrics and its callers).   *)
THEOREM MinutesStayCurrent == HistorySpec => []MinutesCurrent
  <1>1. HistoryInv => MinutesCurrent
    BY DEF HistoryInv, EntryInv, MinutesCurrent
  <1> QED
    BY <1>1, HistoryInvariant, PTL

-----------------------------------------------------------------------------
(* Locked days *)

(* If an entry comes or goes, the worker had asked about its day.          *)
Heeded(w) ==
    \A e \in Entries : ~(InDb(e)' <=> InDb(e)) =>
        /\ op'[w] # op[w]
        /\ \A l \in Locks : Active(l) /\ Covers(l, date'[e]) => l \in newer[w]

LEMMA InsertHeeds ==
    ASSUME TypeOK, NEW w \in Workers, op'[w] # op[w], NEW e \in Entries,
           NEW u, NEW d, NEW i, NEW o, NEW s, Insert(e, u, d, i, o, s), Told(d, newer[w])
    PROVE  Heeded(w)
  <1>1. /\ \A f \in Entries \ {e} : status'[f] = status[f]
        /\ date'[e] = d
    BY DEF Insert
  <1> QED
    BY <1>1 DEF Heeded, InDb, Told

LEMMA HeededStep ==
    ASSUME TypeInv, HistoryInv, NEW w \in Workers,
           Session(w) \/ Break(w) \/ Manual(w) \/ Correction(w) \/ Period(w) \/ Abort(w)
    PROVE  Heeded(w)
  <1>0. RowsInv /\ Sound(op[w]) /\ Knows(op[w], behind[w]) /\ Asked(op[w], newer[w])
    BY DEF HistoryInv, InOrder
  <1>1. CASE CheckInCommit(w)
    <2>1. op[w].kind = "check_in" /\ op'[w] # op[w]
      BY <1>1 DEF CheckInCommit, Serving, Rebuilding, Finish, Idle
    <2> QED
      BY <1>0, <1>1, <2>1, InsertHeeds DEF CheckInCommit, Asked
  <1>2. CASE ManualCommit(w)
    <2>1. op[w].kind = "manual" /\ op'[w] # op[w]
      BY <1>2 DEF ManualCommit, Serving, Rebuilding, Finish, Idle
    <2> QED
      BY <1>0, <1>2, <2>1, InsertHeeds DEF ManualCommit, Asked
  <1>3. CASE ResetCommit(w)
    <2>1. op[w].kind = "reset" /\ op'[w] # op[w]
      BY <1>3 DEF ResetCommit, Serving, Finish, Idle
    <2>2. \A e \in op[w].rows : Told(date[e], newer[w])
      BY <1>0, <2>1 DEF Asked
    <2> QED
      BY <1>3, <2>1, <2>2 DEF ResetCommit, Heeded, InDb, Told
  <1>4. CASE CheckOutCommit(w)
    <2>1. InDb(op[w].entry) /\ status' = [status EXCEPT ![op[w].entry] = "closed"]
      BY <1>4 DEF CheckOutCommit
    <2> QED
      BY <2>1 DEF Heeded, InDb
  <1>5. CASE ReviewCommit(w)
    <2>1. InDb(ask[op[w].corr].entry)
      BY <1>0, <1>5, DecisionKeeps DEF RowsInv, AskedInv
    <2>2. \/ status' = status
          \/ status' = [status EXCEPT ![ask[op[w].corr].entry] =
                           Written(op[w].loaded.status, "corrected", @)]
      BY <1>5 DEF ReviewCommit, Apply
    <2> QED
      BY <2>1, <2>2 DEF Heeded, InDb, Written
  <1>6. CASE Period(w)
    <2>1. ASSUME NEW p \in Periods, LockPeriod(w, p[1], p[2])
          PROVE  \A e \in Entries : InDb(e) <=> InDb(e)'
      BY <2>1 DEF LockPeriod, InDb
    <2>2. ASSUME NEW l \in Locks, UnlockPeriod(w, l)
          PROVE  \A e \in Entries : InDb(e) <=> InDb(e)'
      BY <2>2 DEF UnlockPeriod, Unmarked, InDb
    <2> QED
      BY <1>6, <2>1, <2>2 DEF Period, Heeded
  <1>7. CASE UNCHANGED status
    BY <1>7 DEF Heeded, InDb
  <1>8. ASSUME Session(w) \/ Break(w) \/ Manual(w) \/ Correction(w) \/ Abort(w)
        PROVE  \/ status' = status
               \/ CheckInCommit(w) \/ ManualCommit(w) \/ ResetCommit(w)
               \/ CheckOutCommit(w) \/ ReviewCommit(w)
    BY <1>8 DEF Session, Break, Manual, Correction, Abort, Begin, entryVars,
                CheckInRead, CheckOutRead, RebuildCommit, StartBreakRead, StartBreakCommit,
                EndBreakRead, EndBreakCommit, ManualRead, ResetRead, CorrectRead, CorrectCommit,
                ReviewRead
  <1> QED
    BY <1>1, <1>2, <1>3, <1>4, <1>5, <1>6, <1>7, <1>8

(* However many requests are served at once, an entry is created on a day  *)
(* or deleted from it only by a request that had asked is_locked before    *)
(* any lock that is on the day now was inserted (check_in,                 *)
(* create_manual_entry, reset_self_date).                                  *)
THEOREM LockedDaysAreFrozen == HistorySpec => LockedDaysFrozen
  <1> DEFINE Frozen == \A e \in Entries : InDb(e)' # InDb(e) =>
                           \E w \in Workers :
                               /\ op'[w] # op[w]
                               /\ \A l \in Locks :
                                     Active(l) /\ Covers(l, date'[e]) => l \in newer[w]
  <1>1. TypeInv /\ HistoryInv /\ [HistoryNext]_<<vars, historyVars>> =>
            [Frozen]_<<vars, historyVars>>
    <2> SUFFICES ASSUME TypeInv, HistoryInv, HistoryNext PROVE Frozen
      OBVIOUS
    <2>1. PICK w \in Workers : Heeded(w)
      BY HeededStep DEF HistoryNext, Next
    <2> SUFFICES ASSUME NEW e \in Entries, InDb(e)' # InDb(e)
                 PROVE  /\ op'[w] # op[w]
                        /\ \A l \in Locks : Active(l) /\ Covers(l, date'[e]) => l \in newer[w]
      OBVIOUS
    <2>2. ~(InDb(e)' <=> InDb(e))
      BY DEF InDb
    <2> QED
      BY <2>1, <2>2 DEF Heeded
  <1>2. [](TypeInv /\ HistoryInv) /\ [][HistoryNext]_<<vars, historyVars>> =>
            [][Frozen]_<<vars, historyVars>>
    BY <1>1, PTL
  <1> QED
    BY <1>2, HistoryInvariant DEF HistorySpec, LockedDaysFrozen
=============================================================================
