---------------------------- MODULE MeetingsProofs ----------------------------
(***************************************************************************)
(* Meetings and their calendar, for any number of meetings, events, slots, *)
(* workers, requests and faults.                                           *)
(***************************************************************************)
EXTENDS Meetings, TLAPS

-----------------------------------------------------------------------------
(* Inductive invariants *)

(* The event a row or a call names was made, and for that meeting.         *)
Names(m, e) == e # NoEvent => e \in Events /\ calendar[e].status # "unmade" /\ calendar[e].of = m

(* A call in progress is about a row that is there, and goes by such a row. *)
Fits(c) ==
    /\ c.stage = "save" /\ c.row # NoRow => rows[c.of] # NoRow
    /\ c.stage \notin {"idle", "save"} => rows[c.of] # NoRow
    /\ c.stage \in {"create", "update", "link", "remove"} => c.row # NoRow
    /\ c.stage \in {"create", "link"} => c.row.event = NoEvent
    /\ c.stage \in {"update", "remove"} => c.row.event # NoEvent /\ Names(c.of, c.row.event)
    /\ c.stage = "link" => Names(c.of, c.event)

TypeInv ==
    /\ TypeOK
    /\ \A m \in Meetings : Names(m, rows[m].event)
    /\ \A w \in Workers : Fits(call[w])

(* A meeting no two requests have been about at once has one call at most, *)
(* and the row that call read is the row.                                  *)
Alone(m) == \A v, w \in Workers : call[v].of = m /\ call[w].of = m => v = w
Current(m, c) ==
    /\ c.stage \in {"save", "create", "update", "link", "remove"} => c.row = rows[m]
    /\ c.stage \in {"look", "create", "update", "link"} => rows[m].status = "open" \/ m \in saved
    /\ c.stage \in {"cancel", "remove"} => rows[m].status = "cancelled"
    /\ c.stage = "link" /\ c.event \notin edited =>
          calendar[c.event].status = "live" /\ calendar[c.event].slot = c.row.slot
CurrentInv == \A m \in Meetings \ raced :
    Alone(m) /\ \A w \in Workers : call[w].of = m => Current(m, call[w])

(* The calendar is as the row is, but for a call that has changed the row. *)
Follows(m) ==
    LET e == rows[m].event IN
    e # NoEvent =>
        /\ rows[m].status = "open" /\ e \notin edited
           => calendar[e].status = "live" /\ calendar[e].slot = rows[m].slot
        /\ rows[m].status = "cancelled" /\ m \notin saved
           => calendar[e].status = "gone"
FollowsInv == \A m \in Meetings \ (behind \union raced) :
    (\A w \in Workers : call[w].of = m => call[w].stage = "save") => Follows(m)

Saving(w) == call[w].stage = "save"
SavesMeet == \A v, w \in Workers : Saving(v) /\ Saving(w) /\ v # w => call[w].of \in excused
SavesFree == \A w \in Workers : Saving(w) /\ call[w].of \notin excused =>
    \A n \in Meetings \ {call[w].of} :
        rows[n].status = "open" => ~Conflict(rows[n].slot, call[w].want.slot)
Free(left, right) == EndsNextDay(left) \/ EndsNextDay(right) \/ ~Conflict(left, right)
RowsFree == \A m, n \in Meetings \ (excused \union raced) :
    m # n /\ rows[m].status = "open" /\ rows[n].status = "open"
        => Free(rows[m].slot, rows[n].slot)
BookingsInv == SavesMeet /\ SavesFree /\ RowsFree

-----------------------------------------------------------------------------
(* Calls in progress have the fields of their stage. *)

LEMMA Shape ==
    ASSUME NEW c \in Call
    PROVE  /\ c.stage \in {"idle", "save", "look", "create", "update", "link", "cancel", "remove"}
           /\ c.stage = "idle" => c.of = NoMeeting
           /\ c.stage # "idle" => c.of \in Meetings
           /\ c.row \in Row
           /\ c.stage = "save" => c.want \in Want
           /\ c.stage = "look" => c.want \in BOOLEAN
           /\ c.stage = "link" => c.event \in Events
           /\ c.stage # "link" => c.event = NoEvent
           /\ c.stage \in {"create", "update", "link", "cancel", "remove"} => c.want = "none"
  BY DEF Call, Row

LEMMA RowShape ==
    ASSUME NEW row \in Row
    PROVE  /\ row.status \in {"absent", "open", "cancelled"}
           /\ row.event \in Events \union {NoEvent}
           /\ row = NoRow <=> row.status = "absent"
           /\ row # NoRow => row.slot \in Slots
           /\ row = NoRow => row.event = NoEvent
  BY DEF Row, NoRow, Status

Put(row, status, slot) == [row EXCEPT !.status = status, !.slot = slot]

LEMMA PutRow ==
    ASSUME NEW row \in Row, NEW status \in Status, NEW slot \in Slots
    PROVE  /\ Put(row, status, slot) \in Row /\ Put(row, status, slot) # NoRow
           /\ Put(row, status, slot).status = status
           /\ Put(row, status, slot).slot = slot
           /\ Put(row, status, slot).event = row.event
  <1> DEFINE stored == [status : Status, slot : Slots, event : Events \union {NoEvent}]
  <1>1. row \in [status : Status \union {"absent"}, slot : Slots \union {NoSlot},
                 event : Events \union {NoEvent}]
    BY DEF Row, NoRow
  <1>2. /\ Put(row, status, slot) \in stored
        /\ Put(row, status, slot).status = status /\ Put(row, status, slot).slot = slot
        /\ Put(row, status, slot).event = row.event
    BY <1>1 DEF Put
  <1>3. Put(row, status, slot).status # "absent"
    BY <1>2 DEF Status
  <1> QED
    BY <1>2, <1>3 DEF Row, NoRow

LEMMA EventShape ==
    ASSUME NEW event \in Event
    PROVE  /\ event.status \in {"unmade", "live", "gone"}
           /\ event.status # "unmade" => event.of \in Meetings /\ event.slot \in Slots
  BY DEF Event, Unmade

LEMMA SaveCall ==
    ASSUME NEW m \in Meetings, NEW row \in Row, NEW want \in Want
    PROVE  [stage |-> "save", of |-> m, row |-> row, event |-> NoEvent, want |-> want] \in Call
  BY DEF Call

LEMMA LookCall ==
    ASSUME NEW m \in Meetings, NEW want \in BOOLEAN
    PROVE  [stage |-> "look", of |-> m, row |-> NoRow, want |-> want, event |-> NoEvent] \in Call
  BY DEF Call

LEMMA IdleCall == Idle \in Call /\ Idle.stage = "idle" /\ Idle.of = NoMeeting
  BY DEF Idle, Call

(* What a step makes of a call's record                                    *)
Stands(c, stage, m, row, e) ==
    /\ c \in Call
    /\ c.stage = stage /\ c.of = m /\ c.row = row /\ c.event = e

LEMMA IdleAt ==
    ASSUME NEW m \in Meetings, NEW row \in Row,
           NEW stage \in {"create", "update", "cancel", "remove"}
    PROVE  /\ Stands([Idle EXCEPT !.stage = stage, !.of = m], stage, m, NoRow, NoEvent)
           /\ Stands([Idle EXCEPT !.stage = stage, !.of = m, !.row = row], stage, m, row, NoEvent)
  <1> DEFINE Begun == [stage : {"create", "update", "cancel", "remove"}, of : Meetings,
                       row : Row, want : {"none"}, event : {NoEvent}]
  <1>1. Idle \in [stage : {"idle"}, of : {NoMeeting}, row : {NoRow}, want : {"none"},
                  event : {NoEvent}] /\ NoRow \in Row
    BY DEF Idle, Row
  <1>2. /\ [Idle EXCEPT !.stage = stage, !.of = m] \in Begun
        /\ [Idle EXCEPT !.stage = stage, !.of = m].stage = stage
        /\ [Idle EXCEPT !.stage = stage, !.of = m].of = m
        /\ [Idle EXCEPT !.stage = stage, !.of = m].row = NoRow
        /\ [Idle EXCEPT !.stage = stage, !.of = m].event = NoEvent
    BY <1>1
  <1>3. /\ [Idle EXCEPT !.stage = stage, !.of = m, !.row = row] \in Begun
        /\ [Idle EXCEPT !.stage = stage, !.of = m, !.row = row].stage = stage
        /\ [Idle EXCEPT !.stage = stage, !.of = m, !.row = row].of = m
        /\ [Idle EXCEPT !.stage = stage, !.of = m, !.row = row].row = row
        /\ [Idle EXCEPT !.stage = stage, !.of = m, !.row = row].event = NoEvent
    BY <1>1
  <1>4. Begun \subseteq Call
    BY DEF Call
  <1> QED
    BY <1>2, <1>3, <1>4 DEF Stands

LEMMA CancelAt ==
    ASSUME NEW c \in Call, c.stage = "cancel", NEW row \in Row
    PROVE  Stands([c EXCEPT !.stage = "remove", !.row = row], "remove", c.of, row, NoEvent)
  <1> DEFINE new == [c EXCEPT !.stage = "remove", !.row = row]
  <1>1. c \in [stage : {"cancel", "remove"}, of : Meetings, row : Row, want : {"none"},
               event : {NoEvent}]
    BY DEF Call
  <1>2. /\ new \in [stage : {"cancel", "remove"}, of : Meetings, row : Row, want : {"none"},
                    event : {NoEvent}]
        /\ new.stage = "remove" /\ new.of = c.of /\ new.row = row /\ new.event = NoEvent
    BY <1>1
  <1> QED
    BY <1>2 DEF Stands, Call

LEMMA CreateAt ==
    ASSUME NEW c \in Call, c.stage = "create", NEW e \in Events
    PROVE  Stands([c EXCEPT !.stage = "link", !.event = e], "link", c.of, c.row, e)
  <1> DEFINE new == [c EXCEPT !.stage = "link", !.event = e]
  <1>1. c \in [stage : {"create"}, of : Meetings, row : Row, want : {"none"},
               event : {NoEvent}]
    BY DEF Call
  <1>2. /\ new \in [stage : {"link"}, of : Meetings, row : Row, want : {"none"}, event : Events]
        /\ new.stage = "link" /\ new.of = c.of /\ new.row = c.row /\ new.event = e
    BY <1>1
  <1> QED
    BY <1>2 DEF Stands, Call

-----------------------------------------------------------------------------
(* Steps *)

(* Rows and events stay once they are there. *)
Grows ==
    /\ \A m \in Meetings : rows[m] # NoRow => rows'[m] # NoRow
    /\ \A e \in Events : calendar[e].status # "unmade" =>
          calendar'[e].status # "unmade" /\ calendar'[e].of = calendar[e].of

LEMMA FitsKept ==
    ASSUME TypeInv, Grows, NEW v \in Workers, call'[v] = call[v]
    PROVE  Fits(call[v])'
  <1>1. call[v] \in Call /\ Fits(call[v])
    BY DEF TypeInv, TypeOK
  <1>2. call[v].stage # "idle" => call[v].of \in Meetings
    BY <1>1, Shape
  <1>3. call[v].stage = "save" => Fits(call[v])'
    BY <1>1, <1>2 DEF Fits, Grows
  <1>4. call[v].stage # "save" => Fits(call[v])'
    BY <1>1, <1>2 DEF Fits, Grows, Names
  <1> QED
    BY <1>3, <1>4

(* A step of one worker's call *)
LEMMA StepType ==
    ASSUME TypeInv, Grows, NEW w \in Workers, NEW c \in Call, Becomes(w, c), Fits(call[w])',
           rows' \in [Meetings -> Row], calendar' \in [Events -> Event],
           excused' \subseteq Meetings, raced' \subseteq Meetings,
           behind' \subseteq Meetings, saved' \subseteq Meetings,
           lost' \subseteq Events, edited' \subseteq Events,
           asked' \in 0 .. MaxRequests, faults' \in 0 .. MaxFaults,
           \A n \in Meetings : rows'[n].event = rows[n].event \/ Names(n, rows[n].event)'
    PROVE  TypeInv'
  <1>1. /\ call' \in [Workers -> Call]
        /\ \A v \in Workers : v # w => call'[v] = call[v]
    BY DEF Becomes, TypeInv, TypeOK
  <1>2. \A v \in Workers : Fits(call[v])'
    BY <1>1, FitsKept
  <1>3. ASSUME NEW n \in Meetings PROVE Names(n, rows[n].event)'
    <2>1. CASE rows'[n].event = rows[n].event
      BY <2>1 DEF Names, Grows, TypeInv
    <2> QED
      BY <2>1
  <1> QED
    BY <1>1, <1>2, <1>3 DEF TypeInv, TypeOK

LEMMA EndsCall ==
    ASSUME TypeInv, NEW w \in Workers, NEW m \in Meetings, EndsInStep(w, m) \/ EndsBehind(w, m)
    PROVE  /\ Becomes(w, Idle) /\ Fits(call[w])'
           /\ behind' \subseteq Meetings
  <1>1. Becomes(w, Idle) /\ behind' \subseteq Meetings
    BY DEF EndsInStep, EndsBehind, TypeInv, TypeOK
  <1>2. call'[w] = Idle
    BY <1>1 DEF Becomes, TypeInv, TypeOK
  <1> QED
    BY <1>1, <1>2 DEF Fits, Idle

LEMMA FaultType ==
    ASSUME TypeInv, Fault
    PROVE  faults' \in 0 .. MaxFaults
  BY MeetingsAssumption DEF Fault, TypeInv, TypeOK

LEMMA BeginsType ==
    ASSUME TypeInv, NEW w \in Workers, NEW m \in Meetings, NEW c \in Call, Begins(w, m, c)
    PROVE  /\ asked' \in 0 .. MaxRequests /\ raced' \subseteq Meetings
           /\ Becomes(w, c) /\ call'[w] = c
  BY MeetingsAssumption DEF Begins, Becomes, TypeInv, TypeOK

-----------------------------------------------------------------------------
(* Types *)

LEMMA TypeInit == Init => TypeInv
  <1> SUFFICES ASSUME Init PROVE TypeInv
    OBVIOUS
  <1>1. NoRow \in Row /\ NoRow.event = NoEvent /\ Unmade \in Event
    BY DEF Row, NoRow, Event
  <1>2. TypeOK
    BY <1>1, IdleCall, MeetingsAssumption DEF Init, TypeOK
  <1>3. \A m \in Meetings : Names(m, rows[m].event)
    BY <1>1 DEF Init, Names
  <1>4. \A w \in Workers : Fits(call[w])
    BY DEF Init, Fits, Idle
  <1> QED
    BY <1>2, <1>3, <1>4 DEF TypeInv

LEMMA SaveReadType ==
    ASSUME TypeInv, NEW w \in Workers, NEW m \in Meetings, NEW status \in Status,
           NEW slot \in Slots, NEW sync \in BOOLEAN, NEW force \in BOOLEAN,
           SaveRead(w, m, status, slot, sync, force)
    PROVE  TypeInv'
  <1> DEFINE want == [status |-> status, slot |-> slot, sync |-> sync]
             c == [stage |-> "save", of |-> m, row |-> rows[m], event |-> NoEvent, want |-> want]
  <1>1. Begins(w, m, c) /\ UNCHANGED <<rows, calendar, behind, saved, lost, edited, faults>>
    BY DEF SaveRead
  <1>2. c \in Call
    BY SaveCall DEF Want, TypeInv, TypeOK
  <1>3. c.stage = "save" /\ c.of = m /\ c.row = rows[m]
    OBVIOUS
  <1> HIDE DEF c
  <1>4. /\ asked' \in 0 .. MaxRequests /\ raced' \subseteq Meetings
        /\ Becomes(w, c) /\ call'[w] = c
    BY <1>1, <1>2, BeginsType
  <1>5. excused' \subseteq Meetings
    <2>1. \A v \in Workers : At(v, "save") => call[v].of \in Meetings
      BY Shape DEF At, TypeInv, TypeOK
    <2> QED
      BY <2>1 DEF SaveRead, TypeInv, TypeOK
  <1>6. Grows /\ Fits(call[w])'
    BY <1>1, <1>3, <1>4 DEF Grows, Fits
  <1> QED
    BY <1>1, <1>2, <1>4, <1>5, <1>6, StepType DEF TypeInv, TypeOK

LEMMA SaveCommitType ==
    ASSUME TypeInv, NEW w \in Workers, SaveCommit(w)
    PROVE  TypeInv'
  <1> DEFINE m    == call[w].of
             read == call[w].row
             want == call[w].want
             row  == [rows[m] EXCEPT !.status = Column(want.status, read.status, @),
                                     !.slot = IF want.slot # read.slot \/ read = NoRow
                                              THEN want.slot ELSE @]
             c == [stage |-> "look", of |-> m, row |-> NoRow, want |-> want.sync,
                   event |-> NoEvent]
  <1>1. /\ call[w] \in Call /\ call[w].stage = "save" /\ Fits(call[w])
    BY DEF SaveCommit, At, TypeInv, TypeOK
  <1>2. m \in Meetings /\ want \in Want /\ read \in Row /\ rows[m] \in Row
    BY <1>1, Shape DEF TypeInv, TypeOK
  <1>3. /\ rows' = [rows EXCEPT ![m] = row]
        /\ Becomes(w, c)
        /\ saved' \subseteq Meetings
        /\ UNCHANGED <<calendar, asked, excused, raced, behind, lost, edited, faults>>
    BY <1>2 DEF SaveCommit, TypeInv, TypeOK
  <1>4. want.status \in Status /\ want.slot \in Slots /\ want.sync \in BOOLEAN
    BY <1>2 DEF Want
  <1>5. read # NoRow => rows[m] # NoRow
    BY <1>1 DEF Fits
  <1>6. row = Put(rows[m], Column(want.status, read.status, rows[m].status),
                  IF want.slot # read.slot \/ read = NoRow THEN want.slot ELSE rows[m].slot)
    BY DEF Put
  <1>7. Column(want.status, read.status, rows[m].status) \in Status
    BY <1>2, <1>4, <1>5, RowShape DEF Column, Status
  <1>8. (IF want.slot # read.slot \/ read = NoRow THEN want.slot ELSE rows[m].slot) \in Slots
    BY <1>2, <1>4, <1>5, RowShape
  <1>9. row \in Row /\ row # NoRow /\ row.event = rows[m].event
    BY <1>2, <1>6, <1>7, <1>8, PutRow
  <1> HIDE DEF row
  <1>10. /\ \A n \in Meetings : rows'[n] = IF n = m THEN row ELSE rows[n]
         /\ rows' \in [Meetings -> Row]
    BY <1>3, <1>9 DEF TypeInv, TypeOK
  <1>11. c \in Call
    BY <1>2, <1>4, LookCall
  <1>12. call'[w] = c /\ c.stage = "look" /\ c.of = m
    BY <1>3 DEF Becomes, TypeInv, TypeOK
  <1> HIDE DEF c, m
  <1>13. Grows
    BY <1>3, <1>9, <1>10 DEF Grows
  <1>14. Fits(call[w])'
    BY <1>2, <1>9, <1>10, <1>12 DEF Fits
  <1>15. \A n \in Meetings : rows'[n].event = rows[n].event
    BY <1>9, <1>10
  <1> QED
    BY <1>3, <1>10, <1>11, <1>13, <1>14, <1>15, StepType DEF TypeInv, TypeOK

LEMMA LookType ==
    ASSUME TypeInv, NEW w \in Workers, NEW linked \in BOOLEAN, Look(w, linked)
    PROVE  TypeInv'
  <1> DEFINE m == call[w].of
             stage == IF rows[m].event = NoEvent THEN "create" ELSE "update"
             c == [Idle EXCEPT !.stage = stage, !.of = m, !.row = rows[m]]
  <1>1. call[w] \in Call /\ call[w].stage = "look" /\ Fits(call[w])
    BY DEF Look, At, TypeInv, TypeOK
  <1>2. m \in Meetings /\ rows[m] \in Row /\ rows[m] # NoRow /\ Names(m, rows[m].event)
    BY <1>1, Shape DEF TypeInv, TypeOK, Fits
  <1>3. UNCHANGED <<rows, calendar, asked, excused, raced, saved, lost, edited, faults>>
    BY DEF Look
  <1>4. Grows
    BY <1>3 DEF Grows
  <1>5. CASE EndsBehind(w, m)
    BY <1>2, <1>3, <1>4, <1>5, EndsCall, IdleCall, StepType DEF TypeInv, TypeOK
  <1>6. CASE Becomes(w, c) /\ behind' = behind
    <2>1. Stands(c, stage, m, rows[m], NoEvent)
      BY <1>2, IdleAt
    <2>2. call'[w] = c
      BY <1>6 DEF Becomes, TypeInv, TypeOK
    <2>3. c \in Call /\ c.stage = stage /\ c.of = m /\ c.row = rows[m]
      BY <2>1 DEF Stands
    <2> HIDE DEF c, m
    <2>4. Fits(call[w])'
      BY <1>2, <1>3, <2>2, <2>3 DEF Fits, Names
    <2> QED
      BY <1>3, <1>4, <1>6, <2>3, <2>4, StepType DEF TypeInv, TypeOK
  <1> QED
    BY <1>5, <1>6 DEF Look

LEMMA LookAgainType ==
    ASSUME TypeInv, NEW w \in Workers, NEW linked \in BOOLEAN, LookAgain(w, linked)
    PROVE  TypeInv'
  <1> DEFINE m == call[w].of
             c == [call[w] EXCEPT !.stage = "remove", !.row = rows[m]]
  <1>1. call[w] \in Call /\ call[w].stage = "cancel" /\ Fits(call[w])
    BY DEF LookAgain, At, TypeInv, TypeOK
  <1>2. m \in Meetings /\ rows[m] \in Row /\ rows[m] # NoRow /\ Names(m, rows[m].event)
    BY <1>1, Shape DEF TypeInv, TypeOK, Fits
  <1>3. UNCHANGED <<rows, calendar, asked, excused, raced, saved, lost, edited, faults>>
    BY DEF LookAgain
  <1>4. Grows
    BY <1>3 DEF Grows
  <1>5. CASE EndsBehind(w, m)
    BY <1>2, <1>3, <1>4, <1>5, EndsCall, IdleCall, StepType DEF TypeInv, TypeOK
  <1>6. CASE Becomes(w, c) /\ behind' = behind /\ rows[m].event # NoEvent
    <2>1. Stands(c, "remove", m, rows[m], NoEvent)
      BY <1>1, <1>2, CancelAt
    <2>2. call'[w] = c
      BY <1>6 DEF Becomes, TypeInv, TypeOK
    <2>3. c \in Call /\ c.stage = "remove" /\ c.of = m /\ c.row = rows[m]
      BY <2>1 DEF Stands
    <2> HIDE DEF c, m
    <2>4. Fits(call[w])'
      BY <1>2, <1>3, <1>6, <2>2, <2>3 DEF Fits, Names
    <2> QED
      BY <1>3, <1>4, <1>6, <2>3, <2>4, StepType DEF TypeInv, TypeOK
  <1> QED
    BY <1>5, <1>6 DEF LookAgain

(* An event made for a meeting *)
LEMMA MakesEvent ==
    ASSUME TypeInv, NEW m \in Meetings, NEW slot \in Slots, NEW e \in Events, Makes(e, m, slot)
    PROVE  /\ calendar' \in [Events -> Event]
           /\ calendar[e].status = "unmade"
           /\ calendar'[e] = [status |-> "live", of |-> m, slot |-> slot]
           /\ \A f \in Events : f # e => calendar'[f] = calendar[f]
  BY DEF Makes, Event, TypeInv, TypeOK

LEMMA CreateEventType ==
    ASSUME TypeInv, NEW w \in Workers, CreateEvent(w)
    PROVE  TypeInv'
  <1> DEFINE m   == call[w].of
             row == call[w].row
  <1>1. call[w] \in Call /\ call[w].stage = "create" /\ Fits(call[w])
    BY DEF CreateEvent, At, TypeInv, TypeOK
  <1>2. m \in Meetings /\ row \in Row /\ row # NoRow /\ row.event = NoEvent
        /\ row.slot \in Slots /\ rows[m] # NoRow
    BY <1>1, Shape, RowShape DEF Fits
  <1>3. UNCHANGED <<rows, asked, excused, raced, saved, edited>>
    BY DEF CreateEvent
  <1>4. CASE EndsBehind(w, m) /\ UNCHANGED <<calendar, lost, faults>>
    <2>1. Grows
      BY <1>3, <1>4 DEF Grows
    <2> QED
      BY <1>2, <1>3, <1>4, <2>1, EndsCall, IdleCall, StepType DEF TypeInv, TypeOK
  <1>5. ASSUME NEW e \in Events, Makes(e, m, row.slot)
        PROVE  /\ calendar' \in [Events -> Event] /\ Grows
               /\ calendar'[e].of = m /\ calendar'[e].status = "live"
    <2>1. /\ calendar' \in [Events -> Event]
          /\ calendar[e].status = "unmade"
          /\ calendar'[e] = [status |-> "live", of |-> m, slot |-> row.slot]
          /\ \A f \in Events : f # e => calendar'[f] = calendar[f]
      BY <1>2, <1>5, MakesEvent
    <2> QED
      BY <1>3, <2>1 DEF Grows
  <1>6. ASSUME NEW e \in Events, Makes(e, m, row.slot),
               Fault, EndsBehind(w, m), lost' = lost \union {e}
        PROVE  TypeInv'
    BY <1>2, <1>3, <1>5, <1>6, EndsCall, IdleCall, FaultType, StepType DEF TypeInv, TypeOK
  <1>7. ASSUME NEW e \in Events, Makes(e, m, row.slot),
               Becomes(w, [call[w] EXCEPT !.stage = "link", !.event = e]),
               UNCHANGED <<behind, lost, faults>>
        PROVE  TypeInv'
    <2> DEFINE c == [call[w] EXCEPT !.stage = "link", !.event = e]
    <2>1. Stands(c, "link", m, row, e)
      BY <1>1, CreateAt
    <2>2. c \in Call /\ c.stage = "link" /\ c.of = m /\ c.row = row /\ c.event = e
      BY <2>1 DEF Stands
    <2>3. Becomes(w, c) /\ call'[w] = c
      BY <1>7 DEF Becomes, TypeInv, TypeOK
    <2> HIDE DEF c, m, row
    <2>4. Fits(call[w])'
      BY <1>2, <1>3, <1>5, <1>7, <2>2, <2>3 DEF Fits, Names
    <2> QED
      BY <1>3, <1>5, <1>7, <2>2, <2>3, <2>4, StepType DEF TypeInv, TypeOK
  <1> QED
    BY <1>4, <1>6, <1>7 DEF CreateEvent

LEMMA MovedEvent ==
    ASSUME TypeInv, NEW e \in Events, NEW slot \in Slots, calendar[e].status = "live",
           calendar' = [calendar EXCEPT ![e].slot = slot]
    PROVE  /\ calendar' \in [Events -> Event]
           /\ calendar'[e].status = "live" /\ calendar'[e].of = calendar[e].of
           /\ calendar'[e].slot = slot
           /\ \A f \in Events : f # e => calendar'[f] = calendar[f]
  <1>1. calendar[e] \in Event /\ calendar[e].status # "unmade"
    BY DEF TypeInv, TypeOK
  <1>2. calendar[e] \in [status : {"live", "gone"}, of : Meetings, slot : Slots]
    BY <1>1 DEF Event, Unmade
  <1>3. calendar' = [calendar EXCEPT ![e] = [calendar[e] EXCEPT !.slot = slot]]
    OBVIOUS
  <1>4. /\ [calendar[e] EXCEPT !.slot = slot] \in [status : {"live", "gone"}, of : Meetings, slot : Slots]
        /\ [calendar[e] EXCEPT !.slot = slot].status = "live"
        /\ [calendar[e] EXCEPT !.slot = slot].of = calendar[e].of
        /\ [calendar[e] EXCEPT !.slot = slot].slot = slot
    BY <1>2
  <1> QED
    BY <1>3, <1>4 DEF Event, TypeInv, TypeOK

LEMMA GoneEvent ==
    ASSUME TypeInv, NEW e \in Events, calendar[e].status # "unmade",
           calendar' \in {calendar, Gone(e)}
    PROVE  /\ calendar' \in [Events -> Event]
           /\ calendar'[e].of = calendar[e].of
           /\ calendar'[e].status \in {calendar[e].status, "gone"}
           /\ calendar' = Gone(e) => calendar'[e].status = "gone"
           /\ \A f \in Events : f # e => calendar'[f] = calendar[f]
  <1>1. calendar[e] \in Event
    BY DEF TypeInv, TypeOK
  <1>2. calendar[e] \in [status : {"live", "gone"}, of : Meetings, slot : Slots]
    BY <1>1 DEF Event, Unmade
  <1>3. Gone(e) = [calendar EXCEPT ![e] = [calendar[e] EXCEPT !.status = "gone"]]
    BY DEF Gone
  <1>4. /\ [calendar[e] EXCEPT !.status = "gone"] \in [status : {"live", "gone"}, of : Meetings, slot : Slots]
        /\ [calendar[e] EXCEPT !.status = "gone"].status = "gone"
        /\ [calendar[e] EXCEPT !.status = "gone"].of = calendar[e].of
    BY <1>2
  <1>5. CASE calendar' = Gone(e)
    BY <1>3, <1>4, <1>5 DEF Event, TypeInv, TypeOK
  <1>6. CASE calendar' = calendar
    BY <1>2, <1>3, <1>4, <1>6 DEF TypeInv, TypeOK
  <1> QED
    BY <1>5, <1>6

LEMMA UpdateEventType ==
    ASSUME TypeInv, NEW w \in Workers, UpdateEvent(w)
    PROVE  TypeInv'
  <1> DEFINE m   == call[w].of
             row == call[w].row
             e   == row.event
  <1>1. call[w] \in Call /\ call[w].stage = "update" /\ Fits(call[w])
    BY DEF UpdateEvent, At, TypeInv, TypeOK
  <1>2. m \in Meetings /\ row \in Row /\ row # NoRow /\ row.slot \in Slots
        /\ e \in Events /\ calendar[e].status # "unmade"
    BY <1>1, Shape, RowShape DEF Fits, Names
  <1>3. UNCHANGED <<rows, asked, excused, raced, saved, lost, faults>>
    BY DEF UpdateEvent
  <1>4. EndsInStep(w, m) \/ EndsBehind(w, m)
    BY DEF UpdateEvent
  <1>5. calendar' \in [Events -> Event] /\ Grows /\ edited' \subseteq Events
    <2>1. CASE calendar[e].status = "live" /\ calendar' = [calendar EXCEPT ![e].slot = row.slot]
               /\ edited' = edited \ {e}
      BY <1>2, <1>3, <2>1, MovedEvent DEF Grows, TypeInv, TypeOK
    <2>2. CASE UNCHANGED <<calendar, edited>>
      BY <1>3, <2>2 DEF Grows, TypeInv, TypeOK
    <2> QED
      BY <2>1, <2>2 DEF UpdateEvent
  <1> QED
    BY <1>2, <1>3, <1>4, <1>5, EndsCall, IdleCall, StepType DEF TypeInv, TypeOK

LEMMA LinkType ==
    ASSUME TypeInv, NEW w \in Workers, Link(w)
    PROVE  TypeInv'
  <1> DEFINE m   == call[w].of
             e   == call[w].event
             row == [rows[m] EXCEPT !.event = e]
  <1>1. call[w] \in Call /\ call[w].stage = "link" /\ Fits(call[w])
    BY DEF Link, At, TypeInv, TypeOK
  <1>2. m \in Meetings /\ e \in Events /\ rows[m] \in Row /\ rows[m] # NoRow /\ Names(m, e)
    BY <1>1, Shape DEF Fits, TypeInv, TypeOK
  <1>3. /\ rows' = [rows EXCEPT ![m] = row] /\ EndsInStep(w, m)
        /\ UNCHANGED <<calendar, asked, excused, raced, saved, lost, edited, faults>>
    BY DEF Link
  <1>4. row \in Row /\ row # NoRow /\ row.event = e
    <2>1. rows[m] \in [status : Status, slot : Slots, event : Events \union {NoEvent}]
      BY <1>2 DEF Row
    <2>2. row \in [status : Status, slot : Slots, event : Events \union {NoEvent}] /\ row.event = e
      BY <1>2, <2>1
    <2>3. row.status # "absent"
      BY <2>2 DEF Status
    <2> QED
      BY <2>2, <2>3 DEF Row, NoRow
  <1> HIDE DEF row
  <1>5. /\ \A n \in Meetings : rows'[n] = IF n = m THEN row ELSE rows[n]
        /\ rows' \in [Meetings -> Row]
    BY <1>3, <1>4 DEF TypeInv, TypeOK
  <1>6. Grows
    BY <1>3, <1>4, <1>5 DEF Grows
  <1>7. \A n \in Meetings : rows'[n].event = rows[n].event \/ Names(n, rows[n].event)'
    BY <1>2, <1>3, <1>4, <1>5 DEF Names
  <1> QED
    BY <1>2, <1>3, <1>5, <1>6, <1>7, EndsCall, IdleCall, StepType DEF TypeInv, TypeOK

LEMMA CancelledRow ==
    ASSUME TypeInv, NEW m \in Meetings, rows[m] # NoRow,
           rows' = [rows EXCEPT ![m].status = "cancelled"]
    PROVE  /\ rows' \in [Meetings -> Row]
           /\ rows'[m] # NoRow /\ rows'[m].status = "cancelled"
           /\ rows'[m].event = rows[m].event
           /\ \A n \in Meetings : n # m => rows'[n] = rows[n]
  <1> DEFINE row == [rows[m] EXCEPT !.status = "cancelled"]
  <1>1. rows[m] \in [status : Status, slot : Slots, event : Events \union {NoEvent}]
    BY DEF TypeInv, TypeOK, Row
  <1>2. /\ row \in [status : Status, slot : Slots, event : Events \union {NoEvent}]
        /\ row.status = "cancelled" /\ row.event = rows[m].event
    BY <1>1 DEF Status
  <1>3. row \in Row /\ row # NoRow
    BY <1>2 DEF Row, NoRow
  <1>4. rows' = [rows EXCEPT ![m] = row]
    OBVIOUS
  <1> HIDE DEF row
  <1> QED
    BY <1>2, <1>3, <1>4 DEF TypeInv, TypeOK

LEMMA CancelType ==
    ASSUME TypeInv, NEW w \in Workers, NEW m \in Meetings, Cancel(w, m)
    PROVE  TypeInv'
  <1> DEFINE c == [Idle EXCEPT !.stage = "cancel", !.of = m]
  <1>1. Stands(c, "cancel", m, NoRow, NoEvent)
    BY IdleAt DEF Row
  <1>2. /\ rows[m] # NoRow /\ Begins(w, m, c)
        /\ rows' = [rows EXCEPT ![m].status = "cancelled"]
        /\ UNCHANGED <<calendar, excused, behind, saved, lost, edited, faults>>
    BY DEF Cancel
  <1>3. c \in Call /\ c.stage = "cancel" /\ c.of = m
    BY <1>1 DEF Stands
  <1> HIDE DEF c
  <1>4. /\ asked' \in 0 .. MaxRequests /\ raced' \subseteq Meetings
        /\ Becomes(w, c) /\ call'[w] = c
    BY <1>2, <1>3, BeginsType
  <1>5. /\ rows' \in [Meetings -> Row]
        /\ rows'[m] # NoRow /\ rows'[m].event = rows[m].event
        /\ \A n \in Meetings : n # m => rows'[n] = rows[n]
    BY <1>2, CancelledRow
  <1>6. Grows
    BY <1>2, <1>5 DEF Grows
  <1>7. Fits(call[w])'
    BY <1>3, <1>4, <1>5 DEF Fits
  <1>8. \A n \in Meetings : rows'[n].event = rows[n].event
    BY <1>5
  <1> QED
    BY <1>2, <1>3, <1>4, <1>5, <1>6, <1>7, <1>8, StepType DEF TypeInv, TypeOK

LEMMA RemoveType ==
    ASSUME TypeInv, NEW w \in Workers, Remove(w)
    PROVE  TypeInv'
  <1> DEFINE m   == call[w].of
             row == call[w].row
             e   == row.event
  <1>1. call[w] \in Call /\ call[w].stage = "remove" /\ Fits(call[w])
    BY DEF Remove, At, TypeInv, TypeOK
  <1>2. m \in Meetings /\ row \in Row /\ e \in Events /\ calendar[e].status # "unmade"
    BY <1>1, Shape, RowShape DEF Fits, Names
  <1>3. /\ UNCHANGED <<rows, asked, excused, raced, lost, edited, faults>>
        /\ calendar' \in {calendar, Gone(e)}
        /\ EndsInStep(w, m) \/ EndsBehind(w, m)
        /\ saved' \subseteq Meetings
    BY DEF Remove, TypeInv, TypeOK
  <1>4. calendar' \in [Events -> Event] /\ Grows
    <2>1. /\ calendar' \in [Events -> Event]
          /\ calendar'[e].of = calendar[e].of
          /\ calendar'[e].status \in {calendar[e].status, "gone"}
          /\ \A f \in Events : f # e => calendar'[f] = calendar[f]
      BY <1>2, <1>3, GoneEvent
    <2> QED
      BY <1>2, <1>3, <2>1 DEF Grows
  <1> QED
    BY <1>2, <1>3, <1>4, EndsCall, IdleCall, StepType DEF TypeInv, TypeOK

LEMMA CutType ==
    ASSUME TypeInv, NEW w \in Workers, Cut(w)
    PROVE  TypeInv'
  <1> DEFINE m == call[w].of
  <1>1. call[w] \in Call /\ call[w].stage # "idle"
    BY DEF Cut, At, TypeInv, TypeOK
  <1>2. m \in Meetings /\ (call[w].stage = "link" => call[w].event \in Events)
    BY <1>1, Shape
  <1>3. /\ UNCHANGED <<rows, calendar, asked, excused, raced, saved, edited>>
        /\ Fault
        /\ Becomes(w, Idle) /\ behind' \subseteq Meetings
        /\ lost' \subseteq Events
    BY <1>2 DEF Cut, At, EndsBehind, TypeInv, TypeOK
  <1>4. Fits(call[w])'
    <2>1. call'[w] = Idle
      BY <1>3 DEF Becomes, TypeInv, TypeOK
    <2> QED
      BY <2>1 DEF Fits, Idle
  <1>5. Grows
    BY <1>3 DEF Grows
  <1> QED
    BY <1>3, <1>4, <1>5, IdleCall, FaultType, StepType DEF TypeInv, TypeOK

LEMMA OutlookType ==
    ASSUME TypeInv, NEW e \in Events, Outlook(e)
    PROVE  TypeInv'
  <1>1. /\ calendar[e].status = "live" /\ calendar' \in {calendar, Gone(e)}
        /\ edited' \subseteq Events
        /\ UNCHANGED <<rows, call, asked, excused, raced, behind, saved, lost, faults>>
    BY DEF Outlook, TypeInv, TypeOK
  <1>2. calendar' \in [Events -> Event] /\ Grows
    <2>1. /\ calendar' \in [Events -> Event]
          /\ calendar'[e].of = calendar[e].of
          /\ calendar'[e].status \in {calendar[e].status, "gone"}
          /\ \A f \in Events : f # e => calendar'[f] = calendar[f]
      BY <1>1, GoneEvent
    <2> QED
      BY <1>1, <2>1 DEF Grows
  <1>3. \A v \in Workers : Fits(call[v])'
    BY <1>1, <1>2, FitsKept
  <1>4. \A n \in Meetings : Names(n, rows[n].event)'
    BY <1>1, <1>2 DEF Names, Grows, TypeInv
  <1> QED
    BY <1>1, <1>2, <1>3, <1>4 DEF TypeInv, TypeOK

LEMMA TypeNext ==
    ASSUME TypeInv, [Next]_vars
    PROVE  TypeInv'
  <1>1. CASE UNCHANGED vars
    BY <1>1 DEF vars, TypeInv, TypeOK, Fits, Names
  <1> QED
    BY <1>1, SaveReadType, CancelType, SaveCommitType, CreateEventType, UpdateEventType,
       LinkType, RemoveType, LookType, LookAgainType, CutType, OutlookType DEF Next

LEMMA TypeAlways == Spec => []TypeInv
  BY TypeInit, TypeNext, PTL DEF Spec

(* Meetings, the calendar's events and the calls in progress have the      *)
(* values of their kinds, whatever requests overlap or are cut off         *)
(* (services/meetings.py, api/routes/meetings.py).                         *)
THEOREM TypeCorrect == Spec => []TypeOK
  BY TypeAlways, PTL DEF TypeInv

-----------------------------------------------------------------------------
(* What a step of one call leaves alone: every other call, and every other *)
(* meeting with its event.  Were two calls about the meeting, it is raced. *)

Own(w, m) ==
    /\ \A v \in Workers \ {w} : call'[v] = call[v]
    /\ \A n \in Meetings \ {m} : /\ rows'[n] = rows[n]
                                 /\ n \in saved' <=> n \in saved
                                 /\ n \in behind' <=> n \in behind
                                 /\ n \in raced' <=> n \in raced
    /\ \A e \in Events : calendar[e].status # "unmade" /\ calendar[e].of # m =>
          calendar'[e] = calendar[e] /\ (e \in edited' <=> e \in edited)
    /\ call[w].of \in {m, NoMeeting} /\ call'[w].of \in {m, NoMeeting}
    /\ m \notin raced' => m \notin raced /\ \A v \in Workers \ {w} : call[v].of # m

LEMMA OwnCurrent ==
    ASSUME TypeInv, CurrentInv, NEW w \in Workers, NEW m \in Meetings, Own(w, m),
           m \notin raced' /\ call'[w].of = m => Current(m, call[w])'
    PROVE  CurrentInv'
  <1> SUFFICES ASSUME NEW n \in Meetings, n \notin raced'
               PROVE  Alone(n)' /\ \A v \in Workers : call'[v].of = n => Current(n, call[v])'
    BY DEF CurrentInv
  <1>1. CASE n = m
    <2>1. \A v \in Workers \ {w} : call'[v].of # n
      BY <1>1 DEF Own
    <2> QED
      BY <1>1, <2>1 DEF Alone
  <1>2. CASE n # m
    <2>1. /\ n \notin raced /\ rows'[n] = rows[n] /\ (n \in saved' <=> n \in saved)
          /\ call'[w].of # n
          /\ \A v \in Workers : v # w => call'[v] = call[v]
      BY <1>2, MeetingsAssumption DEF Own
    <2>2. Alone(n) /\ \A v \in Workers : call[v].of = n => Current(n, call[v])
      BY <2>1 DEF CurrentInv
    <2>3. Alone(n)'
      BY <2>1, <2>2 DEF Alone
    <2>4. ASSUME NEW v \in Workers, call'[v].of = n
          PROVE  Current(n, call[v])'
      <3>1. call'[v] = call[v] /\ Current(n, call[v]) /\ call[v].of = n
        BY <2>1, <2>2, <2>4
      <3>2. call[v].stage = "link" =>
               LET e == call[v].event IN
               calendar'[e] = calendar[e] /\ (e \in edited' <=> e \in edited)
        <4>1. call[v] \in Call /\ Fits(call[v])
          BY DEF TypeInv, TypeOK
        <4>2. call[v].stage = "link" => call[v].event \in Events /\ call[v].event # NoEvent
          BY <4>1, Shape, MeetingsAssumption
        <4> QED
          BY <1>2, <3>1, <4>1, <4>2 DEF Own, Fits, Names
      <3> QED
        BY <2>1, <3>1, <3>2 DEF Current
    <2> QED
      BY <2>3, <2>4
  <1> QED
    BY <1>1, <1>2

LEMMA OwnFollows ==
    ASSUME TypeInv, FollowsInv, NEW w \in Workers, NEW m \in Meetings, Own(w, m),
           /\ m \notin behind' \union raced'
           /\ call'[w].of = m => call'[w].stage = "save"
           => Follows(m)'
    PROVE  FollowsInv'
  <1> SUFFICES ASSUME NEW n \in Meetings, n \notin behind' \union raced',
                      \A v \in Workers : call'[v].of = n => call'[v].stage = "save"
               PROVE  Follows(n)'
    BY DEF FollowsInv
  <1>1. CASE n = m
    BY <1>1
  <1>2. CASE n # m
    <2>1. /\ n \notin behind \union raced
          /\ rows'[n] = rows[n] /\ (n \in saved' <=> n \in saved)
          /\ \A v \in Workers : call[v].of = n => call[v].stage = "save"
      BY <1>2, MeetingsAssumption DEF Own
    <2>2. Follows(n)
      BY <2>1 DEF FollowsInv
    <2>3. rows[n].event # NoEvent =>
             LET e == rows[n].event IN
             calendar'[e] = calendar[e] /\ (e \in edited' <=> e \in edited)
      BY <1>2 DEF Own, Names, TypeInv
    <2> QED
      BY <2>1, <2>2, <2>3 DEF Follows
  <1> QED
    BY <1>1, <1>2

(* A step of a call on m, which was on m before *)
LEMMA OwnStep ==
    ASSUME TypeInv, CurrentInv, NEW w \in Workers, NEW m \in Meetings, call[w].of = m,
           NEW c, Becomes(w, c), c.of \in {m, NoMeeting}, raced' = raced,
           \A n \in Meetings \ {m} : /\ rows'[n] = rows[n]
                                     /\ n \in saved' <=> n \in saved
                                     /\ n \in behind' <=> n \in behind,
           \A e \in Events : calendar[e].status # "unmade" /\ calendar[e].of # m =>
              calendar'[e] = calendar[e] /\ (e \in edited' <=> e \in edited)
    PROVE  Own(w, m)
  <1>1. call'[w] = c /\ \A v \in Workers \ {w} : call'[v] = call[v]
    BY DEF Becomes, TypeInv, TypeOK
  <1>2. m \notin raced => \A v \in Workers \ {w} : call[v].of # m
    BY DEF CurrentInv, Alone
  <1> QED
    BY <1>1, <1>2 DEF Own

LEMMA OwnBegins ==
    ASSUME TypeInv, NEW w \in Workers, NEW m \in Meetings, NEW c, Begins(w, m, c), c.of = m,
           UNCHANGED <<calendar, saved, behind, edited>>,
           \A n \in Meetings \ {m} : rows'[n] = rows[n]
    PROVE  Own(w, m)
  <1>1. call'[w] = c /\ \A v \in Workers \ {w} : call'[v] = call[v]
    BY DEF Begins, Becomes, TypeInv, TypeOK
  <1>2. call[w].of = NoMeeting
    BY Shape DEF Begins, At, TypeInv, TypeOK
  <1>3. m \notin raced' => m \notin raced /\ \A v \in Workers \ {w} : call[v].of # m
    BY DEF Begins, Others
  <1>4. \A n \in Meetings \ {m} : n \in raced' <=> n \in raced
    BY DEF Begins
  <1> QED
    BY <1>1, <1>2, <1>3, <1>4 DEF Own

(* A call that is not idle                                                 *)
LEMMA Serves ==
    ASSUME TypeInv, NEW w \in Workers, call[w].stage # "idle"
    PROVE  /\ call[w] \in Call /\ Fits(call[w]) /\ call[w].of \in Meetings
           /\ call[w].row \in Row /\ call[w].of # NoMeeting
  BY Shape, MeetingsAssumption DEF TypeInv, TypeOK

LEMMA EndsOwn ==
    ASSUME TypeInv, NEW w \in Workers, NEW m \in Meetings, EndsInStep(w, m) \/ EndsBehind(w, m)
    PROVE  /\ Becomes(w, Idle) /\ Idle.of = NoMeeting /\ call'[w].of # m
           /\ \A n \in Meetings \ {m} : n \in behind' <=> n \in behind
           /\ EndsBehind(w, m) => m \in behind'
  <1>1. Becomes(w, Idle) /\ \A n \in Meetings \ {m} : n \in behind' <=> n \in behind
    BY DEF EndsInStep, EndsBehind
  <1>2. call'[w] = Idle
    BY <1>1 DEF Becomes, TypeInv, TypeOK
  <1> QED
    BY <1>1, <1>2, IdleCall, MeetingsAssumption DEF EndsBehind

(* Both invariants, after a step of a call on m                            *)
FollowInv == CurrentInv /\ FollowsInv

LEMMA OwnFollow ==
    ASSUME TypeInv, FollowInv, NEW w \in Workers, NEW m \in Meetings, Own(w, m),
           m \notin raced' /\ call'[w].of = m => Current(m, call[w])',
           /\ m \notin behind' \union raced'
           /\ call'[w].of = m => call'[w].stage = "save"
           => Follows(m)'
    PROVE  FollowInv'
  BY OwnCurrent, OwnFollows DEF FollowInv

(* The row a call goes by, on a meeting that is not raced                  *)
LEMMA CurrentNow ==
    ASSUME FollowInv, NEW w \in Workers, call[w].of \in Meetings, call[w].of \notin raced
    PROVE  Current(call[w].of, call[w])
  BY DEF FollowInv, CurrentInv

-----------------------------------------------------------------------------
(* The calendar follows. *)

LEMMA SaveReadFollow ==
    ASSUME TypeInv, FollowInv, NEW w \in Workers, NEW m \in Meetings, NEW status \in Status,
           NEW slot \in Slots, NEW sync \in BOOLEAN, NEW force \in BOOLEAN,
           SaveRead(w, m, status, slot, sync, force)
    PROVE  FollowInv'
  <1> DEFINE c == [stage |-> "save", of |-> m, row |-> rows[m], event |-> NoEvent,
                   want |-> [status |-> status, slot |-> slot, sync |-> sync]]
  <1>1. Begins(w, m, c) /\ UNCHANGED <<rows, calendar, behind, saved, lost, edited, faults>>
    BY DEF SaveRead
  <1>2. c.stage = "save" /\ c.of = m /\ c.row = rows[m]
    OBVIOUS
  <1> HIDE DEF c
  <1>3. Own(w, m)
    BY <1>1, <1>2, OwnBegins
  <1>4. call'[w] = c
    BY <1>1 DEF Begins, Becomes, TypeInv, TypeOK
  <1>5. Current(m, call[w])'
    BY <1>1, <1>2, <1>4 DEF Current
  <1>6. m \notin behind' \union raced' => Follows(m)'
    <2> SUFFICES ASSUME m \notin behind' \union raced' PROVE Follows(m)'
      OBVIOUS
    <2>1. /\ m \notin behind \union raced
          /\ \A v \in Workers : call[v].of # m
      BY <1>1, <1>3, Shape, MeetingsAssumption DEF Own, Begins, At, TypeInv, TypeOK
    <2>2. Follows(m)
      BY <2>1 DEF FollowInv, FollowsInv
    <2> QED
      BY <1>1, <2>2 DEF Follows
  <1> QED
    BY <1>3, <1>5, <1>6, OwnFollow

LEMMA CancelFollow ==
    ASSUME TypeInv, FollowInv, NEW w \in Workers, NEW m \in Meetings, Cancel(w, m)
    PROVE  FollowInv'
  <1> DEFINE c == [Idle EXCEPT !.stage = "cancel", !.of = m]
  <1>1. /\ rows[m] # NoRow /\ Begins(w, m, c)
        /\ rows' = [rows EXCEPT ![m].status = "cancelled"]
        /\ UNCHANGED <<calendar, excused, behind, saved, lost, edited, faults>>
    BY DEF Cancel
  <1>2. c.stage = "cancel" /\ c.of = m
    BY IdleAt DEF Stands, Row
  <1> HIDE DEF c
  <1>3. /\ rows'[m].status = "cancelled"
        /\ \A n \in Meetings \ {m} : rows'[n] = rows[n]
    BY <1>1, CancelledRow
  <1>4. Own(w, m)
    BY <1>1, <1>2, <1>3, OwnBegins
  <1>5. call'[w] = c
    BY <1>1 DEF Begins, Becomes, TypeInv, TypeOK
  <1>6. Current(m, call[w])'
    BY <1>2, <1>3, <1>5 DEF Current
  <1> QED
    BY <1>2, <1>4, <1>5, <1>6, OwnFollow

(* What a save stores, when nobody wrote the row since it was read, is     *)
(* what it was to store.                                                   *)
LEMMA SavedRow ==
    ASSUME TypeInv, NEW w \in Workers, SaveCommit(w)
    PROVE  LET m == call[w].of read == call[w].row want == call[w].want IN
           /\ m \in Meetings /\ want \in Want
           /\ rows'[m].event = rows[m].event
           /\ rows'[m].status = Column(want.status, read.status, rows[m].status)
           /\ rows'[m].slot = IF want.slot # read.slot \/ read = NoRow THEN want.slot
                              ELSE rows[m].slot
           /\ \A n \in Meetings \ {m} : rows'[n] = rows[n]
  <1> DEFINE m    == call[w].of
             read == call[w].row
             want == call[w].want
             status == Column(want.status, read.status, rows[m].status)
             slot   == IF want.slot # read.slot \/ read = NoRow THEN want.slot ELSE rows[m].slot
  <1>1. call[w].stage = "save"
    BY DEF SaveCommit, At
  <1>2. /\ m \in Meetings /\ want \in Want /\ read \in Row /\ rows[m] \in Row
        /\ read # NoRow => rows[m] # NoRow
    BY <1>1, Serves, Shape DEF Fits, TypeInv, TypeOK
  <1>3. want.status \in Status /\ want.slot \in Slots
    BY <1>2 DEF Want
  <1>4. status \in Status
    BY <1>2, <1>3, RowShape DEF Column, Status
  <1>5. slot \in Slots
    BY <1>2, <1>3, RowShape
  <1>6. rows' = [rows EXCEPT ![m] = Put(rows[m], status, slot)]
    BY <1>2 DEF SaveCommit, Put, TypeInv, TypeOK
  <1> HIDE DEF status, slot
  <1>7. /\ Put(rows[m], status, slot).status = status
        /\ Put(rows[m], status, slot).slot = slot
        /\ Put(rows[m], status, slot).event = rows[m].event
    BY <1>2, <1>4, <1>5, PutRow
  <1>8. /\ rows'[m] = Put(rows[m], status, slot)
        /\ \A n \in Meetings \ {m} : rows'[n] = rows[n]
    BY <1>2, <1>6 DEF TypeInv, TypeOK
  <1> QED
    BY <1>2, <1>7, <1>8 DEF status, slot

LEMMA SaveCommitFollow ==
    ASSUME TypeInv, FollowInv, NEW w \in Workers, SaveCommit(w)
    PROVE  FollowInv'
  <1> DEFINE m    == call[w].of
             read == call[w].row
             want == call[w].want
             c == [stage |-> "look", of |-> m, row |-> NoRow, want |-> want.sync,
                   event |-> NoEvent]
  <1>1. /\ Becomes(w, c) /\ call[w].stage = "save"
        /\ saved' = IF want.status = "cancelled" THEN saved \union {m} ELSE saved \ {m}
        /\ UNCHANGED <<calendar, asked, excused, raced, behind, lost, edited, faults>>
    BY DEF SaveCommit, At
  <1>2. /\ m \in Meetings /\ want \in Want
        /\ rows'[m].status = Column(want.status, read.status, rows[m].status)
        /\ \A n \in Meetings \ {m} : rows'[n] = rows[n]
    BY SavedRow
  <1>3. c.stage = "look" /\ c.of = m
    OBVIOUS
  <1> HIDE DEF c
  <1>4. call'[w] = c
    BY <1>1 DEF Becomes, TypeInv, TypeOK
  <1>5. Own(w, m)
    BY <1>1, <1>2, <1>3, OwnStep DEF FollowInv
  <1>6. ASSUME m \notin raced' PROVE Current(m, call[w])'
    <2>1. read = rows[m]
      BY <1>1, <1>2, <1>6, CurrentNow DEF Current
    <2>2. rows'[m].status = want.status /\ want.status \in Status
      BY <1>2, <2>1 DEF Column, Want
    <2>3. rows'[m].status = "open" \/ m \in saved'
      BY <1>1, <2>2 DEF Status
    <2> QED
      BY <1>3, <1>4, <2>3 DEF Current
  <1> QED
    BY <1>2, <1>3, <1>4, <1>5, <1>6, OwnFollow

LEMMA LookFollow ==
    ASSUME TypeInv, FollowInv, NEW w \in Workers, NEW linked \in BOOLEAN, Look(w, linked)
    PROVE  FollowInv'
  <1> DEFINE m == call[w].of
             stage == IF rows[m].event = NoEvent THEN "create" ELSE "update"
             c == [Idle EXCEPT !.stage = stage, !.of = m, !.row = rows[m]]
  <1>1. /\ call[w].stage = "look"
        /\ UNCHANGED <<rows, calendar, asked, excused, raced, saved, lost, edited, faults>>
    BY DEF Look, At
  <1>2. m \in Meetings /\ rows[m] \in Row
    BY <1>1, Serves DEF TypeInv, TypeOK
  <1>3. CASE EndsBehind(w, m)
    <2>1. Own(w, m)
      BY <1>1, <1>2, <1>3, EndsOwn, OwnStep DEF FollowInv
    <2> QED
      BY <1>2, <1>3, <2>1, EndsOwn, OwnFollow
  <1>4. CASE Becomes(w, c) /\ behind' = behind
    <2>0. Stands(c, stage, m, rows[m], NoEvent)
      BY <1>2, IdleAt
    <2>1. c.stage \in {"create", "update"} /\ c.of = m /\ c.row = rows[m]
      BY <2>0 DEF Stands
    <2> HIDE DEF c
    <2>2. call'[w] = c
      BY <1>4 DEF Becomes, TypeInv, TypeOK
    <2>3. Own(w, m)
      BY <1>1, <1>2, <1>4, <2>1, OwnStep DEF FollowInv
    <2>4. ASSUME m \notin raced' PROVE Current(m, call[w])'
      <3>1. rows[m].status = "open" \/ m \in saved
        BY <1>1, <1>2, <2>4, CurrentNow DEF Current
      <3> QED
        BY <1>1, <2>1, <2>2, <3>1 DEF Current
    <2> QED
      BY <1>2, <2>1, <2>2, <2>3, <2>4, OwnFollow
  <1> QED
    BY <1>3, <1>4 DEF Look

LEMMA LookAgainFollow ==
    ASSUME TypeInv, FollowInv, NEW w \in Workers, NEW linked \in BOOLEAN, LookAgain(w, linked)
    PROVE  FollowInv'
  <1> DEFINE m == call[w].of
             c == [call[w] EXCEPT !.stage = "remove", !.row = rows[m]]
  <1>1. /\ call[w].stage = "cancel"
        /\ UNCHANGED <<rows, calendar, asked, excused, raced, saved, lost, edited, faults>>
    BY DEF LookAgain, At
  <1>2. m \in Meetings /\ rows[m] \in Row /\ call[w] \in Call
    BY <1>1, Serves DEF TypeInv, TypeOK
  <1>3. CASE EndsBehind(w, m)
    <2>1. Own(w, m)
      BY <1>1, <1>2, <1>3, EndsOwn, OwnStep DEF FollowInv
    <2> QED
      BY <1>2, <1>3, <2>1, EndsOwn, OwnFollow
  <1>4. CASE Becomes(w, c) /\ behind' = behind
    <2>1. c.stage = "remove" /\ c.of = m /\ c.row = rows[m]
      BY <1>1, <1>2, CancelAt DEF Stands
    <2> HIDE DEF c
    <2>2. call'[w] = c
      BY <1>4 DEF Becomes, TypeInv, TypeOK
    <2>3. Own(w, m)
      BY <1>1, <1>2, <1>4, <2>1, OwnStep DEF FollowInv
    <2>4. ASSUME m \notin raced' PROVE Current(m, call[w])'
      <3>1. rows[m].status = "cancelled"
        BY <1>1, <1>2, <2>4, CurrentNow DEF Current
      <3> QED
        BY <1>1, <2>1, <2>2, <3>1 DEF Current
    <2> QED
      BY <1>2, <2>1, <2>2, <2>3, <2>4, OwnFollow
  <1> QED
    BY <1>3, <1>4 DEF LookAgain

LEMMA CreateEventFollow ==
    ASSUME TypeInv, FollowInv, NEW w \in Workers, CreateEvent(w)
    PROVE  FollowInv'
  <1> DEFINE m   == call[w].of
             row == call[w].row
  <1>1. call[w].stage = "create" /\ UNCHANGED <<rows, asked, excused, raced, saved, edited>>
    BY DEF CreateEvent, At
  <1>2. m \in Meetings /\ call[w] \in Call /\ row.slot \in Slots
    BY <1>1, Serves, RowShape DEF Fits
  <1>3. CASE EndsBehind(w, m) /\ calendar' = calendar
    <2>1. Own(w, m)
      BY <1>1, <1>2, <1>3, EndsOwn, OwnStep DEF FollowInv
    <2> QED
      BY <1>2, <1>3, <2>1, EndsOwn, OwnFollow
  <1>4. ASSUME NEW e \in Events, Makes(e, m, row.slot)
        PROVE  /\ calendar'[e].status = "live" /\ calendar'[e].slot = row.slot
               /\ \A f \in Events : calendar[f].status # "unmade" => calendar'[f] = calendar[f]
    <2>1. /\ calendar[e].status = "unmade"
          /\ calendar'[e] = [status |-> "live", of |-> m, slot |-> row.slot]
          /\ \A f \in Events : f # e => calendar'[f] = calendar[f]
      BY <1>2, <1>4, MakesEvent
    <2> QED
      BY <2>1
  <1>5. ASSUME NEW e \in Events, Makes(e, m, row.slot), EndsBehind(w, m)
        PROVE  FollowInv'
    <2>1. Own(w, m)
      BY <1>1, <1>2, <1>4, <1>5, EndsOwn, OwnStep DEF FollowInv
    <2> QED
      BY <1>2, <1>5, <2>1, EndsOwn, OwnFollow
  <1>6. ASSUME NEW e \in Events, Makes(e, m, row.slot), behind' = behind,
               Becomes(w, [call[w] EXCEPT !.stage = "link", !.event = e])
        PROVE  FollowInv'
    <2> DEFINE c == [call[w] EXCEPT !.stage = "link", !.event = e]
    <2>1. c.stage = "link" /\ c.of = m /\ c.row = row /\ c.event = e
      BY <1>1, <1>2, CreateAt DEF Stands
    <2>2. Becomes(w, c) /\ call'[w] = c
      BY <1>6 DEF Becomes, TypeInv, TypeOK
    <2> HIDE DEF c
    <2>3. Own(w, m)
      BY <1>1, <1>2, <1>4, <1>6, <2>1, <2>2, OwnStep DEF FollowInv
    <2>4. ASSUME m \notin raced' PROVE Current(m, call[w])'
      <3>1. row = rows[m] /\ (rows[m].status = "open" \/ m \in saved)
        BY <1>1, <1>2, <2>4, CurrentNow DEF Current
      <3> QED
        BY <1>1, <1>4, <1>6, <2>1, <2>2, <3>1 DEF Current
    <2> QED
      BY <1>2, <2>1, <2>2, <2>3, <2>4, OwnFollow
  <1> QED
    BY <1>3, <1>5, <1>6 DEF CreateEvent

LEMMA UpdateEventFollow ==
    ASSUME TypeInv, FollowInv, NEW w \in Workers, UpdateEvent(w)
    PROVE  FollowInv'
  <1>0. PICK m, row, e : m = call[w].of /\ row = call[w].row /\ e = row.event
    OBVIOUS
  <1> USE <1>0
  <1>1. /\ call[w].stage = "update" /\ UNCHANGED <<rows, asked, excused, raced, saved, lost, faults>>
        /\ EndsInStep(w, m) \/ EndsBehind(w, m)
    BY DEF UpdateEvent, At
  <1>2. /\ m \in Meetings /\ row \in Row /\ row # NoRow /\ row.slot \in Slots
        /\ e \in Events /\ calendar[e].status # "unmade" /\ calendar[e].of = m
    BY <1>1, Serves, RowShape DEF Fits, Names
  <1>3. \/ /\ calendar[e].status = "live" /\ calendar' = [calendar EXCEPT ![e].slot = row.slot]
           /\ edited' = edited \ {e}
        \/ EndsBehind(w, m) /\ UNCHANGED <<calendar, edited>>
    BY DEF UpdateEvent
  <1>4. CASE EndsBehind(w, m) /\ UNCHANGED <<calendar, edited>>
    <2>1. Own(w, m)
      BY <1>1, <1>2, <1>4, EndsOwn, OwnStep DEF FollowInv
    <2> QED
      BY <1>2, <1>4, <2>1, EndsOwn, OwnFollow
  <1>5. CASE /\ calendar[e].status = "live" /\ calendar' = [calendar EXCEPT ![e].slot = row.slot]
             /\ edited' = edited \ {e}
    <2>1. /\ calendar'[e].status = "live" /\ calendar'[e].slot = row.slot
          /\ \A f \in Events : f # e => calendar'[f] = calendar[f]
      BY <1>2, <1>5, MovedEvent
    <2>2. Own(w, m)
      BY <1>1, <1>2, <1>5, <2>1, EndsOwn, OwnStep DEF FollowInv
    <2>3. ASSUME m \notin raced' PROVE Follows(m)'
      <3>1. row = rows[m] /\ (rows[m].status = "open" \/ m \in saved)
        BY <1>1, <1>2, <2>3, CurrentNow DEF Current
      <3> QED
        BY <1>1, <1>5, <2>1, <3>1 DEF Follows
    <2> QED
      BY <1>1, <1>2, <2>2, <2>3, EndsOwn, OwnFollow
  <1> QED
    BY <1>3, <1>4, <1>5

LEMMA LinkFollow ==
    ASSUME TypeInv, FollowInv, NEW w \in Workers, Link(w)
    PROVE  FollowInv'
  <1>0. PICK m, e : m = call[w].of /\ e = call[w].event
    OBVIOUS
  <1> USE <1>0
  <1>1. /\ call[w].stage = "link" /\ EndsInStep(w, m)
        /\ rows' = [rows EXCEPT ![m].event = e]
        /\ UNCHANGED <<calendar, asked, excused, raced, saved, lost, edited, faults>>
    BY DEF Link, At
  <1>2. /\ m \in Meetings /\ rows[m] \in Row /\ rows[m] # NoRow
    BY <1>1, Serves DEF Fits, TypeInv, TypeOK
  <1>3. /\ rows'[m].event = e /\ rows'[m].status = rows[m].status /\ rows'[m].slot = rows[m].slot
        /\ \A n \in Meetings \ {m} : rows'[n] = rows[n]
    BY <1>1, <1>2 DEF Row, TypeInv, TypeOK
  <1>4. Own(w, m)
    BY <1>1, <1>2, <1>3, EndsOwn, OwnStep DEF FollowInv
  <1>5. ASSUME m \notin raced' PROVE Follows(m)'
    <2>1. /\ call[w].row = rows[m] /\ (rows[m].status = "open" \/ m \in saved)
          /\ e \notin edited => calendar[e].status = "live" /\ calendar[e].slot = rows[m].slot
      BY <1>1, <1>2, <1>5, CurrentNow DEF Current
    <2> QED
      BY <1>1, <1>3, <2>1 DEF Follows
  <1> QED
    BY <1>1, <1>2, <1>4, <1>5, EndsOwn, OwnFollow

LEMMA RemoveFollow ==
    ASSUME TypeInv, FollowInv, NEW w \in Workers, Remove(w)
    PROVE  FollowInv'
  <1>0. PICK m, row, e : m = call[w].of /\ row = call[w].row /\ e = row.event
    OBVIOUS
  <1> USE <1>0
  <1>1. /\ call[w].stage = "remove" /\ UNCHANGED <<rows, asked, excused, raced, lost, edited, faults>>
        /\ EndsInStep(w, m) \/ EndsBehind(w, m)
        /\ calendar' \in {calendar, Gone(e)}
        /\ saved' \in {saved, saved \ {m}}
        /\ EndsBehind(w, m) \/ calendar' = Gone(e)
    BY DEF Remove, At
  <1>2. /\ m \in Meetings /\ e \in Events /\ calendar[e].status # "unmade" /\ calendar[e].of = m
    BY <1>1, Serves, RowShape DEF Fits, Names
  <1>3. /\ calendar' = Gone(e) => calendar'[e].status = "gone"
        /\ \A f \in Events : f # e => calendar'[f] = calendar[f]
    BY <1>1, <1>2, GoneEvent
  <1>4. Own(w, m)
    BY <1>1, <1>2, <1>3, EndsOwn, OwnStep DEF FollowInv
  <1>5. ASSUME m \notin behind' \union raced' PROVE Follows(m)'
    <2>1. calendar'[e].status = "gone"
      BY <1>1, <1>2, <1>3, <1>5, EndsOwn
    <2>2. row = rows[m] /\ rows[m].status = "cancelled"
      BY <1>1, <1>2, <1>5, CurrentNow DEF Current
    <2> QED
      BY <1>1, <2>1, <2>2 DEF Follows
  <1> QED
    BY <1>1, <1>2, <1>4, <1>5, EndsOwn, OwnFollow

LEMMA CutFollow ==
    ASSUME TypeInv, FollowInv, NEW w \in Workers, Cut(w)
    PROVE  FollowInv'
  <1>0. PICK m : m = call[w].of
    OBVIOUS
  <1> USE <1>0
  <1>1. /\ call[w].stage # "idle"
        /\ UNCHANGED <<rows, calendar, asked, excused, raced, saved, edited>>
        /\ IF call[w].stage = "save" THEN Becomes(w, Idle) /\ behind' = behind
           ELSE EndsBehind(w, m)
    BY DEF Cut, At
  <1>2. m \in Meetings
    BY <1>1, Serves
  <1>3. /\ Becomes(w, Idle) /\ Idle.of = NoMeeting /\ call'[w].of # m
        /\ \A n \in Meetings \ {m} : n \in behind' <=> n \in behind
    <2>1. CASE call[w].stage = "save"
      BY <1>1, <1>2, <2>1, IdleCall, MeetingsAssumption DEF Becomes, TypeInv, TypeOK
    <2>2. CASE EndsBehind(w, m)
      BY <1>2, <2>2, EndsOwn
    <2> QED
      BY <1>1, <2>1, <2>2
  <1>4. Own(w, m)
    BY <1>1, <1>2, <1>3, OwnStep DEF FollowInv
  <1>5. ASSUME m \notin behind' \union raced' PROVE Follows(m)'
    <2>1. call[w].stage = "save" /\ behind' = behind
      BY <1>1, <1>2, <1>5, EndsOwn
    <2>2. \A v \in Workers : call[v].of = m => call[v].stage = "save"
      BY <1>4, <1>5, <2>1 DEF Own
    <2>3. Follows(m)
      BY <1>1, <1>2, <1>5, <2>1, <2>2 DEF FollowInv, FollowsInv
    <2> QED
      BY <1>1, <2>3 DEF Follows
  <1> QED
    BY <1>2, <1>3, <1>4, <1>5, OwnFollow

LEMMA OutlookFollow ==
    ASSUME TypeInv, FollowInv, NEW e \in Events, Outlook(e)
    PROVE  FollowInv'
  <1>1. /\ calendar[e].status = "live" /\ calendar' \in {calendar, Gone(e)}
        /\ edited' = edited \union {e}
        /\ UNCHANGED <<rows, call, asked, excused, raced, behind, saved, lost, faults>>
    BY DEF Outlook
  <1>2. \A f \in Events : f # e => calendar'[f] = calendar[f]
    BY <1>1, GoneEvent
  <1>3. CurrentInv'
    <2> SUFFICES ASSUME NEW m \in Meetings \ raced
                 PROVE  Alone(m)' /\ \A w \in Workers : call[w].of = m => Current(m, call[w])'
      BY <1>1 DEF CurrentInv
    <2>1. Alone(m) /\ \A w \in Workers : call[w].of = m => Current(m, call[w])
      BY DEF FollowInv, CurrentInv
    <2>2. Alone(m)'
      BY <1>1, <2>1 DEF Alone
    <2>3. ASSUME NEW w \in Workers, call[w].of = m PROVE Current(m, call[w])'
      <3>1. Current(m, call[w]) /\ call'[w] = call[w]
        BY <1>1, <2>1, <2>3
      <3>2. call[w].stage = "link" => call[w].event \in Events
        BY Shape DEF TypeInv, TypeOK
      <3> QED
        BY <1>1, <1>2, <3>1, <3>2 DEF Current
    <2> QED
      BY <2>2, <2>3
  <1>4. FollowsInv'
    <2> SUFFICES ASSUME NEW m \in Meetings \ (behind \union raced),
                        \A w \in Workers : call[w].of = m => call[w].stage = "save"
                 PROVE  Follows(m)'
      BY <1>1 DEF FollowsInv
    <2>1. Follows(m)
      BY DEF FollowInv, FollowsInv
    <2>2. rows[m].event # NoEvent => rows[m].event \in Events
      BY DEF TypeInv, Names
    <2>3. rows[m].event = e => e \in edited'
      BY <1>1
    <2> QED
      BY <1>1, <1>2, <2>1, <2>2, <2>3 DEF Follows
  <1> QED
    BY <1>3, <1>4 DEF FollowInv

LEMMA FollowInit == Init => FollowInv
  <1> SUFFICES ASSUME Init PROVE FollowInv
    OBVIOUS
  <1>1. \A w \in Workers : call[w] = Idle
    BY DEF Init
  <1>2. \A w \in Workers : call[w].of \notin Meetings
    BY <1>1, IdleCall, MeetingsAssumption
  <1>3. CurrentInv
    BY <1>2 DEF CurrentInv, Alone
  <1>4. \A m \in Meetings : rows[m].event = NoEvent
    BY DEF Init, NoRow
  <1> QED
    BY <1>3, <1>4 DEF FollowInv, FollowsInv, Follows

LEMMA FollowNext ==
    ASSUME TypeInv, FollowInv, [Next]_vars
    PROVE  FollowInv'
  <1>1. CASE UNCHANGED vars
    BY <1>1 DEF vars, FollowInv, CurrentInv, FollowsInv, Alone, Current, Follows
  <1> QED
    BY <1>1, SaveReadFollow, CancelFollow, SaveCommitFollow, CreateEventFollow,
       UpdateEventFollow, LinkFollow, RemoveFollow, LookFollow, LookAgainFollow, CutFollow,
       OutlookFollow DEF Next

LEMMA FollowAlways == Spec => []FollowInv
  <1>1. TypeInv /\ FollowInv /\ [Next]_vars => FollowInv'
    BY FollowNext
  <1> QED
    BY FollowInit, TypeAlways, <1>1, PTL DEF Spec

(* The calendar has the meetings there are, whatever requests overlap, are *)
(* cut off or fail to reach it, but for the reasons the property names     *)
(* (upsert_event, delete_event, and their calls of the calendar).          *)
THEOREM CalendarAlwaysFollows == Spec => []CalendarFollows
  <1>1. FollowInv => CalendarFollows
    <2> SUFFICES ASSUME FollowInv, NEW m \in Meetings,
                        rows[m].event # NoEvent, Quiet(m), m \notin behind \union raced
                 PROVE  Follows(m)
      BY DEF CalendarFollows, Follows
    <2> QED
      BY DEF Quiet, FollowInv, FollowsInv
  <1> QED
    BY FollowAlways, <1>1, PTL


-----------------------------------------------------------------------------
(* The events are accounted for. *)

Accounted(e) ==
    LET m == calendar[e].of IN
    calendar[e].status = "live" =>
        \/ rows[m].event = e
        \/ e \in lost \/ m \in raced
        \/ \E w \in Workers : At(w, "link") /\ call[w].event = e

(* What keeps an event accounted for: it was made before the step, its     *)
(* meeting still names what it named, and a call about to commit its id    *)
(* still is, or gave the id up.                                            *)
LEMMA AccountKept ==
    ASSUME NEW e, Accounted(e), lost \subseteq lost', raced \subseteq raced',
           calendar'[e].status = "live" =>
              /\ calendar[e].status = "live" /\ calendar'[e].of = calendar[e].of
              /\ rows'[calendar[e].of].event = rows[calendar[e].of].event,
           \A w \in Workers : At(w, "link") /\ call[w].event = e =>
              call'[w] = call[w] \/ e \in lost'
    PROVE  Accounted(e)'
  BY DEF Accounted, At

(* A step of a call that commits no id and makes no event                  *)
LEMMA AccountsKept ==
    ASSUME TypeInv, EventsAccounted, NEW w \in Workers, \A v \in Workers \ {w} : call'[v] = call[v],
           \/ call[w].stage # "link"
           \/ lost' = lost \union {call[w].event},
           lost \subseteq lost', raced \subseteq raced',
           \A m \in Meetings : rows'[m].event = rows[m].event,
           \A e \in Events : calendar'[e].status = "live" =>
              calendar[e].status = "live" /\ calendar'[e].of = calendar[e].of
    PROVE  EventsAccounted'
  <1> SUFFICES ASSUME NEW e \in Events PROVE Accounted(e)'
    BY DEF EventsAccounted, Accounted
  <1>1. Accounted(e)
    BY DEF EventsAccounted, Accounted
  <1>2. \A v \in Workers : At(v, "link") /\ call[v].event = e => call'[v] = call[v] \/ e \in lost'
    BY DEF At
  <1>3. calendar[e].status = "live" => calendar[e].of \in Meetings
    BY EventShape DEF TypeInv, TypeOK
  <1> QED
    BY <1>1, <1>2, <1>3, AccountKept

LEMMA Becoming ==
    ASSUME TypeInv, NEW w \in Workers, NEW c, Becomes(w, c)
    PROVE  call'[w] = c /\ \A v \in Workers \ {w} : call'[v] = call[v]
  BY DEF Becomes, TypeInv, TypeOK

LEMMA SaveReadAccount ==
    ASSUME TypeInv, EventsAccounted, NEW w \in Workers, NEW m \in Meetings,
           NEW status \in Status, NEW slot \in Slots, NEW sync \in BOOLEAN,
           NEW force \in BOOLEAN, SaveRead(w, m, status, slot, sync, force)
    PROVE  EventsAccounted'
  <1>1. /\ call[w].stage = "idle" /\ raced \subseteq raced'
        /\ UNCHANGED <<rows, calendar, lost>>
    BY DEF SaveRead, Begins, At
  <1>2. \A v \in Workers \ {w} : call'[v] = call[v]
    BY Becoming DEF SaveRead, Begins
  <1> QED
    BY <1>1, <1>2, AccountsKept

LEMMA CancelAccount ==
    ASSUME TypeInv, EventsAccounted, NEW w \in Workers, NEW m \in Meetings, Cancel(w, m)
    PROVE  EventsAccounted'
  <1>1. /\ call[w].stage = "idle" /\ raced \subseteq raced'
        /\ rows[m] # NoRow /\ rows' = [rows EXCEPT ![m].status = "cancelled"]
        /\ UNCHANGED <<calendar, lost>>
    BY DEF Cancel, Begins, At
  <1>2. \A v \in Workers \ {w} : call'[v] = call[v]
    BY Becoming DEF Cancel, Begins
  <1>3. \A n \in Meetings : rows'[n].event = rows[n].event
    BY <1>1, CancelledRow
  <1> QED
    BY <1>1, <1>2, <1>3, AccountsKept

LEMMA SaveCommitAccount ==
    ASSUME TypeInv, EventsAccounted, NEW w \in Workers, SaveCommit(w)
    PROVE  EventsAccounted'
  <1>1. call[w].stage = "save" /\ UNCHANGED <<calendar, raced, lost>>
    BY DEF SaveCommit, At
  <1>2. \A v \in Workers \ {w} : call'[v] = call[v]
    BY Becoming DEF SaveCommit
  <1>3. \A n \in Meetings : rows'[n].event = rows[n].event
    BY SavedRow
  <1> QED
    BY <1>1, <1>2, <1>3, AccountsKept

LEMMA LookAccount ==
    ASSUME TypeInv, EventsAccounted, NEW w \in Workers, NEW linked \in BOOLEAN,
           Look(w, linked) \/ LookAgain(w, linked)
    PROVE  EventsAccounted'
  <1>1. call[w].stage \in {"look", "cancel"} /\ UNCHANGED <<rows, calendar, raced, lost>>
    BY DEF Look, LookAgain, At
  <1>2. \E c : Becomes(w, c)
    BY DEF Look, LookAgain, EndsBehind
  <1>3. \A v \in Workers \ {w} : call'[v] = call[v]
    BY <1>2, Becoming
  <1> QED
    BY <1>1, <1>3, AccountsKept

LEMMA CreateEventAccount ==
    ASSUME TypeInv, EventsAccounted, NEW w \in Workers, CreateEvent(w)
    PROVE  EventsAccounted'
  <1>0. PICK m : m = call[w].of
    OBVIOUS
  <1> USE <1>0
  <1>1. call[w].stage = "create" /\ UNCHANGED <<rows, raced>>
    BY DEF CreateEvent, At
  <1>2. m \in Meetings /\ call[w] \in Call /\ call[w].row.slot \in Slots
    BY <1>1, Serves, RowShape DEF Fits
  <1>3. CASE EndsBehind(w, m) /\ UNCHANGED <<calendar, lost>>
    <2>1. \A v \in Workers \ {w} : call'[v] = call[v]
      BY <1>3, Becoming DEF EndsBehind
    <2> QED
      BY <1>1, <1>3, <2>1, AccountsKept
  <1>4. ASSUME NEW e \in Events, Makes(e, m, call[w].row.slot), lost \subseteq lost',
               \A v \in Workers \ {w} : call'[v] = call[v], Accounted(e)'
        PROVE  EventsAccounted'
    <2>1. \A f \in Events : f # e => calendar'[f] = calendar[f]
      BY <1>2, <1>4, MakesEvent
    <2>2. ASSUME NEW f \in Events, f # e PROVE Accounted(f)'
      <3>1. Accounted(f)
        BY DEF EventsAccounted, Accounted
      <3>2. \A v \in Workers : At(v, "link") => call'[v] = call[v]
        BY <1>1, <1>4 DEF At
      <3> QED
        BY <1>1, <1>4, <2>1, <2>2, <3>1, <3>2, AccountKept
    <2> QED
      BY <1>4, <2>2 DEF EventsAccounted, Accounted
  <1>5. ASSUME NEW e \in Events, Makes(e, m, call[w].row.slot), EndsBehind(w, m),
               lost' = lost \union {e}
        PROVE  EventsAccounted'
    <2>1. \A v \in Workers \ {w} : call'[v] = call[v]
      BY <1>5, Becoming DEF EndsBehind
    <2>2. Accounted(e)'
      BY <1>5 DEF Accounted
    <2> QED
      BY <1>4, <1>5, <2>1, <2>2
  <1>6. ASSUME NEW e \in Events, Makes(e, m, call[w].row.slot), lost' = lost,
               Becomes(w, [call[w] EXCEPT !.stage = "link", !.event = e])
        PROVE  EventsAccounted'
    <2>1. /\ call'[w] = [call[w] EXCEPT !.stage = "link", !.event = e]
          /\ \A v \in Workers \ {w} : call'[v] = call[v]
      BY <1>6, Becoming
    <2>2. call'[w].stage = "link" /\ call'[w].event = e
      <3>1. Stands(call'[w], "link", m, call[w].row, e)
        BY <1>1, <1>2, <2>1, CreateAt
      <3> QED
        BY <3>1 DEF Stands
    <2>3. Accounted(e)'
      BY <2>2 DEF Accounted, At
    <2> QED
      BY <1>4, <1>6, <2>1, <2>3
  <1> QED
    BY <1>3, <1>5, <1>6 DEF CreateEvent

LEMMA UpdateEventAccount ==
    ASSUME TypeInv, EventsAccounted, NEW w \in Workers, UpdateEvent(w)
    PROVE  EventsAccounted'
  <1>0. PICK e : e = call[w].row.event
    OBVIOUS
  <1> USE <1>0
  <1>1. /\ call[w].stage = "update" /\ UNCHANGED <<rows, raced, lost>>
        /\ Becomes(w, Idle)
        /\ \/ /\ calendar[e].status = "live"
              /\ calendar' = [calendar EXCEPT ![e].slot = call[w].row.slot]
           \/ calendar' = calendar
    BY DEF UpdateEvent, At, EndsInStep, EndsBehind
  <1>2. e \in Events /\ call[w].row.slot \in Slots
    BY <1>1, Serves, RowShape DEF Fits, Names
  <1>3. \A f \in Events : calendar'[f].status = "live" =>
           calendar[f].status = "live" /\ calendar'[f].of = calendar[f].of
    BY <1>1, <1>2, MovedEvent
  <1>4. \A v \in Workers \ {w} : call'[v] = call[v]
    BY <1>1, Becoming
  <1> QED
    BY <1>1, <1>3, <1>4, AccountsKept

LEMMA RemoveAccount ==
    ASSUME TypeInv, EventsAccounted, NEW w \in Workers, Remove(w)
    PROVE  EventsAccounted'
  <1>0. PICK e : e = call[w].row.event
    OBVIOUS
  <1> USE <1>0
  <1>1. /\ call[w].stage = "remove" /\ UNCHANGED <<rows, raced, lost>>
        /\ Becomes(w, Idle)
        /\ calendar' \in {calendar, Gone(e)}
    BY DEF Remove, At, EndsInStep, EndsBehind
  <1>2. e \in Events /\ calendar[e].status # "unmade"
    BY <1>1, Serves DEF Fits, Names
  <1>3. \A f \in Events : calendar'[f].status = "live" =>
           calendar[f].status = "live" /\ calendar'[f].of = calendar[f].of
    BY <1>1, <1>2, GoneEvent
  <1>4. \A v \in Workers \ {w} : call'[v] = call[v]
    BY <1>1, Becoming
  <1> QED
    BY <1>1, <1>3, <1>4, AccountsKept

(* The id of an event is committed by the call that made it, on a row that *)
(* names no event yet, unless another request has been about the meeting.  *)
LEMMA LinkAccount ==
    ASSUME TypeInv, FollowInv, EventsAccounted, NEW w \in Workers, Link(w)
    PROVE  EventsAccounted'
  <1>0. PICK m, d : m = call[w].of /\ d = call[w].event
    OBVIOUS
  <1> USE <1>0
  <1>1. /\ call[w].stage = "link" /\ Becomes(w, Idle)
        /\ rows' = [rows EXCEPT ![m].event = d]
        /\ UNCHANGED <<calendar, raced, lost>>
    BY DEF Link, At, EndsInStep
  <1>2. /\ m \in Meetings /\ rows[m] \in Row /\ rows[m] # NoRow
        /\ d \in Events /\ Names(m, d) /\ call[w].row.event = NoEvent
    BY <1>1, Serves, Shape DEF Fits, TypeInv, TypeOK
  <1>3. rows'[m].event = d /\ \A n : n # m => rows'[n] = rows[n]
    BY <1>1, <1>2 DEF Row, TypeInv, TypeOK
  <1>4. \A v \in Workers \ {w} : call'[v] = call[v]
    BY <1>1, Becoming
  <1> SUFFICES ASSUME NEW e \in Events PROVE Accounted(e)'
    BY DEF EventsAccounted, Accounted
  <1>5. Accounted(e)
    BY DEF EventsAccounted, Accounted
  <1>6. CASE e = d
    BY <1>1, <1>2, <1>3, <1>6, MeetingsAssumption DEF Accounted, Names
  <1>7. CASE e # d /\ calendar[e].of # m
    BY <1>1, <1>3, <1>4, <1>5, <1>7 DEF Accounted, At
  <1>8. CASE e # d /\ calendar[e].of = m
    <2>1. m \notin raced => rows[m].event # e
      BY <1>1, <1>2, CurrentNow, MeetingsAssumption DEF Current
    <2> QED
      BY <1>1, <1>4, <1>5, <1>8, <2>1 DEF Accounted, At
  <1> QED
    BY <1>6, <1>7, <1>8

LEMMA CutAccount ==
    ASSUME TypeInv, EventsAccounted, NEW w \in Workers, Cut(w)
    PROVE  EventsAccounted'
  <1>1. /\ UNCHANGED <<rows, calendar, raced>> /\ Becomes(w, Idle)
        /\ lost' = IF call[w].stage = "link" THEN lost \union {call[w].event} ELSE lost
    BY DEF Cut, At, EndsBehind
  <1>2. \A v \in Workers \ {w} : call'[v] = call[v]
    BY <1>1, Becoming
  <1> QED
    BY <1>1, <1>2, AccountsKept

LEMMA OutlookAccount ==
    ASSUME TypeInv, EventsAccounted, NEW e \in Events, Outlook(e)
    PROVE  EventsAccounted'
  <1>1. /\ calendar[e].status = "live" /\ calendar' \in {calendar, Gone(e)}
        /\ UNCHANGED <<rows, call, raced, lost>>
    BY DEF Outlook
  <1>2. \A f \in Events : calendar'[f].status = "live" =>
           calendar[f].status = "live" /\ calendar'[f].of = calendar[f].of
    BY <1>1, GoneEvent
  <1> SUFFICES ASSUME NEW f \in Events PROVE Accounted(f)'
    BY DEF EventsAccounted, Accounted
  <1>3. Accounted(f)
    BY DEF EventsAccounted, Accounted
  <1> QED
    BY <1>1, <1>2, <1>3, AccountKept

LEMMA AccountNext ==
    ASSUME TypeInv, FollowInv, EventsAccounted, [Next]_vars
    PROVE  EventsAccounted'
  <1>1. CASE UNCHANGED vars
    BY <1>1 DEF vars, EventsAccounted, At
  <1> QED
    BY <1>1, SaveReadAccount, CancelAccount, SaveCommitAccount, CreateEventAccount,
       UpdateEventAccount, LinkAccount, RemoveAccount, LookAccount, CutAccount,
       OutlookAccount DEF Next

(* No live event of the service is without a meeting that names it, unless *)
(* its id was never known or committed, or two requests about the meeting  *)
(* met: a calendar that is asked twice, an answer that is lost             *)
(* (create_calendar_event, update_external_metadata).                      *)
THEOREM EventsAlwaysAccounted == Spec => []EventsAccounted
  <1>1. Init => EventsAccounted
    BY DEF Init, EventsAccounted, Unmade
  <1>2. TypeInv /\ FollowInv /\ EventsAccounted /\ [Next]_vars => EventsAccounted'
    BY AccountNext
  <1> QED
    BY <1>1, <1>2, TypeAlways, FollowAlways, PTL DEF Spec

-----------------------------------------------------------------------------
(* The bookings are explained. *)

LEMMA SlotShape ==
    ASSUME NEW slot \in Slots
    PROVE  slot.from \in Int /\ slot.to \in Int
  BY MeetingsAssumption DEF Slot

LEMMA OpenSlot ==
    ASSUME TypeInv, NEW m \in Meetings, rows[m].status = "open"
    PROVE  rows[m].slot \in Slots
  BY RowShape DEF TypeInv, TypeOK

(* A step that saves no row and begins no save                             *)
LEMMA BookingsKept ==
    ASSUME BookingsInv, excused' = excused, raced \subseteq raced',
           \A n \in Meetings : rows'[n].status = "open" =>
              rows[n].status = "open" /\ rows'[n].slot = rows[n].slot,
           \A v \in Workers : call'[v].stage = "save" => call'[v] = call[v]
    PROVE  BookingsInv'
  <1>1. SavesMeet'
    BY DEF BookingsInv, SavesMeet, Saving
  <1>2. SavesFree'
    BY DEF BookingsInv, SavesFree, Saving
  <1>3. RowsFree'
    BY DEF BookingsInv, RowsFree
  <1> QED
    BY <1>1, <1>2, <1>3 DEF BookingsInv

(* A step of one call, which is no save then                               *)
LEMMA CallBookingsKept ==
    ASSUME TypeInv, BookingsInv, NEW w \in Workers, NEW c, Becomes(w, c), c.stage # "save",
           excused' = excused, raced \subseteq raced',
           \A n \in Meetings : rows'[n].status = "open" =>
              rows[n].status = "open" /\ rows'[n].slot = rows[n].slot
    PROVE  BookingsInv'
  <1>1. \A v \in Workers : call'[v].stage = "save" => call'[v] = call[v]
    BY Becoming
  <1> QED
    BY <1>1, BookingsKept

LEMMA SaveReadBookings ==
    ASSUME TypeInv, BookingsInv, NEW w \in Workers, NEW m \in Meetings,
           NEW status \in Status, NEW slot \in Slots, NEW sync \in BOOLEAN,
           NEW force \in BOOLEAN, SaveRead(w, m, status, slot, sync, force)
    PROVE  BookingsInv'
  <1> DEFINE c == [stage |-> "save", of |-> m, row |-> rows[m], event |-> NoEvent,
                   want |-> [status |-> status, slot |-> slot, sync |-> sync]]
             saving == {v \in Workers \ {w} : At(v, "save")}
             clash == Conflicts(m, slot) # {}
  <1>1. /\ Begins(w, m, c) /\ rows' = rows
        /\ excused' = IF saving = {} /\ ~clash THEN excused
                      ELSE excused \union {m} \union {call[v].of : v \in saving}
    BY DEF SaveRead
  <1>2. c.of = m /\ c.want.slot = slot
    OBVIOUS
  <1> HIDE DEF c
  <1>3. /\ call'[w] = c /\ \A v \in Workers \ {w} : call'[v] = call[v]
        /\ raced \subseteq raced' /\ excused \subseteq excused'
    BY <1>1, Becoming DEF Begins
  <1>4. RowsFree'
    BY <1>1, <1>3 DEF BookingsInv, RowsFree
  <1>5. CASE saving = {} /\ ~clash
    <2>1. \A v \in Workers : Saving(v)' => v = w
      BY <1>3, <1>5 DEF Saving, At
    <2>2. SavesMeet'
      BY <2>1 DEF SavesMeet
    <2>3. \A n \in Meetings \ {m} : rows[n].status = "open" => ~Conflict(rows[n].slot, slot)
      BY <1>5 DEF Conflicts
    <2>4. SavesFree'
      BY <1>1, <1>2, <1>3, <2>1, <2>3 DEF SavesFree
    <2> QED
      BY <1>4, <2>2, <2>4 DEF BookingsInv
  <1>6. CASE ~(saving = {} /\ ~clash)
    <2>1. \A v \in Workers : Saving(v)' => call'[v].of \in excused'
      BY <1>1, <1>2, <1>3, <1>6 DEF Saving, At
    <2> QED
      BY <1>4, <2>1 DEF BookingsInv, SavesMeet, SavesFree
  <1> QED
    BY <1>5, <1>6

(* The save that stores a time is the one that looked for conflicts with   *)
(* it; no other save was under way, or both are excused.                   *)
LEMMA SaveCommitBookings ==
    ASSUME TypeInv, FollowInv, BookingsInv, NEW w \in Workers, SaveCommit(w)
    PROVE  BookingsInv'
  <1>0. PICK m, read, want : m = call[w].of /\ read = call[w].row /\ want = call[w].want
    OBVIOUS
  <1> USE <1>0
  <1> DEFINE c == [stage |-> "look", of |-> m, row |-> NoRow, want |-> want.sync,
                   event |-> NoEvent]
  <1>1. call[w].stage = "save" /\ Becomes(w, c) /\ excused' = excused /\ raced' = raced
    BY DEF SaveCommit, At
  <1>2. /\ m \in Meetings
        /\ rows'[m].slot = IF want.slot # read.slot \/ read = NoRow THEN want.slot
                           ELSE rows[m].slot
        /\ \A n \in Meetings \ {m} : rows'[n] = rows[n]
    BY SavedRow
  <1>3. c.stage = "look"
    OBVIOUS
  <1> HIDE DEF c
  <1>4. call'[w] = c /\ \A v \in Workers \ {w} : call'[v] = call[v]
    BY <1>1, Becoming
  <1>5. \A v \in Workers : Saving(v)' => call'[v] = call[v] /\ call[v].of \in excused
    BY <1>1, <1>3, <1>4 DEF BookingsInv, SavesMeet, Saving
  <1>6. SavesMeet' /\ SavesFree'
    BY <1>1, <1>5 DEF SavesMeet, SavesFree
  <1>7. m \notin excused \union raced =>
           /\ rows'[m].slot = want.slot
           /\ \A n \in Meetings \ {m} :
                 rows[n].status = "open" => ~Conflict(rows[n].slot, want.slot)
    <2> SUFFICES ASSUME m \notin excused \union raced
                 PROVE  /\ rows'[m].slot = want.slot
                        /\ \A n \in Meetings \ {m} :
                              rows[n].status = "open" => ~Conflict(rows[n].slot, want.slot)
      OBVIOUS
    <2>1. read = rows[m]
      BY <1>1, <1>2, CurrentNow DEF Current
    <2>2. rows'[m].slot = want.slot
      BY <1>2, <2>1
    <2> QED
      BY <1>1, <1>2, <2>2 DEF BookingsInv, SavesFree, Saving
  <1>8. RowsFree'
    <2> SUFFICES ASSUME NEW a \in Meetings \ (excused \union raced),
                        NEW b \in Meetings \ (excused \union raced), a # b,
                        rows'[a].status = "open", rows'[b].status = "open"
                 PROVE  Free(rows'[a].slot, rows'[b].slot)
      BY <1>1 DEF RowsFree
    <2>0. rows'[a].slot \in Slots /\ rows'[b].slot \in Slots
      <3>1. TypeInv'
        BY SaveCommitType
      <3>2. rows'[a] \in Row /\ rows'[b] \in Row
        BY <3>1 DEF TypeInv, TypeOK
      <3> QED
        BY <3>2, RowShape
    <2>1. CASE a # m /\ b # m
      BY <1>2, <2>1 DEF BookingsInv, RowsFree
    <2>2. CASE a = m
      <3>1. ~Conflict(rows'[b].slot, rows'[a].slot)
        BY <1>2, <1>7, <2>2
      <3> QED
        BY <2>0, <3>1, SlotShape DEF Free, Conflict
    <2>3. CASE b = m
      <3>1. ~Conflict(rows'[a].slot, rows'[b].slot)
        BY <1>2, <1>7, <2>3
      <3> QED
        BY <3>1 DEF Free
    <2> QED
      BY <2>1, <2>2, <2>3
  <1> QED
    BY <1>6, <1>8 DEF BookingsInv

LEMMA CancelBookings ==
    ASSUME TypeInv, BookingsInv, NEW w \in Workers, NEW m \in Meetings, Cancel(w, m)
    PROVE  BookingsInv'
  <1> DEFINE c == [Idle EXCEPT !.stage = "cancel", !.of = m]
  <1>1. /\ rows[m] # NoRow /\ Becomes(w, c) /\ raced \subseteq raced' /\ excused' = excused
        /\ rows' = [rows EXCEPT ![m].status = "cancelled"]
    BY DEF Cancel, Begins
  <1>2. c.stage = "cancel"
    BY IdleAt DEF Stands, Row
  <1>3. \A n \in Meetings : rows'[n].status = "open" => n # m /\ rows'[n] = rows[n]
    BY <1>1, CancelledRow
  <1> HIDE DEF c
  <1> QED
    BY <1>1, <1>2, <1>3, CallBookingsKept

LEMMA LookBookings ==
    ASSUME TypeInv, BookingsInv, NEW w \in Workers, NEW linked \in BOOLEAN,
           Look(w, linked) \/ LookAgain(w, linked)
    PROVE  BookingsInv'
  <1>0. PICK m : m = call[w].of
    OBVIOUS
  <1> USE <1>0
  <1>1. call[w].stage \in {"look", "cancel"} /\ UNCHANGED <<rows, excused, raced>>
    BY DEF Look, LookAgain, At
  <1>2. m \in Meetings /\ rows[m] \in Row /\ call[w] \in Call
    BY <1>1, Serves DEF TypeInv, TypeOK
  <1>3. CASE Becomes(w, Idle)
    BY <1>1, <1>3, IdleCall, CallBookingsKept
  <1>4. CASE \E stage \in {"create", "update"} :
                Becomes(w, [Idle EXCEPT !.stage = stage, !.of = m, !.row = rows[m]])
    <2>1. PICK stage \in {"create", "update"} :
                Becomes(w, [Idle EXCEPT !.stage = stage, !.of = m, !.row = rows[m]])
      BY <1>4
    <2> DEFINE c == [Idle EXCEPT !.stage = stage, !.of = m, !.row = rows[m]]
    <2>2. Stands(c, stage, m, rows[m], NoEvent)
      BY <1>2, IdleAt
    <2>3. c.stage # "save" /\ Becomes(w, c)
      BY <2>1, <2>2 DEF Stands
    <2> HIDE DEF c
    <2> QED
      BY <1>1, <2>3, CallBookingsKept
  <1>5. CASE call[w].stage = "cancel" /\ Becomes(w, [call[w] EXCEPT !.stage = "remove", !.row = rows[m]])
    <2> DEFINE c == [call[w] EXCEPT !.stage = "remove", !.row = rows[m]]
    <2>1. Stands(c, "remove", m, rows[m], NoEvent)
      BY <1>2, <1>5, CancelAt
    <2>2. c.stage # "save" /\ Becomes(w, c)
      BY <1>5, <2>1 DEF Stands
    <2> HIDE DEF c
    <2> QED
      BY <1>1, <2>2, CallBookingsKept
  <1> QED
    BY <1>3, <1>4, <1>5 DEF Look, LookAgain, EndsBehind, At

LEMMA CreateEventBookings ==
    ASSUME TypeInv, BookingsInv, NEW w \in Workers, CreateEvent(w)
    PROVE  BookingsInv'
  <1>1. call[w].stage = "create" /\ UNCHANGED <<rows, excused, raced>> /\ call[w] \in Call
    BY DEF CreateEvent, At, TypeInv, TypeOK
  <1>2. CASE Becomes(w, Idle)
    BY <1>1, <1>2, IdleCall, CallBookingsKept
  <1>3. ASSUME NEW e \in Events, Becomes(w, [call[w] EXCEPT !.stage = "link", !.event = e])
        PROVE  BookingsInv'
    <2> DEFINE c == [call[w] EXCEPT !.stage = "link", !.event = e]
    <2>1. Stands(c, "link", call[w].of, call[w].row, e)
      BY <1>1, CreateAt
    <2>2. c.stage # "save" /\ Becomes(w, c)
      BY <1>3, <2>1 DEF Stands
    <2> HIDE DEF c
    <2> QED
      BY <1>1, <2>2, CallBookingsKept
  <1> QED
    BY <1>2, <1>3 DEF CreateEvent, EndsBehind

LEMMA LinkBookings ==
    ASSUME TypeInv, BookingsInv, NEW w \in Workers, Link(w)
    PROVE  BookingsInv'
  <1>0. PICK m, e : m = call[w].of /\ e = call[w].event
    OBVIOUS
  <1> USE <1>0
  <1>1. /\ call[w].stage = "link" /\ Becomes(w, Idle) /\ UNCHANGED <<excused, raced>>
        /\ rows' = [rows EXCEPT ![m].event = e]
    BY DEF Link, At, EndsInStep
  <1>2. m \in Meetings /\ rows[m] \in Row /\ rows[m] # NoRow
    BY <1>1, Serves DEF Fits, TypeInv, TypeOK
  <1>3. \A n \in Meetings : rows'[n].status = rows[n].status /\ rows'[n].slot = rows[n].slot
    BY <1>1, <1>2 DEF Row, TypeInv, TypeOK
  <1> QED
    BY <1>1, <1>3, IdleCall, CallBookingsKept

(* The last steps of a call, and its end where it is                       *)
LEMMA EndBookings ==
    ASSUME TypeInv, BookingsInv, NEW w \in Workers, UpdateEvent(w) \/ Remove(w) \/ Cut(w)
    PROVE  BookingsInv'
  <1>1. Becomes(w, Idle) /\ UNCHANGED <<rows, excused, raced>>
    BY DEF UpdateEvent, Remove, Cut, EndsInStep, EndsBehind
  <1> QED
    BY <1>1, IdleCall, CallBookingsKept

LEMMA BookingsNext ==
    ASSUME TypeInv, FollowInv, BookingsInv, [Next]_vars
    PROVE  BookingsInv'
  <1>1. CASE UNCHANGED vars
    BY <1>1, BookingsKept DEF vars
  <1>2. ASSUME NEW e \in Events, Outlook(e) PROVE BookingsInv'
    BY <1>2, BookingsKept DEF Outlook
  <1> QED
    BY <1>1, <1>2, SaveReadBookings, CancelBookings, SaveCommitBookings, LookBookings,
       CreateEventBookings, LinkBookings, EndBookings DEF Next

(* Two meetings of one employee that take place overlap only if one was    *)
(* saved over a conflict or while another save was under way, or two       *)
(* requests were about it, or it ends on the next day, which the test for  *)
(* conflicts (_meeting_conflict) does not see.                             *)
THEOREM BookingsHold == Spec => []BookingsExplained
  <1>1. Init => BookingsInv
    <2> SUFFICES ASSUME Init PROVE BookingsInv
      OBVIOUS
    <2>1. /\ \A w \in Workers : call[w].stage = "idle"
          /\ \A m \in Meetings : rows[m].status = "absent"
      BY DEF Init, Idle, NoRow
    <2> QED
      BY <2>1 DEF BookingsInv, SavesMeet, SavesFree, RowsFree, Saving
  <1>2. TypeInv /\ FollowInv /\ BookingsInv /\ [Next]_vars => BookingsInv'
    BY BookingsNext
  <1>3. TypeInv /\ BookingsInv => BookingsExplained
    <2> SUFFICES ASSUME TypeInv, BookingsInv, NEW m \in Meetings, NEW n \in Meetings, m # n,
                        rows[m].status = "open", rows[n].status = "open",
                        m \notin excused \union raced, n \notin excused \union raced,
                        ~EndsNextDay(rows[m].slot), ~EndsNextDay(rows[n].slot)
                 PROVE  Span(rows[m].slot) \intersect Span(rows[n].slot) = {}
      BY DEF BookingsExplained
    <2>1. ~Conflict(rows[m].slot, rows[n].slot)
      BY DEF BookingsInv, RowsFree, Free
    <2>2. PICK left \in Slots, right \in Slots : left = rows[m].slot /\ right = rows[n].slot
      BY OpenSlot
    <2>3. /\ Span(left) = left.from .. left.to - 1
          /\ Span(right) = right.from .. right.to - 1
      BY <2>2, SlotShape DEF Span, EndsNextDay
    <2> QED
      BY <2>1, <2>2, <2>3, SlotShape DEF Conflict
  <1> QED
    BY <1>1, <1>2, <1>3, TypeAlways, FollowAlways, PTL DEF Spec
====
