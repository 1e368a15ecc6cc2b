------------------------------- MODULE Meetings -------------------------------
(***************************************************************************)
(* Meetings of one employee on one day (auth-service/app/services/         *)
(* meetings.py, api/routes/meetings.py) and the events in the company's    *)
(* Microsoft calendar that go with them (services/microsoft_graph.py).     *)
(*                                                                         *)
(* A request to save a meeting tests it for conflicts, commits the row,    *)
(* then, if the user asked for it, creates or updates the calendar's event *)
(* and commits the event's id.  A request to cancel one commits the row    *)
(* and then deletes the event.  Nothing holds two requests apart, and a    *)
(* request can end after any of its steps.                                 *)
(*                                                                         *)
(* Titles, places, attendees and colours are left out: a meeting is its    *)
(* time.  The calendar is external; users change it in Outlook, and        *)
(* through the endpoints that take an id 'microsoft:...'.                  *)
(***************************************************************************)
EXTENDS Integers

CONSTANTS Meetings,    \* ids of rows
          Events,      \* ids of calendar events
          Slots,       \* the times a meeting may be saved at
          Hours,       \* hours in a day
          Workers,     \* threads that serve requests
          NoEvent,
          NoMeeting,
          MaxRequests, \* bound on requests
          MaxFaults    \* bound on requests cut off and answers lost

(* A slot that ends no later than it begins ends on the next day.          *)
Slot == [from : 0 .. Hours - 1, to : 0 .. Hours - 1]

ASSUME MeetingsAssumption ==
    /\ Hours \in Nat \ {0}
    /\ Slots \subseteq {s \in Slot : s.from # s.to}
    /\ NoEvent \notin Events /\ NoMeeting \notin Meetings
    /\ MaxRequests \in Nat /\ MaxFaults \in Nat

VARIABLES
    rows,      \* MeetingEvent rows
    calendar,  \* the events of the calendar
    call,      \* what each worker is doing
    asked,     \* requests so far
    excused,   \* history: meetings saved over a conflict, or while another save was under way
    raced,     \* history: meetings two requests have been about at once
    behind,    \* history: meetings whose last request did not reach the calendar
    saved,     \* history: meetings cancelled by saving them as such
    lost,      \* history: events whose id was never committed
    edited,    \* history: events changed or deleted in Outlook
    faults

vars == <<rows, calendar, call, asked, excused, raced, behind, saved, lost, edited, faults>>

-----------------------------------------------------------------------------
NoSlot == [from |-> 0, to |-> 0]
Status == {"open", "cancelled"}     \* every other status is treated as 'published'

NoRow == [status |-> "absent", slot |-> NoSlot, event |-> NoEvent]
Row   == {NoRow} \union [status : Status, slot : Slots, event : Events \union {NoEvent}]

Unmade == [status |-> "unmade", of |-> NoMeeting, slot |-> NoSlot]
Event  == {Unmade} \union [status : {"live", "gone"}, of : Meetings, slot : Slots]

(* 'row' is the row as the request last read it; 'want' what a save is to  *)
(* store, and whether the calendar is to follow (sync_provider).           *)
Want == [status : Status, slot : Slots, sync : BOOLEAN]
Call == [stage : {"idle"}, of : {NoMeeting}, row : {NoRow}, want : {"none"}, event : {NoEvent}]
          \union [stage : {"save"}, of : Meetings, row : Row, want : Want, event : {NoEvent}]
          \union [stage : {"look"}, of : Meetings, row : {NoRow}, want : BOOLEAN, event : {NoEvent}]
          \union [stage : {"create", "update"}, of : Meetings, row : Row, want : {"none"}, event : {NoEvent}]
          \union [stage : {"link"}, of : Meetings, row : Row, want : {"none"}, event : Events]
          \union [stage : {"cancel", "remove"}, of : Meetings, row : Row, want : {"none"}, event : {NoEvent}]

Idle == [stage |-> "idle", of |-> NoMeeting, row |-> NoRow, want |-> "none", event |-> NoEvent]

TypeOK ==
    /\ rows \in [Meetings -> Row]
    /\ calendar \in [Events -> Event]
    /\ call \in [Workers -> Call]
    /\ excused \subseteq Meetings /\ raced \subseteq Meetings
    /\ behind \subseteq Meetings /\ saved \subseteq Meetings
    /\ lost \subseteq Events /\ edited \subseteq Events
    /\ asked \in 0 .. MaxRequests /\ faults \in 0 .. MaxFaults

Init ==
    /\ rows = [m \in Meetings |-> NoRow]
    /\ calendar = [e \in Events |-> Unmade]
    /\ call = [w \in Workers |-> Idle]
    /\ excused = {} /\ raced = {} /\ behind = {} /\ saved = {}
    /\ lost = {} /\ edited = {}
    /\ asked = 0 /\ faults = 0

-----------------------------------------------------------------------------
At(w, stage)    == call[w].stage = stage
Becomes(w, c)   == call' = [call EXCEPT ![w] = c]
Others(w, m)    == {v \in Workers \ {w} : call[v].of = m}
Fault           == faults < MaxFaults /\ faults' = faults + 1

(* A call on m ends, with the calendar reached or not.                     *)
EndsInStep(w, m) == Becomes(w, Idle) /\ behind' = behind \ {m}
EndsBehind(w, m) == Becomes(w, Idle) /\ behind' = behind \union {m}

(* A request about m begins.                                               *)
Begins(w, m, c) ==
    /\ At(w, "idle") /\ asked < MaxRequests
    /\ asked' = asked + 1
    /\ Becomes(w, c)
    /\ raced' = IF Others(w, m) = {} THEN raced ELSE raced \union {m}

(* Wrong: a meeting is in conflict only with one it lies within            *)
ConflictWithin(left, right) == right.from > left.from /\ right.to < left.to

(* _meeting_conflict                                                       *)
Conflict(left, right) == right.from < left.to /\ right.to > left.from

Conflicts(m, slot) ==
    {n \in Meetings \ {m} : rows[n].status = "open" /\ Conflict(rows[n].slot, slot)}

-----------------------------------------------------------------------------
(* upsert_event: the row *)

SaveRead(w, m, status, slot, sync, force) ==
    LET clash == Conflicts(m, slot) # {} IN
    /\ clash => force
    /\ Begins(w, m, [stage |-> "save", of |-> m, row |-> rows[m], event |-> NoEvent,
                     want |-> [status |-> status, slot |-> slot, sync |-> sync]])
    /\ LET saving == {v \in Workers \ {w} : At(v, "save")}
       IN  excused' = IF saving = {} /\ ~clash THEN excused
                      ELSE excused \union {m} \union {call[v].of : v \in saving}
    /\ UNCHANGED <<rows, calendar, behind, saved, lost, edited, faults>>

(* Only columns that differ from what was read are written.                *)
Column(new, read, now) == IF new # read THEN new ELSE now

(* Wrong: a new time is not stored                                         *)
SaveStatusOnly(w) ==
    LET m == call[w].of want == call[w].want IN
    /\ At(w, "save")
    /\ rows' = [rows EXCEPT ![m].status = want.status]
    /\ Becomes(w, [stage |-> "look", of |-> m, row |-> NoRow, want |-> want.sync, event |-> NoEvent])
    /\ UNCHANGED <<calendar, asked, excused, raced, behind, saved, lost, edited, faults>>

SaveCommit(w) ==
    LET m == call[w].of read == call[w].row want == call[w].want IN
    /\ At(w, "save")
    /\ rows' = [rows EXCEPT ![m].status = Column(want.status, read.status, @),
                            ![m].slot   = IF want.slot # read.slot \/ read = NoRow THEN want.slot ELSE @]
    /\ saved' = IF want.status = "cancelled" THEN saved \union {m} ELSE saved \ {m}
    /\ Becomes(w, [stage |-> "look", of |-> m, row |-> NoRow, want |-> want.sync, event |-> NoEvent])
    /\ UNCHANGED <<calendar, asked, excused, raced, behind, lost, edited, faults>>

-----------------------------------------------------------------------------
(* upsert_meeting: the calendar *)

(* Wrong: the event that is there already is not asked for                 *)
LookAway(w, linked) ==
    LET m == call[w].of IN
    /\ At(w, "look")
    /\ IF call[w].want /\ linked
       THEN Becomes(w, [Idle EXCEPT !.stage = "create", !.of = m, !.row = rows[m]]) /\ behind' = behind
       ELSE EndsBehind(w, m)
    /\ UNCHANGED <<rows, calendar, asked, excused, raced, saved, lost, edited, faults>>

(* The row is read again after the commit, and the company's document,     *)
(* which says whether a calendar is connected.                             *)
Look(w, linked) ==
    LET m == call[w].of IN
    /\ At(w, "look")
    /\ IF call[w].want /\ linked
       THEN /\ Becomes(w, [Idle EXCEPT !.stage = IF rows[m].event = NoEvent THEN "create" ELSE "update",
                                       !.of = m, !.row = rows[m]])
            /\ behind' = behind
       ELSE EndsBehind(w, m)
    /\ UNCHANGED <<rows, calendar, asked, excused, raced, saved, lost, edited, faults>>

Makes(e, m, slot) ==
    /\ calendar[e].status = "unmade"
    /\ calendar' = [calendar EXCEPT ![e] = [status |-> "live", of |-> m, slot |-> slot]]

(* create_calendar_event: the event is made, and its id known or not; or   *)
(* Microsoft refuses.                                                      *)
CreateEvent(w) ==
    LET m == call[w].of IN
    /\ At(w, "create")
    /\ \/ \E e \in Events :
            /\ Makes(e, m, call[w].row.slot)
            /\ \/ /\ Becomes(w, [call[w] EXCEPT !.stage = "link", !.event = e])
                  /\ UNCHANGED <<behind, lost, faults>>
               \/ Fault /\ EndsBehind(w, m) /\ lost' = lost \union {e}
       \/ EndsBehind(w, m) /\ UNCHANGED <<calendar, lost, faults>>
    /\ UNCHANGED <<rows, asked, excused, raced, saved, edited>>

(* Wrong: the times sent are not looked at by the calendar                 *)
UpdateNothing(w) ==
    LET m == call[w].of IN
    /\ At(w, "update")
    /\ calendar' = calendar
    /\ EndsInStep(w, m)
    /\ UNCHANGED <<rows, asked, excused, raced, saved, lost, edited, faults>>

(* update_calendar_event and update_external_metadata, which then has      *)
(* nothing new to store.  An event that is gone is an error (404), and the *)
(* row goes on naming it.                                                  *)
UpdateEvent(w) ==
    LET m == call[w].of e == call[w].row.event IN
    /\ At(w, "update")
    /\ \/ /\ calendar[e].status = "live"
          /\ calendar' = [calendar EXCEPT ![e].slot = call[w].row.slot]
          /\ edited' = edited \ {e}
          /\ EndsInStep(w, m) \/ EndsBehind(w, m)
       \/ EndsBehind(w, m) /\ UNCHANGED <<calendar, edited>>
    /\ UNCHANGED <<rows, asked, excused, raced, saved, lost, faults>>

(* update_external_metadata                                                *)
Link(w) ==
    /\ At(w, "link")
    /\ rows' = [rows EXCEPT ![call[w].of].event = call[w].event]
    /\ EndsInStep(w, call[w].of)
    /\ UNCHANGED <<calendar, asked, excused, raced, saved, lost, edited, faults>>

-----------------------------------------------------------------------------
(* delete_meeting *)

Cancel(w, m) ==
    /\ rows[m] # NoRow
    /\ Begins(w, m, [Idle EXCEPT !.stage = "cancel", !.of = m])
    /\ rows' = [rows EXCEPT ![m].status = "cancelled"]
    /\ UNCHANGED <<calendar, excused, behind, saved, lost, edited, faults>>

(* The row is read again after the commit.                                 *)
LookAgain(w, linked) ==
    LET m == call[w].of IN
    /\ At(w, "cancel")
    /\ IF rows[m].event # NoEvent /\ linked
       THEN Becomes(w, [call[w] EXCEPT !.stage = "remove", !.row = rows[m]]) /\ behind' = behind
       ELSE EndsBehind(w, m)
    /\ UNCHANGED <<rows, calendar, asked, excused, raced, saved, lost, edited, faults>>

Gone(e) == [calendar EXCEPT ![e].status = "gone"]

(* delete_calendar_event: an event that is gone already is no error.       *)
Remove(w) ==
    LET m == call[w].of e == call[w].row.event IN
    /\ At(w, "remove")
    /\ \/ calendar' = Gone(e) /\ EndsInStep(w, m) /\ saved' = saved \ {m}
       \/ calendar' \in {calendar, Gone(e)} /\ EndsBehind(w, m) /\ saved' = saved
    /\ UNCHANGED <<rows, asked, excused, raced, lost, edited, faults>>

-----------------------------------------------------------------------------
(* Surroundings *)

(* A request is cut off: the server goes down, or the database fails it.   *)
Cut(w) ==
    /\ ~At(w, "idle") /\ Fault
    /\ IF At(w, "save") THEN Becomes(w, Idle) /\ behind' = behind ELSE EndsBehind(w, call[w].of)
    /\ lost' = IF At(w, "link") THEN lost \union {call[w].event} ELSE lost
    /\ UNCHANGED <<rows, calendar, asked, excused, raced, saved, edited>>

(* What an event was changed to does not matter: its time is its own now.  *)
Outlook(e) ==
    /\ calendar[e].status = "live"
    /\ calendar' \in {calendar, Gone(e)}
    /\ edited' = edited \union {e}
    /\ UNCHANGED <<rows, call, asked, excused, raced, behind, saved, lost, faults>>

-----------------------------------------------------------------------------
Next ==
    \/ \E w \in Workers, m \in Meetings :
        \/ \E status \in Status, slot \in Slots, sync, force \in BOOLEAN :
            SaveRead(w, m, status, slot, sync, force)
        \/ Cancel(w, m)
    \/ \E w \in Workers :
        \/ SaveCommit(w) \/ CreateEvent(w) \/ UpdateEvent(w) \/ Link(w) \/ Remove(w)
        \/ \E linked \in BOOLEAN : Look(w, linked) \/ LookAgain(w, linked)
        \/ Cut(w)
    \/ \E e \in Events : Outlook(e)

Spec == Init /\ [][Next]_vars

-----------------------------------------------------------------------------
(* Properties *)

Quiet(m) == \A w \in Workers : call[w].of # m

(* An event the service made is the one its meeting names, unless its id   *)
(* was never known or committed, or two requests about the meeting met.    *)
EventsAccounted ==
    \A e \in Events :
        LET m == calendar[e].of IN
        calendar[e].status = "live" =>
            \/ rows[m].event = e
            \/ e \in lost \/ m \in raced
            \/ \E w \in Workers : At(w, "link") /\ call[w].event = e

(* The calendar has the meetings there are: the event of one that takes    *)
(* place is live and at its time, that of a cancelled one is gone, unless  *)
(* the calendar could not be reached, two requests about the meeting met,  *)
(* it was changed in Outlook, or it was cancelled by saving it as          *)
(* 'cancelled', which leaves the event or even makes one (upsert_event,    *)
(* delete_event, and their calls of the calendar).                         *)
CalendarFollows ==
    \A m \in Meetings :
        LET e == rows[m].event IN
        e # NoEvent /\ Quiet(m) /\ m \notin behind \union raced =>
            /\ rows[m].status = "open" /\ e \notin edited
               => calendar[e].status = "live" /\ calendar[e].slot = rows[m].slot
            /\ rows[m].status = "cancelled" /\ m \notin saved
               => calendar[e].status = "gone"

(* The hours of a meeting, those of the next day counted on.               *)
Span(slot) == slot.from .. (IF slot.to > slot.from THEN slot.to ELSE slot.to + Hours) - 1

EndsNextDay(slot) == slot.to <= slot.from

(* The employee is in two meetings at once only if one of them was saved   *)
(* over a conflict or while another save was under way, or two requests    *)
(* about it met, or it ends on the next day.                               *)
BookingsExplained ==
    \A m, n \in Meetings :
        /\ m # n /\ rows[m].status = "open" /\ rows[n].status = "open"
        /\ Span(rows[m].slot) \intersect Span(rows[n].slot) # {}
        => \/ {m, n} \intersect (excused \union raced) # {}
           \/ EndsNextDay(rows[m].slot) \/ EndsNextDay(rows[n].slot)
=============================================================================
