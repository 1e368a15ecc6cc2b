SPECIFICATION Spec
CONSTANTS
    Meetings = {m1, m2}
    Events = {e1, e2}
    Slots <- SomeSlots
    Hours = 4
    Workers = {w1, w2}
    NoEvent = noevent
    NoMeeting = nomeeting
    MaxRequests = 3
    MaxFaults = 1
INVARIANTS
    TypeOK
    EventsAccounted
    CalendarFollows
    BookingsExplained
SYMMETRY Symmetry
CHECK_DEADLOCK FALSE
