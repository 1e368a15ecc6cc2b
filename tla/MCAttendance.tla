---------------------------- MODULE MCAttendance ----------------------------
(* Instances of AttendanceHistory for TLC.                                   *)
EXTENDS AttendanceHistory, TLC

(* Another check-in alone; another check-out with a new break total         *)
SomeWishes == {[in |-> 1, out |-> NoTime, rest |-> "keep"],
               [in |-> NoTime, out |-> 2, rest |-> "some"]}

OneDay     == [t \in Times |-> 1]
OnePeriod  == {<<1, 1>>}

Busy     == {w \in Workers : op[w] # Idle}
Unasked  == \A c \in Corrections : corrStatus[c] = "absent"
Unlocked == \A l \in Locks : lock[l].status = "absent"
OneEntry == \A e \in Entries \ {1} : status[e] = "absent"
Unpaused == nextBreak = 1

(* Who may be there twice: sessions of a user, breaks of a session and      *)
(* requests about it, three of each                                         *)
Only(kinds, states) == /\ \A w \in Workers : op[w].kind \in kinds \cup {"idle"}
                       /\ \A e \in Entries : status[e] \in states \cup {"absent"}

Sessions == /\ Unasked /\ Unlocked /\ Unpaused
            /\ Only({"check_in", "check_out", "rebuild"}, {"open", "closed"})
Pauses   == /\ Unasked /\ Unlocked /\ OneEntry
            /\ Only({"check_in", "start_break", "end_break", "rebuild"}, {"open"})
Wanted   == /\ Unlocked /\ OneEntry /\ Unpaused /\ Only({"check_in", "correct"}, {"open"})
            /\ \A c \in Corrections : corrStatus[c] \in {"absent", "pending"}

(* Two requests at once about one entry: with the locks of its day, or with *)
(* two corrections of it, or one and a break.  What happens to it once a    *)
(* request has written from an outdated copy no longer counts.              *)
Locking  == crossed = {} /\ OneEntry /\ Unasked /\ nextBreak <= 2
Deciding == /\ crossed = {} /\ OneEntry /\ Unlocked /\ corrStatus[3] = "absent"
            /\ Unpaused \/ (nextBreak = 2 /\ corrStatus[2] = "absent")

(* A review of a correction and two locks, one request after another        *)
Settling == /\ crossed = {} /\ Cardinality(Busy) <= 1 /\ nextBreak <= 2
            /\ \A w \in Workers : behind[w] = {} /\ newer[w] = {}
            /\ corrStatus[2] = "absent" /\ status[3] = "absent"
            /\ OneEntry \/ Unasked

Explored == Sessions \/ Pauses \/ Wanted \/ Locking \/ Deciding \/ Settling

WorkerSymmetry == Permutations(Workers)
=============================================================================
