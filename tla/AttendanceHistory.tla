------------------------- MODULE AttendanceHistory --------------------------
(***************************************************************************)
(* The attendance service with a history: what other requests did while    *)
(* one was between its reads and its commit, in a thread pool of any size. *)
(* A handler writes from what it has read; the history tells the requests  *)
(* that were overtaken from those that were not.                           *)
(***************************************************************************)
EXTENDS Attendance

VARIABLES
    newer,      \* the locks inserted since a worker's request began
    behind,     \* the entries others have written to since it began
    crossed     \* the entries written to by a request that was behind

historyVars == <<newer, behind, crossed>>

(* All that is stored of an entry *)
Row(e) == <<status[e], checkIn[e], checkOut[e], basis[e], running[e], ended[e],
            PendingOn(e), SlipsOn(e), e \in unsettled>>

Touched == {e \in Entries : Row(e)' # Row(e)}
Brought == {l \in Locks : lock[l].status = "absent" /\ lock'[l].status # "absent"}

(* A check-out, an end of a break, a kiosk check-in or a self entry goes on *)
(* to its second transaction.                                               *)
GoesOn(w) == op[w] # Idle /\ op'[w] # Idle /\ op'[w] # op[w]
Waits(w)  == op[w] # Idle /\ op'[w] = op[w]

Since(w, seen, news) ==
    IF Waits(w) THEN seen \cup news ELSE IF GoesOn(w) THEN seen ELSE {}

HistoryInit ==
    /\ Init
    /\ newer = [w \in Workers |-> {}]
    /\ behind = [w \in Workers |-> {}]
    /\ crossed = {}

HistoryNext ==
    /\ Next
    /\ newer' = [w \in Workers |-> Since(w, newer[w], Brought)]
    /\ behind' = [w \in Workers |-> Since(w, behind[w], Touched)]
    /\ crossed' = crossed \cup
         {e \in Entries : \E w \in Workers :
             op'[w] # op[w] /\ e \in behind[w] /\ Row(e)' # Row(e)}

HistorySpec == HistoryInit /\ [][HistoryNext]_<<vars, historyVars>>

-----------------------------------------------------------------------------
(* Properties *)

(* Approval rows never outnumber the requests they wait for: an entry has  *)
(* at most as many pending approvals as pending corrections, although a    *)
(* review decides whichever approval of the entry it finds - unless a      *)
(* request about that entry was overtaken by another one and wrote all the *)
(* same.                                                                   *)
NoStrayApproval ==
    \A e \in Entries \ crossed :
        Cardinality({c \in Corrections : approval[c] = "pending" /\ ask[c].entry = e})
            <= Cardinality({c \in Corrections : corrStatus[c] = "pending" /\ ask[c].entry = e})

(* Once a session is over, its stored minutes are those of its times and   *)
(* breaks, except where a commit was not followed by the commit of its     *)
(* rebuild - a request cut off between its two transactions, or a manual   *)
(* entry made by an administrator - or where a request about that entry    *)
(* was overtaken by another one and wrote all the same.                    *)
MinutesCurrent ==
    \A e \in Entries \ (unsettled \cup crossed) :
        status[e] \in {"closed", "corrected", "locked"} =>
            basis[e] = Metrics(checkIn[e], checkOut[e], ended[e])

(* No entry is created on or deleted from a locked day, but by a request   *)
(* that had asked is_locked before the lock was there: every lock on the   *)
(* day was inserted while that request was being served.                   *)
LockedDaysFrozen ==
    [][\A e \in Entries : InDb(e)' # InDb(e) =>
          \E w \in Workers :
              /\ op'[w] # op[w]
              /\ \A l \in Locks :
                    Active(l) /\ Covers(l, date'[e]) => l \in newer[w]]_<<vars, historyVars>>
=============================================================================
