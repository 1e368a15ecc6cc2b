------------------------------ MODULE MCMeetings ------------------------------
(* Instances of Meetings for TLC.                                          *)
EXTENDS Meetings, TLC

(* Two slots that overlap, one of which ends on the next day.              *)
SomeSlots == {[from |-> 1, to |-> 3], [from |-> 2, to |-> 1]}

Symmetry == Permutations(Meetings) \union Permutations(Events) \union Permutations(Workers)
=============================================================================
