----------------------------- MODULE MCScheduling -----------------------------
(* Instances of Scheduling for TLC.                                        *)
EXTENDS Scheduling, TLC

(* Names of which the same prefix is made                                  *)
OnePrefix == [n \in {"day", "date"} |-> "prefix"]

(* Two templates that clash by name, two that clash by time, one with a    *)
(* code of its own.                                                        *)
SomePayloads ==
    {[status |-> "active", name |-> "day", time |-> "early", code |-> Nothing],
     [status |-> "active", name |-> "day", time |-> "late", code |-> Nothing],
     [status |-> "active", name |-> "date", time |-> "late",
      code |-> [prefix |-> "prefix", number |-> 2]]}

Symmetry == Permutations(Shifts) \union Permutations(Assignments) \union Permutations(Threads)
=============================================================================
