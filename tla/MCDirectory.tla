---------------------------- MODULE MCDirectory -----------------------------
(* Instances of Directory for TLC.                                           *)
EXTENDS Directory, TLC

(* Nothing is claimed of numbers once one was reused, nor of references once *)
(* a commit went by the past.  Within that, all that happens to four         *)
(* employees as long as the company has no places,                           *)
NoPlaces ==
    /\ doc = Empty
    /\ \A u \in Users : people[u].work = Nowhere
    /\ \A w \in Workers : op[w] # Idle => op[w].kind \notin {"write", "clear"} /\ op[w].doc = Empty

(* and to two employees with numbers if it has.                              *)
Numbers == 1 .. 2
TwoEmployees ==
    /\ seq \in Numbers /\ Cardinality(Known) <= 2
    /\ \A u \in Known : people[u].code \in Numbers
    /\ \A w \in Workers :
        /\ "number" \in DOMAIN op[w] => op[w].number \in {NoCode} \cup Numbers
        /\ op[w].kind = "insert" => op[w].changes.code = NoCode
        /\ op[w].kind \in {"restore", "reimport", "update", "set_status"} =>
              "code" \notin DOMAIN op[w].changes

Explored == ~reused /\ ~raced /\ (NoPlaces \/ TwoEmployees)

WorkerSymmetry == Permutations(Workers)
=============================================================================
