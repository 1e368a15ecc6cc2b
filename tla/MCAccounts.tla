----------------------------- MODULE MCAccounts -----------------------------
(* Instances of Accounts for TLC.                                          *)
EXTENDS Accounts, TLC

(* Nothing is claimed of a user's row once a commit went by an older one:  *)
(* a call that would do so is not followed.                                *)
Current == ~raced /\ \A w \in Workers : ~Outdated(w)

(* The parts of an account that a behaviour has got to: a refresh session, *)
(* a second one, e-mail tokens, the second factor, failed logins           *)
Touched ==
    {part \in {"session", "other", "mail", "factor", "lock"} :
        CASE part = "session" -> \E s \in Sessions : sessions[s].state # "absent"
          [] part = "other"   -> \E s \in Sessions \ {1} : sessions[s].state # "absent"
          [] part = "mail"    -> \E m \in Mails : mails[m].state # "absent"
          [] part = "factor"  -> user.secret \/ issued > 0
          [] part = "lock"    -> user.attempts > 0 \/ user.until > 0 \/ user.status # "active"}

(* Any two of them at a time *)
Pairwise == Current /\ Cardinality(Touched) <= 2

WorkerSymmetry == Permutations(Workers)
=============================================================================
