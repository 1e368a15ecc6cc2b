------------------------------ MODULE MCStorage ------------------------------
(* Instances of Storage for TLC.                                           *)
EXTENDS Storage, TLC

OneCompany == [u \in Users |-> "company"]

Symmetry == Permutations(Keys) \union Permutations(Pool)
=============================================================================
