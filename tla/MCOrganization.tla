---------------------------- MODULE MCOrganization ----------------------------
(* Instances of Organization for TLC.                                     *)
EXTENDS Organization, TLC

ThreeUsers == 1 .. 3
Workforce  == Permutations(Workers)
=============================================================================
