---------------------------- MODULE MCConnections ----------------------------
(* Instances of Connections for TLC.                                      *)
EXTENDS Connections, TLC

TwoFlows == 1 .. 2

(* Companies and workers are interchangeable.                              *)
Symmetry == Permutations(Companies) \union Permutations(Workers)
=============================================================================
