------------------------------ MODULE MCFunnel ------------------------------
(* Instances of Funnel for TLC.                                            *)
EXTENDS Funnel, TLC

CONSTANTS t1, s1, s2, v1

Alike == Permutations({s1, s2})

=============================================================================
