------------------------------ MODULE MCOutbox ------------------------------
(* Instances of Outbox for TLC.                                            *)
EXTENDS Outbox, TLC

CONSTANTS n1, n2, n3, w1, w2

Alike == Permutations({w1, w2})

=============================================================================
