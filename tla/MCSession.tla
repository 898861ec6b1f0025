------------------------------ MODULE MCSession ------------------------------
(* Two tabs of one browser, for TLC.                                          *)
EXTENDS Session, TLC

CONSTANTS t1, t2

TabSymmetry == Permutations({t1, t2})
=============================================================================
