----------------------------- MODULE MCNotices -----------------------------
(* Instances of Notices for TLC.                                           *)
EXTENDS Notices, TLC

CONSTANTS a1, ann

=============================================================================
