------------------------------ MODULE MCAgenda ------------------------------
(* Two chairs, two days of two instants, for TLC.                             *)
EXTENDS Agenda

CONSTANTS s1, s2

\* s1 works the whole of both days, s2 all but the last instant.
Hours == ({s1} \X (0..3)) \cup ({s2} \X (0..2))
=============================================================================
