------------------------------- MODULE MCShop -------------------------------
(* Two chairs, one vacant, three people and two tabs, for TLC.                *)
EXTENDS Shop, TLC

CONSTANTS s1, s2, s3, owner, mate, newcomer, t1, t2

\* First matters to Init alone: from there on a tab is what it holds and shows
Alike == Permutations({t1, t2})

=============================================================================
