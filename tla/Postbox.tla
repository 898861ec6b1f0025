------------------------------ MODULE Postbox ------------------------------
(***************************************************************************)
(* What the outbox promises about a message, with no worker, batch or      *)
(* channel in sight: it is owed once planned, may reach its recipient more *)
(* than once while it is owed, is called sent only if it has reached them, *)
(* and what became of it is final, unless it was late: given to a second   *)
(* worker while the first was still at it.                                 *)
(***************************************************************************)
EXTENDS Naturals

CONSTANT Letters

VARIABLES
    fate,       \* Letters -> none, owed, sent, dead or withdrawn
    reached,    \* Letters -> how often the recipient got it
    late        \* letters whose lease ran out under a worker still at work

Init ==
    /\ fate = [l \in Letters |-> "none"]
    /\ reached = [l \in Letters |-> 0]
    /\ late = {}

\* One decision of the sender's: these are owed, those no longer are.
Write(posted, withdrawn) ==
    /\ \A l \in posted : fate[l] = "none"
    /\ \A l \in withdrawn : fate[l] = "owed"
    /\ fate' = [l \in Letters |-> IF l \in posted THEN "owed"
                                  ELSE IF l \in withdrawn THEN "withdrawn" ELSE fate[l]]
    /\ UNCHANGED <<reached, late>>

\* These are owed to another worker too.
Overrun(letters) ==
    /\ \A l \in letters : fate[l] = "owed"
    /\ late' = late \cup letters
    /\ UNCHANGED <<fate, reached>>

\* A worker may still have it in its hands.
Open(l) == fate[l] = "owed" \/ l \in late

Reach(l) ==
    /\ Open(l)
    /\ reached' = [reached EXCEPT ![l] = @ + 1]
    /\ UNCHANGED <<fate, late>>

\* Owed again only where it is late: its first worker could not send it, and says
\* so over whatever the second has recorded.
Resolve(l, how) ==
    /\ Open(l)
    /\ how = "sent" => reached[l] > 0
    /\ fate' = [fate EXCEPT ![l] = how]
    /\ UNCHANGED <<reached, late>>

\* The channel took the message and its answer was lost.
ReachUnheard(l, how) ==
    /\ Open(l)
    /\ reached' = [reached EXCEPT ![l] = @ + 1]
    /\ fate' = [fate EXCEPT ![l] = how]
    /\ UNCHANGED late

With(f) == {l \in Letters : fate[l] = f}

Next ==
    \/ \E l \in Letters :
           \/ Reach(l)
           \/ \E how \in {"sent", "dead", "owed"} : Resolve(l, how)
           \/ \E how \in {"dead", "owed"} : ReachUnheard(l, how)
    \/ \E posted \in SUBSET With("none"), withdrawn \in SUBSET With("owed") :
           Write(posted, withdrawn)
    \/ \E letters \in SUBSET With("owed") : Overrun(letters)

Spec == Init /\ [][Next]_<<fate, reached, late>>

=============================================================================
