------------------------------- MODULE Diary -------------------------------
(***************************************************************************)
(* What the booking component promises, with no transaction, lock or retry *)
(* in sight: a diary whose entries are taken, moved and closed one at a    *)
(* time, each in a single step, and in which two active entries never      *)
(* share a chair and an instant, nor two entries one idempotency key.      *)
(***************************************************************************)
EXTENDS Appointments

CONSTANTS
    Entries,    \* identities an entry may have
    KeyOf,      \* the idempotency key an entry is made under
    NoKey       \* an entry made under none

VARIABLE diary  \* Entries -> Row, or NoRow where nothing was booked

Free(e, staff, start) ==
    \A other \in Entries \ {e} :
        /\ diary[other] # NoRow
        /\ diary[other].status \in Active
        => ~SameChair(diary[other], [staff |-> staff, start |-> start])

Unused(e) ==
    KeyOf[e] = NoKey \/ \A other \in Entries \ {e} :
        diary[other] = NoRow \/ KeyOf[other] # KeyOf[e]

Init == diary = [e \in Entries |-> NoRow]

Take(e, staff, start, status) ==
    /\ diary[e] = NoRow
    /\ Unused(e)
    /\ Free(e, staff, start)
    /\ diary' = [diary EXCEPT
           ![e] = [staff |-> staff, start |-> start, status |-> status]]

Move(e, staff, start) ==
    /\ diary[e] # NoRow
    /\ diary[e].status \in Active
    /\ Free(e, staff, start)
    /\ diary' = [diary EXCEPT
           ![e] = [staff |-> staff, start |-> start, status |-> diary[e].status]]

Close(e, status) ==
    /\ diary[e] # NoRow
    /\ status \in Legal(diary[e].status)
    /\ diary' = [diary EXCEPT ![e] =
           [staff |-> diary[e].staff, start |-> diary[e].start, status |-> status]]

Next ==
    \E e \in Entries :
        \/ \E staff \in Staff, start \in Times :
               \/ \E status \in Active : Take(e, staff, start, status)
               \/ Move(e, staff, start)
        \/ \E status \in Statuses : Close(e, status)

Spec == Init /\ [][Next]_diary

=============================================================================
