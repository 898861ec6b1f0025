---------------------------- MODULE BookingProofs ----------------------------
(***************************************************************************)
(* Proofs about Booking, for every set of chairs, requests and moves, any  *)
(* retry budget and any bound.                                             *)
(***************************************************************************)
EXTENDS Booking, FiniteSetTheorems, TLAPS

(* The inductive invariant: what the protocol of versions, waits and locks *)
(* keeps true between the steps of several transactions.                   *)

\* A booking that has chosen a chair chose one, and not "anybody".
ChoicesAreResolved ==
    \A r \in Requests : pc[r] \in {"upsert", "insert", "settle"} => picked[r] \in Staff

\* A version belongs to a transaction that wrote it and has not ended.
VersionsAreOpen ==
    \A p \in Procs : pending[p] # NoRow <=> pc[p] \in {"settle", "commit"}

\* An insert makes the row named after its request, and makes it once.
InsertsAreNew ==
    \A r \in Requests :
        /\ pending[r] # NoRow => pending[r].id = r /\ rows[r] = NoRow
        /\ rows[r] # NoRow => pc[r] = "done"

\* A move holds its row: the committed version it replaces is still there.
MovesHoldTheirRow ==
    \A m \in Movers :
        pending[m] # NoRow =>
            /\ pending[m].id = Plan[m].row
            /\ IsActive(Plan[m].row)
            /\ pending[m].status = rows[Plan[m].row].status
            /\ \A n \in Movers \ {m} : pending[n] # NoRow => Plan[n].row # Plan[m].row

\* What passed the exclusion check may commit, in any order with the others.
ClearedVersionsFit ==
    \A p \in Procs : pc[p] = "commit" =>
        /\ \A a \in Requests \ {pending[p].id} :
               IsActive(a) => ~SameChair(rows[a], pending[p])
        /\ \A q \in Procs \ {p} :
               pc[q] = "commit" => ~SameChair(pending[q], pending[p])

\* One version, committed or in flight, per key.
KeysAreHeldOnce ==
    \A r \in Requests : Ask[r].key # NoKey /\ (rows[r] # NoRow \/ pending[r] # NoRow) =>
        \A a \in Requests \ {r} :
            Ask[a].key = Ask[r].key => rows[a] = NoRow /\ pending[a] = NoRow

Protocol ==
    /\ ChoicesAreResolved
    /\ VersionsAreOpen
    /\ InsertsAreNew
    /\ MovesHoldTheirRow
    /\ ClearedVersionsFit
    /\ KeysAreHeldOnce
    /\ NoDoubleBooking

IInv == TypeOK /\ Protocol

-----------------------------------------------------------------------------
(* Types.                                                                  *)

\* The length of the eligible list is a number, for Staff is finite.
LEMMA EligibleIsCounted ==
    Cardinality(Eligible) \in Nat
<1>1. IsFiniteSet(Skilled)
  BY StaffIsFinite, WeekIsTyped, FS_Subset
<1>2. IsFiniteSet(Eligible)
  BY <1>1, FS_Subset DEF Eligible
<1> QED
  BY <1>2, FS_CardinalityType

\* Init gives every variable a value of its type.
LEMMA InitTypes == Init => TypeOK
  BY HorizonIsNatural, WeekIsTyped DEF
     Init, TypeOK, Procs, Labels, Outcomes, Times

\* The steps of a booking request keep the types.
LEMMA BookStepTypes ==
    ASSUME IInv, NEW r \in Requests, BookStep(r) PROVE TypeOK'
<1> USE DEF IInv, TypeOK, Procs, Labels, Outcomes, Goto, Answer, shopVars
<1>0. Ask[r] \in Command
  BY AskIsTyped
<1>1. CASE Candidates(r)
  BY <1>1, EligibleIsCounted DEF Candidates
<1>2. CASE Open(r)
  BY <1>2 DEF Open, Replay
<1>3. CASE Judge(r)
  BY <1>3 DEF Judge
<1>4. CASE Assign(r)
  BY <1>4, <1>0, WeekIsTyped DEF Assign, Command, FirstChoice, Eligible
<1>5. CASE Upsert(r)
  BY <1>5 DEF Upsert
<1>6. CASE Insert(r)
  <2>1. picked[r] \in Staff
    BY <1>6 DEF Insert, Protocol, ChoicesAreResolved
  <2>2. [id |-> r, staff |-> picked[r], start |-> Ask[r].start, status |-> NewStatus(r)]
            \in Version
    BY <1>0, <2>1 DEF Version, Command, NewStatus, Active
  <2> QED
    BY <1>6, <2>2 DEF Insert, Replay, Write
<1>7. CASE Settle(r)
  BY <1>7 DEF Settle
<1>8. CASE Refused(r)
  <2>1. picked[r] \in Staff
    BY <1>8 DEF Refused, Protocol, ChoicesAreResolved
  <2> QED
    BY <1>8, <2>1 DEF Refused, Rollback, Write
<1>9. CASE Deadlocked(r)
  BY <1>9 DEF Deadlocked, Rollback, Write
<1>10. CASE TruthRead(r)
  BY <1>10 DEF TruthRead
<1>11. CASE CommitBooking(r)
  <2>1. pending[r] \in Version
    BY <1>11 DEF CommitBooking, Protocol, VersionsAreOpen
  <2>2. [staff |-> pending[r].staff, start |-> pending[r].start, status |-> pending[r].status]
            \in Row
    BY <2>1 DEF Version, Row, Statuses, Active
  <2> QED
    BY <1>11, <2>2 DEF CommitBooking, Rollback, Write
<1> QED
  BY <1>1, <1>2, <1>3, <1>4, <1>5, <1>6, <1>7, <1>8, <1>9, <1>10, <1>11 DEF BookStep

\* So do those of a move.
LEMMA MoveStepTypes ==
    ASSUME IInv, NEW m \in Movers, MoveStep(m) PROVE TypeOK'
<1> USE DEF IInv, TypeOK, Procs, Labels, Outcomes, Goto, Answer, shopVars
<1>0. Plan[m] \in Move /\ Plan[m].row \in Requests
  BY PlanIsTyped DEF Move
<1>1. CASE Snapshot(m)
  BY <1>0, <1>1 DEF Snapshot, Move, Row
<1>2. CASE JudgeMove(m)
  BY <1>2 DEF JudgeMove
<1>3. CASE Update(m)
  <2> DEFINE a == Plan[m].row
             v == [id |-> a, start |-> Plan[m].start, status |-> rows[a].status,
                   staff |-> IF Plan[m].staff # Anybody THEN Plan[m].staff ELSE rows[a].staff]
  <2>1. IsActive(a) => v \in Version
    BY <1>0 DEF IsActive, Version, Row, Move
  <2> QED
    BY <1>3, <2>1 DEF Update, Write
<1>4. CASE Settle(m)
  BY <1>4 DEF Settle
<1>5. CASE RefusedMove(m)
  BY <1>5 DEF RefusedMove, Rollback, Write
<1>6. CASE DeadlockedMove(m)
  BY <1>6 DEF DeadlockedMove, Rollback, Write
<1>7. CASE CommitMove(m)
  <2>1. pending[m] \in Version
    BY <1>7 DEF CommitMove, Protocol, VersionsAreOpen
  <2>2. [staff |-> pending[m].staff, start |-> pending[m].start, status |-> pending[m].status]
            \in Row
    BY <2>1 DEF Version, Row, Statuses, Active
  <2> QED
    BY <1>7, <1>0, <2>2 DEF CommitMove, Rollback, Write
<1> QED
  BY <1>1, <1>2, <1>3, <1>4, <1>5, <1>6, <1>7 DEF MoveStep

\* And every other step.
LEMMA StepTypes ==
    ASSUME IInv, [Next]_vars PROVE TypeOK'
<1> USE DEF IInv, TypeOK, Procs, shopVars, requestVars
<1>1. ASSUME NEW a \in Requests, RowStep(a) PROVE TypeOK'
  <2>1. PICK to \in {"CANCELLED", "CONFIRMED", "COMPLETED", "NO_SHOW"}, from \in SUBSET Active :
            Transition(a, from, to)
    BY <1>1 DEF RowStep, Cancel, Confirm, Conclude, Active
  <2>2. [staff |-> rows[a].staff, start |-> rows[a].start, status |-> to] \in Row
    BY <2>1 DEF Transition, Row, Statuses
  <2> QED
    BY <2>1, <2>2 DEF Transition
<1>2. CASE EditShop
  <2>1. ASSUME NEW s \in Staff, NEW to \in {"BOOKABLE", "HIDDEN", "DISABLED"},
               ChangeStanding(s, to)
        PROVE  TypeOK'
    BY <1>2, <2>1 DEF EditShop, ChangeStanding
  <2>2. ASSUME NEW s \in Staff, NEW to \in {{}, Week[s]}, ChangeHours(s, to)
        PROVE  TypeOK'
    <3>1. to \in SUBSET Times
      BY WeekIsTyped
    <3>2. hours' \in [Staff -> SUBSET Times]
      BY <2>2, <3>1 DEF ChangeHours
    <3> QED
      BY <1>2, <2>2, <3>2 DEF EditShop, ChangeHours
  <2>3. ASSUME ChangeOffering \/ ChangePolicy PROVE TypeOK'
    <3>1. offered' \in BOOLEAN /\ autoConfirm' \in BOOLEAN
      <4>1. CASE ChangeOffering
        BY <4>1 DEF ChangeOffering
      <4>2. CASE ChangePolicy
        BY <4>2 DEF ChangePolicy
      <4> QED
        BY <2>3, <4>1, <4>2
    <3>2. UNCHANGED <<rows, pending, pc, tried, candidates, deadlocks, reads, picked,
                      outcome, standing, hours, barred, now, crashes>>
      BY <1>2, <2>3 DEF EditShop, ChangeOffering, ChangePolicy
    <3>3. edits' \in Nat
      BY <1>2 DEF EditShop
    <3> QED
      BY <3>1, <3>2, <3>3
  <2>4. ASSUME NEW c \in Customers, NEW blocked \in BOOLEAN, SetBlocked(c, blocked) PROVE TypeOK'
    <3>1. barred' \subseteq Customers
      BY <2>4 DEF SetBlocked
    <3> QED
      BY <1>2, <2>4, <3>1 DEF EditShop, SetBlocked
  <2> QED
    BY <1>2, <2>1, <2>2, <2>3, <2>4 DEF EditShop
<1>3. ASSUME NEW p \in Procs, Crash(p) PROVE TypeOK'
  BY <1>3 DEF Crash, Rollback, Write, Answer, Goto, Labels, Outcomes
<1>4. CASE Tick
  BY <1>4, ClockStaysOnGrid, HorizonIsNatural DEF Tick, Times
<1>5. CASE UNCHANGED vars
  BY <1>5 DEF vars
<1> QED
  BY <1>1, <1>2, <1>3, <1>4, <1>5, BookStepTypes, MoveStepTypes DEF Next

-----------------------------------------------------------------------------
(* The protocol, one kind of step at a time.                               *)

\* Two blocks collide or not whichever is named first.
LEMMA SameChairIsSymmetric ==
    ASSUME NEW x, NEW y PROVE SameChair(x, y) <=> SameChair(y, x)
  BY DEF SameChair, Overlap

\* A step that touches neither table moves one process, before its version is
\* written or after it is gone.
LEMMA QuietStep ==
    ASSUME IInv, UNCHANGED <<rows, pending>>,
           NEW p \in Procs, pc[p] \notin {"settle", "commit", "done"},
           NEW label \in Labels, label \notin {"settle", "commit"},
           pc' = [pc EXCEPT ![p] = label],
           p \in Requests /\ label \in {"upsert", "insert"} => picked'[p] \in Staff,
           \A q \in Procs \ {p} : picked'[q] = picked[q]
    PROVE  Protocol'
<1> USE DEF IInv, Protocol, TypeOK, Procs
<1>1. ChoicesAreResolved'
  BY DEF ChoicesAreResolved
<1>2. VersionsAreOpen'
  BY DEF VersionsAreOpen
<1>3. InsertsAreNew'
  BY DEF InsertsAreNew
<1>4. MovesHoldTheirRow'
  BY DEF MovesHoldTheirRow, IsActive
<1>5. ClearedVersionsFit'
  BY DEF ClearedVersionsFit, IsActive
<1>6. KeysAreHeldOnce' /\ NoDoubleBooking'
  BY DEF KeysAreHeldOnce, NoDoubleBooking, IsActive
<1> QED
  BY <1>1, <1>2, <1>3, <1>4, <1>5, <1>6

\* A transaction that ends without its version disturbs nobody.
LEMMA RollbackStep ==
    ASSUME IInv, UNCHANGED <<rows, picked>>,
           NEW p \in Procs, pc[p] # "done", Rollback(p),
           NEW label \in {"idle", "open", "truth", "done"}, Goto(p, label)
    PROVE  Protocol'
<1> USE DEF IInv, Protocol, TypeOK, Procs, Rollback, Write, Goto
<1>1. ChoicesAreResolved'
  BY DEF ChoicesAreResolved
<1>2. VersionsAreOpen'
  BY DEF VersionsAreOpen
<1>3. InsertsAreNew'
  BY DEF InsertsAreNew
<1>4. MovesHoldTheirRow'
  BY DEF MovesHoldTheirRow, IsActive
<1>5. ClearedVersionsFit'
  BY DEF ClearedVersionsFit, IsActive
<1>6. KeysAreHeldOnce' /\ NoDoubleBooking'
  BY DEF KeysAreHeldOnce, NoDoubleBooking, IsActive
<1> QED
  BY <1>1, <1>2, <1>3, <1>4, <1>5, <1>6

\* The exclusion check clears a version only when nothing settled and nothing in
\* flight collides with it, so the versions that have been cleared fit together.
LEMMA SettleStep ==
    ASSUME IInv, NEW p \in Procs, Settle(p) PROVE Protocol'
<1> USE DEF IInv, Protocol, TypeOK, Procs, Settle, Goto, requestVars
<1>1. ChoicesAreResolved' /\ VersionsAreOpen' /\ InsertsAreNew'
  BY DEF ChoicesAreResolved, VersionsAreOpen, InsertsAreNew
<1>2. MovesHoldTheirRow' /\ KeysAreHeldOnce' /\ NoDoubleBooking'
  BY DEF MovesHoldTheirRow, KeysAreHeldOnce, NoDoubleBooking, IsActive
<1>3. pending[p] # NoRow
  BY DEF VersionsAreOpen
<1>4. ASSUME NEW a \in Requests \ {pending[p].id}, IsActive(a)
      PROVE  ~SameChair(rows[a], pending[p])
  <2>1. CASE Locked(a)
    <3>1. PICK m \in Movers : pending[m] # NoRow /\ pending[m].id = a
      BY <2>1 DEF Locked, Writing
    <3> QED
      BY <3>1, <1>4 DEF Blockers
  <2>2. CASE ~Locked(a)
    BY <2>2, <1>4 DEF TakenBy
  <2> QED
    BY <2>1, <2>2
<1>5. ASSUME NEW q \in Procs \ {p}, pc[q] = "commit"
      PROVE  ~SameChair(pending[q], pending[p]) /\ ~SameChair(pending[p], pending[q])
  <2>1. pending[q] # NoRow
    BY <1>5 DEF VersionsAreOpen
  <2>2. pending[q].id # pending[p].id
    BY <2>1, <1>3, <1>5, ProcsAreDisjoint, PlanIsTyped
       DEF InsertsAreNew, MovesHoldTheirRow, IsActive
  <2> QED
    BY <2>1, <2>2, SameChairIsSymmetric DEF Blockers
<1>6. ClearedVersionsFit'
  BY <1>4, <1>5 DEF ClearedVersionsFit, IsActive
<1> QED
  BY <1>1, <1>2, <1>6

\* An insert that found its key neither used nor in flight keeps it used once.
LEMMA InsertStep ==
    ASSUME IInv, NEW r \in Requests, Insert(r) PROVE Protocol'
<1>1. CASE Replays(r) # {}
  <2>1. Goto(r, "done") /\ UNCHANGED <<rows, pending, picked>>
    BY <1>1 DEF Insert, Replay, Answer
  <2> QED
    BY <2>1, QuietStep DEF Insert, Goto, Procs, Labels
<1>2. CASE Replays(r) = {}
  <2> DEFINE v == [id |-> r, staff |-> picked[r], start |-> Ask[r].start,
                   status |-> NewStatus(r)]
  <2> USE DEF IInv, Protocol, TypeOK, Procs
  <2>1. /\ pc[r] = "insert" /\ ~KeyInFlight(r)
        /\ UNCHANGED <<rows, picked>>
        /\ pending' = [pending EXCEPT ![r] = v]
        /\ pc' = [pc EXCEPT ![r] = "settle"]
    BY <1>2 DEF Insert, Write, Goto
  <2>2. v \in Version
    BY <2>1, AskIsTyped DEF ChoicesAreResolved, Version, Command, NewStatus, Active
  <2>3. v # NoRow /\ v.id = r /\ rows[r] = NoRow
    BY <2>1, <2>2, NoRowIsNoVersion DEF InsertsAreNew
  <2> HIDE DEF v
  <2>4. ChoicesAreResolved' /\ VersionsAreOpen' /\ InsertsAreNew'
    BY <2>1, <2>3 DEF ChoicesAreResolved, VersionsAreOpen, InsertsAreNew
  <2>5. MovesHoldTheirRow' /\ NoDoubleBooking'
    BY <2>1, ProcsAreDisjoint DEF MovesHoldTheirRow, NoDoubleBooking, IsActive
  <2>6. ClearedVersionsFit'
    BY <2>1 DEF ClearedVersionsFit, IsActive
  <2>7. KeysAreHeldOnce'
    BY <2>1, <2>3, <1>2 DEF KeysAreHeldOnce, KeyInFlight, Replays
  <2> QED
    BY <2>4, <2>5, <2>6, <2>7
<1> QED
  BY <1>1, <1>2

\* What commits was cleared, so the row it makes fits the rows already there.
LEMMA CommitBookingStep ==
    ASSUME IInv, NEW r \in Requests, CommitBooking(r) PROVE Protocol'
<1> USE DEF IInv, Protocol, TypeOK, Procs
<1> DEFINE new == [staff |-> pending[r].staff, start |-> pending[r].start,
                   status |-> pending[r].status]
<1>1. /\ pc[r] = "commit"
      /\ rows' = [rows EXCEPT ![r] = new]
      /\ pending' = [pending EXCEPT ![r] = NoRow]
      /\ pc' = [pc EXCEPT ![r] = "done"]
      /\ UNCHANGED picked
  BY DEF CommitBooking, Rollback, Write, Answer, Goto
<1>2. pending[r] \in Version /\ pending[r] # NoRow /\ pending[r].id = r /\ rows[r] = NoRow
  BY <1>1 DEF VersionsAreOpen, InsertsAreNew
<1>3. new \in Row /\ new # NoRow
  BY <1>2, NoRowIsNoRecord DEF Version, Row, Statuses, Active
<1>4. \A x : /\ SameChair(new, x) <=> SameChair(pending[r], x)
             /\ SameChair(x, new) <=> SameChair(x, pending[r])
  BY DEF SameChair
<1> HIDE DEF new
<1>5. ChoicesAreResolved' /\ VersionsAreOpen' /\ InsertsAreNew'
  BY <1>1, <1>2 DEF ChoicesAreResolved, VersionsAreOpen, InsertsAreNew
<1>6. MovesHoldTheirRow'
  BY <1>1, <1>2, ProcsAreDisjoint DEF MovesHoldTheirRow, IsActive
<1>7. KeysAreHeldOnce'
  BY <1>1, <1>2 DEF KeysAreHeldOnce
<1>8. NoDoubleBooking'
  BY <1>1, <1>2, <1>4, SameChairIsSymmetric DEF ClearedVersionsFit, NoDoubleBooking, IsActive
<1>9. ClearedVersionsFit'
  BY <1>1, <1>2, <1>4 DEF ClearedVersionsFit, IsActive
<1> QED
  BY <1>5, <1>6, <1>7, <1>8, <1>9

\* A move writes over an active row no other move holds.
LEMMA UpdateStep ==
    ASSUME IInv, NEW m \in Movers, Update(m) PROVE Protocol'
<1> DEFINE a == Plan[m].row
           v == [id |-> a, start |-> Plan[m].start, status |-> rows[a].status,
                 staff |-> IF Plan[m].staff # Anybody THEN Plan[m].staff ELSE rows[a].staff]
<1>0. a \in Requests /\ Plan[m] \in Move
  BY PlanIsTyped DEF Move
<1>1. CASE ~IsActive(a)
  <2>1. Goto(m, "done") /\ UNCHANGED <<rows, pending, picked>> /\ pc[m] = "update"
    BY <1>1 DEF Update, Answer
  <2> QED
    BY <2>1, QuietStep, ProcsAreDisjoint DEF Goto, Procs, Labels
<1>2. CASE IsActive(a)
  <2> USE DEF IInv, Protocol, TypeOK, Procs
  <2>1. /\ pc[m] = "update" /\ ~Locked(a)
        /\ UNCHANGED <<rows, picked>>
        /\ pending' = [pending EXCEPT ![m] = v]
        /\ pc' = [pc EXCEPT ![m] = "settle"]
    BY <1>2 DEF Update, Write, Goto
  <2>2. v \in Version /\ v.id = a /\ v.status = rows[a].status
    BY <1>0, <1>2 DEF IsActive, Version, Row, Move
  <2>3. v # NoRow
    BY <2>2, NoRowIsNoVersion
  <2> HIDE DEF v
  <2>4. ChoicesAreResolved' /\ VersionsAreOpen' /\ InsertsAreNew'
    BY <2>1, <2>3, ProcsAreDisjoint DEF ChoicesAreResolved, VersionsAreOpen, InsertsAreNew
  <2>5. \A n \in Movers \ {m} : pending[n] # NoRow => Plan[n].row # a
    BY <2>1 DEF Locked, Writing, MovesHoldTheirRow
  <2>6. MovesHoldTheirRow'
    BY <1>2, <2>1, <2>2, <2>3, <2>5 DEF MovesHoldTheirRow, IsActive
  <2>7. ClearedVersionsFit' /\ NoDoubleBooking'
    BY <2>1 DEF ClearedVersionsFit, NoDoubleBooking, IsActive
  <2>8. KeysAreHeldOnce'
    BY <2>1, ProcsAreDisjoint DEF KeysAreHeldOnce
  <2> QED
    BY <2>4, <2>6, <2>7, <2>8
<1> QED
  BY <1>1, <1>2

\* A move that was cleared replaces its row by one that fits the others.
LEMMA CommitMoveStep ==
    ASSUME IInv, NEW m \in Movers, CommitMove(m) PROVE Protocol'
<1> USE DEF IInv, Protocol, TypeOK, Procs
<1> DEFINE a == Plan[m].row
           new == [staff |-> pending[m].staff, start |-> pending[m].start,
                   status |-> pending[m].status]
<1>0. a \in Requests
  BY PlanIsTyped DEF Move
<1>1. /\ pc[m] = "commit"
      /\ rows' = [rows EXCEPT ![a] = new]
      /\ pending' = [pending EXCEPT ![m] = NoRow]
      /\ pc' = [pc EXCEPT ![m] = "done"]
      /\ UNCHANGED picked
  BY DEF CommitMove, Rollback, Write, Answer, Goto
<1>2. /\ pending[m] \in Version /\ pending[m] # NoRow /\ pending[m].id = a
      /\ rows[a] # NoRow /\ IsActive(a)
  BY <1>1 DEF VersionsAreOpen, MovesHoldTheirRow, IsActive
<1>3. new \in Row /\ new # NoRow
  BY <1>2, NoRowIsNoRecord DEF Version, Row, Statuses, Active
<1>4. \A x : /\ SameChair(new, x) <=> SameChair(pending[m], x)
             /\ SameChair(x, new) <=> SameChair(x, pending[m])
  BY DEF SameChair
<1> HIDE DEF new
<1>5. ChoicesAreResolved' /\ VersionsAreOpen' /\ InsertsAreNew'
  BY <1>0, <1>1, <1>2, <1>3, ProcsAreDisjoint DEF ChoicesAreResolved, VersionsAreOpen, InsertsAreNew
<1>6. \A n \in Movers \ {m} : pending[n] # NoRow => Plan[n].row # a
  BY <1>2 DEF MovesHoldTheirRow
<1>7. MovesHoldTheirRow'
  BY <1>0, <1>1, <1>6 DEF MovesHoldTheirRow, IsActive
<1>8. KeysAreHeldOnce'
  BY <1>0, <1>1, <1>2, <1>3, ProcsAreDisjoint DEF KeysAreHeldOnce
<1>9. NoDoubleBooking'
  BY <1>0, <1>1, <1>2, <1>4, SameChairIsSymmetric DEF ClearedVersionsFit, NoDoubleBooking, IsActive
<1>10. ClearedVersionsFit'
  BY <1>0, <1>1, <1>2, <1>4 DEF ClearedVersionsFit, IsActive
<1> QED
  BY <1>5, <1>7, <1>8, <1>9, <1>10

\* A status change waits for the row, so it never lands under a move; and it
\* never makes a closed appointment active again.
LEMMA TransitionStep ==
    ASSUME IInv, NEW a \in Requests, NEW from \in SUBSET Active, NEW to \in Statuses,
           Transition(a, from, to)
    PROVE  Protocol'
<1> USE DEF IInv, Protocol, TypeOK, Procs
<1> DEFINE new == [staff |-> rows[a].staff, start |-> rows[a].start, status |-> to]
<1>1. /\ rows[a] # NoRow /\ ~Locked(a) /\ IsActive(a)
      /\ rows' = [rows EXCEPT ![a] = new]
      /\ UNCHANGED <<pending, pc, picked>>
  BY DEF Transition, requestVars, IsActive
<1>2. new \in Row /\ new # NoRow
  BY <1>1, NoRowIsNoRecord DEF Row
<1>3. \A x : /\ SameChair(new, x) <=> SameChair(rows[a], x)
             /\ SameChair(x, new) <=> SameChair(x, rows[a])
  BY DEF SameChair
<1> HIDE DEF new
<1>4. ChoicesAreResolved' /\ VersionsAreOpen' /\ InsertsAreNew'
  BY <1>1, <1>2 DEF ChoicesAreResolved, VersionsAreOpen, InsertsAreNew
<1>5. \A n \in Movers : pending[n] # NoRow => Plan[n].row # a
  BY <1>1 DEF MovesHoldTheirRow, Locked, Writing
<1>6. MovesHoldTheirRow'
  BY <1>1, <1>5 DEF MovesHoldTheirRow, IsActive
<1>7. KeysAreHeldOnce'
  BY <1>1, <1>2 DEF KeysAreHeldOnce
<1>8. ClearedVersionsFit' /\ NoDoubleBooking'
  BY <1>1, <1>3 DEF ClearedVersionsFit, NoDoubleBooking, IsActive
<1> QED
  BY <1>4, <1>6, <1>7, <1>8

-----------------------------------------------------------------------------
(* Every step keeps the invariant.                                         *)

\* Those of a booking request, ...
LEMMA BookStepKeeps ==
    ASSUME IInv, NEW r \in Requests, BookStep(r) PROVE Protocol'
<1> USE DEF Answer, Goto
<1>1. CASE Candidates(r) \/ Open(r) \/ Judge(r) \/ Upsert(r)
  <2>1. PICK label \in {"open", "judge", "assign", "insert", "done"} :
            /\ pc' = [pc EXCEPT ![r] = label]
            /\ label = "insert" => pc[r] = "upsert"
    BY <1>1 DEF Candidates, Open, Judge, Upsert, Replay
  <2>2. UNCHANGED <<rows, pending, picked>> /\ pc[r] \in {"idle", "open", "judge", "upsert"}
    BY <1>1 DEF Candidates, Open, Judge, Upsert
  <2>3. label = "insert" => picked[r] \in Staff
    BY <2>1, <2>2 DEF IInv, Protocol, ChoicesAreResolved
  <2> QED
    BY <2>1, <2>2, <2>3, QuietStep DEF Procs, Labels
<1>2. CASE Assign(r)
  <2>1. PICK label \in {"upsert", "done"} :
            /\ pc' = [pc EXCEPT ![r] = label]
            /\ label = "upsert" => picked'[r] \in Staff
    BY <1>2, AskIsTyped, WeekIsTyped
       DEF Assign, Command, FirstChoice, Eligible, IInv, TypeOK, Procs
  <2>2. /\ UNCHANGED <<rows, pending>> /\ pc[r] = "assign"
        /\ \A q \in Procs \ {r} : picked'[q] = picked[q]
    BY <1>2 DEF Assign, IInv, TypeOK
  <2> QED
    BY <2>1, <2>2, QuietStep DEF Procs, Labels
<1>3. CASE TruthRead(r)
  <2>1. PICK label \in {"truth", "done"} : pc' = [pc EXCEPT ![r] = label]
    BY <1>3 DEF TruthRead, IInv, TypeOK, Procs
  <2> QED
    BY <1>3, <2>1, QuietStep DEF TruthRead, Procs, Labels
<1>4. CASE Refused(r) \/ Deadlocked(r)
  <2>1. PICK label \in {"open", "truth", "done"} : Goto(r, label)
    BY <1>4 DEF Refused, Deadlocked
  <2> QED
    BY <1>4, <2>1, RollbackStep DEF Refused, Deadlocked, Procs
<1> QED
  BY <1>1, <1>2, <1>3, <1>4, InsertStep, SettleStep, CommitBookingStep DEF BookStep, Procs

\* ... those of a move, ...
LEMMA MoveStepKeeps ==
    ASSUME IInv, NEW m \in Movers, MoveStep(m) PROVE Protocol'
<1> USE DEF Answer, Goto
<1>1. CASE Snapshot(m) \/ JudgeMove(m)
  <2>1. PICK label \in {"judge", "update", "done"} : pc' = [pc EXCEPT ![m] = label]
    BY <1>1 DEF Snapshot, JudgeMove
  <2>2. /\ UNCHANGED <<rows, pending>> /\ pc[m] \in {"idle", "judge"}
        /\ \A q \in Procs \ {m} : picked'[q] = picked[q]
    BY <1>1 DEF Snapshot, JudgeMove, IInv, TypeOK
  <2> QED
    BY <2>1, <2>2, QuietStep, ProcsAreDisjoint DEF Procs, Labels
<1>2. CASE RefusedMove(m) \/ DeadlockedMove(m)
  <2>1. PICK label \in {"idle", "done"} : Goto(m, label)
    BY <1>2 DEF RefusedMove, DeadlockedMove
  <2> QED
    BY <1>2, <2>1, RollbackStep DEF RefusedMove, DeadlockedMove, Procs
<1> QED
  BY <1>1, <1>2, UpdateStep, SettleStep, CommitMoveStep DEF MoveStep, Procs

\* An empty table has nothing in flight.
LEMMA InitHolds == Init => IInv
<1> SUFFICES ASSUME Init PROVE Protocol
  BY InitTypes DEF IInv
<1> QED
  BY DEF Init, Procs, Protocol, ChoicesAreResolved, VersionsAreOpen, InsertsAreNew,
         MovesHoldTheirRow, ClearedVersionsFit, KeysAreHeldOnce, NoDoubleBooking, IsActive

\* ... and all the others.
LEMMA StepHolds == IInv /\ [Next]_vars => IInv'
<1> SUFFICES ASSUME IInv, [Next]_vars PROVE Protocol'
  BY StepTypes DEF IInv
<1>1. ASSUME NEW a \in Requests, RowStep(a) PROVE Protocol'
  <2>1. PICK from \in SUBSET Active, to \in Statuses : Transition(a, from, to)
    BY <1>1 DEF RowStep, Cancel, Confirm, Conclude, Active, Statuses
  <2> QED
    BY <2>1, TransitionStep
<1>2. ASSUME NEW p \in Procs, Crash(p) PROVE Protocol'
  BY <1>2, RollbackStep DEF Crash, Answer
<1>3. ASSUME UNCHANGED <<rows, pending, requestVars>> PROVE Protocol'
  BY <1>3 DEF requestVars, IInv, Protocol, ChoicesAreResolved, VersionsAreOpen, InsertsAreNew,
         MovesHoldTheirRow, ClearedVersionsFit, KeysAreHeldOnce, NoDoubleBooking, IsActive
<1>4. EditShop \/ Tick \/ UNCHANGED vars => UNCHANGED <<rows, pending, requestVars>>
  BY DEF EditShop, Tick, vars
<1> QED
  BY <1>1, <1>2, <1>3, <1>4, BookStepKeeps, MoveStepKeeps DEF Next

-----------------------------------------------------------------------------
(* What follows for every behaviour of the component.                      *)

\* The versions, waits and locks keep their discipline for ever.
THEOREM InvariantHolds == Spec => []IInv
  BY InitHolds, StepHolds, PTL DEF Spec

\* Every variable keeps the type of its column or field.
THEOREM TypesHold == Spec => []TypeOK
<1>1. IInv => TypeOK
  BY DEF IInv
<1> QED
  BY <1>1, InvariantHolds, PTL

\* No interleaving of bookings, moves, retries and crashes books a chair twice.
THEOREM NeverDoubleBooked == Spec => []NoDoubleBooking
<1>1. IInv => NoDoubleBooking
  BY DEF IInv, Protocol
<1> QED
  BY <1>1, InvariantHolds, PTL

\* No interleaving of retries makes two appointments under one key.
THEOREM OneRowPerKey == Spec => []OneBookingPerKey
<1>1. IInv => OneBookingPerKey
  BY DEF IInv, Protocol, KeysAreHeldOnce, OneBookingPerKey
<1> QED
  BY <1>1, InvariantHolds, PTL

\* The table changes in four ways only: a booking commits, a move commits, or a
\* status changes, each over a row in the state its writer believes it to be in.
LEMMA WhatChangesTheTable ==
    ASSUME IInv, [Next]_vars
    PROVE  \/ UNCHANGED rows
           \/ \E r \in Requests : CommitBooking(r) /\ rows[r] = NoRow
           \/ \E m \in Movers : CommitMove(m) /\ IsActive(Plan[m].row)
           \/ \E a \in Requests, from \in SUBSET Active, to \in Statuses :
                  to \in Legal(rows[a].status) /\ Transition(a, from, to)
<1>1. ASSUME NEW r \in Requests, BookStep(r), ~CommitBooking(r) PROVE UNCHANGED rows
  BY <1>1 DEF BookStep, Candidates, Open, Judge, Assign, Upsert, Insert, Settle, Refused,
              Deadlocked, TruthRead
<1>2. ASSUME NEW m \in Movers, MoveStep(m), ~CommitMove(m) PROVE UNCHANGED rows
  BY <1>2 DEF MoveStep, Snapshot, JudgeMove, Update, Settle, RefusedMove, DeadlockedMove
<1>3. ASSUME NEW r \in Requests, CommitBooking(r) PROVE rows[r] = NoRow
  BY <1>3 DEF CommitBooking, IInv, Protocol, VersionsAreOpen, InsertsAreNew, Procs
<1>4. ASSUME NEW m \in Movers, CommitMove(m) PROVE IsActive(Plan[m].row)
  BY <1>4 DEF CommitMove, IInv, Protocol, VersionsAreOpen, MovesHoldTheirRow, Procs
<1>5. ASSUME NEW a \in Requests, RowStep(a)
      PROVE  \E from \in SUBSET Active, to \in Statuses :
                 to \in Legal(rows[a].status) /\ Transition(a, from, to)
  <2>1. CASE Cancel(a)
    BY <2>1 DEF Cancel, Transition, Active, Statuses, Legal
  <2>2. CASE Confirm(a)
    BY <2>2 DEF Confirm, Transition, Active, Statuses, Legal
  <2>3. ASSUME NEW to \in {"COMPLETED", "NO_SHOW"}, Conclude(a, to)
        PROVE  to \in Legal(rows[a].status) /\ Transition(a, {"CONFIRMED"}, to)
    BY <2>3 DEF Conclude, Transition, Legal
  <2> QED
    BY <1>5, <2>1, <2>2, <2>3 DEF RowStep, Active, Statuses
<1>6. EditShop \/ Tick \/ (\E p \in Procs : Crash(p)) \/ UNCHANGED vars => UNCHANGED rows
  BY DEF EditShop, Tick, Crash, vars
<1> QED
  BY <1>1, <1>2, <1>3, <1>4, <1>5, <1>6 DEF Next

\* Nothing that was already under way lands on an appointment that was closed.
THEOREM ClosedForGood == Spec => ClosedStaysClosed
<1>1. ASSUME IInv, [Next]_vars, NEW a \in Requests, rows[a] # NoRow, rows[a].status \notin Active
      PROVE  rows'[a] = rows[a]
  <2>1. ASSUME NEW b \in Requests \ {a}, NEW new, rows' = [rows EXCEPT ![b] = new]
        PROVE  rows'[a] = rows[a]
    BY <2>1 DEF IInv, TypeOK
  <2>2. ASSUME NEW b \in Requests, NEW from, NEW to, Transition(b, from, to), from \subseteq Active
        PROVE  rows'[a] = rows[a]
    BY <1>1, <2>1, <2>2 DEF Transition
  <2>3. ASSUME NEW r \in Requests, CommitBooking(r), rows[r] = NoRow
        PROVE  rows'[a] = rows[a]
    BY <1>1, <2>1, <2>3 DEF CommitBooking
  <2>4. ASSUME NEW m \in Movers, CommitMove(m), IsActive(Plan[m].row)
        PROVE  rows'[a] = rows[a]
    BY <1>1, <2>1, <2>4, PlanIsTyped DEF CommitMove, IsActive, Move
  <2> QED
    BY <1>1, <2>2, <2>3, <2>4, WhatChangesTheTable
<1>2. IInv /\ [Next]_vars =>
          [\A a \in Requests :
              rows[a] # NoRow /\ rows[a].status \notin Active => rows'[a] = rows[a]]_vars
  BY <1>1
<1> QED
  BY <1>2, InvariantHolds, PTL DEF Spec, ClosedStaysClosed

\* Under every retry, deadlock and rollback, what the component does to the table
\* is what the diary allows, one entry at a time.
THEOREM BookingImplementsDiary == Spec => ImplementsDiary
<1>1. Init => Promise!Init
  BY DEF Init, Promise!Init
<1>2. IInv /\ [Next]_vars => [Promise!Next]_rows
  <2> SUFFICES ASSUME IInv, [Next]_vars, rows' # rows PROVE Promise!Next
    OBVIOUS
  <2> USE DEF IInv, TypeOK, Protocol, Procs
  <2>1. ASSUME NEW r \in Requests, CommitBooking(r), rows[r] = NoRow PROVE Promise!Next
    <3>1. /\ pending[r] \in Version /\ pending[r].id = r
          /\ pc[r] = "commit" /\ pending[r] # NoRow
      BY <2>1 DEF CommitBooking, VersionsAreOpen, InsertsAreNew
    <3> DEFINE v == pending[r]
    <3>2. Promise!Free(r, v.staff, v.start)
      BY <3>1 DEF Promise!Free, ClearedVersionsFit, IsActive, SameChair, Promise!SameChair,
                  Overlap, Promise!Overlap, Promise!Active, Active
    <3>3. Promise!Unused(r)
      BY <3>1 DEF Promise!Unused, KeysAreHeldOnce
    <3>4. Promise!Take(r, v.staff, v.start, v.status)
      BY <2>1, <3>2, <3>3 DEF Promise!Take, CommitBooking
    <3> QED
      BY <3>1, <3>4 DEF Promise!Next, Version, Times, Promise!Times, Active, Promise!Active
  <2>2. ASSUME NEW m \in Movers, CommitMove(m), IsActive(Plan[m].row) PROVE Promise!Next
    <3> DEFINE a == Plan[m].row
               v == pending[m]
    <3>1. /\ a \in Requests /\ v \in Version /\ v.id = a
          /\ pc[m] = "commit" /\ v.status = rows[a].status
      BY <2>2, PlanIsTyped DEF CommitMove, VersionsAreOpen, MovesHoldTheirRow, Move
    <3>2. Promise!Free(a, v.staff, v.start)
      BY <3>1 DEF Promise!Free, ClearedVersionsFit, IsActive, SameChair, Promise!SameChair,
                  Overlap, Promise!Overlap, Promise!Active, Active
    <3>3. Promise!Move(a, v.staff, v.start)
      BY <2>2, <3>1, <3>2 DEF Promise!Move, CommitMove, IsActive, Active, Promise!Active
    <3> QED
      BY <3>1, <3>3 DEF Promise!Next, Version, Times, Promise!Times
  <2>3. ASSUME NEW a \in Requests, NEW from, NEW to \in Statuses,
               to \in Legal(rows[a].status), Transition(a, from, to)
        PROVE  Promise!Next
    <3>1. Promise!Close(a, to)
      BY <2>3 DEF Promise!Close, Transition, Legal, Promise!Legal
    <3> QED
      BY <3>1 DEF Promise!Next, Statuses, Promise!Statuses
  <2> QED
    BY <2>1, <2>2, <2>3, WhatChangesTheTable
<1> QED
  BY <1>1, <1>2, InvariantHolds, PTL DEF Spec, ImplementsDiary, Promise!Spec


-----------------------------------------------------------------------------
(* Who was refused, and for whom.                                          *)

\* A chair the request could have had is somebody's, over the instant it asked.
Beaten(r, s) ==
    \E a \in Requests \ {r} :
        /\ rows[a] # NoRow /\ rows[a].staff = s
        /\ Overlap(rows[a].start, Ask[r].start)

\* Nothing was moved away, and the shop is as it was.
Undisturbed == edits = 0 /\ \A m \in Movers : outcome[m] # "moved"

\* Who has an answer is done.
AnswersAreLast == \A p \in Procs : outcome[p] # "none" => pc[p] = "done"

\* An attempt is for the chair that was asked, or for one that was not tried; and
\* the version it writes is for that chair, at the instant asked.
AttemptsAreFresh ==
    \A r \in Requests :
        /\ tried[r] \subseteq Skilled
        /\ pc[r] \in {"upsert", "insert", "settle"} =>
               IF Ask[r].staff = Anybody THEN picked[r] \in Skilled \ tried[r]
               ELSE picked[r] = Ask[r].staff
        /\ pc[r] = "settle" => /\ pending[r].staff = picked[r]
                               /\ pending[r].start = Ask[r].start

\* In a shop nobody edits every chair is counted.
CountsAreWhole ==
    edits = 0 =>
        /\ \A s \in Staff : standing[s] = "BOOKABLE"
        /\ \A r \in Requests :
               pc[r] \notin {"idle", "done"} /\ Ask[r].staff = Anybody
                   => candidates[r] = Cardinality(Skilled)

\* A chair counts as tried only once it was lost, and a refusal speaks of them all.
LosersHaveWinners ==
    Undisturbed =>
        \A r \in Requests :
            /\ \A s \in tried[r] : Beaten(r, s)
            /\ outcome[r] = "slot_unavailable" =>
                   \A s \in Skilled : Ask[r].staff \in {Anybody, s} => Beaten(r, s)

Contest == AnswersAreLast /\ AttemptsAreFresh /\ CountsAreWhole /\ LosersHaveWinners

\* A step is one process's, on its way to its one answer, or nobody's.
LEMMA OneProcessSteps ==
    ASSUME IInv, [Next]_vars
    PROVE  \/ UNCHANGED <<pc, outcome>>
           \/ \E p \in Procs, label \in Labels :
                  /\ pc[p] # "done" /\ pc' = [pc EXCEPT ![p] = label]
                  /\ \/ UNCHANGED outcome
                     \/ label = "done" /\ \E what : outcome' = [outcome EXCEPT ![p] = what]
<1> DEFINE Moves(p) == \E label \in Labels :
             /\ pc[p] # "done" /\ pc' = [pc EXCEPT ![p] = label]
             /\ \/ UNCHANGED outcome
                \/ label = "done" /\ \E what : outcome' = [outcome EXCEPT ![p] = what]
<1> USE DEF Answer, Goto, Labels
<1>1. ASSUME NEW r \in Requests, BookStep(r) PROVE Moves(r)
  <2>1. CASE Candidates(r)
    BY <2>1 DEF Candidates
  <2>2. CASE Open(r)
    BY <2>2 DEF Open, Replay
  <2>3. CASE Judge(r)
    BY <2>3 DEF Judge
  <2>4. CASE Assign(r)
    BY <2>4 DEF Assign
  <2>5. CASE Upsert(r)
    BY <2>5 DEF Upsert
  <2>6. CASE Insert(r)
    BY <2>6 DEF Insert, Replay
  <2>7. CASE Settle(r)
    BY <2>7 DEF Settle
  <2>8. CASE Refused(r)
    BY <2>8 DEF Refused
  <2>9. CASE Deadlocked(r)
    BY <2>9 DEF Deadlocked
  <2>10. CASE TruthRead(r)
    <3>1. CASE UNCHANGED <<pc, outcome>>
      <4>1. pc' = [pc EXCEPT ![r] = "truth"]
        BY <2>10, <3>1 DEF TruthRead, IInv, TypeOK, Procs
      <4> QED
        BY <2>10, <3>1, <4>1 DEF TruthRead
    <3>2. CASE ~UNCHANGED <<pc, outcome>>
      BY <2>10, <3>2 DEF TruthRead
    <3> QED
      BY <3>1, <3>2
  <2>11. CASE CommitBooking(r)
    BY <2>11 DEF CommitBooking
  <2> QED
    BY <1>1, <2>1, <2>2, <2>3, <2>4, <2>5, <2>6, <2>7, <2>8, <2>9, <2>10, <2>11 DEF BookStep
<1>2. ASSUME NEW m \in Movers, MoveStep(m) PROVE Moves(m)
  <2>1. CASE Snapshot(m)
    BY <2>1 DEF Snapshot
  <2>2. CASE JudgeMove(m)
    BY <2>2 DEF JudgeMove
  <2>3. CASE Update(m)
    BY <2>3 DEF Update
  <2>4. CASE Settle(m)
    BY <2>4 DEF Settle
  <2>5. CASE RefusedMove(m)
    BY <2>5 DEF RefusedMove
  <2>6. CASE DeadlockedMove(m)
    BY <2>6 DEF DeadlockedMove
  <2>7. CASE CommitMove(m)
    BY <2>7 DEF CommitMove
  <2> QED
    BY <1>2, <2>1, <2>2, <2>3, <2>4, <2>5, <2>6, <2>7 DEF MoveStep
<1>3. ASSUME NEW p \in Procs, Crash(p) PROVE Moves(p)
  BY <1>3 DEF Crash
<1>4. ASSUME NEW a \in Requests, RowStep(a) PROVE UNCHANGED <<pc, outcome>>
  BY <1>4 DEF RowStep, Cancel, Confirm, Conclude, Transition, requestVars
<1>5. EditShop \/ Tick \/ UNCHANGED vars => UNCHANGED <<pc, outcome>>
  BY DEF EditShop, Tick, vars, requestVars
<1> QED
  BY <1>1, <1>2, <1>3, <1>4, <1>5 DEF Next, Procs

\* So an answer, once given, stands.
LEMMA AnswersStand ==
    ASSUME IInv, AnswersAreLast, [Next]_vars
    PROVE  /\ AnswersAreLast'
           /\ \A p \in Procs : outcome[p] # "none" => outcome'[p] = outcome[p]
  BY OneProcessSteps DEF AnswersAreLast, IInv, TypeOK

\* The shop was edited, or it was not.
LEMMA EditsAreCounted ==
    ASSUME IInv, [Next]_vars
    PROVE  /\ edits' = 0 => edits = 0
           /\ edits' = 0 => UNCHANGED standing
<1>1. CASE EditShop
  BY <1>1 DEF EditShop, IInv, TypeOK
<1>2. CASE ~EditShop
  <2>1. UNCHANGED <<standing, edits>>
    BY <1>2 DEF Next, BookStep, Candidates, Open, Judge, Assign, Upsert, Insert, Settle,
       Refused, Deadlocked, TruthRead, CommitBooking, MoveStep, Snapshot, JudgeMove, Update,
       RefusedMove, DeadlockedMove, CommitMove, RowStep, Cancel, Confirm, Conclude,
       Transition, Crash, Tick, vars, shopVars
  <2> QED
    BY <2>1
<1> QED
  BY <1>1, <1>2

\* What is disturbed stays so.
LEMMA DisturbedForGood ==
    ASSUME IInv, AnswersAreLast, [Next]_vars, Undisturbed' PROVE Undisturbed
<1>1. edits = 0
  BY EditsAreCounted DEF Undisturbed
<1>2. ASSUME NEW m \in Movers PROVE outcome[m] # "moved"
  BY AnswersStand DEF Undisturbed, Procs
<1> QED
  BY <1>1, <1>2 DEF Undisturbed

\* Where nothing is moved a row keeps its chair and its instant, even when closed.
LEMMA WinnersStay ==
    ASSUME IInv, [Next]_vars, Undisturbed'
    PROVE  \A r \in Requests, s \in Skilled : Beaten(r, s) => Beaten(r, s)'
<1> USE DEF IInv, TypeOK
<1>1. ASSUME NEW a \in Requests, rows[a] # NoRow
      PROVE  rows'[a] # NoRow /\ rows'[a].staff = rows[a].staff /\ rows'[a].start = rows[a].start
  <2>0. rows[a] \in Row
    BY <1>1
  <2>1. ASSUME NEW b \in Requests, CommitBooking(b), rows[b] = NoRow
        PROVE  rows'[a] = rows[a]
    BY <1>1, <2>1 DEF CommitBooking
  <2>2. ASSUME NEW m \in Movers, CommitMove(m) PROVE FALSE
    BY <2>2 DEF CommitMove, Answer, Undisturbed, Procs
  <2>3. ASSUME NEW b \in Requests, NEW from \in SUBSET Active, NEW to \in Statuses,
               Transition(b, from, to)
        PROVE  \/ rows'[a] = rows[a]
               \/ rows'[a] = [staff |-> rows[a].staff, start |-> rows[a].start, status |-> to]
    BY <2>3 DEF Transition
  <2>4. ASSUME NEW to \in Statuses,
               rows'[a] = [staff |-> rows[a].staff, start |-> rows[a].start, status |-> to]
        PROVE  /\ rows'[a] # NoRow
               /\ rows'[a].staff = rows[a].staff /\ rows'[a].start = rows[a].start
    <3>1. rows'[a] \in Row
      BY <2>0, <2>4 DEF Row
    <3> QED
      BY <2>4, <3>1, NoRowIsNoRecord
  <2>5. ASSUME NEW b \in Requests, NEW from \in SUBSET Active, NEW to \in Statuses,
               Transition(b, from, to)
        PROVE  /\ rows'[a] # NoRow
               /\ rows'[a].staff = rows[a].staff /\ rows'[a].start = rows[a].start
    BY <1>1, <2>3, <2>4, <2>5
  <2>6. CASE rows' = rows
    BY <1>1, <2>6
  <2>7. CASE rows' # rows
    <3>1. \/ \E b \in Requests : CommitBooking(b) /\ rows[b] = NoRow
          \/ \E b \in Requests, from \in SUBSET Active, to \in Statuses : Transition(b, from, to)
      BY <2>2, <2>7, WhatChangesTheTable
    <3> QED
      BY <1>1, <2>1, <2>5, <3>1
  <2> QED
    BY <2>6, <2>7
<1> QED
  BY <1>1 DEF Beaten


\* What others do leaves a request's own attempt alone.
Untouched(r) ==
    /\ pc'[r] = pc[r] /\ tried'[r] = tried[r] /\ candidates'[r] = candidates[r]
    /\ picked'[r] = picked[r] /\ pending'[r] = pending[r] /\ outcome'[r] = outcome[r]

\* An attempt moves by its own request's steps, or it is cut off.
LEMMA OwnSteps ==
    ASSUME IInv, [Next]_vars, NEW r \in Requests
    PROVE  BookStep(r) \/ Crash(r) \/ Untouched(r)
<1> USE DEF IInv, TypeOK, Procs, Answer, Goto, Write, Rollback, Untouched
<1>1. ASSUME NEW q \in Requests \ {r}, BookStep(q) PROVE Untouched(r)
  <2>1. CASE Candidates(q)
    BY <2>1 DEF Candidates
  <2>2. CASE Open(q)
    BY <2>2 DEF Open, Replay
  <2>3. CASE Judge(q)
    BY <2>3 DEF Judge
  <2>4. CASE Assign(q)
    BY <2>4 DEF Assign
  <2>5. CASE Upsert(q)
    BY <2>5 DEF Upsert
  <2>6. CASE Insert(q)
    BY <2>6 DEF Insert, Replay
  <2>7. CASE Settle(q)
    BY <2>7 DEF Settle
  <2>8. CASE Refused(q)
    BY <2>8 DEF Refused
  <2>9. CASE Deadlocked(q)
    BY <2>9 DEF Deadlocked
  <2>10. CASE TruthRead(q)
    BY <2>10 DEF TruthRead
  <2>11. CASE CommitBooking(q)
    BY <2>11 DEF CommitBooking
  <2> QED
    BY <1>1, <2>1, <2>2, <2>3, <2>4, <2>5, <2>6, <2>7, <2>8, <2>9, <2>10, <2>11 DEF BookStep
<1>2. ASSUME NEW m \in Movers, MoveStep(m) PROVE Untouched(r)
  <2>0. m # r
    BY ProcsAreDisjoint
  <2>1. CASE Snapshot(m)
    BY <2>0, <2>1 DEF Snapshot
  <2>2. CASE JudgeMove(m)
    BY <2>0, <2>2 DEF JudgeMove
  <2>3. CASE Update(m)
    BY <2>0, <2>3 DEF Update
  <2>4. CASE Settle(m)
    BY <2>0, <2>4 DEF Settle
  <2>5. CASE RefusedMove(m)
    BY <2>0, <2>5 DEF RefusedMove
  <2>6. CASE DeadlockedMove(m)
    BY <2>0, <2>6 DEF DeadlockedMove
  <2>7. CASE CommitMove(m)
    BY <2>0, <2>7 DEF CommitMove
  <2> QED
    BY <1>2, <2>1, <2>2, <2>3, <2>4, <2>5, <2>6, <2>7 DEF MoveStep
<1>3. ASSUME NEW p \in Procs \ {r}, Crash(p) PROVE Untouched(r)
  BY <1>3 DEF Crash
<1>4. ASSUME NEW a \in Requests, RowStep(a) PROVE Untouched(r)
  BY <1>4 DEF RowStep, Cancel, Confirm, Conclude, Transition, requestVars
<1>5. EditShop \/ Tick \/ UNCHANGED vars => Untouched(r)
  BY DEF EditShop, Tick, vars, requestVars
<1> QED
  BY <1>1, <1>2, <1>3, <1>4, <1>5 DEF Next, Procs

\* Every chair that performs the offering is counted, once, before the loop.
LEMMA CountsStay ==
    ASSUME IInv, CountsAreWhole, [Next]_vars PROVE CountsAreWhole'
<1> SUFFICES ASSUME edits' = 0, edits = 0, UNCHANGED standing PROVE CountsAreWhole'
  BY EditsAreCounted DEF CountsAreWhole
<1>1. \A s \in Staff : standing'[s] = "BOOKABLE"
  BY DEF CountsAreWhole
<1>2. ASSUME NEW r \in Requests, pc'[r] \notin {"idle", "done"}, Ask[r].staff = Anybody
      PROVE  candidates'[r] = Cardinality(Skilled)
  <2>1. CASE Candidates(r)
    <3>1. Eligible = Skilled
      BY WeekIsTyped DEF Eligible, CountsAreWhole
    <3>2. candidates' = [candidates EXCEPT ![r] = Cardinality(Eligible)]
      BY <1>2, <2>1 DEF Candidates
    <3> QED
      BY <3>1, <3>2 DEF IInv, TypeOK
  <2>2. CASE Crash(r)
    BY <1>2, <2>2 DEF Crash, Answer, Goto, IInv, TypeOK, Procs
  <2>3. CASE Untouched(r)
    BY <1>2, <2>3 DEF Untouched, CountsAreWhole
  <2>4. CASE BookStep(r) /\ ~Candidates(r)
    <3>1. UNCHANGED candidates /\ pc[r] \notin {"idle", "done"}
      BY <2>4 DEF BookStep, Open, Judge, Assign, Upsert, Insert, Settle, Refused, Deadlocked,
         TruthRead, CommitBooking
    <3> QED
      BY <1>2, <3>1 DEF CountsAreWhole
  <2> QED
    BY <2>1, <2>2, <2>3, <2>4, OwnSteps
<1> QED
  BY <1>1, <1>2 DEF CountsAreWhole

\* pick() skips what was tried; the write is for what was picked.
LEMMA AttemptsStayFresh ==
    ASSUME IInv, AttemptsAreFresh, [Next]_vars PROVE AttemptsAreFresh'
<1> USE DEF IInv, TypeOK, Procs, Answer, Goto, Write, Rollback
<1> DEFINE Fresh(r) ==
      /\ tried[r] \subseteq Skilled
      /\ pc[r] \in {"upsert", "insert", "settle"} =>
             IF Ask[r].staff = Anybody THEN picked[r] \in Skilled \ tried[r]
             ELSE picked[r] = Ask[r].staff
      /\ pc[r] = "settle" => /\ pending[r].staff = picked[r]
                             /\ pending[r].start = Ask[r].start
<1>1. SUFFICES ASSUME NEW r \in Requests, Fresh(r) PROVE Fresh(r)'
  BY DEF AttemptsAreFresh
<1>2. CASE Candidates(r) \/ Open(r) \/ Judge(r)
  <2>1. UNCHANGED tried /\ pc'[r] \notin {"upsert", "insert", "settle"}
    BY <1>2 DEF Candidates, Open, Judge, Replay
  <2> QED
    BY <1>1, <2>1
<1>3. CASE Assign(r)
  <2>1. UNCHANGED tried /\ pc'[r] \in {"upsert", "done"}
    BY <1>3 DEF Assign
  <2>2. pc'[r] = "upsert" /\ Ask[r].staff = Anybody => picked'[r] \in Skilled \ tried[r]
    BY <1>3 DEF Assign, FirstChoice, Eligible
  <2>3. Ask[r].staff # Anybody => picked'[r] = Ask[r].staff
    BY <1>3 DEF Assign
  <2> QED
    BY <1>1, <2>1, <2>2, <2>3
<1>4. CASE Upsert(r)
  <2>1. UNCHANGED <<tried, picked>> /\ pc[r] = "upsert" /\ pc'[r] = "insert"
    BY <1>4 DEF Upsert
  <2> QED
    BY <1>1, <2>1
<1>5. CASE Insert(r)
  <2>1. UNCHANGED <<tried, picked>> /\ pc[r] = "insert" /\ pc'[r] \in {"settle", "done"}
    BY <1>5 DEF Insert, Replay
  <2>2. ASSUME pc'[r] = "settle"
        PROVE  pending'[r].staff = picked[r] /\ pending'[r].start = Ask[r].start
    <3>1. pending' = [pending EXCEPT ![r] = [id |-> r, staff |-> picked[r],
                          start |-> Ask[r].start, status |-> NewStatus(r)]]
      BY <1>5, <2>2 DEF Insert, Replay
    <3> QED
      BY <3>1
  <2> QED
    BY <1>1, <2>1, <2>2
<1>6. CASE Settle(r) \/ Deadlocked(r) \/ TruthRead(r) \/ CommitBooking(r) \/ Crash(r)
  <2>1. UNCHANGED tried /\ pc'[r] \notin {"upsert", "insert", "settle"}
    BY <1>6 DEF Settle, Deadlocked, TruthRead, CommitBooking, Crash
  <2> QED
    BY <1>1, <2>1
<1>7. CASE Refused(r)
  <2>1. pc[r] = "settle" /\ pc'[r] \in {"open", "done"}
    BY <1>7 DEF Refused
  <2>2. tried'[r] \subseteq tried[r] \cup (IF Ask[r].staff = Anybody THEN {picked[r]} ELSE {})
    BY <1>7 DEF Refused
  <2> QED
    BY <1>1, <2>1, <2>2
<1>8. CASE Untouched(r)
  BY <1>1, <1>8 DEF Untouched
<1> QED
  BY <1>2, <1>3, <1>4, <1>5, <1>6, <1>7, <1>8, OwnSteps DEF BookStep

\* The row an attempt is refused against is somebody's, on its chair and over its
\* instant.
LEMMA RefusedByAWinner ==
    ASSUME IInv, AttemptsAreFresh, NEW r \in Requests, Refused(r)
    PROVE  Beaten(r, picked[r]) /\ UNCHANGED rows
<1>1. PICK a \in TakenBy(pending[r]) : TRUE
  BY DEF Refused
<1>2. pending[r].id = r /\ pending[r].staff = picked[r] /\ pending[r].start = Ask[r].start
  BY DEF Refused, AttemptsAreFresh, IInv, Protocol, VersionsAreOpen, InsertsAreNew, Procs
<1>3. a \in Requests \ {r} /\ rows[a] # NoRow /\ SameChair(rows[a], pending[r])
  BY <1>1, <1>2 DEF TakenBy, IsActive
<1>4. rows[a].staff = picked[r] /\ Overlap(rows[a].start, Ask[r].start)
  BY <1>2, <1>3 DEF SameChair
<1> QED
  BY <1>3, <1>4 DEF Beaten, Refused

\* A refusal comes with the last chair there was.
LEMMA RefusedWithTheLast ==
    ASSUME IInv, Contest, edits = 0, NEW r \in Requests, Refused(r),
           outcome'[r] = "slot_unavailable", Ask[r].staff = Anybody
    PROVE  Skilled \subseteq tried[r] \cup {picked[r]}
<1> USE DEF IInv, TypeOK, Procs, Answer, Goto
<1>1. pc[r] = "settle" /\ outcome[r] = "none"
  BY DEF Refused, Contest, AnswersAreLast
<1>2. picked[r] \in Skilled \ tried[r] /\ tried[r] \subseteq Skilled
  BY <1>1 DEF Contest, AttemptsAreFresh
<1>3. candidates[r] = Cardinality(Skilled)
  BY <1>1 DEF Contest, CountsAreWhole
<1>4. /\ tried' = [tried EXCEPT ![r] = @ \cup {picked[r]}]
      /\ Cardinality(tried'[r]) >= candidates[r]
  BY <1>1, <1>2 DEF Refused
<1>5. tried'[r] = tried[r] \cup {picked[r]}
  BY <1>4
<1>6. IsFiniteSet(Skilled) /\ tried'[r] \subseteq Skilled
  BY <1>2, <1>5, StaffIsFinite, WeekIsTyped, FS_Subset
<1>7. /\ Cardinality(Skilled) \in Nat /\ Cardinality(tried'[r]) \in Nat
      /\ Cardinality(tried'[r]) <= Cardinality(Skilled)
      /\ Cardinality(tried'[r]) = Cardinality(Skilled) => tried'[r] = Skilled
  BY <1>6, FS_Subset, FS_CardinalityType
<1>8. tried'[r] = Skilled
  BY <1>3, <1>4, <1>7
<1> QED
  BY <1>5, <1>8

\* Whoever loses a chair, or is told that all are lost, lost it to somebody.
LEMMA LosersStayBeaten ==
    ASSUME IInv, Contest, [Next]_vars PROVE LosersHaveWinners'
<1> USE DEF IInv, TypeOK, Procs
<1>1. SUFFICES ASSUME Undisturbed', NEW r \in Requests
               PROVE  /\ \A s \in tried'[r] : Beaten(r, s)'
                      /\ outcome'[r] = "slot_unavailable" =>
                             \A s \in Skilled : Ask[r].staff \in {Anybody, s} => Beaten(r, s)'
  BY DEF LosersHaveWinners
<1>2. Undisturbed /\ edits = 0
  BY <1>1, DisturbedForGood DEF Contest, Undisturbed
<1>3. /\ \A s \in tried[r] : Beaten(r, s)
      /\ outcome[r] = "slot_unavailable" =>
             \A s \in Skilled : Ask[r].staff \in {Anybody, s} => Beaten(r, s)
      /\ tried[r] \subseteq Skilled
  BY <1>2 DEF Contest, LosersHaveWinners, AttemptsAreFresh
<1>4. \A s \in Skilled : Beaten(r, s) => Beaten(r, s)'
  BY <1>1, WinnersStay
<1>5. CASE tried'[r] = tried[r] /\ (outcome'[r] = outcome[r] \/ outcome'[r] # "slot_unavailable")
  BY <1>3, <1>4, <1>5
<1>6. CASE Refused(r)
  <2>1. Beaten(r, picked[r]) /\ Beaten(r, picked[r])'
    <3>1. Beaten(r, picked[r]) /\ UNCHANGED rows
      BY <1>6, RefusedByAWinner DEF Contest
    <3>2. Beaten(r, picked[r])'  <=> \E a \in Requests \ {r} :
             /\ rows'[a] # NoRow /\ rows'[a].staff = picked'[r]
             /\ Overlap(rows'[a].start, Ask[r].start)
      BY DEF Beaten
    <3> QED
      BY <1>6, <3>1, <3>2 DEF Beaten, Refused
  <2>2. tried'[r] \subseteq tried[r] \cup {picked[r]} /\ picked' = picked
    BY <1>6 DEF Refused
  <2>3. picked[r] \in Skilled \/ picked[r] = Ask[r].staff
    BY <1>6 DEF Refused, Contest, AttemptsAreFresh
  <2>4. ASSUME NEW s \in tried'[r] PROVE Beaten(r, s)'
    <3>1. CASE s = picked[r]
      BY <2>1, <2>2, <3>1 DEF Beaten
    <3>2. CASE s # picked[r]
      BY <1>3, <1>4, <2>2, <3>2
    <3> QED
      BY <3>1, <3>2
  <2>5. ASSUME outcome'[r] = "slot_unavailable", NEW s \in Skilled, Ask[r].staff \in {Anybody, s}
        PROVE  Beaten(r, s)'
    <3>1. CASE s = picked[r]
      BY <2>1, <2>2, <3>1 DEF Beaten
    <3>2. CASE s # picked[r]
      <4>1. Ask[r].staff = Anybody
        BY <1>6, <2>5, <3>2, AnyIsNobody DEF Refused, Contest, AttemptsAreFresh
      <4>2. s \in tried[r]
        BY <1>2, <1>6, <2>5, <3>2, <4>1, RefusedWithTheLast
      <4> QED
        BY <1>3, <1>4, <4>2
    <3> QED
      BY <3>1, <3>2
  <2> QED
    BY <2>4, <2>5
<1>7. CASE TruthRead(r)
  <2>1. UNCHANGED <<tried, rows>>
    BY <1>7 DEF TruthRead
  <2>2. ASSUME outcome'[r] = "slot_unavailable", NEW s \in Skilled, Ask[r].staff \in {Anybody, s}
        PROVE  Beaten(r, s)
    <3>1. pc[r] = "truth" /\ outcome[r] = "none"
      BY <1>7 DEF TruthRead, Contest, AnswersAreLast
    <3>2. EveryChairIsTaken(r)
      BY <1>7, <2>2, <3>1 DEF TruthRead, Answer
    <3>3. s \in Eligible
      BY <1>2, <2>2, WeekIsTyped DEF Contest, CountsAreWhole, Eligible
    <3>4. PICK a \in Requests : IsActive(a) /\ rows[a].staff = s
                                /\ Overlap(rows[a].start, Ask[r].start)
      BY <2>2, <3>2, <3>3 DEF EveryChairIsTaken
    <3>5. rows[r] = NoRow
      BY <3>1 DEF Protocol, InsertsAreNew
    <3> QED
      BY <3>4, <3>5 DEF Beaten, IsActive
  <2> QED
    BY <1>3, <1>4, <2>1, <2>2
<1>8. CASE BookStep(r) /\ ~Refused(r) /\ ~TruthRead(r)
  <2>1. UNCHANGED tried
    BY <1>8 DEF BookStep, Candidates, Open, Judge, Assign, Upsert, Insert, Settle, Deadlocked,
       CommitBooking
  <2>2. outcome'[r] = outcome[r] \/ outcome'[r] # "slot_unavailable"
    BY <1>8 DEF BookStep, Candidates, Open, Judge, Assign, Upsert, Insert, Settle, Deadlocked,
       CommitBooking, Answer, Replay
  <2> QED
    BY <1>5, <2>1, <2>2
<1>9. CASE Crash(r)
  BY <1>5, <1>9 DEF Crash, Answer
<1>10. CASE Untouched(r)
  BY <1>5, <1>10 DEF Untouched
<1> QED
  BY <1>6, <1>7, <1>8, <1>9, <1>10, OwnSteps

\* Before anybody asked, nobody lost.
LEMMA ContestBegins == Init => Contest
  BY WeekIsTyped DEF Init, Contest, AnswersAreLast, AttemptsAreFresh, CountsAreWhole,
     LosersHaveWinners, Procs

\* Every step keeps the contest fair.
LEMMA ContestGoesOn == IInv /\ Contest /\ [Next]_vars => Contest'
  BY AnswersStand, AttemptsStayFresh, CountsStay, LosersStayBeaten DEF Contest

\* Nobody is told a slot is gone that nobody got: a chair is given up only for a
\* committed row over the asked instant, the loop ends when each was given up, and
\* freeStaffCount sees the same rows.
THEOREM RefusalsHaveWinners == Spec => []RefusalHasAWinner
<1>1. Contest => RefusalHasAWinner
  BY DEF Contest, LosersHaveWinners, Undisturbed, RefusalHasAWinner, Beaten
<1> QED
  BY <1>1, ContestBegins, ContestGoesOn, InvariantHolds, PTL DEF Spec

=============================================================================
