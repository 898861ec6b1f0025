------------------------------- MODULE Booking -------------------------------
(***************************************************************************)
(* The booking component: BookAppointmentService and its attempts, the     *)
(* rescheduling attempts, cancellation and the other status changes, run   *)
(* by concurrent requests against the appointments table of V009 at READ   *)
(* COMMITTED.                                                              *)
(*                                                                         *)
(* A request is a process.  What it reads, it reads from committed rows;   *)
(* what it writes is a pending version nobody else reads, until it         *)
(* commits.  PostgreSQL puts the version into the index BEFORE it looks    *)
(* for a conflicting one, so two rivals can each find the other in flight: *)
(* that wait cycle is where 40P01 comes from, and a committed rival is     *)
(* where 23P01 comes from.  The two exceptions drive the retry loop.       *)
(***************************************************************************)
EXTENDS Appointments

CONSTANTS
    Requests,   \* booking requests; each inserts at most one row, named after it
    Movers,     \* rescheduling requests
    Skilled,    \* the chairs that perform the offering (staff_service_offerings)
    Customers,  \* telephone numbers
    Keys,       \* idempotency keys
    NoKey,      \* a request that carries none
    Anybody,        \* no chair named by the client
    Ask,        \* Requests -> the command the client sent
    Plan,       \* Movers -> the move the provider or the customer asked for
    Week,       \* Staff -> the starts the chair's own hours admit, to begin with
    Lead,       \* minLeadTime of the booking policy, in steps
    MaxDeadlockRetries,     \* MAX_DEADLOCK_RETRIES
    TruthReads,             \* TRUTH_READS
    MaxEdits,   \* bound: changes the provider makes to its own settings
    MaxCrashes, \* bound: requests cut off in the middle
    LastTick    \* bound: how far the clock runs

Procs == Requests \cup Movers

Command == [staff : Staff \cup {Anybody}, start : Times, customer : Customers,
            key : Keys \cup {NoKey}, hash : Nat, source : {"PUBLIC", "DASHBOARD"}]
\* What a transaction has written of a row and not committed.
Version == [id : Requests, staff : Staff, start : Times, status : Active]
Move == [row : Requests, staff : Staff \cup {Anybody}, start : Times]

ASSUME ProcsAreDisjoint == Requests \cap Movers = {}
ASSUME AskIsTyped == Ask \in [Requests -> Command]
ASSUME PlanIsTyped == Plan \in [Movers -> Move]
ASSUME AnyIsNobody == Anybody \notin Staff
ASSUME BoundsAreNatural ==
    {Lead, MaxDeadlockRetries, TruthReads, MaxEdits, MaxCrashes} \subseteq Nat
ASSUME ClockStaysOnGrid == LastTick \in Times
ASSUME NoRowIsNoVersion == NoRow \notin Version
ASSUME WeekIsTyped == Week \in [Staff -> SUBSET Times] /\ Skilled \subseteq Staff

VARIABLES
    rows,       \* committed appointments: Requests -> Row or NoRow
    pending,    \* the version a transaction has written and not committed
    pc,         \* where each process is in its handler
    tried,      \* BookAppointmentService.book: chairs already found busy
    candidates, \*   ... its candidateCount
    deadlocks,  \*   ... its deadlocks counter, or the movers' attempt counter
    reads,      \*   ... truth reads made by exhausted()
    picked,     \* the chair this attempt is for
    outcome,    \* what the caller was answered
    standing,   \* provider_staff: BOOKABLE, HIDDEN (not bookable), DISABLED
    hours,      \* the starts each chair's availability admits
    offered,    \* service_offerings.active
    autoConfirm,\* providers.auto_confirm
    barred,     \* customers.blocked
    now,
    edits, crashes  \* spent bounds

requestVars == <<pc, tried, candidates, deadlocks, reads, picked, outcome>>
shopVars == <<standing, hours, offered, autoConfirm, barred, edits>>
vars == <<rows, pending, requestVars, shopVars, now, crashes>>

-----------------------------------------------------------------------------
(* What a statement sees.                                                  *)

IsActive(a) == rows[a] # NoRow /\ rows[a].status \in Active

\* A version on its way: the row's own lock is held until its writer ends.
Writing(q, a) == pending[q] # NoRow /\ pending[q].id = a

Locked(a) == \E q \in Movers : Writing(q, a)

\* BookAppointmentAttempt keeps the customer's row locked from the upsert on.
CustomerLocked(c) ==
    \E q \in Requests : pc[q] \in {"insert", "settle", "commit"} /\ Ask[q].customer = c

\* SELECT ... WHERE s.bookable AND s.status = 'ACTIVE', joined to competence.
Eligible == {s \in Skilled : standing[s] = "BOOKABLE"}

Load(s) == Cardinality({a \in Requests : IsActive(a) /\ rows[a].staff = s})

\* isWithinAvailability for one chair.  What the chair's hours admit is Week's
\* business here; SlotCalculator computes it.
Admits(s, start) == start \in hours[s] /\ start >= now + Lead

\* Mutant: a UNIQUE (staff_id, starts_at), which half-overlapping slots pass.
TakenAtTheSameStart(v) ==
    {a \in Requests \ {v.id} : /\ IsActive(a) /\ ~Locked(a)
                              /\ rows[a].staff = v.staff /\ rows[a].start = v.start}

\* A committed, settled row the exclusion constraint refuses version v against.
TakenBy(v) ==
    {a \in Requests \ {v.id} : IsActive(a) /\ ~Locked(a) /\ SameChair(rows[a], v)}

\* Transactions in flight that the check for p's version has to wait for: their
\* new version collides with it, or the old one they are replacing does.
Blockers(p) ==
    {q \in Procs \ {p} :
        /\ pending[q] # NoRow
        /\ pending[q].id # pending[p].id
        /\ \/ SameChair(pending[q], pending[p])
           \/ q \in Movers /\ SameChair(rows[pending[q].id], pending[p])}

\* deadlock_timeout has passed and the lock graph has a cycle through p.
InWaitCycle(p) ==
    LET waiting == {q \in Procs : pc[q] = "settle"}
    IN  \E n \in 2 .. Cardinality(waiting) : \E ring \in [1 .. n -> waiting] :
            /\ ring[1] = p
            /\ \A i \in 1 .. n : ring[(i % n) + 1] \in Blockers(ring[i])

-----------------------------------------------------------------------------
(* Steps of a process, and how its transaction ends.                       *)

Goto(p, label) == pc' = [pc EXCEPT ![p] = label]
Answer(p, what) == Goto(p, "done") /\ outcome' = [outcome EXCEPT ![p] = what]
Write(p, v) == pending' = [pending EXCEPT ![p] = v]

Rollback(p) == Write(p, NoRow)

\* book(): named -> one candidate and no query; else the eligible list's length.
Candidates(r) ==
    /\ pc[r] = "idle"
    /\ IF Ask[r].staff # Anybody
       THEN /\ candidates' = [candidates EXCEPT ![r] = 1]
            /\ Goto(r, "open") /\ UNCHANGED outcome
       ELSE /\ candidates' = [candidates EXCEPT ![r] = Cardinality(Eligible)]
            /\ IF ~offered THEN Answer(r, "unknown_offering")
               ELSE IF Eligible = {} THEN Answer(r, "no_eligible_staff")
               ELSE Goto(r, "open") /\ UNCHANGED outcome
    /\ UNCHANGED <<rows, pending, tried, deadlocks, reads, picked, shopVars, now, crashes>>

\* Mutant: the replay is looked for among the appointments still standing.
ReplaysOfTheLiving(r) ==
    {a \in Requests : IsActive(a) /\ Ask[r].key # NoKey /\ Ask[a].key = Ask[r].key}

\* The rows a key already names, whatever became of them.
Replays(r) ==
    {a \in Requests : rows[a] # NoRow /\ Ask[r].key # NoKey /\ Ask[a].key = Ask[r].key}
Replay(r) ==
    Answer(r, IF \E a \in Replays(r) : Ask[a].hash = Ask[r].hash
              THEN "replayed" ELSE "key_reused")

\* once(): the offering, then the replay, before any rule is applied.
Open(r) ==
    /\ pc[r] = "open"
    /\ IF ~offered THEN Answer(r, "unknown_offering")
       ELSE IF Replays(r) # {} THEN Replay(r)
       ELSE Goto(r, "judge") /\ UNCHANGED outcome
    /\ UNCHANGED <<rows, pending, tried, candidates, deadlocks, reads, picked,
                   shopVars, now, crashes>>

\* isWithinAvailability: the named chair, or ANY bookable one.
WithinAvailability(r) ==
    IF Ask[r].staff # Anybody THEN Admits(Ask[r].staff, Ask[r].start)
    ELSE \E s \in Eligible : Admits(s, Ask[r].start)

Published(r) == Ask[r].source = "PUBLIC"    \* honours blocking and availability

Judge(r) ==
    /\ pc[r] = "judge"
    /\ IF Published(r) /\ Ask[r].customer \in barred THEN Answer(r, "customer_blocked")
       ELSE IF Published(r) /\ ~WithinAvailability(r) THEN Answer(r, "outside_availability")
       ELSE Goto(r, "assign") /\ UNCHANGED outcome
    /\ UNCHANGED <<rows, pending, tried, candidates, deadlocks, reads, picked,
                   shopVars, now, crashes>>

\* canBeAssigned: ACTIVE, and bookable where the page's rules apply.
Assignable(r) ==
    standing[Ask[r].staff] \in {"BOOKABLE"} \cup (IF Published(r) THEN {} ELSE {"HIDDEN"})

\* Mutant: "anybody" is stored as it was asked, not resolved to a chair.
FirstChoiceUnresolved(r) == {Ask[r].staff}

\* pick(): the first of the eligible list, least loaded first, skipping tried.
FirstChoice(r) ==
    {s \in Eligible \ tried[r] : \A t \in Eligible \ tried[r] : Load(s) <= Load(t)}

Assign(r) ==
    /\ pc[r] = "assign"
    /\ \/ /\ Ask[r].staff # Anybody
          /\ picked' = [picked EXCEPT ![r] = Ask[r].staff]
          /\ IF ~Assignable(r) THEN Answer(r, "unknown_staff")
             ELSE IF Ask[r].staff \notin Skilled THEN Answer(r, "cannot_perform")
             ELSE Goto(r, "upsert") /\ UNCHANGED outcome
       \/ /\ Ask[r].staff = Anybody
          /\ \E s \in FirstChoice(r) : picked' = [picked EXCEPT ![r] = s]
          /\ Goto(r, "upsert") /\ UNCHANGED outcome
       \/ /\ Ask[r].staff = Anybody /\ FirstChoice(r) = {}
          /\ Answer(r, "no_eligible_staff") /\ UNCHANGED picked
    /\ UNCHANGED <<rows, pending, tried, candidates, deadlocks, reads, shopVars,
                   now, crashes>>

\* upsertCustomer: ON CONFLICT DO UPDATE takes the row, and waits for it.
Upsert(r) ==
    /\ pc[r] = "upsert"
    /\ ~CustomerLocked(Ask[r].customer)
    /\ Goto(r, "insert")
    /\ UNCHANGED <<rows, pending, tried, candidates, deadlocks, reads, picked,
                   outcome, shopVars, now, crashes>>

\* The status the INSERT decides from the provider's row and the source.
NewStatus(r) == IF autoConfirm \/ ~Published(r) THEN "CONFIRMED" ELSE "PENDING"

\* A version in flight under the same key: the arbiter index waits for it.
KeyInFlight(r) ==
    /\ Ask[r].key # NoKey
    /\ \E q \in Requests \ {r} : pending[q] # NoRow /\ Ask[q].key = Ask[r].key

\* INSERT ... ON CONFLICT (provider_id, idempotency_key) DO NOTHING.
Insert(r) ==
    /\ pc[r] = "insert"
    /\ ~KeyInFlight(r)
    /\ IF Replays(r) # {} THEN Replay(r) /\ UNCHANGED pending
       ELSE /\ Write(r, [id |-> r, staff |-> picked[r], start |-> Ask[r].start,
                         status |-> NewStatus(r)])
            /\ Goto(r, "settle") /\ UNCHANGED outcome
    /\ UNCHANGED <<rows, tried, candidates, deadlocks, reads, picked, shopVars,
                   now, crashes>>

\* The exclusion check found nobody: no row, and nothing in flight.
Settle(p) ==
    /\ pc[p] = "settle"
    /\ TakenBy(pending[p]) = {} /\ Blockers(p) = {}
    /\ Goto(p, "commit")
    /\ UNCHANGED <<rows, pending, tried, candidates, deadlocks, reads, picked,
                   outcome, shopVars, now, crashes>>

\* 23P01: a named chair is the answer, a picked one sends the loop to the next.
Refused(r) ==
    /\ pc[r] = "settle" /\ TakenBy(pending[r]) # {}
    /\ Rollback(r)
    /\ IF Ask[r].staff # Anybody \/ picked[r] \in tried[r]
       THEN Answer(r, "slot_unavailable") /\ UNCHANGED tried
       ELSE /\ tried' = [tried EXCEPT ![r] = @ \cup {picked[r]}]
            /\ IF Cardinality(tried'[r]) >= candidates[r]
               THEN Answer(r, "slot_unavailable")
               ELSE Goto(r, "open") /\ UNCHANGED outcome
    /\ UNCHANGED <<rows, candidates, deadlocks, reads, picked, shopVars, now, crashes>>

\* Mutant: the loop around the attempt does not count.
DeadlockedUncounted(r) ==
    /\ pc[r] = "settle" /\ InWaitCycle(r)
    /\ Rollback(r)
    /\ Goto(r, "open")
    /\ UNCHANGED <<rows, tried, candidates, deadlocks, reads, picked, outcome,
                   shopVars, now, crashes>>

\* 40P01: the same attempt again, until the budget is spent.
Deadlocked(r) ==
    /\ pc[r] = "settle" /\ InWaitCycle(r)
    /\ Rollback(r)
    /\ deadlocks' = [deadlocks EXCEPT ![r] = @ + 1]
    /\ IF \/ deadlocks'[r] > MaxDeadlockRetries
          \/ deadlocks'[r] + Cardinality(tried[r]) >= candidates[r] + MaxDeadlockRetries
       THEN Goto(r, "truth") ELSE Goto(r, "open")
    /\ UNCHANGED <<rows, tried, candidates, reads, picked, outcome, shopVars, now, crashes>>

\* Mutant: an exhausted counter is taken for a taken slot.
EveryChairIsSaidTaken(r) == TRUE

\* freeStaffCount(...) == 0 over the committed rows.
EveryChairIsTaken(r) ==
    \A s \in Eligible : Ask[r].staff \in {Anybody, s} =>
        \E a \in Requests : IsActive(a) /\ rows[a].staff = s
                            /\ Overlap(rows[a].start, Ask[r].start)

\* exhausted(): the database's answer rather than the counter's, a few times.
TruthRead(r) ==
    /\ pc[r] = "truth"
    /\ reads' = [reads EXCEPT ![r] = @ + 1]
    /\ IF ~offered THEN Answer(r, "unknown_offering")
       ELSE IF EveryChairIsTaken(r) THEN Answer(r, "slot_unavailable")
       ELSE IF reads[r] + 1 >= TruthReads THEN Answer(r, "contended")
       ELSE UNCHANGED <<pc, outcome>>
    /\ UNCHANGED <<rows, pending, tried, candidates, deadlocks, picked, shopVars,
                   now, crashes>>

\* COMMIT, of the row and of the notifications planned beside it.
CommitBooking(r) ==
    /\ pc[r] = "commit"
    /\ rows' = [rows EXCEPT ![r] = [staff |-> pending[r].staff,
                    start |-> pending[r].start, status |-> pending[r].status]]
    /\ Rollback(r)
    /\ Answer(r, "booked")
    /\ UNCHANGED <<tried, candidates, deadlocks, reads, picked, shopVars, now, crashes>>

-----------------------------------------------------------------------------
(* RescheduleAttempt.once, and MoveAppointmentService's loop around it.    *)

\* snapshotOf: an active appointment, and the chair it is judged against.
Snapshot(m) ==
    LET a == Plan[m].row IN
    /\ pc[m] = "idle" /\ rows[a] # NoRow
    /\ picked' = [picked EXCEPT ![m] =
                     IF Plan[m].staff # Anybody THEN Plan[m].staff ELSE rows[a].staff]
    /\ IF IsActive(a) THEN Goto(m, "judge") /\ UNCHANGED outcome
       ELSE Answer(m, "invalid_transition")
    /\ UNCHANGED <<rows, pending, tried, candidates, deadlocks, reads, shopVars,
                   now, crashes>>

\* activeStaffExists (only where a chair was named), the offering, the hours.
JudgeMove(m) ==
    /\ pc[m] = "judge"
    /\ IF Plan[m].staff # Anybody /\ standing[picked[m]] = "DISABLED"
       THEN Answer(m, "unknown_staff")
       ELSE IF ~offered THEN Answer(m, "unknown_offering")
       ELSE IF ~Admits(picked[m], Plan[m].start) THEN Answer(m, "outside_availability")
       ELSE Goto(m, "update") /\ UNCHANGED outcome
    /\ UNCHANGED <<rows, pending, tried, candidates, deadlocks, reads, picked,
                   shopVars, now, crashes>>

\* Mutant: the UPDATE trusts the snapshot's status and asks for the id alone.
UpdateByIdAlone(m) ==
    LET a == Plan[m].row IN
    /\ pc[m] = "update" /\ ~Locked(a)
    /\ Write(m, [id |-> a, start |-> Plan[m].start, status |-> rows[a].status,
                 staff |-> picked[m]])
    /\ Goto(m, "settle")
    /\ UNCHANGED <<rows, tried, candidates, deadlocks, reads, picked, outcome,
                   shopVars, now, crashes>>

\* UPDATE ... WHERE id = :id AND status IN ('PENDING','CONFIRMED'): waits for
\* the row, then judges the version it finds, and keeps THAT version's chair.
Update(m) ==
    LET a == Plan[m].row IN
    /\ pc[m] = "update" /\ ~Locked(a)
    /\ IF IsActive(a)
       THEN /\ Write(m, [id |-> a, start |-> Plan[m].start, status |-> rows[a].status,
                         staff |-> IF Plan[m].staff # Anybody THEN Plan[m].staff
                                   ELSE rows[a].staff])
            /\ Goto(m, "settle") /\ UNCHANGED outcome
       ELSE Answer(m, "invalid_transition") /\ UNCHANGED pending
    /\ UNCHANGED <<rows, tried, candidates, deadlocks, reads, picked, shopVars,
                   now, crashes>>

RefusedMove(m) ==
    /\ pc[m] = "settle" /\ TakenBy(pending[m]) # {}
    /\ Rollback(m)
    /\ Answer(m, "slot_unavailable")
    /\ UNCHANGED <<rows, tried, candidates, deadlocks, reads, picked, shopVars,
                   now, crashes>>

\* 40P01, up to MAX_DEADLOCK_RETRIES times.
DeadlockedMove(m) ==
    /\ pc[m] = "settle" /\ InWaitCycle(m)
    /\ Rollback(m)
    /\ deadlocks' = [deadlocks EXCEPT ![m] = @ + 1]
    /\ IF deadlocks[m] = MaxDeadlockRetries THEN Answer(m, "contended")
       ELSE Goto(m, "idle") /\ UNCHANGED outcome
    /\ UNCHANGED <<rows, tried, candidates, reads, picked, shopVars, now, crashes>>

CommitMove(m) ==
    LET a == Plan[m].row IN
    /\ pc[m] = "commit"
    /\ rows' = [rows EXCEPT ![a] = [staff |-> pending[m].staff,
                    start |-> pending[m].start, status |-> pending[m].status]]
    /\ Rollback(m)
    /\ Answer(m, "moved")
    /\ UNCHANGED <<tried, candidates, deadlocks, reads, picked, shopVars, now, crashes>>

-----------------------------------------------------------------------------
(* The other handlers: one conditional UPDATE each, waiting for the row.   *)

Transition(a, from, to) ==
    /\ rows[a] # NoRow /\ ~Locked(a)
    /\ rows[a].status \in from
    /\ rows' = [rows EXCEPT ![a] =
           [staff |-> rows[a].staff, start |-> rows[a].start, status |-> to]]
    /\ UNCHANGED <<pending, requestVars, shopVars, now, crashes>>

\* Mutant: cancelling asks nothing of the status.
CancelWhatever(a) == Transition(a, Statuses, "CANCELLED")

Cancel(a) == Transition(a, Active, "CANCELLED")
Confirm(a) == Transition(a, {"PENDING"}, "CONFIRMED")
\* complete and markNoShow: only once the appointment has started.
Conclude(a, to) == rows[a] # NoRow /\ rows[a].start <= now /\ Transition(a, {"CONFIRMED"}, to)

\* ManageStaffService.replace: somebody bookable has to be left, and V038's
\* trigger refuses DISABLED over the appointments it can see.
Upcoming(s) == {a \in Requests : IsActive(a) /\ rows[a].staff = s /\ rows[a].start >= now}
ChangeStanding(s, to) ==
    /\ to # standing[s]
    /\ to # "BOOKABLE" => \E t \in Staff \ {s} : standing[t] = "BOOKABLE"
    /\ to = "DISABLED" => Upcoming(s) = {}
    /\ standing' = [standing EXCEPT ![s] = to]
    /\ UNCHANGED <<hours, offered, autoConfirm, barred>>

\* Availability, catalogue, policy and clientele edits, one statement each.
ChangeHours(s, to) ==
    hours' = [hours EXCEPT ![s] = to] /\ UNCHANGED <<standing, offered, autoConfirm, barred>>
ChangeOffering == offered' = ~offered /\ UNCHANGED <<standing, hours, autoConfirm, barred>>
ChangePolicy == autoConfirm' = ~autoConfirm /\ UNCHANGED <<standing, hours, offered, barred>>
SetBlocked(c, blocked) ==
    /\ barred' = IF blocked THEN barred \cup {c} ELSE barred \ {c}
    /\ UNCHANGED <<standing, hours, offered, autoConfirm>>

EditShop ==
    /\ edits < MaxEdits
    /\ edits' = edits + 1
    /\ \/ \E s \in Staff : \/ \E to \in {"BOOKABLE", "HIDDEN", "DISABLED"} : ChangeStanding(s, to)
                           \/ \E to \in {{}, Week[s]} : ChangeHours(s, to)
       \/ ChangeOffering
       \/ ChangePolicy
       \/ \E c \in Customers, blocked \in BOOLEAN : SetBlocked(c, blocked)
    /\ UNCHANGED <<rows, pending, requestVars, now, crashes>>

\* The process or its connection dies: PostgreSQL rolls the transaction back.
Crash(p) ==
    /\ crashes < MaxCrashes
    /\ pc[p] \notin {"idle", "done"}
    /\ crashes' = crashes + 1
    /\ Rollback(p)
    /\ Answer(p, "lost")
    /\ UNCHANGED <<rows, tried, candidates, deadlocks, reads, picked, shopVars, now>>

Tick ==
    /\ now < LastTick
    /\ now' = now + 1
    /\ UNCHANGED <<rows, pending, requestVars, shopVars, crashes>>

-----------------------------------------------------------------------------
Init ==
    /\ rows = [r \in Requests |-> NoRow]
    /\ pending = [p \in Procs |-> NoRow]
    /\ pc = [p \in Procs |-> "idle"]
    /\ tried = [r \in Requests |-> {}]
    /\ candidates = [r \in Requests |-> 0]
    /\ deadlocks = [p \in Procs |-> 0]
    /\ reads = [r \in Requests |-> 0]
    /\ picked = [p \in Procs |-> Anybody]
    /\ outcome = [p \in Procs |-> "none"]
    /\ standing = [s \in Staff |-> "BOOKABLE"]
    /\ hours = Week
    /\ offered = TRUE
    /\ autoConfirm = TRUE
    /\ barred = {}
    /\ now = 0
    /\ edits = 0
    /\ crashes = 0

BookStep(r) ==
    \/ Candidates(r) \/ Open(r) \/ Judge(r) \/ Assign(r) \/ Upsert(r) \/ Insert(r)
    \/ Settle(r) \/ Refused(r) \/ Deadlocked(r) \/ TruthRead(r) \/ CommitBooking(r)

MoveStep(m) ==
    \/ Snapshot(m) \/ JudgeMove(m) \/ Update(m)
    \/ Settle(m) \/ RefusedMove(m) \/ DeadlockedMove(m) \/ CommitMove(m)

RowStep(a) == Cancel(a) \/ Confirm(a) \/ \E to \in {"COMPLETED", "NO_SHOW"} : Conclude(a, to)

Next ==
    \/ \E r \in Requests : BookStep(r) \/ RowStep(r)
    \/ \E m \in Movers : MoveStep(m)
    \/ \E p \in Procs : Crash(p)
    \/ EditShop
    \/ Tick

Spec == Init /\ [][Next]_vars

\* A request that can take its next step is not starved of a thread.  Nothing
\* makes a provider, a customer or a crash act.
Fairness ==
    /\ \A r \in Requests : WF_vars(BookStep(r))
    /\ \A m \in Movers : WF_vars(MoveStep(m))

FairSpec == Spec /\ Fairness

-----------------------------------------------------------------------------
(* Properties.                                                             *)

Labels == {"idle", "open", "judge", "assign", "upsert", "insert", "update",
           "settle", "commit", "truth", "done"}
Outcomes == {"none", "booked", "replayed", "key_reused", "unknown_offering",
             "no_eligible_staff", "customer_blocked", "outside_availability",
             "unknown_staff", "cannot_perform", "slot_unavailable", "contended",
             "moved", "invalid_transition", "lost"}

\* Every variable holds a value of its column or field.
TypeOK ==
    /\ rows \in [Requests -> Row \cup {NoRow}]
    /\ pending \in [Procs -> Version \cup {NoRow}]
    /\ pc \in [Procs -> Labels]
    /\ tried \in [Requests -> SUBSET Staff]
    /\ candidates \in [Requests -> Nat]
    /\ deadlocks \in [Procs -> Nat]
    /\ reads \in [Requests -> Nat]
    /\ picked \in [Procs -> Staff \cup {Anybody}]
    /\ outcome \in [Procs -> Outcomes]
    /\ standing \in [Staff -> {"BOOKABLE", "HIDDEN", "DISABLED"}]
    /\ hours \in [Staff -> SUBSET Times]
    /\ offered \in BOOLEAN /\ autoConfirm \in BOOLEAN
    /\ barred \subseteq Customers
    /\ now \in Times /\ edits \in Nat /\ crashes \in Nat

\* Two active appointments never share a chair and an instant, whatever raced
\* to make or to move them (ADR-0003; the no_double_booking constraint).
NoDoubleBooking ==
    \A a, b \in Requests :
        a # b /\ IsActive(a) /\ IsActive(b) => ~SameChair(rows[a], rows[b])

\* One idempotency key makes at most one appointment, however often and however
\* concurrently the client retries.
OneBookingPerKey ==
    \A a, b \in Requests :
        /\ a # b /\ rows[a] # NoRow /\ rows[b] # NoRow
        /\ Ask[a].key # NoKey
        => Ask[a].key # Ask[b].key

\* Rivals never refuse each other: whoever was told the slot is gone lost every
\* chair they could have had to an appointment somebody did get there, whatever
\* deadlocked, died or was cancelled meanwhile.  Stated where nothing was moved
\* away and the shop is as it was: the chairs are counted once (candidateCount), so
\* one hidden at that moment and shown again later is not counted.
RefusalHasAWinner ==
    edits = 0 /\ (\A m \in Movers : outcome[m] # "moved")
    => \A r \in Requests, s \in Skilled :
           outcome[r] = "slot_unavailable" /\ Ask[r].staff \in {Anybody, s} =>
               \E a \in Requests \ {r} :
                   /\ rows[a] # NoRow /\ rows[a].staff = s
                   /\ Overlap(rows[a].start, Ask[r].start)

\* A closed appointment stays exactly as it was closed: no move, confirmation or
\* conclusion that was already under way lands on it afterwards.
ClosedStaysClosed ==
    [][\A a \in Requests :
           rows[a] # NoRow /\ rows[a].status \notin Active => rows'[a] = rows[a]]_vars

\* Every caller is answered: no wait for a customer's row, for a key, for an
\* appointment's row or for a rival's version lasts, and no retry loop runs on.
Answered == \A p \in Procs : (pc[p] # "idle") ~> (pc[p] = "done")

\* The detailed component implements the diary its callers may rely on.
Promise == INSTANCE Diary WITH
    Entries <- Requests, KeyOf <- [r \in Requests |-> Ask[r].key], diary <- rows
ImplementsDiary == Promise!Spec

=============================================================================
