------------------------------ MODULE Notices ------------------------------
(***************************************************************************)
(* What an appointment's changes owe the outside world: it lies between    *)
(* the diary and the outbox (BookingNotifications and its callers).        *)
(*                                                                         *)
(* The diary and the postbox are taken as they are promised: a step here   *)
(* is a step of Diary, a step of Postbox, or one of each in a single       *)
(* transaction.  A row of the outbox is named by its dedupe key, which is  *)
(* the appointment, the kind and the instant the message is owed for.      *)
(*                                                                         *)
(* The customer's own changes run in two transactions: the visit that      *)
(* judges the deadline and tells the provider, and inside it the move.     *)
(***************************************************************************)
EXTENDS Appointments

CONSTANTS
    Appts,      \* appointments
    Before,     \* how long ahead reminders are owed: DAY_BEFORE, HOURS_BEFORE
    Notice,     \* the provider's notice period, minCancellationNotice
    Reachable,  \* whether the provider published an address for its notices
    NoKey,
    MaxMoves,   \* bound: times appointments are moved
    MaxClaims,  \* bound: messages the worker takes up
    MaxReached, \* bound: times a message may reach its recipient
    MaxCrashes, \* bound: visits cut off between their two commits
    LastTick    \* bound: how far the clock runs

ASSUME BeforeIsNatural == Before \subseteq Nat \ {0} /\ Notice \in Nat
ASSUME ReachableIsBoolean == Reachable \in BOOLEAN
ASSUME NoticesAreBounded == {MaxMoves, MaxClaims, MaxReached, MaxCrashes, LastTick} \subseteq Nat

VARIABLES
    diary,      \* Appts -> Row or NoRow
    fate,       \* Letters -> none, owed, sent, dead, withdrawn
    reached,    \* Letters -> how often the recipient got it
    late,       \* letters released under a worker still at them
    claimed,    \* letters a worker has ever had in its hands
    inTime,     \* appointments a customer's visit found before the deadline
    unsaid,     \* notices a visit has yet to plan: its move is committed
    now,
    moves, crashes  \* spent bounds

visitVars == <<inTime, unsaid>>
bounds == <<moves, crashes>>
boxVars == <<fate, reached, late>>
vars == <<diary, boxVars, claimed, visitVars, bounds, now>>

Kinds == {"BOOKING_CONFIRMATION", "BOOKING_ACCEPTED", "BOOKING_NOTICE", "REMINDER",
          "CANCELLATION", "RESCHEDULE", "CANCELLATION_NOTICE", "RESCHEDULE_NOTICE"}
Letters == [appt : Appts, kind : Kinds, at : Times]
Letter(a, kind, at) == [appt |-> a, kind |-> kind, at |-> at]

Book == INSTANCE Diary WITH Entries <- Appts, KeyOf <- [a \in Appts |-> NoKey]
Box == INSTANCE Postbox

-----------------------------------------------------------------------------
(* What is owed.                                                           *)

\* noticeDestination: nothing is planned for a provider nobody can reach.
ToProvider(letter) == IF Reachable THEN {letter} ELSE {}

\* Mutant: a reminder whose hour has come is planned all the same.
RemindersAllTheSame(a, start) ==
    {Letter(a, "REMINDER", IF start > b THEN start - b ELSE 0) : b \in Before}

\* reminder(): owed only where its hour is still ahead.
Reminders(a, start) ==
    {Letter(a, "REMINDER", start - b) : b \in {b \in Before : start > now + b}}

\* planFor.
ForBooking(a, start) ==
    {Letter(a, "BOOKING_CONFIRMATION", start)} \cup Reminders(a, start)
    \cup ToProvider(Letter(a, "BOOKING_NOTICE", start))

\* ON CONFLICT (dedupe_key) DO NOTHING.
Fresh(letters) == {l \in letters : fate[l] = "none"}

\* Mutant: only the reminders are taken to be obsolete.
PendingReminders(a) ==
    {l \in Letters : l.appt = a /\ l.kind = "REMINDER" /\ fate[l] = "owed"}

Pending(a) == {l \in Letters : l.appt = a /\ fate[l] = "owed"}

\* cancelPending retracts every row that is PENDING.  One a worker has had may be
\* in its hands, SENDING, when the statement looks.
Retracted(a) == {Pending(a) \ kept : kept \in SUBSET (Pending(a) \cap claimed)}

\* Mutant: the withdrawal comes after the planning and takes the new rows too.
PostThenRetract(a, planned) ==
    /\ fate' = [l \in Letters |-> IF l \in Fresh(planned) \cup Pending(a) THEN "withdrawn"
                                  ELSE fate[l]]
    /\ UNCHANGED <<reached, late>>

\* cancelPending, then plan.
RetractThenPost(a, planned) ==
    \E withdrawn \in Retracted(a) : Box!Write(Fresh(planned), withdrawn)

-----------------------------------------------------------------------------
(* The provider's side, and every booking.                                 *)

Take(a, staff, start, status) ==
    /\ Book!Take(a, staff, start, status)
    /\ Box!Write(Fresh(ForBooking(a, start)), {})
    /\ UNCHANGED <<claimed, visitVars, bounds, now>>

Confirm(a) ==
    /\ diary[a] # NoRow /\ diary[a].status = "PENDING"
    /\ Book!Close(a, "CONFIRMED")
    /\ Box!Write(Fresh({Letter(a, "BOOKING_ACCEPTED", diary[a].start)}), {})
    /\ UNCHANGED <<claimed, visitVars, bounds, now>>

Conclude(a, to) ==
    /\ diary[a] # NoRow /\ diary[a].start <= now
    /\ Book!Close(a, to)
    /\ UNCHANGED <<boxVars, claimed, visitVars, bounds, now>>

Cancel(a) ==
    /\ Book!Close(a, "CANCELLED")
    /\ RetractThenPost(a, {Letter(a, "CANCELLATION", diary[a].start)})
    /\ UNCHANGED <<claimed, visitVars, bounds, now>>

\* RescheduleAttempt.once: the new place is admitted only ahead of the clock.
Reschedule(a, staff, start) ==
    /\ start >= now
    /\ Book!Move(a, staff, start)
    /\ RetractThenPost(a, {Letter(a, "RESCHEDULE", start)})
    /\ moves < MaxMoves /\ moves' = moves + 1
    /\ UNCHANGED <<claimed, crashes, now>>

ProviderMoves(a, staff, start) == Reschedule(a, staff, start) /\ UNCHANGED visitVars

-----------------------------------------------------------------------------
(* The customer's visit.                                                   *)

\* requireInTime, on a snapshot of the appointment.
Look(a) ==
    /\ a \notin inTime
    /\ diary[a] # NoRow /\ now + Notice < diary[a].start
    /\ inTime' = inTime \cup {a}
    /\ UNCHANGED <<diary, boxVars, claimed, unsaid, bounds, now>>

\* cancel: one transaction, the provider's notice included.
CustomerCancels(a) ==
    /\ a \in inTime
    /\ Book!Close(a, "CANCELLED")
    /\ RetractThenPost(a, {Letter(a, "CANCELLATION", diary[a].start)} \cup
                          ToProvider(Letter(a, "CANCELLATION_NOTICE", diary[a].start)))
    /\ inTime' = inTime \ {a}
    /\ UNCHANGED <<claimed, unsaid, bounds, now>>

\* reschedule: the move commits by itself, and the visit has its notice to plan.
CustomerMoves(a, start) ==
    /\ a \in inTime /\ diary[a] # NoRow
    /\ Reschedule(a, diary[a].staff, start)
    /\ inTime' = inTime \ {a}
    /\ unsaid' = unsaid \cup ToProvider(Letter(a, "RESCHEDULE_NOTICE", start))

\* The visit's own commit.
Tell(letter) ==
    /\ letter \in unsaid
    /\ Box!Write(Fresh({letter}), {})
    /\ unsaid' = unsaid \ {letter}
    /\ UNCHANGED <<diary, claimed, inTime, bounds, now>>

\* Refused, or cut off before anything was written.
Leave(a) ==
    /\ a \in inTime
    /\ inTime' = inTime \ {a}
    /\ UNCHANGED <<diary, boxVars, claimed, unsaid, bounds, now>>

\* Cut off between the two commits.
Crash(letter) ==
    /\ crashes < MaxCrashes /\ letter \in unsaid
    /\ crashes' = crashes + 1
    /\ unsaid' = unsaid \ {letter}
    /\ UNCHANGED <<diary, boxVars, claimed, inTime, moves, now>>

-----------------------------------------------------------------------------
(* The worker, as the postbox promises it, and time.                       *)

\* scheduled_at: a reminder waits for its hour, everything else is owed at once.
Claim(l) ==
    /\ fate[l] = "owed" /\ l \notin claimed
    /\ Cardinality(claimed) < MaxClaims
    /\ l.kind = "REMINDER" => l.at <= now
    /\ claimed' = claimed \cup {l}
    /\ UNCHANGED <<diary, boxVars, visitVars, bounds, now>>

\* A batch that takes longer than its lease loses what it still holds to another.
Overrun(l) ==
    /\ l \in claimed \ late
    /\ Box!Overrun({l})
    /\ UNCHANGED <<diary, claimed, visitVars, bounds, now>>

Deliver(l) ==
    /\ l \in claimed
    /\ \/ /\ reached[l] < MaxReached
          /\ Box!Reach(l) \/ \E how \in {"dead", "owed"} : Box!ReachUnheard(l, how)
       \/ \E how \in {"sent", "dead", "owed"} : Box!Resolve(l, how)
    /\ UNCHANGED <<diary, claimed, visitVars, bounds, now>>

Tick ==
    /\ now < LastTick
    /\ now' = now + 1
    /\ UNCHANGED <<diary, boxVars, claimed, visitVars, bounds>>

Init ==
    /\ Book!Init
    /\ Box!Init
    /\ claimed = {}
    /\ inTime = {}
    /\ unsaid = {}
    /\ now = 0
    /\ moves = 0 /\ crashes = 0

ProviderStep(a) ==
    \/ Confirm(a) \/ Cancel(a)
    \/ \E to \in {"COMPLETED", "NO_SHOW"} : Conclude(a, to)
    \/ \E staff \in Staff, start \in Times :
           \/ ProviderMoves(a, staff, start)
           \/ \E status \in Active : Take(a, staff, start, status)

CustomerStep(a) ==
    \/ Look(a) \/ CustomerCancels(a) \/ Leave(a)
    \/ \E start \in Times : CustomerMoves(a, start)

Next ==
    \/ \E a \in Appts : ProviderStep(a) \/ CustomerStep(a)
    \/ \E l \in unsaid : Tell(l) \/ Crash(l)
    \/ \E l \in Letters : Claim(l)
    \/ \E l \in claimed : Overrun(l) \/ Deliver(l)
    \/ Tick

Spec == Init /\ [][Next]_vars

-----------------------------------------------------------------------------
(* Properties.                                                             *)

\* Every column keeps its type.
TypeOK ==
    /\ diary \in [Appts -> Row \cup {NoRow}]
    /\ fate \in [Letters -> {"none", "owed", "sent", "dead", "withdrawn"}]
    /\ reached \in [Letters -> Nat]
    /\ claimed \subseteq Letters /\ late \subseteq claimed
    /\ inTime \subseteq Appts
    /\ unsaid \subseteq Letters
    /\ now \in Nat /\ moves \in Nat /\ crashes \in Nat

\* A message comes to be owed once, and a reminder only while its hour is ahead:
\* moving away and back, or answering a replay, revives nothing that was sent, given
\* up or withdrawn (dedupe_key).  Only a row that was late may be owed again, by its
\* first worker's scheduleRetry.
OwedOnceAndAhead ==
    [][\A l \in Letters : fate'[l] = "owed" /\ fate[l] # "owed" =>
          \/ fate[l] = "none" /\ (l.kind = "REMINDER" => l.at > now)
          \/ l \in late]_vars

\* A cancelled appointment's customer is told of it: the message is owed or has
\* met its end, and no withdrawal, the cancellation's own included, takes it back.
CancellationIsOwed ==
    \A a \in Appts : diary[a] # NoRow /\ diary[a].status = "CANCELLED" =>
        fate[Letter(a, "CANCELLATION", diary[a].start)] \in {"owed", "sent", "dead"}

\* A message that says what is no longer so: an appointment that was called off,
\* or a time it has moved from.
Obsolete(l) ==
    LET row == diary[l.appt] IN
    /\ row # NoRow
    /\ l.kind \in {"BOOKING_CONFIRMATION", "BOOKING_ACCEPTED", "BOOKING_NOTICE",
                   "REMINDER", "RESCHEDULE"}
    /\ \/ row.status = "CANCELLED"
       \/ row.start \notin IF l.kind = "REMINDER" THEN {l.at + b : b \in Before} ELSE {l.at}

\* Nothing obsolete waits to be sent, but what a worker already had in its hands
\* when the appointment changed (cancelPending: "may already have reached the
\* customer").
ObsoleteWasClaimed ==
    \A l \in Letters : fate[l] = "owed" /\ Obsolete(l) => l \in claimed

\* A standing appointment's reminders are owed, whatever moved it.  (Rescheduling:
\* "the ones for the new time have never been planned.  Both in this transaction".)
RemindersFollowTheMove ==
    \A a \in Appts : diary[a] # NoRow /\ diary[a].status \in Active =>
        \A l \in Reminders(a, diary[a].start) : fate[l] \in {"owed", "sent", "dead"}

=============================================================================
