------------------------------- MODULE Outbox -------------------------------
(***************************************************************************)
(* The notifications table of V010 and the workers that drain it           *)
(* (NotificationDrainJob, NotificationOutboxSqlRepository).                *)
(*                                                                         *)
(* The backend plans rows and withdraws them.  Each worker claims a batch  *)
(* in one committed statement, works through it in memory, row by row, and *)
(* records what became of each row with a statement that names only its    *)
(* id.  Nothing but the age of a claim says that its worker is gone, so    *)
(* time matters: it is counted in ticks, and every age saturates where the *)
(* code stops telling ages apart.  A batch may take longer than its lease  *)
(* (50 sends of up to 15 s against 5 minutes): late is a history variable  *)
(* that counts the leases which ran out under a worker still at work.      *)
(***************************************************************************)
EXTENDS Naturals, FiniteSets

CONSTANTS
    Notes,          \* rows the backend may plan
    Addressed,      \* those with an address a transport can use
    Workers,
    NoNote,
    Batch,          \* BATCH, rows per claim
    Lease,          \* LEASE, in ticks
    SendLimit,      \* ticks one row's dispatch may last: the channel's timeout
    Ahead,          \* ticks a row may be planned ahead of its hour
    Delays,         \* ticks a retry may be put off
    MaxAttempts,    \* notifications.max_attempts
    MaxAborts,      \* bound: batches lost to a crash or an unexpected exception
    MaxLostAnswers  \* bound: messages taken by a channel that never said so

ASSUME NotesAreFinite == IsFiniteSet(Notes) /\ Addressed \subseteq Notes
ASSUME WorkersAreFinite == IsFiniteSet(Workers)
ASSUME NoNoteIsNone == NoNote \notin Notes
ASSUME LimitsArePositive == {Batch, Lease, SendLimit, MaxAttempts} \subseteq Nat \ {0}
ASSUME DelaysAreTicks == Ahead \subseteq Nat /\ Delays \subseteq Nat \ {0}
ASSUME FaultsAreBounded == MaxAborts \in Nat /\ MaxLostAnswers \in Nat

VARIABLES
    status,     \* notifications.status, or NONE where no row was planned
    attempts,   \* notifications.attempts
    wait,       \* ticks until scheduled_at and retry_after_at have both passed
    held,       \* ticks since updated_at, while the row is SENDING
    batch,      \* Workers -> rows claimed and not yet worked through
    acked,      \* Workers -> the row a channel has taken and nobody recorded yet
    spent,      \* Workers -> ticks the present row has taken
    delivered,  \* how often the recipient got the message
    late,       \* how often a row was released under a worker still at work
    aborts, lostAnswers \* spent bounds

tableVars == <<status, attempts, wait, held>>
workerVars == <<batch, acked, spent>>
vars == <<tableVars, workerVars, delivered, late, aborts, lostAnswers>>

Final == {"SENT", "DEAD", "CANCELLED"}

-----------------------------------------------------------------------------
(* The backend's statements, at the commit of the transaction they are in. *)

\* Mutant: the withdrawal takes a row a worker is sending.
WithdrawnEvenIfHeld(n) == status[n] \in {"PENDING", "SENDING"}

\* cancelPending, PENDING only: a SENDING row may already have been read.
Retractable(n) == status[n] = "PENDING"

\* plan: ON CONFLICT (dedupe_key) DO NOTHING, so only a new key makes a row.
Fresh(n) == status[n] = "NONE"

\* cancelPending, then plan: a key that is withdrawn is not planned again.
Commit(withdrawn, planned, ahead) ==
    /\ status' = [n \in Notes |->
           IF n \in planned /\ Fresh(n) THEN "PENDING"
           ELSE IF n \in withdrawn /\ Retractable(n) THEN "CANCELLED"
           ELSE status[n]]
    /\ wait' = [n \in Notes |-> IF n \in planned /\ Fresh(n) THEN ahead[n] ELSE wait[n]]
    /\ UNCHANGED <<attempts, held, workerVars, delivered, late, aborts, lostAnswers>>

-----------------------------------------------------------------------------
(* The worker.                                                             *)

\* Mutant: the claim asks when a row is due and not whether somebody has it.
DueOrHeld(n) == status[n] \in {"PENDING", "SENDING"} /\ wait[n] = 0

Due(n) == status[n] = "PENDING" /\ wait[n] = 0

\* claimDue: one statement, committed before anything is sent.  Which due rows
\* the limit leaves out, or SKIP LOCKED passes over, is left open.
Claim(w, rows) ==
    /\ batch[w] = {}
    /\ rows # {} /\ Cardinality(rows) <= Batch
    /\ status' = [n \in Notes |-> IF n \in rows THEN "SENDING" ELSE status[n]]
    /\ held' = [n \in Notes |-> IF n \in rows THEN 0 ELSE held[n]]
    /\ batch' = [batch EXCEPT ![w] = rows]
    /\ spent' = [spent EXCEPT ![w] = 0]
    /\ UNCHANGED <<attempts, wait, acked, delivered, late, aborts, lostAnswers>>

\* The row is dealt with; the loop goes on to the next.
Finish(w, n) ==
    /\ batch' = [batch EXCEPT ![w] = @ \ {n}]
    /\ acked' = [acked EXCEPT ![w] = NoNote]
    /\ spent' = [spent EXCEPT ![w] = 0]

\* The channel acknowledges the message.
Send(w, n) ==
    /\ acked[w] = NoNote /\ n \in batch[w] \cap Addressed
    /\ acked' = [acked EXCEPT ![w] = n]
    /\ delivered' = [delivered EXCEPT ![n] = @ + 1]
    /\ UNCHANGED <<tableVars, batch, spent, late, aborts, lostAnswers>>

\* markSent, by id and nothing else.
MarkSent(w) ==
    LET n == acked[w] IN
    /\ n # NoNote
    /\ status' = [status EXCEPT ![n] = "SENT"]
    /\ held' = [held EXCEPT ![n] = 0]
    /\ Finish(w, n)
    /\ UNCHANGED <<attempts, wait, delivered, late, aborts, lostAnswers>>

\* markDead: no transport has an address for this row.
MarkDead(w, n) ==
    /\ acked[w] = NoNote /\ n \in batch[w] \ Addressed
    /\ status' = [status EXCEPT ![n] = "DEAD"]
    /\ held' = [held EXCEPT ![n] = 0]
    /\ attempts' = [attempts EXCEPT ![n] = @ + 1]
    /\ Finish(w, n)
    /\ UNCHANGED <<wait, delivered, late, aborts, lostAnswers>>

\* Mutant: the cap is compared before this attempt is counted.
SpentOneTooLate(n) == attempts[n] >= MaxAttempts

Spent(n) == attempts[n] + 1 >= MaxAttempts

\* A ChannelException, and scheduleRetry by id: again later, or never.  A
\* gateway that timed out may well have received the message.
ScheduleRetry(w, n, putOff, taken) ==
    /\ acked[w] = NoNote /\ n \in batch[w] \cap Addressed
    /\ attempts' = [attempts EXCEPT ![n] = @ + 1]
    /\ status' = [status EXCEPT ![n] = IF Spent(n) THEN "DEAD" ELSE "PENDING"]
    /\ held' = [held EXCEPT ![n] = 0]
    /\ wait' = [wait EXCEPT ![n] = putOff]
    /\ IF taken
       THEN /\ lostAnswers < MaxLostAnswers
            /\ lostAnswers' = lostAnswers + 1
            /\ delivered' = [delivered EXCEPT ![n] = @ + 1]
       ELSE UNCHANGED <<lostAnswers, delivered>>
    /\ Finish(w, n)
    /\ UNCHANGED <<late, aborts>>

\* The process dies, or an exception drain() does not catch ends the batch (a
\* database that does not answer, an enum value this build has not seen): what
\* was claimed stays SENDING, and an acknowledged message stays unrecorded.
Abort(w) ==
    /\ aborts < MaxAborts /\ batch[w] # {}
    /\ aborts' = aborts + 1
    /\ batch' = [batch EXCEPT ![w] = {}]
    /\ acked' = [acked EXCEPT ![w] = NoNote]
    /\ spent' = [spent EXCEPT ![w] = 0]
    /\ UNCHANGED <<tableVars, delivered, late, lostAnswers>>

\* Mutant: the lease is measured against one send instead of the whole batch.
StaleAfterOneSend(n) == status[n] = "SENDING" /\ held[n] >= SendLimit

\* Mutant: the interval's type is inferred wrong and nothing matches.
StaleNever(n) == FALSE

Stale(n) == status[n] = "SENDING" /\ held[n] > Lease

\* The workers that mean to send a row, or are sending it.
Holders(n) == {w \in Workers : n \in batch[w]}

\* releaseStaleLeases, one statement over the table, which knows no workers.
Reap ==
    /\ \E n \in Notes : Stale(n)
    /\ status' = [n \in Notes |-> IF Stale(n) THEN "PENDING" ELSE status[n]]
    /\ held' = [n \in Notes |-> IF Stale(n) THEN 0 ELSE held[n]]
    /\ late' = [n \in Notes |-> IF Stale(n) /\ Holders(n) # {} THEN late[n] + 1 ELSE late[n]]
    /\ UNCHANGED <<attempts, wait, workerVars, delivered, aborts, lostAnswers>>

\* Time passes, though never beyond a channel's timeout.
Tick ==
    /\ \A w \in Workers : batch[w] # {} => spent[w] < SendLimit
    /\ wait' = [n \in Notes |-> IF wait[n] > 0 THEN wait[n] - 1 ELSE 0]
    /\ held' = [n \in Notes |->
                  IF status[n] = "SENDING" /\ held[n] <= Lease THEN held[n] + 1 ELSE held[n]]
    /\ spent' = [w \in Workers |-> IF batch[w] # {} THEN spent[w] + 1 ELSE 0]
    /\ UNCHANGED <<status, attempts, batch, acked, delivered, late, aborts, lostAnswers>>

-----------------------------------------------------------------------------
Init ==
    /\ status = [n \in Notes |-> "NONE"]
    /\ attempts = [n \in Notes |-> 0]
    /\ wait = [n \in Notes |-> 0]
    /\ held = [n \in Notes |-> 0]
    /\ batch = [w \in Workers |-> {}]
    /\ acked = [w \in Workers |-> NoNote]
    /\ spent = [w \in Workers |-> 0]
    /\ delivered = [n \in Notes |-> 0]
    /\ late = [n \in Notes |-> 0]
    /\ aborts = 0
    /\ lostAnswers = 0

Backend ==
    \E withdrawn \in SUBSET {n \in Notes : Retractable(n)},
       planned \in SUBSET {n \in Notes : Fresh(n)} :
        \E ahead \in [planned -> Ahead] : Commit(withdrawn, planned, ahead)

Drain(w) == \E rows \in SUBSET {n \in Notes : Due(n)} : Claim(w, rows)

Dispatch(w) ==
    \/ MarkSent(w)
    \/ \E n \in Notes :
           \/ Send(w, n) \/ MarkDead(w, n)
           \/ \E putOff \in Delays, taken \in BOOLEAN : ScheduleRetry(w, n, putOff, taken)

Next ==
    \/ Backend
    \/ \E w \in Workers : Drain(w) \/ Dispatch(w) \/ Abort(w)
    \/ Reap
    \/ Tick

Spec == Init /\ [][Next]_vars

\* Both jobs are scheduled for as long as a worker runs, a send times out, and
\* clocks do not stop.  Neither planning nor withdrawing nor dying is fair.
Fairness ==
    /\ \A w \in Workers : WF_vars(Drain(w) \/ Dispatch(w))
    /\ WF_vars(Reap)
    /\ WF_vars(Tick)

FairSpec == Spec /\ Fairness

-----------------------------------------------------------------------------
(* Properties.                                                             *)

Columns ==
    /\ status \in [Notes -> {"NONE", "PENDING", "SENDING"} \cup Final]
    /\ attempts \in [Notes -> Nat]
    /\ wait \in [Notes -> Nat]
    /\ held \in [Notes -> 0 .. Lease + 1]
    /\ batch \in [Workers -> SUBSET Notes]
    /\ acked \in [Workers -> Notes \cup {NoNote}]
    /\ spent \in [Workers -> 0 .. SendLimit]
    /\ delivered \in [Notes -> Nat] /\ late \in [Notes -> Nat]
    /\ aborts \in Nat /\ lostAnswers \in Nat

\* Every column and field keeps its type, and a row spends no more attempts than
\* max_attempts allows and one for each time it was released under its worker,
\* whose scheduleRetry by id still counts.
TypeOK == Columns /\ \A n \in Notes : attempts[n] <= MaxAttempts + late[n]

\* A claimed row is one worker's, and SENDING, until that worker has recorded it or
\* its lease has run out under it; and that happens only to the tail of a batch,
\* whose head alone may take as long as the lease (claimDue, releaseStaleLeases).
HeldByOne ==
    \A w \in Workers : \A n \in batch[w] :
        /\ late[n] = 0 => status[n] = "SENDING" /\ Holders(n) = {w}
        /\ Stale(n) => (Batch - Cardinality(batch[w]) + 1) * SendLimit > Lease

\* Every second reading of a message has a cause of its own: a worker that died
\* over it, an answer that was lost, or a lease that ran out under its worker.
\* Several concurrent workers alone cause no double send (ADR-0004).
DuplicatesAreExplained ==
    \A n \in Notes : delivered[n] <= 1 + aborts + lostAnswers + late[n]

\* What the repository says of it: "a row held longer than this belongs to a
\* process that is not coming back" (NotificationDrainJob:36), so that workers
\* which neither die nor lose an answer send nothing twice (ADR-0004:37).
NoDoubleSend ==
    \A n \in Notes : delivered[n] <= 1 + aborts + lostAnswers

\* Whatever is planned is sent, withdrawn or given up in the end: no crash, no
\* unanswered gateway and no other row keeps a message waiting for ever.
EveryMessageIsSettled ==
    \A n \in Notes : (status[n] = "PENDING") ~> (status[n] \in Final)

\* The table implements the postbox the backend may rely on: SENT only after the
\* recipient was reached, and a final status stays, but for a row whose lease ran
\* out under its worker.
Fate(n) ==
    CASE status[n] = "NONE"      -> "none"
      [] status[n] = "SENT"      -> "sent"
      [] status[n] = "DEAD"      -> "dead"
      [] status[n] = "CANCELLED" -> "withdrawn"
      [] OTHER                   -> "owed"
Promise == INSTANCE Postbox WITH
    Letters <- Notes, fate <- [n \in Notes |-> Fate(n)], reached <- delivered,
    late <- {n \in Notes : late[n] > 0}
ImplementsPostbox == Promise!Spec

=============================================================================
