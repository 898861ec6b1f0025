---------------------------- MODULE OutboxProofs ----------------------------
(***************************************************************************)
(* What the outbox promises, for any rows, workers, faults and times, and  *)
(* whether or not the lease outlasts a batch.  Two arguments meet.  One is *)
(* about time: a worker that has dealt with k of its rows has held the     *)
(* others for at most k * SendLimit ticks and the time of the present one. *)
(* The other is a count: every delivery and every attempt beyond what the  *)
(* row's one claim may cost is paid for by a death, by a lost answer or by *)
(* a release under a worker still at work.                                 *)
(***************************************************************************)
EXTENDS Outbox, FiniteSetTheorems, TLAPS

\* The rows a worker has dealt with since it claimed, at SendLimit each, bound
\* the age of its claim.
AgesAreBounded ==
    \A w \in Workers :
        /\ Cardinality(batch[w]) <= Batch
        /\ \A n \in batch[w] :
               held[n] <= (Batch - Cardinality(batch[w])) * SendLimit + spent[w]

\* A row that is not settled has an attempt left, only a held row is acked, and a
\* held row that was never late is SENDING.
AttemptsAreLeft ==
    \A n \in Notes : status[n] \in {"NONE", "PENDING", "SENDING"} => attempts[n] < MaxAttempts

AckedIsHeld == \A w \in Workers : acked[w] # NoNote => acked[w] \in batch[w]

SendingUnlessLate ==
    \A w \in Workers : \A n \in batch[w] : late[n] = 0 => status[n] = "SENDING"

\* The holders that have not delivered yet, and whether one more may come to hold
\* the row with no release to account for it.
Acked(n) == \E w \in Workers : acked[w] = n
Unsent(n) == {w \in Holders(n) : acked[w] # n}
Chance(n) ==
    IF status[n] \in {"NONE", "PENDING"} \/ (status[n] = "SENDING" /\ Holders(n) = {})
    THEN 1 ELSE 0

Accounted(n) ==
    /\ Cardinality(Holders(n)) + Chance(n) <= 1 + late[n]
    /\ delivered[n] + Cardinality(Unsent(n)) + Chance(n) <= 1 + aborts + lostAnswers + late[n]
    /\ attempts[n] >= MaxAttempts =>
           attempts[n] + Cardinality(Holders(n)) <= MaxAttempts + late[n]
    /\ Acked(n) \/ status[n] = "SENT" => delivered[n] > 0

IInv ==
    /\ Columns
    /\ AgesAreBounded
    /\ AttemptsAreLeft
    /\ AckedIsHeld
    /\ SendingUnlessLate
    /\ \A n \in Notes : Accounted(n)

-----------------------------------------------------------------------------
(* Counting.                                                               *)

\* A batch is a finite set of rows, and dealing with a row makes it smaller.
LEMMA BatchesAreFinite ==
    ASSUME NEW b \in SUBSET Notes
    PROVE  /\ IsFiniteSet(b) /\ Cardinality(b) \in Nat
           /\ \A n \in b : Cardinality(b \ {n}) = Cardinality(b) - 1 /\ Cardinality(b) > 0
<1>1. IsFiniteSet(b)
  BY NotesAreFinite, FS_Subset
<1>2. Cardinality(b) \in Nat
  BY <1>1, FS_CardinalityType
<1>3. ASSUME NEW n \in b
      PROVE  Cardinality(b \ {n}) = Cardinality(b) - 1 /\ Cardinality(b) > 0
  <2>1. Cardinality(b \ {n}) = Cardinality(b) - 1
    BY <1>1, FS_RemoveElement
  <2>2. IsFiniteSet(b \ {n})
    BY <1>1, FS_Subset
  <2>3. Cardinality(b \ {n}) \in Nat
    BY <2>2, FS_CardinalityType
  <2> QED
    BY <1>2, <2>1, <2>3
<1> QED
  BY <1>1, <1>2, <1>3

\* So is a set of workers.
LEMMA WorkersAreCounted ==
    ASSUME NEW s \in SUBSET Workers
    PROVE  /\ Cardinality(s) \in Nat
           /\ \A w \in s : Cardinality(s \ {w}) = Cardinality(s) - 1 /\ Cardinality(s) > 0
           /\ \A w \in Workers \ s : Cardinality(s \cup {w}) = Cardinality(s) + 1
<1>1. IsFiniteSet(s)
  BY WorkersAreFinite, FS_Subset
<1>2. Cardinality(s) \in Nat
  BY <1>1, FS_CardinalityType
<1>3. ASSUME NEW w \in s
      PROVE  Cardinality(s \ {w}) = Cardinality(s) - 1 /\ Cardinality(s) > 0
  <2>1. Cardinality(s \ {w}) = Cardinality(s) - 1
    BY <1>1, FS_RemoveElement
  <2>2. IsFiniteSet(s \ {w})
    BY <1>1, FS_Subset
  <2>3. Cardinality(s \ {w}) \in Nat
    BY <2>2, FS_CardinalityType
  <2> QED
    BY <1>2, <2>1, <2>3
<1>4. ASSUME NEW w \in Workers \ s PROVE Cardinality(s \cup {w}) = Cardinality(s) + 1
  BY <1>1, <1>4, FS_AddElement
<1> QED
  BY <1>2, <1>3, <1>4

\* Taking somebody out of a set of workers makes it no larger.
LEMMA FewerWorkers ==
    ASSUME NEW s \in SUBSET Workers, NEW w \in Workers
    PROVE  /\ Cardinality(s \ {w}) \in Nat /\ Cardinality(s) \in Nat
           /\ Cardinality(s \ {w}) <= Cardinality(s)
<1>1. CASE w \in s
  BY <1>1, WorkersAreCounted
<1>2. CASE w \notin s
  <2>1. s \ {w} = s
    BY <1>2
  <2> QED
    BY <2>1, WorkersAreCounted
<1> QED
  BY <1>1, <1>2

\* One more row dealt with is one more SendLimit on the bound.
LEMMA OneMoreRow ==
    ASSUME NEW c \in Nat, c > 0, c <= Batch
    PROVE  /\ (Batch - (c - 1)) * SendLimit = (Batch - c) * SendLimit + SendLimit
           /\ (Batch - c) * SendLimit \in Nat
<1>1. Batch \in Nat /\ SendLimit \in Nat
  BY LimitsArePositive
<1>2. PICK d \in Nat : d = Batch - c
  BY <1>1
<1>3. (d + 1) * SendLimit = d * SendLimit + SendLimit /\ d * SendLimit \in Nat
  BY <1>1
<1>4. Batch - (c - 1) = d + 1
  BY <1>1, <1>2
<1> QED
  BY <1>2, <1>3, <1>4

\* The counts of a row are numbers.
LEMMA CountsAreNumbers ==
    ASSUME Columns, NEW n \in Notes
    PROVE  /\ Holders(n) \in SUBSET Workers /\ Unsent(n) \in SUBSET Workers
           /\ Cardinality(Holders(n)) \in Nat /\ Cardinality(Unsent(n)) \in Nat
           /\ Chance(n) \in {0, 1}
           /\ late[n] \in Nat /\ delivered[n] \in Nat /\ attempts[n] \in Nat
           /\ aborts \in Nat /\ lostAnswers \in Nat /\ MaxAttempts \in Nat
<1>1. Holders(n) \in SUBSET Workers /\ Unsent(n) \in SUBSET Workers
  BY DEF Holders, Unsent
<1>2. Cardinality(Holders(n)) \in Nat /\ Cardinality(Unsent(n)) \in Nat
  BY <1>1, WorkersAreCounted
<1>3. Chance(n) \in {0, 1}
  BY DEF Chance
<1>4. /\ late[n] \in Nat /\ delivered[n] \in Nat /\ attempts[n] \in Nat
      /\ aborts \in Nat /\ lostAnswers \in Nat
  BY DEF Columns
<1>5. MaxAttempts \in Nat
  BY LimitsArePositive
<1> QED
  BY <1>1, <1>2, <1>3, <1>4, <1>5

\* A row nobody was released from has at most its one holder.
LEMMA HeldAlone ==
    ASSUME IInv, NEW w \in Workers, NEW n \in batch[w], late[n] = 0
    PROVE  n \in Notes /\ Holders(n) = {w} /\ status[n] = "SENDING"
<1>1. n \in Notes /\ w \in Holders(n) /\ status[n] = "SENDING"
  BY DEF IInv, Columns, Holders, SendingUnlessLate
<1>2. Cardinality(Holders(n)) <= 1
  <2>1. Cardinality(Holders(n)) + Chance(n) <= 1
    BY <1>1, CountsAreNumbers DEF IInv, Accounted
  <2> QED
    BY <1>1, <2>1, CountsAreNumbers DEF IInv
<1>3. ASSUME NEW v \in Holders(n), v # w PROVE FALSE
  <2>1. Holders(n) \in SUBSET Workers /\ Holders(n) \ {w} \in SUBSET Workers
    BY DEF Holders
  <2>2. Cardinality(Holders(n) \ {w}) = Cardinality(Holders(n)) - 1
    BY <1>1, <2>1, WorkersAreCounted
  <2>3. v \in Holders(n) \ {w} /\ Cardinality(Holders(n) \ {w}) > 0
    BY <1>3, <2>1, WorkersAreCounted
  <2>4. Cardinality(Holders(n)) \in Nat
    BY <2>1, WorkersAreCounted
  <2> QED
    BY <1>2, <2>2, <2>3, <2>4
<1> QED
  BY <1>1, <1>3

\* What adds nobody to a row, sends nothing and makes it no likelier to be claimed
\* leaves it accounted for.
LEMMA StillAccounted ==
    ASSUME Columns, Columns', NEW n \in Notes, Accounted(n),
           late[n] <= late'[n], aborts <= aborts', lostAnswers <= lostAnswers',
           attempts'[n] = attempts[n], delivered'[n] = delivered[n],
           Holders(n)' = Holders(n), Unsent(n)' = Unsent(n), Chance(n)' <= Chance(n),
           Acked(n)' => Acked(n), status'[n] = "SENT" => status[n] = "SENT"
    PROVE  Accounted(n)'
<1>1. /\ Cardinality(Holders(n)) \in Nat /\ Cardinality(Unsent(n)) \in Nat
      /\ Chance(n) \in {0, 1}
      /\ late[n] \in Nat /\ delivered[n] \in Nat /\ attempts[n] \in Nat
      /\ aborts \in Nat /\ lostAnswers \in Nat /\ MaxAttempts \in Nat
  BY CountsAreNumbers
<1>2. /\ Chance(n)' \in {0, 1} /\ late'[n] \in Nat /\ aborts' \in Nat /\ lostAnswers' \in Nat
  BY DEF Chance, Columns
<1>3. /\ Cardinality(Holders(n))' = Cardinality(Holders(n))
      /\ Cardinality(Unsent(n))' = Cardinality(Unsent(n))
  OBVIOUS
<1>4. Cardinality(Holders(n)) + Chance(n)' <= 1 + late'[n]
  BY <1>1, <1>2 DEF Accounted
<1>5. delivered[n] + Cardinality(Unsent(n)) + Chance(n)' <=
          1 + aborts' + lostAnswers' + late'[n]
  BY <1>1, <1>2 DEF Accounted
<1>6. attempts[n] >= MaxAttempts =>
          attempts[n] + Cardinality(Holders(n)) <= MaxAttempts + late'[n]
  BY <1>1, <1>2 DEF Accounted
<1>7. Acked(n)' \/ status'[n] = "SENT" => delivered[n] > 0
  BY DEF Accounted
<1> QED
  BY <1>3, <1>4, <1>5, <1>6, <1>7 DEF Accounted

-----------------------------------------------------------------------------
(* Each step keeps the invariant.                                          *)

\* Planning and withdrawing: rows that are not held but where they were late, and
\* of which none is settled.
LEMMA BackendStep ==
    ASSUME IInv, Backend
    PROVE  IInv'
<1>1. PICK withdrawn \in SUBSET {n \in Notes : Retractable(n)},
           planned \in SUBSET {n \in Notes : Fresh(n)} :
               \E ahead \in [planned -> Ahead] : Commit(withdrawn, planned, ahead)
  BY DEF Backend
<1>2. /\ UNCHANGED <<attempts, held, workerVars, delivered, late, aborts, lostAnswers>>
      /\ status' = [n \in Notes |-> IF n \in planned THEN "PENDING"
                                    ELSE IF n \in withdrawn THEN "CANCELLED" ELSE status[n]]
  BY <1>1 DEF Commit
<1>3. wait' \in [Notes -> Nat]
  BY <1>1, DelaysAreTicks DEF Commit, IInv, Columns
<1>4. ASSUME NEW n \in Notes
      PROVE  \/ status[n] = "NONE" /\ status'[n] = "PENDING"
             \/ status[n] = "PENDING" /\ status'[n] = "CANCELLED"
             \/ status'[n] = status[n]
  BY <1>2 DEF Fresh, Retractable
<1>5. Columns'
  BY <1>2, <1>3 DEF IInv, Columns, workerVars, Final
<1>6. AgesAreBounded' /\ AckedIsHeld'
  BY <1>2 DEF IInv, AgesAreBounded, AckedIsHeld, workerVars
<1>7. AttemptsAreLeft'
  BY <1>2, <1>4 DEF IInv, AttemptsAreLeft
<1>8. SendingUnlessLate'
  <2>1. ASSUME NEW w \in Workers, NEW n \in batch[w], late[n] = 0 PROVE status'[n] = "SENDING"
    <3>1. n \in Notes /\ status[n] = "SENDING"
      BY <2>1 DEF IInv, Columns, SendingUnlessLate
    <3> QED
      BY <1>4, <3>1
  <2> QED
    BY <1>2, <2>1 DEF SendingUnlessLate, workerVars
<1>9. ASSUME NEW n \in Notes PROVE Accounted(n)'
  <2>1. Holders(n)' = Holders(n) /\ Unsent(n)' = Unsent(n) /\ Acked(n)' = Acked(n)
    BY <1>2 DEF Holders, Unsent, Acked, workerVars
  <2>2. Chance(n)' <= Chance(n)
    BY <1>4, <2>1 DEF Chance
  <2>3. status'[n] = "SENT" => status[n] = "SENT"
    BY <1>4
  <2>4. /\ late[n] <= late'[n] /\ aborts <= aborts' /\ lostAnswers <= lostAnswers'
        /\ attempts'[n] = attempts[n] /\ delivered'[n] = delivered[n]
    BY <1>2 DEF IInv, Columns
  <2> QED
    BY <1>5, <2>1, <2>2, <2>3, <2>4, StillAccounted DEF IInv
<1> QED
  BY <1>5, <1>6, <1>7, <1>8, <1>9 DEF IInv

\* A release: whoever holds a released row pays for the one who may claim it next.
LEMMA ReapStep ==
    ASSUME IInv, Reap
    PROVE  IInv'
<1>1. /\ UNCHANGED <<attempts, wait, workerVars, delivered, aborts, lostAnswers>>
      /\ status' = [n \in Notes |-> IF Stale(n) THEN "PENDING" ELSE status[n]]
      /\ held' = [n \in Notes |-> IF Stale(n) THEN 0 ELSE held[n]]
      /\ late' = [n \in Notes |-> IF Stale(n) /\ Holders(n) # {} THEN late[n] + 1 ELSE late[n]]
  BY DEF Reap
<1>2. Columns'
  <2>1. status' \in [Notes -> {"NONE", "PENDING", "SENDING"} \cup Final]
    BY <1>1 DEF IInv, Columns
  <2>2. held' \in [Notes -> 0 .. Lease + 1]
    BY <1>1, LimitsArePositive DEF IInv, Columns
  <2>3. late' \in [Notes -> Nat]
    BY <1>1 DEF IInv, Columns
  <2> QED
    BY <1>1, <2>1, <2>2, <2>3 DEF IInv, Columns, workerVars
<1>3. \A n \in Notes : held'[n] <= held[n] /\ held[n] \in Nat /\ held'[n] \in Nat
  BY <1>1, LimitsArePositive DEF IInv, Columns
<1>4. AgesAreBounded'
  <2>1. ASSUME NEW w \in Workers, NEW n \in batch[w]
        PROVE  held'[n] <= (Batch - Cardinality(batch[w])) * SendLimit + spent[w]
    <3>1. n \in Notes /\ batch[w] \in SUBSET Notes
      BY DEF IInv, Columns
    <3>2. /\ held[n] <= (Batch - Cardinality(batch[w])) * SendLimit + spent[w]
          /\ Cardinality(batch[w]) <= Batch
      BY DEF IInv, AgesAreBounded
    <3>3. (Batch - Cardinality(batch[w])) * SendLimit \in Nat
      BY <3>1, <3>2, BatchesAreFinite, OneMoreRow
    <3>4. spent[w] \in Nat
      BY LimitsArePositive DEF IInv, Columns
    <3> QED
      BY <1>3, <3>1, <3>2, <3>3, <3>4
  <2> QED
    BY <1>1, <2>1 DEF IInv, AgesAreBounded, workerVars
<1>5. AckedIsHeld'
  BY <1>1 DEF IInv, AckedIsHeld, workerVars
<1>6. AttemptsAreLeft'
  BY <1>1 DEF IInv, AttemptsAreLeft, Stale
<1>7. SendingUnlessLate'
  <2>1. ASSUME NEW w \in Workers, NEW n \in batch[w], late'[n] = 0 PROVE status'[n] = "SENDING"
    <3>1. n \in Notes /\ w \in Holders(n) /\ late[n] \in Nat
      BY DEF IInv, Columns, Holders
    <3>2. ~Stale(n) /\ late[n] = 0
      BY <1>1, <2>1, <3>1
    <3> QED
      BY <1>1, <3>1, <3>2 DEF IInv, SendingUnlessLate
  <2> QED
    BY <1>1, <2>1 DEF SendingUnlessLate, workerVars
<1>8. ASSUME NEW n \in Notes PROVE Accounted(n)'
  <2>1. Holders(n)' = Holders(n) /\ Unsent(n)' = Unsent(n) /\ Acked(n)' = Acked(n)
    BY <1>1 DEF Holders, Unsent, Acked, workerVars
  <2>2. CASE ~Stale(n)
    <3>1. Chance(n)' <= Chance(n) /\ (status'[n] = "SENT" => status[n] = "SENT")
      BY <1>1, <2>1, <2>2 DEF Chance
    <3>2. /\ late[n] <= late'[n] /\ aborts <= aborts' /\ lostAnswers <= lostAnswers'
          /\ attempts'[n] = attempts[n] /\ delivered'[n] = delivered[n]
      BY <1>1, <2>2 DEF IInv, Columns
    <3> QED
      BY <1>2, <2>1, <3>1, <3>2, StillAccounted DEF IInv
  <2>3. CASE Stale(n)
    <3>1. Chance(n)' = 1 /\ status'[n] = "PENDING"
      BY <1>1, <2>3 DEF Chance
    <3>2. /\ Holders(n) = {} => Chance(n) = 1 /\ late'[n] = late[n]
          /\ Holders(n) # {} => Chance(n) = 0 /\ late'[n] = late[n] + 1
      BY <1>1, <2>3 DEF Chance, Stale, IInv, Columns
    <3>3. /\ delivered'[n] = delivered[n] /\ attempts'[n] = attempts[n]
          /\ aborts' = aborts /\ lostAnswers' = lostAnswers
      BY <1>1
    <3>4. Accounted(n) /\ Columns
      BY DEF IInv
    <3>5. Cardinality(Holders(n)) + 1 <= 1 + late'[n]
      BY <3>2, <3>4, CountsAreNumbers DEF Accounted
    <3>6. delivered[n] + Cardinality(Unsent(n)) + 1 <= 1 + aborts + lostAnswers + late'[n]
      BY <3>2, <3>4, CountsAreNumbers DEF Accounted
    <3>7. attempts[n] >= MaxAttempts =>
              attempts[n] + Cardinality(Holders(n)) <= MaxAttempts + late'[n]
      BY <3>2, <3>4, CountsAreNumbers DEF Accounted
    <3>8. Acked(n)' \/ status'[n] = "SENT" => delivered[n] > 0
      BY <2>1, <3>1, <3>4 DEF Accounted
    <3> QED
      BY <2>1, <3>1, <3>3, <3>5, <3>6, <3>7, <3>8 DEF Accounted
  <2> QED
    BY <2>2, <2>3
<1> QED
  BY <1>2, <1>4, <1>5, <1>6, <1>7, <1>8 DEF IInv

\* A claim takes due rows, all at age zero, for a worker that held none.
LEMMA ClaimStep ==
    ASSUME IInv, NEW w \in Workers, NEW rows \in SUBSET {n \in Notes : Due(n)}, Claim(w, rows)
    PROVE  IInv'
<1>1. /\ UNCHANGED <<attempts, wait, acked, delivered, late, aborts, lostAnswers>>
      /\ batch[w] = {} /\ Cardinality(rows) <= Batch
  BY DEF Claim
<1>2. rows \in SUBSET Notes /\ \A n \in rows : status[n] = "PENDING"
  BY DEF Due
<1>3. Columns'
  BY <1>2, LimitsArePositive DEF Claim, IInv, Columns
<1>4. /\ batch'[w] = rows /\ \A v \in Workers \ {w} : batch'[v] = batch[v]
      /\ spent'[w] = 0 /\ \A v \in Workers \ {w} : spent'[v] = spent[v]
      /\ \A n \in Notes : status'[n] = IF n \in rows THEN "SENDING" ELSE status[n]
      /\ \A n \in Notes : held'[n] = IF n \in rows THEN 0 ELSE held[n]
  BY DEF Claim, IInv, Columns
<1>5. acked[w] = NoNote
  BY <1>1 DEF IInv, AckedIsHeld
<1>6. AgesAreBounded'
  <2>1. ASSUME NEW v \in Workers, NEW n \in batch'[v]
        PROVE  /\ Cardinality(batch'[v]) <= Batch
               /\ held'[n] <= (Batch - Cardinality(batch'[v])) * SendLimit + spent'[v]
    <3>1. Cardinality(batch'[v]) <= Batch
      BY <1>1, <1>4 DEF IInv, AgesAreBounded
    <3>2. batch'[v] \in SUBSET Notes /\ spent'[v] \in Nat /\ n \in Notes
      BY <1>3, LimitsArePositive DEF Columns
    <3>3. (Batch - Cardinality(batch'[v])) * SendLimit \in Nat
      BY <3>1, <3>2, BatchesAreFinite, OneMoreRow
    <3>4. CASE n \in rows
      BY <1>4, <3>1, <3>2, <3>3, <3>4
    <3>5. CASE n \notin rows
      <4>1. v # w /\ held'[n] = held[n] /\ batch'[v] = batch[v] /\ spent'[v] = spent[v]
        BY <1>4, <3>2, <3>5
      <4>2. held[n] <= (Batch - Cardinality(batch[v])) * SendLimit + spent[v]
        BY <4>1 DEF IInv, AgesAreBounded
      <4> QED
        BY <3>1, <4>1, <4>2
    <3> QED
      BY <3>4, <3>5
  <2>2. \A v \in Workers : Cardinality(batch'[v]) <= Batch
    BY <1>1, <1>4 DEF IInv, AgesAreBounded
  <2> QED
    BY <2>1, <2>2 DEF AgesAreBounded
<1>7. AttemptsAreLeft'
  BY <1>1, <1>2, <1>4 DEF IInv, AttemptsAreLeft
<1>8. AckedIsHeld'
  BY <1>1, <1>4, <1>5 DEF IInv, AckedIsHeld
<1>9. SendingUnlessLate'
  BY <1>1, <1>2, <1>4 DEF IInv, Columns, SendingUnlessLate
<1>10. ASSUME NEW n \in Notes PROVE Accounted(n)'
  <2>1. Acked(n)' = Acked(n)
    BY <1>1 DEF Acked
  <2>2. CASE n \notin rows
    <3>1. Holders(n)' = Holders(n)
      BY <1>1, <1>4, <2>2 DEF Holders
    <3>2. Unsent(n)' = Unsent(n)
      BY <1>1, <3>1 DEF Unsent
    <3>3. Chance(n)' <= Chance(n) /\ (status'[n] = "SENT" => status[n] = "SENT")
      BY <1>4, <2>2, <3>1 DEF Chance
    <3>4. /\ late[n] <= late'[n] /\ aborts <= aborts' /\ lostAnswers <= lostAnswers'
          /\ attempts'[n] = attempts[n] /\ delivered'[n] = delivered[n]
      BY <1>1 DEF IInv, Columns
    <3> QED
      BY <1>3, <2>1, <3>1, <3>2, <3>3, <3>4, StillAccounted DEF IInv
  <2>3. CASE n \in rows
    <3>1. /\ Holders(n)' = Holders(n) \cup {w} /\ w \notin Holders(n)
          /\ Unsent(n)' = Unsent(n) \cup {w} /\ w \notin Unsent(n)
      <4>1. Holders(n)' = Holders(n) \cup {w} /\ w \notin Holders(n)
        BY <1>1, <1>4, <2>3 DEF Holders
      <4>2. acked[w] # n /\ acked' = acked
        BY <1>1, <1>5, NoNoteIsNone
      <4> QED
        BY <4>1, <4>2 DEF Unsent
    <3>2. Accounted(n) /\ Columns
      BY DEF IInv
    <3>3. /\ Cardinality(Holders(n)') = Cardinality(Holders(n)) + 1
          /\ Cardinality(Unsent(n)') = Cardinality(Unsent(n)) + 1
      BY <3>1, <3>2, CountsAreNumbers, WorkersAreCounted
    <3>4. Chance(n) = 1 /\ Chance(n)' = 0
      BY <1>2, <1>4, <2>3, <3>1 DEF Chance
    <3>5. attempts[n] < MaxAttempts
      BY <1>2, <2>3 DEF IInv, AttemptsAreLeft
    <3>6. Cardinality(Holders(n)') + 0 <= 1 + late[n]
      BY <3>2, <3>3, <3>4, CountsAreNumbers DEF Accounted
    <3>7. delivered[n] + Cardinality(Unsent(n)') + 0 <= 1 + aborts + lostAnswers + late[n]
      BY <3>2, <3>3, <3>4, CountsAreNumbers DEF Accounted
    <3>8. ~(attempts[n] >= MaxAttempts)
      BY <3>2, <3>5, CountsAreNumbers
    <3>9. Acked(n)' \/ status'[n] = "SENT" => delivered[n] > 0
      BY <1>4, <2>1, <2>3, <3>2 DEF Accounted
    <3> QED
      BY <1>1, <3>4, <3>6, <3>7, <3>8, <3>9 DEF Accounted
  <2> QED
    BY <2>2, <2>3
<1> QED
  BY <1>3, <1>6, <1>7, <1>8, <1>9, <1>10 DEF IInv

\* The channel's acknowledgement is remembered by the worker alone.
LEMMA SendStep ==
    ASSUME IInv, NEW w \in Workers, NEW n \in Notes, Send(w, n)
    PROVE  IInv'
<1>1. UNCHANGED <<tableVars, batch, spent, late, aborts, lostAnswers>>
  BY DEF Send
<1>2. acked' = [acked EXCEPT ![w] = n] /\ delivered' = [delivered EXCEPT ![n] = @ + 1]
  BY DEF Send
<1>3. n \in batch[w] /\ acked[w] = NoNote /\ n # NoNote
  BY NoNoteIsNone DEF Send
<1>4. Columns'
  BY <1>1, <1>2 DEF IInv, Columns, tableVars
<1>5. AgesAreBounded' /\ AttemptsAreLeft' /\ SendingUnlessLate'
  BY <1>1 DEF IInv, AgesAreBounded, AttemptsAreLeft, SendingUnlessLate, tableVars
<1>6. AckedIsHeld'
  BY <1>1, <1>2, <1>3 DEF IInv, AckedIsHeld, Columns
<1>7. acked'[w] = n /\ \A v \in Workers \ {w} : acked'[v] = acked[v]
  BY <1>2 DEF IInv, Columns
<1>8. Accounted(n)'
  <2>1. Holders(n)' = Holders(n) /\ Chance(n)' = Chance(n)
    BY <1>1 DEF Holders, Chance, tableVars
  <2>2. Unsent(n)' = Unsent(n) \ {w} /\ w \in Unsent(n)
    BY <1>3, <1>7, <2>1 DEF Unsent, Holders
  <2>3. Accounted(n) /\ Columns
    BY DEF IInv
  <2>4. Cardinality(Unsent(n)') = Cardinality(Unsent(n)) - 1
    BY <2>2, <2>3, CountsAreNumbers, WorkersAreCounted
  <2>5. delivered'[n] = delivered[n] + 1
    BY <1>2 DEF IInv, Columns
  <2>6. delivered'[n] + Cardinality(Unsent(n)') + Chance(n) <=
            1 + aborts + lostAnswers + late[n]
    BY <2>3, <2>4, <2>5, CountsAreNumbers DEF Accounted
  <2>7. delivered'[n] > 0
    BY <2>3, <2>5, CountsAreNumbers
  <2> QED
    BY <1>1, <2>1, <2>3, <2>6, <2>7 DEF Accounted, tableVars
<1>9. ASSUME NEW l \in Notes, l # n PROVE Accounted(l)'
  <2>1. Holders(l)' = Holders(l) /\ Chance(l)' = Chance(l)
    BY <1>1 DEF Holders, Chance, tableVars
  <2>2. \A v \in Workers : (acked'[v] = l) <=> (acked[v] = l)
    BY <1>3, <1>7, <1>9, NoNoteIsNone
  <2>3. Unsent(l)' = Unsent(l) /\ Acked(l)' = Acked(l)
    BY <2>1, <2>2 DEF Unsent, Holders, Acked
  <2>4. /\ late[l] <= late'[l] /\ aborts <= aborts' /\ lostAnswers <= lostAnswers'
        /\ attempts'[l] = attempts[l] /\ delivered'[l] = delivered[l]
        /\ status'[l] = status[l]
    BY <1>1, <1>2, <1>9 DEF IInv, Columns, tableVars
  <2>5. Chance(l)' <= Chance(l)
    BY <2>1 DEF Chance
  <2> QED
    BY <1>4, <2>1, <2>3, <2>4, <2>5, StillAccounted DEF IInv
<1> QED
  BY <1>4, <1>5, <1>6, <1>8, <1>9 DEF IInv

\* Recording a row: the worker lets go of it, and of no other.
LEMMA LettingGo ==
    ASSUME IInv, NEW w \in Workers, NEW n \in batch[w], acked[w] \in {n, NoNote},
           Finish(w, n), held' = [held EXCEPT ![n] = 0], UNCHANGED late,
           \A l \in Notes \ {n} : status'[l] = status[l]
    PROVE  /\ AgesAreBounded' /\ AckedIsHeld' /\ SendingUnlessLate'
           /\ \A l \in Notes : Holders(l)' = IF l = n THEN Holders(n) \ {w} ELSE Holders(l)
           /\ \A l \in Notes : Unsent(l)' = IF l = n THEN Unsent(n) \ {w} ELSE Unsent(l)
           /\ \A l \in Notes \ {n} : Acked(l)' => Acked(l)
           /\ Acked(n)' => Acked(n)
           /\ w \in Holders(n) /\ n \in Notes
<1>1. n \in Notes /\ batch[w] \in SUBSET Notes /\ n # NoNote
  BY NoNoteIsNone DEF IInv, Columns
<1>2. /\ batch'[w] = batch[w] \ {n} /\ \A v \in Workers \ {w} : batch'[v] = batch[v]
      /\ acked'[w] = NoNote /\ \A v \in Workers \ {w} : acked'[v] = acked[v]
      /\ spent'[w] = 0 /\ \A v \in Workers \ {w} : spent'[v] = spent[v]
  BY DEF Finish, IInv, Columns
<1>3. AckedIsHeld'
  BY <1>2 DEF IInv, AckedIsHeld
<1>4. SendingUnlessLate'
  <2>1. ASSUME NEW v \in Workers, NEW l \in batch'[v], late[l] = 0 PROVE status'[l] = "SENDING"
    <3>1. l \in batch[v] /\ l \in Notes
      BY <1>2 DEF IInv, Columns
    <3>2. Holders(l) = {v} /\ status[l] = "SENDING"
      BY <2>1, <3>1, HeldAlone
    <3>3. l # n
      BY <1>2, <2>1, <3>2 DEF Holders
    <3> QED
      BY <3>1, <3>2, <3>3
  <2> QED
    BY <2>1 DEF SendingUnlessLate
<1>5. ASSUME NEW l \in Notes
      PROVE  /\ Holders(l)' = IF l = n THEN Holders(n) \ {w} ELSE Holders(l)
             /\ Unsent(l)' = IF l = n THEN Unsent(n) \ {w} ELSE Unsent(l)
             /\ Acked(l)' => Acked(l)
  <2>1. Holders(l)' = IF l = n THEN Holders(n) \ {w} ELSE Holders(l)
    BY <1>2 DEF Holders
  <2>2. \A v \in Workers \ {w} : (acked'[v] = l) <=> (acked[v] = l)
    BY <1>2
  <2>3. acked'[w] # l /\ (l # n => acked[w] # l)
    BY <1>1, <1>2, NoNoteIsNone
  <2>4. Unsent(l)' = IF l = n THEN Unsent(n) \ {w} ELSE Unsent(l)
    BY <2>1, <2>2, <2>3 DEF Unsent, Holders
  <2> QED
    BY <2>1, <2>2, <2>3, <2>4 DEF Acked
<1>6. \A l \in Notes : held'[l] <= held[l] /\ held[l] \in Nat /\ held'[l] \in Nat
  BY <1>1, LimitsArePositive DEF IInv, Columns
<1>7. AgesAreBounded'
  <2>1. ASSUME NEW v \in Workers, NEW l \in batch'[v], v # w
        PROVE  held'[l] <= (Batch - Cardinality(batch'[v])) * SendLimit + spent'[v]
    <3>1. l \in Notes /\ l \in batch[v] /\ batch[v] \in SUBSET Notes /\ spent[v] \in Nat
      BY <1>2, <2>1, LimitsArePositive DEF IInv, Columns
    <3>2. /\ held[l] <= (Batch - Cardinality(batch[v])) * SendLimit + spent[v]
          /\ Cardinality(batch[v]) <= Batch
      BY <3>1 DEF IInv, AgesAreBounded
    <3>3. (Batch - Cardinality(batch[v])) * SendLimit \in Nat
      BY <3>1, <3>2, BatchesAreFinite, OneMoreRow
    <3> QED
      BY <1>2, <1>6, <2>1, <3>1, <3>2, <3>3
  <2> DEFINE c == Cardinality(batch[w])
  <2>2. c \in Nat /\ c > 0 /\ c <= Batch /\ Cardinality(batch'[w]) = c - 1
    BY <1>1, <1>2, BatchesAreFinite DEF IInv, AgesAreBounded
  <2>3. Batch \in Nat /\ SendLimit \in Nat
    BY LimitsArePositive
  <2>4. /\ (Batch - (c - 1)) * SendLimit = (Batch - c) * SendLimit + SendLimit
        /\ (Batch - c) * SendLimit \in Nat
    BY <2>2, OneMoreRow
  <2>5. ASSUME NEW l \in batch'[w]
        PROVE  held'[l] <= (Batch - Cardinality(batch'[w])) * SendLimit + spent'[w]
    <3>1. l \in batch[w] /\ l \in Notes
      BY <1>1, <1>2
    <3>2. held[l] <= (Batch - c) * SendLimit + spent[w]
      BY <3>1 DEF IInv, AgesAreBounded
    <3>3. spent[w] \in Nat /\ spent[w] <= SendLimit
      BY <2>3, LimitsArePositive DEF IInv, Columns
    <3>4. held'[l] <= (Batch - c) * SendLimit + SendLimit
      BY <1>6, <2>3, <2>4, <3>1, <3>2, <3>3
    <3>5. held'[l] <= (Batch - (c - 1)) * SendLimit + 0
      BY <1>6, <2>3, <2>4, <3>1, <3>4
    <3> QED
      BY <1>2, <2>2, <3>5
  <2>6. ASSUME NEW v \in Workers PROVE Cardinality(batch'[v]) <= Batch
    <3>1. CASE v = w
      BY <2>2, <2>3, <3>1
    <3>2. CASE v # w
      BY <1>2, <3>2 DEF IInv, AgesAreBounded
    <3> QED
      BY <3>1, <3>2
  <2> QED
    BY <2>1, <2>5, <2>6 DEF AgesAreBounded
<1>8. w \in Holders(n)
  BY DEF Holders
<1> QED
  BY <1>1, <1>3, <1>4, <1>5, <1>7, <1>8

\* A delivery that was acknowledged is recorded, whatever the row says by now.
LEMMA MarkSentStep ==
    ASSUME IInv, NEW w \in Workers, MarkSent(w)
    PROVE  IInv'
<1>0. PICK n \in Notes : n = acked[w]
  BY NoNoteIsNone DEF MarkSent, IInv, Columns
<1>1. n \in batch[w] /\ acked[w] \in {n, NoNote}
  BY <1>0, NoNoteIsNone DEF MarkSent, IInv, AckedIsHeld
<1>2. /\ UNCHANGED <<attempts, wait, delivered, late, aborts, lostAnswers>> /\ Finish(w, n)
      /\ status' = [status EXCEPT ![n] = "SENT"] /\ held' = [held EXCEPT ![n] = 0]
  BY <1>0 DEF MarkSent
<1>3. status'[n] = "SENT" /\ \A l \in Notes \ {n} : status'[l] = status[l]
  BY <1>2 DEF IInv, Columns
<1>4. Columns'
  BY <1>1, <1>2, LimitsArePositive DEF IInv, Columns, Finish, Final
<1>5. /\ AgesAreBounded' /\ AckedIsHeld' /\ SendingUnlessLate'
      /\ \A l \in Notes : Holders(l)' = IF l = n THEN Holders(n) \ {w} ELSE Holders(l)
      /\ \A l \in Notes : Unsent(l)' = IF l = n THEN Unsent(n) \ {w} ELSE Unsent(l)
      /\ \A l \in Notes \ {n} : Acked(l)' => Acked(l)
      /\ w \in Holders(n)
  BY <1>1, <1>2, <1>3, LettingGo
<1>6. AttemptsAreLeft'
  BY <1>2, <1>3 DEF IInv, AttemptsAreLeft
<1>7. Accounted(n)'
  <2>1. Accounted(n) /\ Columns
    BY DEF IInv
  <2>2. /\ Cardinality(Holders(n) \ {w}) \in Nat
        /\ Cardinality(Holders(n) \ {w}) <= Cardinality(Holders(n))
        /\ Cardinality(Unsent(n) \ {w}) \in Nat
        /\ Cardinality(Unsent(n) \ {w}) <= Cardinality(Unsent(n))
    BY <2>1, CountsAreNumbers, FewerWorkers
  <2>3. Chance(n)' = 0
    BY <1>3 DEF Chance
  <2>4. delivered[n] > 0
    BY <1>0, <2>1 DEF Accounted, Acked
  <2>5. Cardinality(Holders(n) \ {w}) + 0 <= 1 + late[n]
    BY <2>1, <2>2, CountsAreNumbers DEF Accounted
  <2>6. delivered[n] + Cardinality(Unsent(n) \ {w}) + 0 <= 1 + aborts + lostAnswers + late[n]
    BY <2>1, <2>2, CountsAreNumbers DEF Accounted
  <2>7. attempts[n] >= MaxAttempts =>
            attempts[n] + Cardinality(Holders(n) \ {w}) <= MaxAttempts + late[n]
    BY <2>1, <2>2, CountsAreNumbers DEF Accounted
  <2>8. Holders(n)' = Holders(n) \ {w} /\ Unsent(n)' = Unsent(n) \ {w}
    BY <1>5
  <2> QED
    BY <1>2, <2>3, <2>4, <2>5, <2>6, <2>7, <2>8 DEF Accounted
<1>8. ASSUME NEW l \in Notes, l # n PROVE Accounted(l)'
  <2>1. Holders(l)' = Holders(l) /\ Unsent(l)' = Unsent(l) /\ (Acked(l)' => Acked(l))
    BY <1>5, <1>8
  <2>2. Chance(l)' <= Chance(l)
    BY <1>3, <1>8, <2>1 DEF Chance
  <2>3. /\ late[l] <= late'[l] /\ aborts <= aborts' /\ lostAnswers <= lostAnswers'
        /\ attempts'[l] = attempts[l] /\ delivered'[l] = delivered[l]
        /\ status'[l] = status[l]
    BY <1>2, <1>3, <1>8 DEF IInv, Columns
  <2> QED
    BY <1>4, <2>1, <2>2, <2>3, StillAccounted DEF IInv
<1> QED
  BY <1>4, <1>5, <1>6, <1>7, <1>8 DEF IInv

\* Giving a row up, or putting it off: one attempt more and one holder fewer, one
\* delivery more only where an answer was lost, and whoever claims the row next
\* comes for the one who lets go.
LEMMA FailureStep ==
    ASSUME IInv, NEW w \in Workers, NEW n \in Notes,
           \/ MarkDead(w, n)
           \/ \E putOff \in Delays, taken \in BOOLEAN : ScheduleRetry(w, n, putOff, taken)
    PROVE  IInv'
<1>1. n \in batch[w] /\ acked[w] = NoNote
  BY DEF MarkDead, ScheduleRetry
<1>2. UNCHANGED <<late, aborts>> /\ Finish(w, n) /\ held' = [held EXCEPT ![n] = 0]
  BY DEF MarkDead, ScheduleRetry
<1>3. attempts[n] \in Nat /\ MaxAttempts \in Nat
  BY LimitsArePositive DEF IInv, Columns
<1>4. /\ attempts' = [attempts EXCEPT ![n] = @ + 1]
      /\ \/ status' = [status EXCEPT ![n] = "DEAD"]
         \/ status' = [status EXCEPT ![n] = "PENDING"] /\ attempts[n] + 1 < MaxAttempts
  BY <1>3 DEF MarkDead, ScheduleRetry, Spent
<1>5. wait' \in [Notes -> Nat]
  BY DelaysAreTicks DEF MarkDead, ScheduleRetry, IInv, Columns
<1>6. \/ UNCHANGED <<delivered, lostAnswers>>
      \/ lostAnswers' = lostAnswers + 1 /\ delivered' = [delivered EXCEPT ![n] = @ + 1]
  BY DEF MarkDead, ScheduleRetry
<1>7. Columns'
  <2>1. status' \in [Notes -> {"NONE", "PENDING", "SENDING"} \cup Final]
    BY <1>4 DEF IInv, Columns, Final
  <2>2. delivered' \in [Notes -> Nat] /\ lostAnswers' \in Nat
    BY <1>6 DEF IInv, Columns
  <2>3. /\ batch' \in [Workers -> SUBSET Notes] /\ acked' \in [Workers -> Notes \cup {NoNote}]
        /\ spent' \in [Workers -> 0 .. SendLimit]
    BY <1>2, LimitsArePositive DEF IInv, Columns, Finish
  <2>4. attempts' \in [Notes -> Nat] /\ held' \in [Notes -> 0 .. Lease + 1]
    BY <1>2, <1>4, LimitsArePositive DEF IInv, Columns
  <2> QED
    BY <1>2, <1>5, <2>1, <2>2, <2>3, <2>4 DEF IInv, Columns
<1>8. /\ attempts'[n] = attempts[n] + 1 /\ status'[n] \in {"DEAD", "PENDING"}
      /\ status'[n] = "PENDING" => attempts[n] + 1 < MaxAttempts
      /\ \A l \in Notes \ {n} : status'[l] = status[l] /\ attempts'[l] = attempts[l]
  BY <1>4 DEF IInv, Columns
<1>9. /\ AgesAreBounded' /\ AckedIsHeld' /\ SendingUnlessLate'
      /\ \A l \in Notes : Holders(l)' = IF l = n THEN Holders(n) \ {w} ELSE Holders(l)
      /\ \A l \in Notes : Unsent(l)' = IF l = n THEN Unsent(n) \ {w} ELSE Unsent(l)
      /\ \A l \in Notes \ {n} : Acked(l)' => Acked(l)
      /\ Acked(n)' => Acked(n)
      /\ w \in Holders(n)
  BY <1>1, <1>2, <1>8, LettingGo
<1>10. AttemptsAreLeft'
  BY <1>3, <1>8 DEF IInv, AttemptsAreLeft
<1>11. Accounted(n)'
  <2>1. Accounted(n) /\ Columns
    BY DEF IInv
  <2>2. w \in Unsent(n)
    BY <1>1, <1>9, NoNoteIsNone DEF Unsent
  <2>3. /\ Cardinality(Holders(n) \ {w}) = Cardinality(Holders(n)) - 1
        /\ Cardinality(Unsent(n) \ {w}) = Cardinality(Unsent(n)) - 1
    BY <1>9, <2>1, <2>2, CountsAreNumbers, WorkersAreCounted
  <2>4. Chance(n)' \in {0, 1}
    BY DEF Chance
  <2>5. Cardinality(Holders(n) \ {w}) + Chance(n)' <= 1 + late[n]
    BY <2>1, <2>3, <2>4, CountsAreNumbers DEF Accounted
  <2>6. delivered'[n] + Cardinality(Unsent(n) \ {w}) + Chance(n)' <=
            1 + aborts + lostAnswers' + late[n]
    <3>1. \/ delivered'[n] = delivered[n] /\ lostAnswers' = lostAnswers
          \/ delivered'[n] = delivered[n] + 1 /\ lostAnswers' = lostAnswers + 1
      BY <1>6 DEF IInv, Columns
    <3> QED
      BY <2>1, <2>3, <2>4, <3>1, CountsAreNumbers DEF Accounted
  <2>7. attempts'[n] >= MaxAttempts =>
            attempts'[n] + Cardinality(Holders(n) \ {w}) <= MaxAttempts + late[n]
    BY <1>8, <2>1, <2>3, CountsAreNumbers DEF Accounted
  <2>8. Acked(n)' \/ status'[n] = "SENT" => delivered'[n] > 0
    <3>1. delivered'[n] \in Nat /\ delivered'[n] >= delivered[n]
      BY <1>6, <1>7 DEF IInv, Columns
    <3> QED
      BY <1>8, <1>9, <2>1, <3>1, CountsAreNumbers DEF Accounted
  <2>9. Holders(n)' = Holders(n) \ {w} /\ Unsent(n)' = Unsent(n) \ {w}
    BY <1>9
  <2> QED
    BY <1>2, <2>5, <2>6, <2>7, <2>8, <2>9 DEF Accounted
<1>12. ASSUME NEW l \in Notes, l # n PROVE Accounted(l)'
  <2>1. Holders(l)' = Holders(l) /\ Unsent(l)' = Unsent(l) /\ (Acked(l)' => Acked(l))
    BY <1>9, <1>12
  <2>2. Chance(l)' <= Chance(l)
    BY <1>8, <1>12, <2>1 DEF Chance
  <2>3. /\ late[l] <= late'[l] /\ aborts <= aborts' /\ lostAnswers <= lostAnswers'
        /\ attempts'[l] = attempts[l] /\ delivered'[l] = delivered[l]
        /\ status'[l] = status[l]
    BY <1>2, <1>6, <1>8, <1>12 DEF IInv, Columns
  <2> QED
    BY <1>7, <2>1, <2>2, <2>3, StillAccounted DEF IInv
<1> QED
  BY <1>7, <1>9, <1>10, <1>11, <1>12 DEF IInv

\* A worker that dies leaves its rows to the lease, and may leave one delivered.
LEMMA AbortStep ==
    ASSUME IInv, NEW w \in Workers, Abort(w)
    PROVE  IInv'
<1>1. UNCHANGED <<tableVars, delivered, late, lostAnswers>> /\ aborts' = aborts + 1
  BY DEF Abort
<1>2. Columns'
  BY <1>1, LimitsArePositive DEF Abort, IInv, Columns, tableVars
<1>3. /\ batch'[w] = {} /\ \A v \in Workers \ {w} : batch'[v] = batch[v]
      /\ acked'[w] = NoNote /\ \A v \in Workers \ {w} : acked'[v] = acked[v]
      /\ spent'[w] = 0 /\ \A v \in Workers \ {w} : spent'[v] = spent[v]
  BY DEF Abort, IInv, Columns
<1>4. AckedIsHeld' /\ AttemptsAreLeft' /\ SendingUnlessLate'
  BY <1>1, <1>3 DEF IInv, AckedIsHeld, AttemptsAreLeft, SendingUnlessLate, tableVars
<1>5. AgesAreBounded'
  <2>1. Cardinality(batch'[w]) <= Batch
    BY <1>3, FS_EmptySet, LimitsArePositive
  <2>2. \A v \in Workers \ {w} :
            /\ Cardinality(batch'[v]) <= Batch
            /\ \A l \in batch'[v] :
                   held'[l] <= (Batch - Cardinality(batch'[v])) * SendLimit + spent'[v]
    BY <1>1, <1>3 DEF IInv, AgesAreBounded, tableVars
  <2> QED
    BY <1>3, <2>1, <2>2 DEF AgesAreBounded
<1>6. ASSUME NEW n \in Notes PROVE Accounted(n)'
  <2>1. Accounted(n) /\ Columns
    BY DEF IInv
  <2>2. Holders(n)' = Holders(n) \ {w}
    BY <1>3 DEF Holders
  <2>3. Unsent(n)' = Unsent(n) \ {w}
    BY <1>3, <2>2 DEF Unsent, Holders
  <2>4. /\ Cardinality(Holders(n) \ {w}) \in Nat
        /\ Cardinality(Unsent(n) \ {w}) \in Nat
        /\ Cardinality(Unsent(n) \ {w}) <= Cardinality(Unsent(n))
    BY <2>1, CountsAreNumbers, FewerWorkers
  <2>5. Chance(n)' \in {0, 1}
    BY DEF Chance
  <2>6. /\ Cardinality(Holders(n) \ {w}) + Chance(n)' <= 1 + late[n]
        /\ Cardinality(Holders(n) \ {w}) <= Cardinality(Holders(n))
    <3>1. CASE w \in Holders(n)
      <4>1. Cardinality(Holders(n) \ {w}) = Cardinality(Holders(n)) - 1
        BY <2>1, <3>1, CountsAreNumbers, WorkersAreCounted
      <4> QED
        BY <2>1, <2>5, <4>1, CountsAreNumbers DEF Accounted
    <3>2. CASE w \notin Holders(n)
      <4>1. Holders(n) \ {w} = Holders(n)
        BY <3>2
      <4>2. Chance(n)' = Chance(n)
        BY <1>1, <2>2, <4>1 DEF Chance, tableVars
      <4>3. Cardinality(Holders(n)) + Chance(n) <= 1 + late[n]
        BY <2>1 DEF Accounted
      <4>4. Cardinality(Holders(n)) \in Nat
        BY <2>1, CountsAreNumbers
      <4> QED
        BY <4>1, <4>2, <4>3, <4>4
    <3> QED
      BY <3>1, <3>2
  <2>7. delivered[n] + Cardinality(Unsent(n) \ {w}) + Chance(n)' <=
            1 + aborts' + lostAnswers + late[n]
    BY <1>1, <2>1, <2>4, <2>5, CountsAreNumbers DEF Accounted
  <2>8. attempts[n] >= MaxAttempts =>
            attempts[n] + Cardinality(Holders(n) \ {w}) <= MaxAttempts + late[n]
    BY <2>1, <2>4, <2>6, CountsAreNumbers DEF Accounted
  <2>9. Acked(n)' => Acked(n)
    BY <1>3, NoNoteIsNone DEF Acked
  <2> QED
    BY <1>1, <2>1, <2>2, <2>3, <2>6, <2>7, <2>8, <2>9 DEF Accounted, tableVars
<1> QED
  BY <1>2, <1>4, <1>5, <1>6 DEF IInv

\* A tick ages a claim no faster than it ages the dispatch the claim waits for.
LEMMA TickStep ==
    ASSUME IInv, Tick
    PROVE  IInv'
<1>1. UNCHANGED <<status, attempts, batch, acked, delivered, late, aborts, lostAnswers>>
  BY DEF Tick
<1>2. wait' \in [Notes -> Nat]
  BY DEF Tick, IInv, Columns
<1>3. held' \in [Notes -> 0 .. Lease + 1]
  BY LimitsArePositive DEF Tick, IInv, Columns
<1>4. spent' \in [Workers -> 0 .. SendLimit]
  BY LimitsArePositive DEF Tick, IInv, Columns
<1>5. Columns'
  BY <1>1, <1>2, <1>3, <1>4 DEF IInv, Columns
<1>6. /\ AckedIsHeld' /\ AttemptsAreLeft' /\ SendingUnlessLate'
      /\ \A n \in Notes : Accounted(n)'
  BY <1>1 DEF IInv, AckedIsHeld, AttemptsAreLeft, SendingUnlessLate, Accounted, Holders,
              Unsent, Chance, Acked
<1>7. AgesAreBounded'
  <2>1. ASSUME NEW v \in Workers, NEW l \in batch[v]
        PROVE  held'[l] <= (Batch - Cardinality(batch[v])) * SendLimit + spent'[v]
    <3>1. l \in Notes /\ batch[v] \in SUBSET Notes
      BY DEF IInv, Columns
    <3>2. held'[l] <= held[l] + 1 /\ held[l] \in Nat /\ held'[l] \in Nat
      BY <3>1, LimitsArePositive DEF Tick, IInv, Columns
    <3>3. spent'[v] = spent[v] + 1 /\ spent[v] \in Nat
      BY LimitsArePositive DEF Tick, IInv, Columns
    <3>4. /\ held[l] <= (Batch - Cardinality(batch[v])) * SendLimit + spent[v]
          /\ Cardinality(batch[v]) <= Batch
      BY DEF IInv, AgesAreBounded
    <3>5. (Batch - Cardinality(batch[v])) * SendLimit \in Nat
      BY <3>1, <3>4, BatchesAreFinite, OneMoreRow
    <3> QED
      BY <3>2, <3>3, <3>4, <3>5
  <2> QED
    BY <1>1, <2>1 DEF IInv, AgesAreBounded
<1> QED
  BY <1>5, <1>6, <1>7 DEF IInv

-----------------------------------------------------------------------------
(* The theorems.                                                           *)

\* An empty table holds nothing anybody could have claimed.
LEMMA InitHolds == ASSUME Init PROVE IInv
<1>1. Columns
  BY LimitsArePositive DEF Init, Columns
<1>2. AckedIsHeld /\ AttemptsAreLeft /\ SendingUnlessLate
  BY LimitsArePositive DEF Init, AckedIsHeld, AttemptsAreLeft, SendingUnlessLate
<1>3. AgesAreBounded
  BY FS_EmptySet, LimitsArePositive DEF Init, AgesAreBounded
<1>4. ASSUME NEW n \in Notes PROVE Accounted(n)
  <2>1. Holders(n) = {} /\ Unsent(n) = {}
    BY DEF Init, Holders, Unsent
  <2>2. Cardinality(Holders(n)) = 0 /\ Cardinality(Unsent(n)) = 0
    BY <2>1, FS_EmptySet
  <2>3. Chance(n) = 1 /\ ~Acked(n) /\ status[n] # "SENT"
    BY <1>4, NoNoteIsNone DEF Init, Chance, Acked
  <2>4. /\ delivered[n] = 0 /\ late[n] = 0 /\ attempts[n] = 0
        /\ aborts = 0 /\ lostAnswers = 0 /\ MaxAttempts \in Nat \ {0}
    BY LimitsArePositive DEF Init
  <2> QED
    BY <2>2, <2>3, <2>4 DEF Accounted
<1> QED
  BY <1>1, <1>2, <1>3, <1>4 DEF IInv

\* Every step keeps the invariant.
LEMMA StepHolds ==
    ASSUME IInv, [Next]_vars
    PROVE  IInv'
<1>1. CASE Backend
  BY <1>1, BackendStep
<1>2. ASSUME NEW w \in Workers, Drain(w) PROVE IInv'
  BY <1>2, ClaimStep DEF Drain
<1>3. ASSUME NEW w \in Workers, Dispatch(w) PROVE IInv'
  BY <1>3, MarkSentStep, SendStep, FailureStep DEF Dispatch
<1>4. ASSUME NEW w \in Workers, Abort(w) PROVE IInv'
  BY <1>4, AbortStep
<1>5. CASE Reap
  BY <1>5, ReapStep
<1>6. CASE Tick
  BY <1>6, TickStep
<1>7. CASE UNCHANGED vars
  BY <1>7 DEF vars, tableVars, workerVars, IInv, Columns, AgesAreBounded, AttemptsAreLeft,
              AckedIsHeld, SendingUnlessLate, Accounted, Holders, Unsent, Chance, Acked
<1> QED
  BY <1>1, <1>2, <1>3, <1>4, <1>5, <1>6, <1>7 DEF Next

\* The inductive invariant: every claim is younger than the rows dealt with since
\* explain, and every holder, delivery and late attempt of a row is accounted for.
THEOREM InvariantHolds == Spec => []IInv
<1>1. Init => IInv
  BY InitHolds
<1>2. IInv /\ [Next]_vars => IInv'
  BY StepHolds
<1> QED
  BY <1>1, <1>2, PTL DEF Spec

\* Every column keeps its type, and a row passes max_attempts at most once for each
\* time it was released under a worker still at it (scheduleRetry, by id).
THEOREM TypesHold == Spec => []TypeOK
<1>1. ASSUME IInv PROVE TypeOK
  <2>1. ASSUME NEW n \in Notes PROVE attempts[n] <= MaxAttempts + late[n]
    <3>1. attempts[n] >= MaxAttempts =>
              attempts[n] + Cardinality(Holders(n)) <= MaxAttempts + late[n]
      BY <1>1 DEF IInv, Accounted
    <3> QED
      BY <1>1, <3>1, CountsAreNumbers DEF IInv
  <2> QED
    BY <1>1, <2>1 DEF IInv, TypeOK
<1> QED
  BY <1>1, InvariantHolds, PTL

\* A claimed row is one worker's until recorded or released under it, and only the
\* rows of a batch whose predecessors may fill the lease are ever released so (FOR
\* UPDATE SKIP LOCKED and the reaper together).
THEOREM ClaimsAreExclusive == Spec => []HeldByOne
<1>1. ASSUME IInv, NEW w \in Workers, NEW n \in batch[w], late[n] = 0
      PROVE  status[n] = "SENDING" /\ Holders(n) = {w}
  BY <1>1, HeldAlone
<1>2. ASSUME IInv, NEW w \in Workers, NEW n \in batch[w], Stale(n)
      PROVE  (Batch - Cardinality(batch[w]) + 1) * SendLimit > Lease
  <2> DEFINE c == Cardinality(batch[w])
  <2>1. batch[w] \in SUBSET Notes /\ n \in Notes
    BY <1>2 DEF IInv, Columns
  <2>2. c \in Nat /\ c > 0
    BY <2>1, BatchesAreFinite
  <2>3. Batch \in Nat /\ SendLimit \in Nat /\ Lease \in Nat
    BY LimitsArePositive
  <2>4. c <= Batch /\ held[n] <= (Batch - c) * SendLimit + spent[w]
    BY <1>2 DEF IInv, AgesAreBounded
  <2>5. spent[w] \in Nat /\ spent[w] <= SendLimit /\ held[n] \in Nat
    BY <1>2, <2>1, <2>3 DEF IInv, Columns
  <2>6. held[n] > Lease
    BY <1>2 DEF Stale
  <2>7. /\ (Batch - (c - 1)) * SendLimit = (Batch - c) * SendLimit + SendLimit
        /\ (Batch - c) * SendLimit \in Nat
    BY <2>2, <2>4, OneMoreRow
  <2>8. (Batch - (c - 1)) * SendLimit > Lease
    BY <2>3, <2>4, <2>5, <2>6, <2>7
  <2>9. Batch - (c - 1) = Batch - c + 1
    BY <2>2, <2>3
  <2> QED
    BY <2>8, <2>9
<1>3. IInv => HeldByOne
  BY <1>1, <1>2 DEF HeldByOne
<1> QED
  BY <1>3, InvariantHolds, PTL

\* Every second reading of a message is paid for by a worker's death, by a lost
\* answer or by a release under a worker still at it; concurrency alone causes none
\* (what ADR-0004's "no double send" comes to).
THEOREM DuplicatesHaveACause == Spec => []DuplicatesAreExplained
<1>1. ASSUME IInv PROVE DuplicatesAreExplained
  <2>1. ASSUME NEW n \in Notes PROVE delivered[n] <= 1 + aborts + lostAnswers + late[n]
    <3>1. delivered[n] + Cardinality(Unsent(n)) + Chance(n) <=
              1 + aborts + lostAnswers + late[n]
      BY <1>1 DEF IInv, Accounted
    <3> QED
      BY <1>1, <3>1, CountsAreNumbers DEF IInv
  <2> QED
    BY <2>1 DEF DuplicatesAreExplained
<1> QED
  BY <1>1, InvariantHolds, PTL

-----------------------------------------------------------------------------
(* The outbox implements the postbox.                                      *)

Fates == [n \in Notes |-> Fate(n)]
Overdue == {n \in Notes : late[n] > 0}
Seen == <<Fates, delivered, Overdue>>

\* A step that changes one row's status changes one letter's fate.
LEMMA OneFate ==
    ASSUME Columns, NEW n \in Notes, NEW s, status' = [status EXCEPT ![n] = s]
    PROVE  Fates' = [Fates EXCEPT ![n] = (Fate(n))'] /\ status'[n] = s
<1>1. status'[n] = s /\ \A l \in Notes \ {n} : status'[l] = status[l]
  BY DEF Columns
<1>2. \A l \in Notes \ {n} : (Fate(l))' = Fate(l)
  BY <1>1 DEF Fate
<1> QED
  BY <1>1, <1>2 DEF Fates

\* Rows that pass between PENDING and SENDING are owed before and after.
LEMMA SameFates ==
    ASSUME \A n \in Notes : \/ status'[n] = status[n]
                            \/ {status[n], status'[n]} \subseteq {"PENDING", "SENDING"}
    PROVE  Fates' = Fates
<1>1. \A n \in Notes : (Fate(n))' = Fate(n)
  BY DEF Fate
<1> QED
  BY <1>1 DEF Fates

\* Planning and withdrawing are the postbox's one write.
LEMMA BackendPosts ==
    ASSUME Columns, Backend
    PROVE  Promise!Next
<1>1. PICK withdrawn \in SUBSET {n \in Notes : Retractable(n)},
           planned \in SUBSET {n \in Notes : Fresh(n)} :
               \E ahead \in [planned -> Ahead] : Commit(withdrawn, planned, ahead)
  BY DEF Backend
<1>2. /\ status' = [n \in Notes |-> IF n \in planned THEN "PENDING"
                                   ELSE IF n \in withdrawn THEN "CANCELLED" ELSE status[n]]
      /\ UNCHANGED <<delivered, late>>
  BY <1>1 DEF Commit
<1>3. /\ \A n \in planned : Fates[n] = "none"
      /\ \A n \in withdrawn : Fates[n] = "owed"
  BY DEF Fresh, Retractable, Fates, Fate
<1>4. Fates' = [n \in Notes |-> IF n \in planned THEN "owed"
                               ELSE IF n \in withdrawn THEN "withdrawn" ELSE Fates[n]]
  BY <1>2 DEF Fates, Fate
<1>5. Promise!Write(planned, withdrawn)
  BY <1>2, <1>3, <1>4 DEF Promise!Write, Fates
<1>6. planned \in SUBSET Promise!With("none") /\ withdrawn \in SUBSET Promise!With("owed")
  BY <1>3 DEF Promise!With, Fates
<1> QED
  BY <1>5, <1>6 DEF Promise!Next

\* A release under a living worker makes an owed letter late; any other is unseen.
LEMMA ReapOverruns ==
    ASSUME Columns, Reap
    PROVE  Promise!Next
<1>0. PICK letters \in SUBSET Notes :
          \A n \in Notes : n \in letters <=> Stale(n) /\ Holders(n) # {}
  <2>1. {n \in Notes : Stale(n) /\ Holders(n) # {}} \in SUBSET Notes
    OBVIOUS
  <2> QED
    BY <2>1
<1>1. Fates' = Fates /\ UNCHANGED delivered
  <2>1. \A n \in Notes : \/ status'[n] = status[n]
                         \/ {status[n], status'[n]} \subseteq {"PENDING", "SENDING"}
    BY DEF Reap, Stale
  <2> QED
    BY <2>1, SameFates DEF Reap
<1>2. \A n \in letters : Fates[n] = "owed"
  BY <1>0 DEF Fates, Fate, Stale
<1>3. Overdue' = Overdue \cup letters
  <2>1. ASSUME NEW n \in Notes PROVE (late'[n] > 0) <=> (late[n] > 0 \/ n \in letters)
    <3>1. late'[n] = IF n \in letters THEN late[n] + 1 ELSE late[n]
      BY <1>0 DEF Reap
    <3>2. late[n] \in Nat
      BY DEF Columns
    <3> QED
      BY <3>1, <3>2
  <2> QED
    BY <2>1 DEF Overdue
<1>4. Promise!Overrun(letters)
  BY <1>1, <1>2, <1>3 DEF Promise!Overrun, Fates, Overdue
<1>5. letters \in SUBSET Promise!With("owed")
  BY <1>2 DEF Promise!With, Fates
<1> QED
  BY <1>4, <1>5 DEF Promise!Next

\* A worker's round settles a message, hands it over, or changes nothing seen.
LEMMA DispatchResolves ==
    ASSUME IInv, NEW w \in Workers, Dispatch(w)
    PROVE  Promise!Next \/ UNCHANGED Seen
<1>0. Columns
  BY DEF IInv
<1>1. ASSUME NEW n \in batch[w] PROVE n \in Notes /\ Promise!Open(n)
  <2>1. n \in Notes /\ late[n] \in Nat
    BY <1>0 DEF Columns
  <2>2. late[n] > 0 \/ status[n] = "SENDING"
    BY <2>1 DEF IInv, SendingUnlessLate
  <2> QED
    BY <2>1, <2>2 DEF Promise!Open, Fate
<1>2. CASE MarkSent(w)
  <2>1. PICK n \in Notes : n = acked[w]
    BY <1>2, NoNoteIsNone DEF MarkSent, IInv, Columns
  <2>2. n \in batch[w] /\ delivered[n] > 0
    BY <2>1, NoNoteIsNone DEF IInv, AckedIsHeld, Accounted, Acked
  <2>3. Fates' = [Fates EXCEPT ![n] = "sent"]
    BY <1>0, <1>2, <2>1, OneFate DEF MarkSent, Fate
  <2>4. Promise!Resolve(n, "sent")
    BY <1>1, <1>2, <2>2, <2>3 DEF Promise!Resolve, MarkSent, Fates
  <2> QED
    BY <2>4 DEF Promise!Next
<1>3. ASSUME NEW n \in Notes, Send(w, n) PROVE Promise!Next
  <2>1. Fates' = Fates
    BY <1>3, SameFates DEF Send, tableVars
  <2>2. Promise!Reach(n)
    BY <1>1, <1>3, <2>1 DEF Promise!Reach, Send, Fates
  <2> QED
    BY <2>2 DEF Promise!Next
<1>4. ASSUME NEW n \in Notes, MarkDead(w, n) PROVE Promise!Next
  <2>1. Fates' = [Fates EXCEPT ![n] = "dead"]
    BY <1>0, <1>4, OneFate DEF MarkDead, Fate
  <2>2. Promise!Resolve(n, "dead")
    BY <1>1, <1>4, <2>1 DEF Promise!Resolve, MarkDead, Fates
  <2> QED
    BY <2>2 DEF Promise!Next
<1>5. ASSUME NEW n \in Notes, NEW putOff \in Delays, NEW taken \in BOOLEAN,
             ScheduleRetry(w, n, putOff, taken)
      PROVE  Promise!Next
  <2>1. n \in batch[w] /\ UNCHANGED late
    BY <1>5 DEF ScheduleRetry
  <2>2. \E how \in {"dead", "owed"} : Fates' = [Fates EXCEPT ![n] = how]
    <3>1. CASE Spent(n)
      <4>1. status' = [status EXCEPT ![n] = "DEAD"]
        BY <1>5, <3>1 DEF ScheduleRetry
      <4> QED
        BY <1>0, <4>1, OneFate DEF Fate
    <3>2. CASE ~Spent(n)
      <4>1. status' = [status EXCEPT ![n] = "PENDING"]
        BY <1>5, <3>2 DEF ScheduleRetry
      <4>2. Fates' = [Fates EXCEPT ![n] = (Fate(n))'] /\ status'[n] = "PENDING"
        BY <1>0, <4>1, OneFate
      <4>3. (Fate(n))' = "owed"
        BY <4>2 DEF Fate
      <4> QED
        BY <4>2, <4>3
    <3> QED
      BY <3>1, <3>2
  <2>3. \/ delivered' = delivered
        \/ delivered' = [delivered EXCEPT ![n] = @ + 1]
    BY <1>5 DEF ScheduleRetry
  <2>4. PICK how \in {"dead", "owed"} : Fates' = [Fates EXCEPT ![n] = how]
    BY <2>2
  <2>5. Promise!Resolve(n, how) \/ Promise!ReachUnheard(n, how)
    BY <1>1, <2>1, <2>3, <2>4 DEF Promise!Resolve, Promise!ReachUnheard, Fates
  <2> QED
    BY <2>5 DEF Promise!Next
<1> QED
  BY <1>2, <1>3, <1>4, <1>5 DEF Dispatch

\* The outbox is the postbox the backend relies on: SENT only after the recipient
\* was reached, and a final status stays, but where a row was late.
THEOREM OutboxImplementsPostbox == Spec => ImplementsPostbox
<1>1. Init => Promise!Init
  BY DEF Init, Promise!Init, Fate
<1>2. IInv /\ [Next]_vars => Promise!Next \/ UNCHANGED Seen
  <2> SUFFICES ASSUME IInv, [Next]_vars
               PROVE  Promise!Next \/ UNCHANGED Seen
    OBVIOUS
  <2>1. CASE Backend
    BY <2>1, BackendPosts DEF IInv
  <2>2. ASSUME NEW w \in Workers, Dispatch(w) PROVE Promise!Next \/ UNCHANGED Seen
    BY <2>2, DispatchResolves
  <2>3. ASSUME NEW w \in Workers, NEW rows \in SUBSET {n \in Notes : Due(n)}, Claim(w, rows)
        PROVE  UNCHANGED Seen
    <3>1. \A n \in Notes : \/ status'[n] = status[n]
                           \/ {status[n], status'[n]} \subseteq {"PENDING", "SENDING"}
      BY <2>3 DEF Claim, Due
    <3> QED
      BY <2>3, <3>1, SameFates DEF Claim, Seen, Overdue
  <2>4. CASE Reap
    BY <2>4, ReapOverruns DEF IInv
  <2>5. CASE Tick \/ UNCHANGED vars \/ \E w \in Workers : Abort(w)
    <3>1. UNCHANGED <<status, delivered, late>>
      BY <2>5 DEF Tick, vars, tableVars, Abort
    <3> QED
      BY <3>1, SameFates DEF Seen, Overdue
  <2> QED
    BY <2>1, <2>2, <2>3, <2>4, <2>5 DEF Next, Drain
<1>3. IInv /\ [Next]_vars =>
          [Promise!Next]_<<[n \in Notes |-> Fate(n)], delivered, {n \in Notes : late[n] > 0}>>
  BY <1>2 DEF Seen, Fates, Overdue
<1> QED
  BY <1>1, <1>3, InvariantHolds, PTL DEF Spec, ImplementsPostbox, Promise!Spec

=============================================================================
