--------------------------- MODULE NoticesProofs ---------------------------
(***************************************************************************)
(* What a customer may rely on being told, for any appointments, reminders *)
(* and visits, and however the worker behaves.                             *)
(***************************************************************************)
EXTENDS Notices, TLAPS

Of(a) == {l \in Letters : l.appt = a}

\* The messages of one appointment agree with it: they are written only once it
\* exists (V010's foreign key), it has a cancellation exactly where it was
\* cancelled, and of what is obsolete only what a worker has had is still owed.
Coherent(a) ==
    /\ \A l \in Of(a) : fate[l] # "none" => diary[a] # NoRow
    /\ \A l \in Of(a) : fate[l] # "none" /\ l.kind = "CANCELLATION" =>
           diary[a].status = "CANCELLED"
    /\ diary[a] # NoRow /\ diary[a].status = "CANCELLED" =>
           fate[Letter(a, "CANCELLATION", diary[a].start)] \in {"owed", "sent", "dead"}
    /\ \A l \in Of(a) : fate[l] = "owed" /\ Obsolete(l) => l \in claimed

\* A visit has nothing but its notice to the provider left to say.
UnsaidAreNotices ==
    \A l \in unsaid : l.kind = "RESCHEDULE_NOTICE" /\ diary[l.appt] # NoRow

\* A worker that was late had been given a message that was owed.
LateWereOwed == \A l \in late : fate[l] # "none"

IInv ==
    /\ TypeOK
    /\ UnsaidAreNotices
    /\ LateWereOwed
    /\ \A a \in Appts : Coherent(a)

-----------------------------------------------------------------------------
(* What a transaction does to the messages, and to the diary.              *)

\* Every message planned for a booking is the booking's own.
LEMMA BookingLetters ==
    ASSUME TypeOK, NEW a \in Appts, NEW start \in Times
    PROVE  /\ ForBooking(a, start) \subseteq Of(a)
           /\ \A l \in ForBooking(a, start) :
                  /\ l.kind \in {"BOOKING_CONFIRMATION", "REMINDER", "BOOKING_NOTICE"}
                  /\ l.kind # "REMINDER" => l.at = start
                  /\ l.kind = "REMINDER" => l.at > now /\ \E b \in Before : start = l.at + b
<1>1. Horizon \in Nat /\ now \in Nat /\ start \in Nat /\ start <= Horizon
  BY HorizonIsNatural DEF TypeOK, Times
<1>2. ASSUME NEW b \in Before, start > now + b
      PROVE  start - b \in Times /\ start - b > now /\ start = (start - b) + b
  BY <1>1, <1>2, BeforeIsNatural DEF Times
<1>3. ASSUME NEW l \in Reminders(a, start)
      PROVE  /\ l \in Of(a) /\ l.kind = "REMINDER" /\ l.at > now
             /\ \E b \in Before : start = l.at + b
  BY <1>2, <1>3 DEF Reminders, Letter, Of, Letters, Kinds
<1> QED
  BY <1>3 DEF ForBooking, ToProvider, Letter, Of, Letters, Kinds

\* A transaction that only plans: new keys become owed, and nothing else moves.
LEMMA Posting ==
    ASSUME TypeOK, NEW a \in Appts, NEW planned \in SUBSET Of(a),
           Box!Write(Fresh(planned), {})
    PROVE  /\ fate' \in [Letters -> {"none", "owed", "sent", "dead", "withdrawn"}]
           /\ reached' = reached /\ late' = late
           /\ \A l \in Letters : \/ l \in planned /\ fate[l] = "none" /\ fate'[l] = "owed"
                                 \/ fate'[l] = fate[l]
           /\ \A l \in planned : fate'[l] # "none"
  BY DEF Box!Write, Fresh, TypeOK, Of

\* A transaction that withdraws and plans: afterwards nothing of its appointment is
\* owed but what it planned and what a worker has had.
LEMMA Replacing ==
    ASSUME TypeOK, NEW a \in Appts, NEW planned \in SUBSET Of(a),
           RetractThenPost(a, planned)
    PROVE  /\ fate' \in [Letters -> {"none", "owed", "sent", "dead", "withdrawn"}]
           /\ reached' = reached /\ late' = late
           /\ \A l \in Letters \ Of(a) : fate'[l] = fate[l]
           /\ \A l \in Of(a) :
                  /\ fate'[l] = "owed" => l \in planned \/ l \in claimed
                  /\ fate'[l] = "owed" => fate[l] \in {"none", "owed"}
                  /\ fate[l] = "none" => fate'[l] = IF l \in planned THEN "owed" ELSE "none"
                  /\ fate'[l] = "none" => fate[l] = "none"
<1>1. PICK withdrawn \in Retracted(a) : Box!Write(Fresh(planned), withdrawn)
  BY DEF RetractThenPost
<1>2. PICK kept \in SUBSET (Pending(a) \cap claimed) : withdrawn = Pending(a) \ kept
  BY DEF Retracted
<1>3. /\ fate' = [l \in Letters |-> IF l \in Fresh(planned) THEN "owed"
                                    ELSE IF l \in withdrawn THEN "withdrawn" ELSE fate[l]]
      /\ reached' = reached /\ late' = late
  BY <1>1 DEF Box!Write
<1>4. withdrawn \subseteq Of(a) /\ planned \subseteq Of(a)
  BY <1>2 DEF Pending, Of
<1>5. ASSUME NEW l \in Of(a), fate'[l] = "owed" PROVE l \in planned \/ l \in claimed
  <2>1. CASE l \in Fresh(planned)
    BY <2>1 DEF Fresh
  <2>2. CASE l \notin Fresh(planned)
    <3>1. l \notin withdrawn /\ fate[l] = "owed" /\ l \in Letters /\ l.appt = a
      BY <1>3, <1>5, <2>2 DEF Of
    <3>2. l \in kept
      BY <1>2, <3>1 DEF Pending
    <3> QED
      BY <1>2, <3>2
  <2> QED
    BY <2>1, <2>2
<1>6. ASSUME NEW l \in Of(a), fate[l] = "none"
      PROVE  fate'[l] = IF l \in planned THEN "owed" ELSE "none"
  BY <1>2, <1>3, <1>6 DEF Fresh, Pending, Of
<1>7. ASSUME NEW l \in Of(a), fate'[l] = "none" PROVE fate[l] = "none"
  BY <1>3, <1>7 DEF Of
<1>8. fate' \in [Letters -> {"none", "owed", "sent", "dead", "withdrawn"}]
  BY <1>3 DEF TypeOK
<1>9. \A l \in Letters \ Of(a) : fate'[l] = fate[l]
  BY <1>3, <1>4 DEF Fresh
<1>10. ASSUME NEW l \in Of(a), fate'[l] = "owed" PROVE fate[l] \in {"none", "owed"}
  BY <1>3, <1>10 DEF Fresh, Of
<1> QED
  BY <1>3, <1>5, <1>6, <1>7, <1>8, <1>9, <1>10

\* What leaves an appointment and its messages alone leaves them coherent.
LEMMA OthersKeep ==
    ASSUME IInv, NEW a \in Appts, claimed \subseteq claimed',
           diary'[a] = diary[a], \A l \in Of(a) : fate'[l] = fate[l]
    PROVE  Coherent(a)'
<1>1. Coherent(a)
  BY DEF IInv
<1>2. \A l \in Of(a) : (Obsolete(l))' <=> Obsolete(l)
  BY DEF Obsolete, Of
<1>3. diary[a] # NoRow => Letter(a, "CANCELLATION", diary[a].start) \in Of(a)
  BY DEF IInv, TypeOK, Row, Letter, Letters, Kinds, Of
<1> QED
  BY <1>1, <1>2, <1>3 DEF Coherent, Of

-----------------------------------------------------------------------------
(* Each step keeps the invariant.                                          *)

\* A booking makes a row where there was none, so nothing had been said of it.
LEMMA TakeStep ==
    ASSUME IInv, NEW a \in Appts, NEW staff \in Staff, NEW start \in Times,
           NEW status \in Active, Take(a, staff, start, status)
    PROVE  IInv'
<1> DEFINE planned == ForBooking(a, start)
           row == [staff |-> staff, start |-> start, status |-> status]
<1>1. planned \subseteq Of(a) /\ TypeOK
  BY BookingLetters DEF IInv
<1>2. /\ diary[a] = NoRow /\ diary' = [diary EXCEPT ![a] = row]
      /\ Box!Write(Fresh(planned), {})
      /\ UNCHANGED <<claimed, inTime, unsaid, moves, crashes, now>>
  BY DEF Take, Book!Take, visitVars, bounds
<1>3. row \in Row /\ row # NoRow /\ status # "CANCELLED"
  BY NoRowIsNoRecord DEF Row, Statuses, Active
<1>4. diary' \in [Appts -> Row \cup {NoRow}] /\ diary'[a] = row
      /\ \A b \in Appts \ {a} : diary'[b] = diary[b]
  BY <1>1, <1>2, <1>3 DEF TypeOK
<1>5. /\ fate' \in [Letters -> {"none", "owed", "sent", "dead", "withdrawn"}]
      /\ reached' = reached /\ late' = late
      /\ \A l \in Letters : \/ l \in planned /\ fate[l] = "none" /\ fate'[l] = "owed"
                            \/ fate'[l] = fate[l]
  BY <1>1, <1>2, Posting
<1>6. TypeOK' /\ LateWereOwed'
  BY <1>1, <1>2, <1>4, <1>5 DEF IInv, TypeOK, LateWereOwed
<1>7. UnsaidAreNotices'
  BY <1>1, <1>2, <1>3, <1>4 DEF IInv, UnsaidAreNotices, TypeOK, Letters
<1>8. Coherent(a)'
  <2>1. \A l \in Of(a) : fate[l] = "none"
    BY <1>2 DEF IInv, Coherent
  <2>2. ASSUME NEW l \in Of(a), fate'[l] # "none"
        PROVE  l.kind # "CANCELLATION" /\ ~(Obsolete(l))'
    <3>1. l \in planned /\ l \in Letters /\ l.appt = a
      BY <1>5, <2>1, <2>2 DEF Of
    <3> QED
      BY <1>1, <1>3, <1>4, <3>1, BookingLetters DEF Obsolete
  <2> QED
    BY <1>3, <1>4, <2>2 DEF Coherent
<1>9. ASSUME NEW b \in Appts \ {a} PROVE Coherent(b)'
  BY <1>1, <1>2, <1>4, <1>5, OthersKeep DEF Of
<1> QED
  BY <1>6, <1>7, <1>8, <1>9 DEF IInv

\* An acceptance plans one message, for the time the appointment has.
LEMMA ConfirmStep ==
    ASSUME IInv, NEW a \in Appts, Confirm(a)
    PROVE  IInv'
<1> DEFINE letter == Letter(a, "BOOKING_ACCEPTED", diary[a].start)
           row == [staff |-> diary[a].staff, start |-> diary[a].start, status |-> "CONFIRMED"]
<1>1. /\ diary[a] # NoRow /\ diary[a].status = "PENDING"
      /\ diary' = [diary EXCEPT ![a] = row] /\ Box!Write(Fresh({letter}), {})
      /\ UNCHANGED <<claimed, inTime, unsaid, moves, crashes, now>>
  BY DEF Confirm, Book!Close, visitVars, bounds
<1>2. TypeOK /\ diary[a] \in Row
  BY <1>1 DEF IInv, TypeOK
<1>3. row \in Row /\ row # NoRow
  BY <1>2, NoRowIsNoRecord DEF Row, Statuses
<1>4. diary' \in [Appts -> Row \cup {NoRow}] /\ diary'[a] = row
      /\ \A b \in Appts \ {a} : diary'[b] = diary[b]
  BY <1>1, <1>2, <1>3 DEF TypeOK
<1>5. letter \in Of(a) /\ letter.kind = "BOOKING_ACCEPTED" /\ letter.at = diary[a].start
  BY <1>2 DEF Letter, Letters, Kinds, Of, Row
<1>6. /\ fate' \in [Letters -> {"none", "owed", "sent", "dead", "withdrawn"}]
      /\ reached' = reached /\ late' = late
      /\ \A l \in Letters : \/ l \in {letter} /\ fate[l] = "none" /\ fate'[l] = "owed"
                            \/ fate'[l] = fate[l]
  <2>1. {letter} \in SUBSET Of(a)
    BY <1>5
  <2> QED
    BY <1>1, <1>2, <2>1, Posting
<1>7. TypeOK' /\ LateWereOwed'
  BY <1>1, <1>2, <1>4, <1>5, <1>6 DEF IInv, TypeOK, LateWereOwed
<1>8. UnsaidAreNotices'
  BY <1>1, <1>2, <1>3, <1>4 DEF IInv, UnsaidAreNotices, TypeOK, Letters
<1>9. Coherent(a)'
  <2>1. Coherent(a)
    BY DEF IInv
  <2>2. ASSUME NEW l \in Of(a), fate'[l] # "none" PROVE l.kind # "CANCELLATION"
    BY <1>1, <1>5, <1>6, <2>1, <2>2 DEF Coherent, Of
  <2>3. ASSUME NEW l \in Of(a), fate'[l] = "owed", (Obsolete(l))' PROVE l \in claimed
    <3>1. l.appt = a /\ diary'[a].start = diary[a].start /\ diary'[a].status = "CONFIRMED"
      BY <1>4 DEF Of
    <3>2. Obsolete(l)
      BY <1>1, <2>3, <3>1 DEF Obsolete
    <3>3. l # letter
      BY <1>4, <1>5, <2>3, <3>1 DEF Obsolete
    <3>4. fate[l] = "owed"
      BY <1>6, <2>3, <3>3 DEF Of
    <3> QED
      BY <2>1, <3>2, <3>4 DEF Coherent
  <2> QED
    BY <1>1, <1>3, <1>4, <2>2, <2>3 DEF Coherent
<1>10. ASSUME NEW b \in Appts \ {a} PROVE Coherent(b)'
  BY <1>1, <1>4, <1>5, <1>6, OthersKeep DEF Of
<1> QED
  BY <1>7, <1>8, <1>9, <1>10 DEF IInv


\* A conclusion says nothing, and makes nothing obsolete that was not.
LEMMA ConcludeStep ==
    ASSUME IInv, NEW a \in Appts, NEW to \in {"COMPLETED", "NO_SHOW"}, Conclude(a, to)
    PROVE  IInv'
<1> DEFINE row == [staff |-> diary[a].staff, start |-> diary[a].start, status |-> to]
<1>1. /\ diary[a] # NoRow /\ to \in Legal(diary[a].status)
      /\ diary' = [diary EXCEPT ![a] = row]
      /\ UNCHANGED <<fate, reached, late, claimed, inTime, unsaid, moves, crashes, now>>
  BY DEF Conclude, Book!Close, Book!Legal, Legal, boxVars, visitVars, bounds
<1>2. TypeOK /\ diary[a] \in Row
  BY <1>1 DEF IInv, TypeOK
<1>3. row \in Row /\ row # NoRow /\ diary[a].status # "CANCELLED"
  BY <1>1, <1>2, NoRowIsNoRecord DEF Row, Statuses, Legal
<1>4. diary' \in [Appts -> Row \cup {NoRow}] /\ diary'[a] = row
      /\ \A b \in Appts \ {a} : diary'[b] = diary[b]
  BY <1>1, <1>2, <1>3 DEF TypeOK
<1>5. TypeOK' /\ LateWereOwed'
  BY <1>1, <1>2, <1>4 DEF IInv, TypeOK, LateWereOwed
<1>6. UnsaidAreNotices'
  BY <1>1, <1>2, <1>3, <1>4 DEF IInv, UnsaidAreNotices, TypeOK, Letters
<1>7. Coherent(a)'
  <2>1. Coherent(a)
    BY DEF IInv
  <2>2. ASSUME NEW l \in Of(a), fate'[l] # "none" PROVE l.kind # "CANCELLATION"
    BY <1>1, <1>3, <2>1, <2>2 DEF Coherent
  <2>3. ASSUME NEW l \in Of(a), fate'[l] = "owed", (Obsolete(l))' PROVE l \in claimed
    <3>1. l.appt = a /\ diary'[a].start = diary[a].start /\ diary'[a].status = to
      BY <1>4 DEF Of
    <3>2. Obsolete(l)
      BY <1>1, <2>3, <3>1 DEF Obsolete
    <3> QED
      BY <1>1, <2>1, <2>3, <3>2 DEF Coherent
  <2> QED
    BY <1>1, <1>3, <1>4, <2>2, <2>3 DEF Coherent
<1>8. ASSUME NEW b \in Appts \ {a} PROVE Coherent(b)'
  BY <1>1, <1>4, OthersKeep
<1> QED
  BY <1>5, <1>6, <1>7, <1>8 DEF IInv

\* Whoever calls an appointment off: everything owed goes but what a worker has
\* had, and then the cancellation is planned, for which there was no message yet.
LEMMA CalledOff ==
    ASSUME IInv, NEW a \in Appts, NEW planned \in SUBSET Of(a),
           Letter(a, "CANCELLATION", diary[a].start) \in planned,
           \A l \in planned : l.kind \in {"CANCELLATION", "CANCELLATION_NOTICE"},
           Book!Close(a, "CANCELLED"), RetractThenPost(a, planned), inTime' \subseteq inTime,
           UNCHANGED <<claimed, unsaid, moves, crashes, now>>
    PROVE  IInv'
<1> DEFINE row == [staff |-> diary[a].staff, start |-> diary[a].start, status |-> "CANCELLED"]
           told == Letter(a, "CANCELLATION", diary[a].start)
<1>1. /\ diary[a] # NoRow /\ "CANCELLED" \in Legal(diary[a].status)
      /\ diary' = [diary EXCEPT ![a] = row]
  BY DEF Book!Close, Book!Legal, Legal
<1>2. TypeOK /\ diary[a] \in Row
  BY <1>1 DEF IInv, TypeOK
<1>3. row \in Row /\ row # NoRow /\ diary[a].status # "CANCELLED"
  BY <1>1, <1>2, NoRowIsNoRecord DEF Row, Statuses, Legal
<1>4. diary' \in [Appts -> Row \cup {NoRow}] /\ diary'[a] = row
      /\ \A b \in Appts \ {a} : diary'[b] = diary[b]
  BY <1>1, <1>2, <1>3 DEF TypeOK
<1>5. /\ fate' \in [Letters -> {"none", "owed", "sent", "dead", "withdrawn"}]
      /\ reached' = reached /\ late' = late
      /\ \A l \in Letters \ Of(a) : fate'[l] = fate[l]
      /\ \A l \in Of(a) :
             /\ fate'[l] = "owed" => l \in planned \/ l \in claimed
             /\ fate[l] = "none" => fate'[l] = IF l \in planned THEN "owed" ELSE "none"
             /\ fate'[l] = "none" => fate[l] = "none"
  BY <1>2, Replacing
<1>6. TypeOK' /\ LateWereOwed'
  <2>1. TypeOK'
    BY <1>2, <1>4, <1>5 DEF TypeOK
  <2>2. \A l \in Letters : fate'[l] = "none" => fate[l] = "none"
    BY <1>5
  <2> QED
    BY <1>2, <1>5, <2>1, <2>2 DEF IInv, TypeOK, LateWereOwed
<1>7. UnsaidAreNotices'
  BY <1>1, <1>2, <1>3, <1>4 DEF IInv, UnsaidAreNotices, TypeOK, Letters
<1>8. Coherent(a)'
  <2>1. Coherent(a)
    BY DEF IInv
  <2>2. fate[told] = "none" /\ told \in Of(a) /\ told.kind = "CANCELLATION"
    BY <1>1, <1>3, <2>1 DEF Coherent, Letter
  <2>3. fate'[told] = "owed"
    BY <1>5, <2>2
  <2>4. ASSUME NEW l \in Of(a), fate'[l] = "owed", (Obsolete(l))' PROVE l \in claimed
    BY <1>5, <2>4 DEF Obsolete
  <2> QED
    BY <1>3, <1>4, <2>3, <2>4 DEF Coherent
<1>9. ASSUME NEW b \in Appts \ {a} PROVE Coherent(b)'
  <2>1. \A l \in Of(b) : fate'[l] = fate[l]
    BY <1>5 DEF Of
  <2> QED
    BY <1>4, <2>1, OthersKeep
<1> QED
  BY <1>6, <1>7, <1>8, <1>9 DEF IInv

\* Whoever moves an appointment: what was owed for the old time goes but what a
\* worker has had, and all that is planned is for the new one.
LEMMA RescheduleStep ==
    ASSUME IInv, NEW a \in Appts, NEW staff \in Staff, NEW start \in Times,
           Reschedule(a, staff, start), inTime' \subseteq inTime,
           unsaid' \subseteq unsaid \cup {Letter(a, "RESCHEDULE_NOTICE", start)}
    PROVE  IInv'
<1> DEFINE row == [staff |-> staff, start |-> start, status |-> diary[a].status]
           told == Letter(a, "RESCHEDULE", start)
<1>1. /\ diary[a] # NoRow /\ diary[a].status \in Active
      /\ diary' = [diary EXCEPT ![a] = row]
      /\ RetractThenPost(a, {told})
      /\ moves' = moves + 1
      /\ UNCHANGED <<claimed, crashes, now>>
  BY DEF Reschedule, Book!Move, Book!Active, Active
<1>2. TypeOK /\ diary[a] \in Row
  BY <1>1 DEF IInv, TypeOK
<1>3. row \in Row /\ row # NoRow /\ diary[a].status # "CANCELLED"
  BY <1>1, <1>2, NoRowIsNoRecord DEF Row, Active
<1>4. diary' \in [Appts -> Row \cup {NoRow}] /\ diary'[a] = row
      /\ \A b \in Appts \ {a} : diary'[b] = diary[b]
  BY <1>1, <1>2, <1>3 DEF TypeOK
<1>5. /\ told \in Of(a) /\ told.kind = "RESCHEDULE" /\ told.at = start
      /\ Letter(a, "RESCHEDULE_NOTICE", start) \in Letters
      /\ Letter(a, "RESCHEDULE_NOTICE", start).kind = "RESCHEDULE_NOTICE"
      /\ Letter(a, "RESCHEDULE_NOTICE", start).appt = a
  BY DEF Letter, Letters, Kinds, Of
<1>6. /\ fate' \in [Letters -> {"none", "owed", "sent", "dead", "withdrawn"}]
      /\ reached' = reached /\ late' = late
      /\ \A l \in Letters \ Of(a) : fate'[l] = fate[l]
      /\ \A l \in Of(a) :
             /\ fate'[l] = "owed" => l = told \/ l \in claimed
             /\ fate[l] = "none" => fate'[l] = IF l = told THEN "owed" ELSE "none"
             /\ fate'[l] = "none" => fate[l] = "none"
  <2>1. {told} \in SUBSET Of(a)
    BY <1>5
  <2> QED
    BY <1>1, <1>2, <2>1, Replacing
<1>7. TypeOK' /\ LateWereOwed'
  <2>1. TypeOK'
    BY <1>1, <1>2, <1>4, <1>5, <1>6 DEF TypeOK
  <2>2. \A l \in Letters : fate'[l] = "none" => fate[l] = "none"
    BY <1>6
  <2> QED
    BY <1>2, <1>6, <2>1, <2>2 DEF IInv, TypeOK, LateWereOwed
<1>8. UnsaidAreNotices'
  BY <1>2, <1>3, <1>4, <1>5 DEF IInv, UnsaidAreNotices, TypeOK, Letters
<1>9. Coherent(a)'
  <2>1. Coherent(a)
    BY DEF IInv
  <2>2. ASSUME NEW l \in Of(a), fate'[l] # "none" PROVE l.kind # "CANCELLATION"
    BY <1>3, <1>5, <1>6, <2>1, <2>2 DEF Coherent
  <2>3. ~(Obsolete(told))'
    BY <1>3, <1>4, <1>5 DEF Obsolete, Of
  <2>4. ASSUME NEW l \in Of(a), fate'[l] = "owed", (Obsolete(l))' PROVE l \in claimed
    BY <1>6, <2>3, <2>4
  <2> QED
    BY <1>1, <1>3, <1>4, <2>2, <2>4 DEF Coherent
<1>10. ASSUME NEW b \in Appts \ {a} PROVE Coherent(b)'
  <2>1. \A l \in Of(b) : fate'[l] = fate[l]
    BY <1>6 DEF Of
  <2> QED
    BY <1>1, <1>4, <2>1, OthersKeep
<1> QED
  BY <1>7, <1>8, <1>9, <1>10 DEF IInv

\* A step that leaves appointments and messages alone, and has no more to say.
LEMMA QuietStep ==
    ASSUME IInv, TypeOK', UNCHANGED <<diary, fate>>,
           claimed \subseteq claimed', unsaid' \subseteq unsaid,
           \A l \in late' : l \in late \/ fate[l] = "owed"
    PROVE  IInv'
<1>1. UnsaidAreNotices' /\ LateWereOwed'
  BY DEF IInv, UnsaidAreNotices, LateWereOwed
<1>2. ASSUME NEW a \in Appts PROVE Coherent(a)'
  BY OthersKeep
<1> QED
  BY <1>1, <1>2 DEF IInv

\* The notice a visit still owed is of no kind that could be obsolete.
LEMMA TellStep ==
    ASSUME IInv, NEW letter \in Letters, Tell(letter)
    PROVE  IInv'
<1> DEFINE a == letter.appt
<1>1. /\ letter \in unsaid /\ Box!Write(Fresh({letter}), {})
      /\ unsaid' \subseteq unsaid
      /\ UNCHANGED <<diary, claimed, inTime, moves, crashes, now>>
  BY DEF Tell, bounds
<1>2. TypeOK /\ a \in Appts /\ letter \in Of(a) /\ letter.kind = "RESCHEDULE_NOTICE"
      /\ diary[a] # NoRow
  BY <1>1 DEF IInv, UnsaidAreNotices, Letters, Of
<1>3. /\ fate' \in [Letters -> {"none", "owed", "sent", "dead", "withdrawn"}]
      /\ reached' = reached /\ late' = late
      /\ \A l \in Letters : \/ l \in {letter} /\ fate[l] = "none" /\ fate'[l] = "owed"
                            \/ fate'[l] = fate[l]
  <2>1. {letter} \in SUBSET Of(a)
    BY <1>2
  <2> QED
    BY <1>1, <1>2, <2>1, Posting
<1>4. TypeOK' /\ LateWereOwed'
  BY <1>1, <1>2, <1>3 DEF IInv, TypeOK, LateWereOwed
<1>5. UnsaidAreNotices'
  BY <1>1 DEF IInv, UnsaidAreNotices
<1>6. ASSUME NEW b \in Appts PROVE Coherent(b)'
  <2>1. Coherent(b)
    BY DEF IInv
  <2>2. CASE b # a
    <3>1. \A l \in Of(b) : fate'[l] = fate[l]
      BY <1>3, <2>2 DEF Of
    <3> QED
      BY <1>1, <3>1, OthersKeep
  <2>3. CASE b = a
    <3>1. \A l \in Of(b) : l # letter => fate'[l] = fate[l]
      BY <1>3 DEF Of
    <3>2. /\ \A l \in Of(b) : (Obsolete(l))' <=> Obsolete(l)
          /\ ~Obsolete(letter)
      BY <1>1, <1>2 DEF Obsolete
    <3>3. Letter(b, "CANCELLATION", diary[b].start) # letter
      BY <1>2 DEF Letter
    <3>4. diary[b] # NoRow => Letter(b, "CANCELLATION", diary[b].start) \in Of(b)
      BY <1>2 DEF TypeOK, Row, Letter, Letters, Kinds, Of
    <3> QED
      BY <1>1, <1>2, <2>1, <2>3, <3>1, <3>2, <3>3, <3>4 DEF Coherent
  <2> QED
    BY <2>2, <2>3
<1> QED
  BY <1>4, <1>5, <1>6 DEF IInv

\* The worker settles what it has in its hands: what is owed, or was late.
LEMMA DeliverStep ==
    ASSUME IInv, NEW letter \in claimed, Deliver(letter)
    PROVE  IInv'
<1>1. TypeOK /\ UNCHANGED <<diary, late, claimed, inTime, unsaid, moves, crashes, now>>
  BY DEF IInv, Deliver, Box!Reach, Box!ReachUnheard, Box!Resolve, visitVars, bounds
<1>2. letter \in Letters /\ fate[letter] # "none"
  BY <1>1 DEF IInv, LateWereOwed, TypeOK, Deliver, Box!Reach, Box!ReachUnheard,
              Box!Resolve, Box!Open
<1>3. reached' \in [Letters -> Nat]
  BY <1>1 DEF Deliver, Box!Reach, Box!ReachUnheard, Box!Resolve, TypeOK
<1>4. \/ fate' = fate
      \/ \E how \in {"sent", "dead", "owed"} : fate' = [fate EXCEPT ![letter] = how]
  BY DEF Deliver, Box!Reach, Box!ReachUnheard, Box!Resolve
<1>5. /\ fate' \in [Letters -> {"none", "owed", "sent", "dead", "withdrawn"}]
      /\ \A l \in Letters :
             \/ fate'[l] = fate[l]
             \/ l \in claimed /\ fate[l] # "none" /\ fate'[l] \in {"sent", "dead", "owed"}
  BY <1>1, <1>2, <1>4 DEF TypeOK
<1>6. TypeOK' /\ LateWereOwed'
  BY <1>1, <1>3, <1>5 DEF IInv, TypeOK, LateWereOwed
<1>7. UnsaidAreNotices'
  BY <1>1 DEF IInv, UnsaidAreNotices
<1>8. ASSUME NEW a \in Appts PROVE Coherent(a)'
  <2>1. Coherent(a)
    BY DEF IInv
  <2>2. \A l \in Of(a) : (Obsolete(l))' <=> Obsolete(l)
    BY <1>1 DEF Obsolete
  <2>3. diary[a] # NoRow => Letter(a, "CANCELLATION", diary[a].start) \in Of(a)
    BY <1>1 DEF TypeOK, Row, Letter, Letters, Kinds, Of
  <2>4. \A l \in Of(a) :
            \/ fate'[l] = fate[l]
            \/ l \in claimed /\ fate[l] # "none" /\ fate'[l] \in {"sent", "dead", "owed"}
    BY <1>5 DEF Of
  <2> QED
    BY <1>1, <2>1, <2>2, <2>3, <2>4 DEF Coherent
<1> QED
  BY <1>6, <1>7, <1>8 DEF IInv

-----------------------------------------------------------------------------
(* The invariant, and what follows from it.                                *)

\* With no appointment there is nothing to say.
LEMMA InitHolds == Init => IInv
<1> SUFFICES ASSUME Init PROVE IInv
  OBVIOUS
<1>1. TypeOK
  BY DEF Init, Book!Init, Box!Init, TypeOK
<1> QED
  BY <1>1 DEF Init, Book!Init, Box!Init, IInv, UnsaidAreNotices, LateWereOwed, Coherent, Of

\* What the provider does, ...
LEMMA ProviderStepHolds ==
    ASSUME IInv, NEW a \in Appts, ProviderStep(a)
    PROVE  IInv'
<1>1. CASE Confirm(a)
  BY <1>1, ConfirmStep
<1>2. CASE Cancel(a)
  <2> DEFINE told == Letter(a, "CANCELLATION", diary[a].start)
  <2>1. /\ Book!Close(a, "CANCELLED") /\ RetractThenPost(a, {told})
        /\ UNCHANGED <<claimed, inTime, unsaid, moves, crashes, now>>
    BY <1>2 DEF Cancel, visitVars, bounds
  <2>2. diary[a] \in Row
    BY <2>1 DEF Book!Close, IInv, TypeOK
  <2>3. {told} \in SUBSET Of(a) /\ told.kind = "CANCELLATION"
    BY <2>2 DEF Row, Letter, Letters, Kinds, Of
  <2> QED
    BY <2>1, <2>3, CalledOff
<1>3. ASSUME NEW to \in {"COMPLETED", "NO_SHOW"}, Conclude(a, to) PROVE IInv'
  BY <1>3, ConcludeStep
<1>4. ASSUME NEW staff \in Staff, NEW start \in Times, ProviderMoves(a, staff, start)
      PROVE  IInv'
  BY <1>4, RescheduleStep DEF ProviderMoves, visitVars
<1>5. ASSUME NEW staff \in Staff, NEW start \in Times, NEW status \in Active,
             Take(a, staff, start, status)
      PROVE  IInv'
  BY <1>5, TakeStep
<1> QED
  BY <1>1, <1>2, <1>3, <1>4, <1>5 DEF ProviderStep

\* ... what the customer does, ...
LEMMA CustomerStepHolds ==
    ASSUME IInv, NEW a \in Appts, CustomerStep(a)
    PROVE  IInv'
<1>1. TypeOK
  BY DEF IInv
<1>2. CASE Look(a) \/ Leave(a)
  <2>1. UNCHANGED <<diary, fate, reached, late, claimed, unsaid, moves, crashes, now>>
        /\ inTime' \subseteq inTime \cup {a}
    BY <1>2 DEF Look, Leave, boxVars, bounds
  <2> QED
    BY <1>1, <2>1, QuietStep DEF TypeOK
<1>3. CASE CustomerCancels(a)
  <2> DEFINE told == Letter(a, "CANCELLATION", diary[a].start)
             planned == {told} \cup
                        ToProvider(Letter(a, "CANCELLATION_NOTICE", diary[a].start))
  <2>1. /\ Book!Close(a, "CANCELLED") /\ RetractThenPost(a, planned)
        /\ inTime' \subseteq inTime
        /\ UNCHANGED <<claimed, unsaid, moves, crashes, now>>
    BY <1>3 DEF CustomerCancels, bounds
  <2>2. diary[a] \in Row
    BY <1>1, <2>1 DEF Book!Close, TypeOK
  <2>3. /\ planned \in SUBSET Of(a) /\ told \in planned
        /\ \A l \in planned : l.kind \in {"CANCELLATION", "CANCELLATION_NOTICE"}
    BY <2>2 DEF Row, ToProvider, Letter, Letters, Kinds, Of
  <2> HIDE DEF planned
  <2> QED
    BY <2>1, <2>3, CalledOff
<1>4. ASSUME NEW start \in Times, CustomerMoves(a, start) PROVE IInv'
  <2>1. /\ diary[a].staff \in Staff /\ Reschedule(a, diary[a].staff, start)
        /\ inTime' \subseteq inTime
        /\ unsaid' \subseteq unsaid \cup {Letter(a, "RESCHEDULE_NOTICE", start)}
    BY <1>1, <1>4 DEF CustomerMoves, ToProvider, TypeOK, Row
  <2> QED
    BY <2>1, RescheduleStep
<1> QED
  BY <1>2, <1>3, <1>4 DEF CustomerStep

\* ... and every other step keep the messages coherent.
LEMMA StepHolds == IInv /\ [Next]_vars => IInv'
<1> SUFFICES ASSUME IInv, [Next]_vars PROVE IInv'
  OBVIOUS
<1>1. TypeOK
  BY DEF IInv
<1>2. ASSUME NEW a \in Appts, ProviderStep(a) \/ CustomerStep(a) PROVE IInv'
  BY <1>2, ProviderStepHolds, CustomerStepHolds
<1>3. ASSUME NEW l \in unsaid, Tell(l) \/ Crash(l) PROVE IInv'
  <2>1. l \in Letters
    BY <1>1 DEF TypeOK
  <2>2. CASE Tell(l)
    BY <2>1, <2>2, TellStep
  <2>3. CASE Crash(l)
    BY <1>1, <2>3, QuietStep DEF Crash, boxVars, TypeOK
  <2> QED
    BY <1>3, <2>2, <2>3
<1>4. ASSUME NEW l \in Letters, Claim(l) PROVE IInv'
  BY <1>1, <1>4, QuietStep DEF Claim, boxVars, visitVars, bounds, TypeOK
<1>5. ASSUME NEW l \in claimed, Overrun(l) PROVE IInv'
  BY <1>1, <1>5, QuietStep DEF Overrun, Box!Overrun, visitVars, bounds, TypeOK
<1>6. ASSUME NEW l \in claimed, Deliver(l) PROVE IInv'
  BY <1>6, DeliverStep
<1>7. CASE Tick
  BY <1>1, <1>7, QuietStep DEF Tick, boxVars, visitVars, bounds, TypeOK
<1>8. CASE UNCHANGED vars
  BY <1>1, <1>8, QuietStep DEF vars, boxVars, visitVars, bounds, TypeOK
<1> QED
  BY <1>2, <1>3, <1>4, <1>5, <1>6, <1>7, <1>8 DEF Next

\* The inductive invariant: an appointment and its messages agree.
THEOREM InvariantHolds == Spec => []IInv
<1> QED
  BY InitHolds, StepHolds, PTL DEF Spec

\* Messages come to be owed only by being planned, reminders ahead of their hour, or
\* by a late worker's failure.
OwedWell ==
    \A l \in Letters : fate'[l] = "owed" /\ fate[l] # "owed" =>
        \/ fate[l] = "none" /\ (l.kind = "REMINDER" => l.at > now)
        \/ l \in late

\* A change of an appointment withdraws, and plans no reminder.
LEMMA ChangeOwesWell ==
    ASSUME IInv, NEW a \in Appts, NEW planned,
           \A l \in planned : l \in Of(a) /\ l.kind # "REMINDER",
           RetractThenPost(a, planned)
    PROVE  OwedWell
<1>1. TypeOK /\ planned \in SUBSET Of(a)
  BY DEF IInv
<1>2. /\ \A l \in Letters \ Of(a) : fate'[l] = fate[l]
      /\ \A l \in Of(a) :
             /\ fate'[l] = "owed" => fate[l] \in {"none", "owed"}
             /\ fate[l] = "none" => fate'[l] = IF l \in planned THEN "owed" ELSE "none"
  BY <1>1, Replacing
<1>3. ASSUME NEW l \in Letters, fate'[l] = "owed", fate[l] # "owed"
      PROVE  fate[l] = "none" /\ l.kind # "REMINDER"
  BY <1>2, <1>3
<1> QED
  BY <1>3 DEF OwedWell

\* Nothing else than a booking plans a reminder.
LEMMA StepOwesWell == IInv /\ Next => OwedWell
<1> SUFFICES ASSUME IInv, Next PROVE OwedWell
  OBVIOUS
<1>1. TypeOK
  BY DEF IInv
<1>2. fate' = fate => OwedWell
  BY DEF OwedWell
<1>3. ASSUME NEW a \in Appts, NEW staff \in Staff, NEW start \in Times,
             NEW status \in Active, Take(a, staff, start, status)
      PROVE  OwedWell
  <2>1. ForBooking(a, start) \in SUBSET Of(a)
    BY <1>1, BookingLetters
  <2>2. \A l \in Letters :
            \/ l \in ForBooking(a, start) /\ fate[l] = "none" /\ fate'[l] = "owed"
            \/ fate'[l] = fate[l]
    BY <1>1, <1>3, <2>1, Posting DEF Take
  <2>3. \A l \in ForBooking(a, start) : l.kind = "REMINDER" => l.at > now
    BY <1>1, BookingLetters
  <2> QED
    BY <2>2, <2>3 DEF OwedWell
<1>4. ASSUME NEW a \in Appts, Confirm(a) PROVE OwedWell
  <2> DEFINE letter == Letter(a, "BOOKING_ACCEPTED", diary[a].start)
  <2>1. Box!Write(Fresh({letter}), {}) /\ diary[a] \in Row
    BY <1>1, <1>4 DEF Confirm, TypeOK
  <2>2. {letter} \in SUBSET Of(a) /\ letter.kind = "BOOKING_ACCEPTED"
    BY <2>1 DEF Letter, Letters, Kinds, Of, Row
  <2>3. \A l \in Letters : \/ l \in {letter} /\ fate[l] = "none" /\ fate'[l] = "owed"
                           \/ fate'[l] = fate[l]
    BY <1>1, <2>1, <2>2, Posting
  <2> QED
    BY <2>2, <2>3 DEF OwedWell
<1>5. ASSUME NEW a \in Appts, Cancel(a) PROVE OwedWell
  <2> DEFINE told == Letter(a, "CANCELLATION", diary[a].start)
  <2>1. RetractThenPost(a, {told}) /\ diary[a] \in Row
    BY <1>1, <1>5 DEF Cancel, Book!Close, TypeOK
  <2>2. \A l \in {told} : l \in Of(a) /\ l.kind # "REMINDER"
    BY <2>1 DEF Letter, Letters, Kinds, Of, Row
  <2> QED
    BY <2>1, <2>2, ChangeOwesWell
<1>6. ASSUME NEW a \in Appts, CustomerCancels(a) PROVE OwedWell
  <2> DEFINE planned == {Letter(a, "CANCELLATION", diary[a].start)} \cup
                        ToProvider(Letter(a, "CANCELLATION_NOTICE", diary[a].start))
  <2>1. RetractThenPost(a, planned) /\ diary[a] \in Row
    BY <1>1, <1>6 DEF CustomerCancels, Book!Close, TypeOK
  <2>2. \A l \in planned : l \in Of(a) /\ l.kind # "REMINDER"
    BY <2>1 DEF ToProvider, Letter, Letters, Kinds, Of, Row
  <2> HIDE DEF planned
  <2> QED
    BY <2>1, <2>2, ChangeOwesWell
<1>7. ASSUME NEW a \in Appts, NEW staff, NEW start \in Times, Reschedule(a, staff, start)
      PROVE  OwedWell
  <2> DEFINE told == Letter(a, "RESCHEDULE", start)
  <2>1. RetractThenPost(a, {told})
    BY <1>7 DEF Reschedule
  <2>2. \A l \in {told} : l \in Of(a) /\ l.kind # "REMINDER"
    BY DEF Letter, Letters, Kinds, Of
  <2> QED
    BY <2>1, <2>2, ChangeOwesWell
<1>8. ASSUME NEW l \in unsaid, Tell(l) PROVE OwedWell
  <2>1. l \in Letters /\ l.kind = "RESCHEDULE_NOTICE" /\ Box!Write(Fresh({l}), {})
    BY <1>1, <1>8 DEF IInv, UnsaidAreNotices, TypeOK, Tell
  <2>2. {l} \in SUBSET Of(l.appt) /\ l.appt \in Appts
    BY <2>1 DEF Of, Letters
  <2>3. \A m \in Letters : \/ m \in {l} /\ fate[m] = "none" /\ fate'[m] = "owed"
                           \/ fate'[m] = fate[m]
    BY <1>1, <2>1, <2>2, Posting
  <2> QED
    BY <2>1, <2>3 DEF OwedWell
<1>9. ASSUME NEW l \in claimed, Deliver(l) PROVE OwedWell
  <2>1. (fate[l] = "owed" \/ l \in late) /\ l \in Letters
    BY <1>1, <1>9 DEF Deliver, Box!Reach, Box!ReachUnheard, Box!Resolve, Box!Open, TypeOK
  <2>2. \/ fate' = fate
        \/ \E how \in {"sent", "dead", "owed"} : fate' = [fate EXCEPT ![l] = how]
    BY <1>9 DEF Deliver, Box!Reach, Box!ReachUnheard, Box!Resolve
  <2>3. \A m \in Letters : fate'[m] = fate[m] \/ m = l
    BY <1>1, <2>2 DEF TypeOK
  <2> QED
    BY <2>1, <2>3 DEF OwedWell
<1>10. ASSUME NEW a \in Appts, ProviderStep(a) \/ CustomerStep(a) PROVE OwedWell
  <2>1. ASSUME NEW to \in {"COMPLETED", "NO_SHOW"}, Conclude(a, to) PROVE OwedWell
    BY <1>2, <2>1 DEF Conclude, boxVars
  <2>2. CASE Look(a) \/ Leave(a)
    BY <1>2, <2>2 DEF Look, Leave, boxVars
  <2>3. ASSUME NEW staff \in Staff, NEW start \in Times, ProviderMoves(a, staff, start)
        PROVE  OwedWell
    BY <1>7, <2>3 DEF ProviderMoves
  <2>4. ASSUME NEW start \in Times, CustomerMoves(a, start) PROVE OwedWell
    BY <1>7, <2>4 DEF CustomerMoves
  <2> QED
    BY <1>3, <1>4, <1>5, <1>6, <1>10, <2>1, <2>2, <2>3, <2>4
    DEF ProviderStep, CustomerStep
<1>11. ASSUME NEW l \in unsaid, Crash(l) PROVE OwedWell
  BY <1>2, <1>11 DEF Crash, boxVars
<1>12. ASSUME NEW l \in Letters, Claim(l) PROVE OwedWell
  BY <1>2, <1>12 DEF Claim, boxVars
<1>13. ASSUME NEW l \in claimed, Overrun(l) PROVE OwedWell
  BY <1>2, <1>13 DEF Overrun, Box!Overrun
<1>14. CASE Tick
  BY <1>2, <1>14 DEF Tick, boxVars
<1> QED
  BY <1>8, <1>9, <1>10, <1>11, <1>12, <1>13, <1>14 DEF Next

\* A message comes to be owed once, and a reminder only while its hour is ahead; what
\* was late may be owed again.
THEOREM MessagesAreOwedOnce == Spec => OwedOnceAndAhead
<1>1. IInv /\ [Next]_vars =>
        [\A l \in Letters : fate'[l] = "owed" /\ fate[l] # "owed" =>
            \/ fate[l] = "none" /\ (l.kind = "REMINDER" => l.at > now)
            \/ l \in late]_vars
  BY StepOwesWell DEF OwedWell
<1> QED
  BY <1>1, InvariantHolds, PTL DEF Spec, OwedOnceAndAhead

\* A cancelled appointment's customer is told, whoever cancelled it, whatever the
\* worker had in its hands and however the visits were cut off.
THEOREM CancellationsAreTold == Spec => []CancellationIsOwed
<1>1. IInv => CancellationIsOwed
  BY DEF IInv, Coherent, CancellationIsOwed
<1> QED
  BY <1>1, InvariantHolds, PTL

\* What an appointment's change made obsolete waits to be sent only where a worker
\* had it before the change.
THEOREM NothingObsoleteWaits == Spec => []ObsoleteWasClaimed
<1>1. IInv => ObsoleteWasClaimed
  BY DEF IInv, Coherent, ObsoleteWasClaimed, Of, Letters
<1> QED
  BY <1>1, InvariantHolds, PTL

=============================================================================
