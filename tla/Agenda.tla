------------------------------- MODULE Agenda -------------------------------
(****************************************************************************)
(* The provider's diary (app/dashboard/page.tsx and actions.ts): one URL read *)
(* as a day, a week or a counter of drop-offs, the verbs its rows offer, and  *)
(* the backend statements that answer them (AppointmentStateSqlRepository,    *)
(* AppointmentAgendaSqlRepository), while colleagues, customers and the clock *)
(* change the diary behind the page that is being read.                       *)
(****************************************************************************)
EXTENDS Integers, FiniteSets

CONSTANTS
  Ids,         \* appointments, as the positive numbers their identifiers sort by
  Staff,       \* the chairs
  Anyone,      \* no chair in particular
  Open,        \* which <<chair, instant>> are inside the published hours
  PerDay,      \* instants in a day
  MaxTime,     \* bound: the last instant of the diary
  Turnaround,  \* the delay frozen on a drop-off
  Window,      \* PROMISE_WINDOW_DAYS
  Limit,       \* rows of a page
  MaxPresses,  \* bound: verbs pressed on the page
  MaxOthers    \* bound: what others do meanwhile

ASSUME IdsAssumption == Ids \subseteq Nat \ {0} /\ IsFiniteSet(Ids)
ASSUME SizesAssumption ==
  /\ PerDay \in Nat \ {0} /\ MaxTime \in Nat /\ PerDay <= MaxTime
  /\ Turnaround \in Nat /\ Limit \in Nat \ {0}
  /\ MaxPresses \in Nat /\ MaxOthers \in Nat
ASSUME OpenAssumption == Anyone \notin Staff /\ Open \subseteq Staff \X Int

VARIABLES
  appts,    \* the rows of appointments
  now,      \* the clock
  page,     \* what the browser shows: its URL, and what it was drawn from
  flight,   \* the form on its way, or the redirect on its way back
  pager,    \* what "voir la suite" has shown so far, and what moved meanwhile
  presses, others

vars == <<appts, now, page, flight, pager, presses, others>>

Times == 0..MaxTime
DayOf(t) == t \div PerDay
Days == {DayOf(t) : t \in Times}
NoDay == -1
Statuses == {"PENDING", "CONFIRMED", "COMPLETED", "NO_SHOW", "CANCELLED"}
NoStatus == ""     \* "En attente et confirmes", the filter left alone
Movable == {"PENDING", "CONFIRMED"}
Views == {"day", "week", "dropoffs"}
Never == 0     \* ready_at IS NULL; a row readied at t carries t + 1

Nothing == [start |-> 0, staff |-> Anyone, status |-> "CANCELLED", shelf |-> FALSE,
            promise |-> 0, ready |-> Never]
Exists(a) == a # Nothing

----------------------------------------------------------------------------
(* The statements of the backend, each one conditional UPDATE.               *)

Ends(a) == a.start + 1

\* The exclusion constraint: one chair, one hour
Clashes(i, staff, start) ==
  \E j \in Ids \ {i} : /\ appts[j].status \in Movable
                       /\ appts[j].staff = staff /\ appts[j].start = start

\* RescheduleAttempt.once, whose past hours are left to whoever types them
MayMove(i, staff, start) ==
  /\ appts[i].status \in Movable
  /\ <<staff, start>> \in Open
  /\ ~Clashes(i, staff, start)

\* Mutant: the promise stays where it was made.
MovedWithoutItsPromise(a, staff, start) == [a EXCEPT !.start = start, !.staff = staff]
\* reschedule(): the promise follows the handover
Moved(a, staff, start) ==
  [a EXCEPT !.start = start, !.staff = staff,
            !.promise = IF a.shelf THEN start + 1 + Turnaround ELSE 0]

\* markReady(): the first instant is kept
Readied(a) == [a EXCEPT !.ready = IF @ = Never THEN now + 1 ELSE @]

\* The WHERE clause of each verb. v carries the form's own fields.
Takes(v) ==
  LET a == appts[v.id] IN
    CASE v.verb = "confirm" -> a.status = "PENDING"
      [] v.verb \in {"complete", "noshow"} -> a.status = "CONFIRMED" /\ a.start <= now
      [] v.verb = "cancel" -> a.status \in Movable
      [] v.verb = "move" -> MayMove(v.id, v.staff, v.start)
      [] v.verb = "ready" -> a.shelf /\ a.status # "CANCELLED"
      [] v.verb = "promise" -> a.shelf /\ a.status # "CANCELLED" /\ v.start >= Ends(a)
      [] v.verb = "walkin" -> ~Exists(a) /\ ~Clashes(v.id, v.staff, v.start)

Becomes(v) ==
  LET a == appts[v.id] IN
    CASE v.verb = "confirm" -> [a EXCEPT !.status = "CONFIRMED"]
      [] v.verb = "complete" -> [a EXCEPT !.status = "COMPLETED"]
      [] v.verb = "noshow" -> [a EXCEPT !.status = "NO_SHOW"]
      [] v.verb = "cancel" -> [a EXCEPT !.status = "CANCELLED"]
      [] v.verb = "move" -> Moved(a, v.staff, v.start)
      [] v.verb = "ready" -> Readied(a)
      [] v.verb = "promise" -> [a EXCEPT !.promise = v.start]
      [] v.verb = "walkin" -> [Nothing EXCEPT !.start = v.start, !.staff = v.staff,
                                              !.status = "CONFIRMED"]

Change(v) == appts' = IF Takes(v) THEN [appts EXCEPT ![v.id] = Becomes(v)] ELSE appts

----------------------------------------------------------------------------
(* GET /v1/appointments.                                                      *)

Before(read, i, j) == read[i].start < read[j].start \/ (read[i].start = read[j].start /\ i < j)

\* MATCHING: without a status, only what is still to happen
Matching(read, first, last, staff, status) ==
  {i \in Ids : /\ Exists(read[i])
               /\ read[i].start >= first /\ read[i].start <= last
               /\ staff = Anyone \/ read[i].staff = staff
               /\ IF status = NoStatus THEN read[i].status \in Movable ELSE read[i].status = status}

\* (starts_at, id) > (:afterAt, :afterId)
Start == [at |-> -1, id |-> 0]
After(read, i, c) == read[i].start > c.at \/ (read[i].start = c.at /\ i > c.id)

\* page(): the first rows after the cursor
Fetched(read, rows, c, n) ==
  LET rest == {i \in rows : After(read, i, c)} IN
    {i \in rest : Cardinality({j \in rest : Before(read, j, i)}) < n}
Lasting(read, rows) == CHOOSE i \in rows : \A j \in rows \ {i} : Before(read, j, i)

\* Mutant: the position of the row that was fetched to learn there is one more.
NextAfterTheExtra(read, rows, c) ==
  LET got == Fetched(read, rows, c, Limit + 1) IN
    IF Cardinality(got) <= Limit THEN Start
    ELSE LET l == Lasting(read, got) IN [at |-> read[l].start, id |-> l]
\* list(): the last row shown, when one more was fetched
NextCursor(read, rows, c) ==
  IF Cardinality(Fetched(read, rows, c, Limit + 1)) <= Limit THEN Start
  ELSE LET l == Lasting(read, Fetched(read, rows, c, Limit)) IN [at |-> read[l].start, id |-> l]

----------------------------------------------------------------------------
(* The URL, and how the page reads it.                                       *)

Url == [view : Views, from : Days \cup {NoDay}, staff : Staff \cup {Anyone},
        status : Statuses \cup {NoStatus}, after : [at : Times \cup {-1}, id : Ids \cup {0}],
        error : BOOLEAN]
Plain == [view |-> "day", from |-> NoDay, staff |-> Anyone, status |-> NoStatus,
          after |-> Start, error |-> FALSE]

Today(p) == DayOf(p.clock)
Anchor(p) == IF p.url.from = NoDay THEN Today(p) ELSE p.url.from
FirstOf(d) == d * PerDay
LastOf(d) == d * PerDay + PerDay - 1

\* The rows the period holds, under the filters (the whole diary is one week here).
Rows(p) ==
  LET d == Anchor(p) IN
    Matching(p.read, IF p.url.view = "week" THEN 0 ELSE FirstOf(d),
                     IF p.url.view = "week" THEN MaxTime ELSE LastOf(d),
                     p.url.staff, p.url.status)

\* A week is read whole, a day by pages; the counter reads no period.
WeekShown(p) == Rows(p)
DayShown(p) == Fetched(p.read, Rows(p), p.url.after, Limit)
Shown(p) ==
  CASE p.url.view = "week" -> WeekShown(p)
    [] p.url.view = "day" -> DayShown(p)
    [] p.url.view = "dropoffs" -> {}

\* pendingPage: no bound and no filter, from this minute on
Pending(p) == Matching(p.read, p.clock, MaxTime, Anyone, "PENDING")

\* promises: a window about today, whatever day and state are being read
Promises(p) ==
  {i \in Matching(p.read, FirstOf(Today(p) - Window), LastOf(Today(p) + Window), p.url.staff, NoStatus) :
     p.read[i].shelf}

----------------------------------------------------------------------------
(* What a drawn page lets its reader press.                                  *)

Verb(name, i, staff, start) == [verb |-> name, id |-> i, staff |-> staff, start |-> start]
Bare(name, i) == Verb(name, i, Anyone, 0)

\* CancelDialog: nothing to fill in that the diary keeps
CancelDialog(p, i) == IF p.read[i].status \in Movable THEN {Bare("cancel", i)} ELSE {}

\* Mutant: the verbs of what has happened, on every confirmed row.
OffersWhenever(p, i) ==
  LET a == p.read[i] IN
    (IF a.status = "PENDING" THEN {Bare("confirm", i)} ELSE {})
      \cup (IF a.status = "CONFIRMED" THEN {Bare("complete", i), Bare("noshow", i)} ELSE {})
      \cup CancelDialog(p, i)
\* Appointment: the verbs with nothing to fill in
OffersOf(p, i) ==
  LET a == p.read[i] IN
    (IF a.status = "PENDING" THEN {Bare("confirm", i)} ELSE {})
      \cup (IF a.status = "CONFIRMED" /\ a.start <= p.clock
              THEN {Bare("complete", i), Bare("noshow", i)} ELSE {})
      \cup CancelDialog(p, i)

\* MoveDialog: another hour, and the chair the row was drawn with
MoveDialog(p, i) == {Verb("move", i, p.read[i].staff, t) : t \in Times}
\* ChairDialog: another chair, and the hour the row was drawn with
ChairDialog(p, i) == {Verb("move", i, s, p.read[i].start) : s \in Staff}

\* WalkInDialog, bookWalkIn(): any chair and any hour, published or not
WalkIns(p) == {Verb("walkin", i, s, t) : i \in {j \in Ids : ~Exists(p.read[j])}, s \in Staff, t \in Times}

\* PromiseDialog: any hour, which the backend may refuse
PromiseDialog(p, i) == {Verb("promise", i, Anyone, t) : t \in Times}
\* Counter: the three operations of the shelf
CounterOffers(p, i) ==
  (IF p.read[i].ready = Never THEN {Bare("ready", i)} ELSE {Bare("complete", i)})
    \cup PromiseDialog(p, i)

Drawn(p) == Shown(p) \cup (IF p.url.view = "day" THEN Pending(p) ELSE {})
Offers(p) ==
  WalkIns(p) \cup
  CASE p.url.view = "day" ->
         (UNION {OffersOf(p, i) : i \in Drawn(p)})
           \cup (UNION {MoveDialog(p, i) \cup ChairDialog(p, i) :
                          i \in {j \in Drawn(p) : p.read[j].status \in Movable}})
    [] p.url.view = "dropoffs" -> UNION {CounterOffers(p, i) : i \in Promises(p)}
    [] OTHER -> {}

----------------------------------------------------------------------------
(* Where a verb comes back to.                                               *)

\* Mutant: an instant where the URL wants a day.
AgendaUrlAtAnInstant(u, refused) ==
  [Plain EXCEPT !.from = IF u.from = NoDay THEN NoDay ELSE FirstOf(u.from), !.staff = u.staff,
                !.status = u.status, !.after = u.after, !.error = refused]
\* carry(), agendaUrl(): the filters, and not the view
AgendaUrl(u, refused) ==
  [Plain EXCEPT !.from = u.from, !.staff = u.staff, !.status = u.status,
                !.after = u.after, !.error = refused]

\* counterUrl()
CounterUrl(u, refused) ==
  [Plain EXCEPT !.view = "dropoffs", !.staff = u.staff, !.status = u.status, !.error = refused]

\* atTheCounter() for the counter's own verbs, attempt() for the others
BackTo(u, v, refused) ==
  IF u.view = "dropoffs" /\ v.verb # "walkin" THEN CounterUrl(u, refused) ELSE AgendaUrl(u, refused)

----------------------------------------------------------------------------
(* Steps. *)

NoPager == [first |-> Plain, seen |-> {}, steady |-> {}]
Draw(u) == [url |-> u, read |-> appts, clock |-> now]
Ground == [at |-> "none", form |-> Bare("confirm", 0), url |-> Plain]

Init ==
  /\ now = PerDay - 1
  /\ appts \in {[i \in Ids |-> CASE i = 1 -> [start |-> t, staff |-> s, status |-> "CONFIRMED", shelf |-> TRUE,
                                               promise |-> t + 1 + Turnaround, ready |-> Never]
                                 [] i = 2 -> [start |-> PerDay - 1, staff |-> r, status |-> "PENDING",
                                              shelf |-> FALSE, promise |-> 0, ready |-> Never]
                                 [] OTHER -> Nothing] :
                 t \in {PerDay - 1, PerDay}, s \in Staff, r \in Staff}
  /\ \A i, j \in Ids : i # j /\ appts[i].status \in Movable /\ appts[j].status \in Movable
                         => appts[i].start # appts[j].start \/ appts[i].staff # appts[j].staff
  /\ page = Draw(Plain)
  /\ flight = Ground
  /\ pager = [NoPager EXCEPT !.seen = Shown(page), !.steady = Rows(page)]
  /\ presses = 0 /\ others = 0

\* A page at u: the start of a reading, or the next page of one.
Show(u) ==
  /\ page' = Draw(u)
  /\ pager' = IF u.after = Start
                THEN [first |-> u, seen |-> Shown(page'), steady |-> Rows(page')]
                ELSE [pager EXCEPT !.seen = @ \cup Shown(page')]

\* link(): the view, the day and the filters; the cursor is dropped
Link(u, w, d) == [u EXCEPT !.view = w, !.from = d, !.after = Start, !.error = FALSE]
Links(p) ==
  {Link(p.url, w, d) :
     w \in Views, d \in {Anchor(p), NoDay} \cup ({Anchor(p) - 1, Anchor(p) + 1} \cap Days)}
\* The filter form: the day and the view as they are
Filtered(u, s, t) == [u EXCEPT !.staff = s, !.status = t, !.after = Start, !.error = FALSE]
Filters(p) ==
  {Filtered(p.url, s, t) : s \in Staff \cup {Anyone}, t \in {NoStatus, "PENDING", "COMPLETED"}}

Read ==
  /\ flight.at = "none" /\ presses < MaxPresses
  /\ \E u \in Links(page) \cup Filters(page) : Show(u)
  /\ UNCHANGED <<appts, now, flight, presses, others>>

\* nextPage(): the day as it was read, and the cursor
More ==
  /\ flight.at = "none" /\ page.url.view = "day"
  /\ LET c == NextCursor(page.read, Rows(page), page.url.after) IN
       /\ c # Start
       /\ Show([page.url EXCEPT !.from = Anchor(page), !.after = c, !.error = FALSE])
  /\ UNCHANGED <<appts, now, flight, presses, others>>

Press ==
  /\ flight.at = "none" /\ presses < MaxPresses
  /\ \E v \in Offers(page) : flight' = [at |-> "out", form |-> v, url |-> page.url]
  /\ presses' = presses + 1
  /\ UNCHANGED <<appts, now, page, pager, others>>

\* Rows that another hour, chair or state takes out of a reading under way.
Unsettled == {i \in Ids : appts'[i] # appts[i]}

\* The server action: the call, then the redirect, refused or not.
Act ==
  /\ flight.at = "out"
  /\ Change(flight.form)
  /\ flight' = [flight EXCEPT !.at = "back", !.url = BackTo(@, flight.form, ~Takes(flight.form))]
  /\ pager' = [pager EXCEPT !.steady = @ \ Unsettled]
  /\ UNCHANGED <<now, page, presses, others>>

Land ==
  /\ flight.at = "back"
  /\ Show(flight.url)
  /\ flight' = Ground
  /\ UNCHANGED <<appts, now, presses, others>>

\* Colleagues at their own screens, and customers at theirs.
Others ==
  /\ others < MaxOthers
  /\ \E i \in Ids, name \in {"confirm", "complete", "cancel", "move", "ready", "promise"},
        s \in Staff, t \in Times :
       LET v == Verb(name, i, s, t) IN
         /\ name \in {"confirm", "complete", "cancel", "ready"} => t = 0 /\ s = CHOOSE x \in Staff : TRUE
         /\ Takes(v) /\ Change(v)
  /\ others' = others + 1
  /\ pager' = [pager EXCEPT !.steady = @ \ Unsettled]
  /\ UNCHANGED <<now, page, flight, presses>>

Tick ==
  /\ now < MaxTime
  /\ now' = now + 1
  /\ UNCHANGED <<appts, page, flight, pager, presses, others>>

Next == Read \/ More \/ Press \/ Act \/ Land \/ Others \/ Tick

Spec == Init /\ [][Next]_vars

----------------------------------------------------------------------------
(* Properties. *)

\* Rows are rows of V009, and the address is one the diary reads: every redirect
\* and every link leads back to a view, a day and a filter it knows.
TypeOK ==
  /\ \A i \in Ids : /\ appts[i].start \in Times /\ appts[i].staff \in Staff \cup {Anyone}
                    /\ appts[i].status \in Statuses /\ appts[i].ready \in 0..(MaxTime + 1)
  /\ now \in Times
  /\ page.url \in Url /\ flight.at \in {"none", "out", "back"}
  /\ presses \in 0..MaxPresses /\ others \in 0..MaxOthers

Fresh == page.read = appts /\ page.clock = now

\* An up-to-date diary offers a verb on a row exactly when the statement behind
\* it finds the row (page.tsx:997-999, 1024-1028).
DiaryAgreesWithBackend ==
  Fresh /\ page.url.view = "day" =>
    \A i \in Drawn(page), name \in {"confirm", "complete", "noshow", "cancel"} :
      Bare(name, i) \in Offers(page) <=> Takes(Bare(name, i))

\* Read page by page to its end, a day shows every row that belonged to it from
\* the first page to the last, whatever was booked, moved or closed between two
\* pages (AppointmentAgendaSqlRepository:34-36).
PagerMissesNothing ==
  page.url.view = "day" /\ NextCursor(page.read, Rows(page), page.url.after) = Start
    => pager.steady \subseteq pager.seen

\* A promise is never before the handover it belongs to, however the two are
\* moved, and the instant a piece was first said ready is never dated again.
PromisesAreKept ==
  [][\A i \in Ids :
       /\ appts'[i].shelf => appts'[i].promise >= Ends(appts'[i])
       /\ appts[i].ready # Never => appts'[i].ready = appts[i].ready]_vars

=============================================================================
