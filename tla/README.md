# Balaaca: the verification project

Balaaca is a booking service for salons and workshops: a Quarkus backend over
PostgreSQL, a Next.js frontend whose pages and server actions are its only
client, and a separate notification worker. This directory holds TLA+ models of
the parts whose correctness depends on what several transactions, several
workers, several tabs, a stale page or a crash do to one another, the TLC
configurations that check them, and proofs that hold for every size.

All paths below are relative to `src/`. `booking/` stands for
`backend/booking/src/main/java/com/balaaca/booking/`, and so on for `providers/`,
`scheduling/`, `catalog/`; `worker/` for
`notification-worker/src/main/java/com/balaaca/notificationworker/`; `db/` for
`backend/app/src/main/resources/db/migration/`; `app/`, `lib/` and `components/`
for those of `frontend/src/`.

Run any of it here with `tlc -config <cfg> <module>` and `tlapm <module>.tla`.

## 1. Inventory

| component | state it keeps | operations | modelled by |
|---|---|---|---|
| Booking | `appointments` (V009), `customers` | book, reschedule, cancel, confirm, complete, no-show; ready, promise | `Booking`, against `Diary`; the last two in `Agenda` |
| Outbox, worker side | `notifications` (V010), the worker's batch in memory | claim, dispatch, mark sent, mark dead, retry, reap | `Outbox`, against `Postbox` |
| Outbox, backend side | `notifications` | plan, cancelPending | `Outbox` (any rows), `Notices` (which rows) |
| Customer self-service | none of its own | look up by reference, cancel, reschedule before a deadline | its end in `Booking`, the visit in `Notices`, the answers in `BookingPage` |
| Customer's booking page | the URL, the page drawn for it | look, cancel, move, review, illustrate, report | `BookingPage` |
| Booking funnel | the URL of five steps, the page drawn for it | choose, go back, submit, be refused | `Funnel` |
| Sign-in and session | the sealed cookies, one remembered promise, the realm's sessions | sign in, renew, call, sign out | `Session` |
| Provider's diary screen | the URL, the page drawn for it | read, page, filter, the verbs of rows and counter | `Agenda` |
| Salon's rooms | what each tab has drawn | catalogue, competence, album, weeks, closures, team, ownership, words, publication, joining, registering | `Shop` |
| Scheduling | opening windows, closures | slots, isWithinAvailability, replace hours | `Admits` in `Booking`, `Slots` and `Within` in `Funnel`, the writes in `Shop`; interval arithmetic planned |
| Team | `provider_staff` | add, replace, invite, accept, transfer ownership | `ChangeStanding` in `Booking`; `Shop` |
| Profile and policy | `providers` | register, publish, booking policy | `ChangePolicy` in `Booking`; `Shop` |
| Catalog | `service_offerings`, `staff_service_offerings`, `service_photos` | create, replace, grant, add and remove photographs | `Booking`, `Funnel`, `Shop` |
| Reviews | `provider_reviews`, `review_photos` | submit, illustrate, withdraw a photograph, take down | `BookingPage`; the rest planned |
| Moderation | `providers.status`, contestations, reports | suspend, contest | planned |
| Guess budget, rate limits | Redis counters | read, charge | planned, `Budget` |
| Tenancy | a session variable per connection | bind, reset | planned, last |
| Alerts | a throttle in memory | raise | planned, last |
| Audit, media, REST, directory and marketing pages, infrastructure | | | not modelled |

How they meet. A booking transaction writes its appointment and plans its
messages together, so the `notifications` table is all that joins the backend to
the worker; they share no call. A booking reads, without locking, what the team,
the catalogue, the hours and the policy say at that moment, and any of them may
change before it commits. What keeps the diary consistent is PostgreSQL: the
exclusion constraint `no_double_booking`, the unique index on the idempotency
key, and the status each UPDATE re-checks once it has its row's lock.

The frontend keeps nothing but cookies. Every screen is computed on the server
from its URL and from reads made at that moment, and every change is a form that
posts to a server action, which calls the API and answers with a redirect to
another URL. So a page is right when it is drawn and stale from then on; the
only thing that says what happened is the URL the redirect leads to, which stays
in the address bar, is reloaded, bookmarked and gone back to.

What is hard here:

* two inserts, or two moves, in flight at once, and the deadlocks PostgreSQL
  makes of them (`40P01`), which the services answer with a retry loop;
* a client that retries while its first request is still in flight;
* settings that change between a check and the commit that relied on it;
* a worker that dies between a message's acknowledgement and its record, or that
  is merely slower than its lease;
* two updates that reach the database in separate transactions where a reader of
  the code takes them for one;
* rules written twice, in a page that decides what to offer and in the backend
  that decides what to accept, and judged at different moments;
* pages pressed after what they show has changed, answers that never arrive, and
  a flag in a URL that outlives the event it announced;
* requests of several tabs that leave with one cookie jar and answer in another
  order;
* forms that replace a whole resource and draw only a part of it.

What makes each component correct:

* **Booking**: no two active appointments share a chair and an instant; one key
  makes one appointment; a closed appointment stays closed; nobody is refused
  for a place nobody got; every caller is answered.
* **Outbox**: a row is one worker's until its lease runs out; a duplicate has a
  cause; SENT means reached; every message is settled.
* **Notices**: what the recipient is told agrees with the diary.
* **The screens**: an up-to-date page offers what the backend would take, no more
  and no less; a refusal is said where the person lands; nothing is announced
  that did not happen; what is booked is what was shown; what a form does not
  show is not changed by it.
* **Session**: one session in the jar, whole, or none; signing out is final; an
  ended session opens nothing for longer than its token; everybody arrives
  somewhere.
* **Slots** (planned): what the page offers lies inside the hours and outside what
  is booked, across time zones.

`PROJECT.json` lists each hazard at its line, with the property that covers it.

## 2. The modules

### Appointments, Diary

`Appointments` says what an appointment is: the statuses and the moves between
them (`AppointmentStatus.java`), the block of grid steps it takes
(`BookedSlot.java`), and when two collide. `Diary` is the abstract specification
of the component: entries are taken, moved and closed one at a time, each step
atomic, and a step that would collide is simply not possible.

### Booking

A request is a process with a program counter. Its labels are the points of
`BookAppointmentService.book` and `BookAppointmentAttempt.once` between which
another transaction can commit:

| label | the code about to run | action |
|---|---|---|
| `idle` | `candidates()` | `Candidates` |
| `open` | `requireBookable`, `replayOf` | `Open` |
| `judge` | blocked customer, `isWithinAvailability` | `Judge` |
| `assign` | `canBeAssigned`, `canPerform`, or `eligibleStaff` and `pick` | `Assign` |
| `upsert` | `upsertCustomer`: waits for, then holds, the customer's row | `Upsert` |
| `insert` | `insertIfAbsent`: the version goes into the indexes | `Insert` |
| `settle` | the exclusion check: waits for versions in flight | `Settle`, `Refused` (23P01), `Deadlocked` (40P01) |
| `commit` | COMMIT | `CommitBooking` |
| `truth` | `exhausted()` asks the table after the budget is spent | `TruthRead` |

A mover runs `RescheduleAttempt.once` in the same way (`Snapshot`, `JudgeMove`,
`Update`, `Settle`, `RefusedMove`, `DeadlockedMove`, `CommitMove`), under
`MoveAppointmentService`'s loop. Cancel, confirm, complete and no-show are one
conditional UPDATE each, and wait for a mover that holds the row.

`rows` is what is committed. `pending` is what a transaction has written and not
committed: PostgreSQL inserts a version into the index first and looks for
conflicts after, so two rivals can each find the other. `Blockers` is who a check
must wait for, `TakenBy` is what it is refused against, and `InWaitCycle` is what
the deadlock detector sees. These three are the model of the database, and they
are marked external. `EditShop` is everything the provider may do to its own
settings meanwhile; `Crash` is the death of a request.

Left out: the fields of an appointment no rule reads; offerings of several
durations (there is one, with its buffers, of `Dur` steps); fulfilment modes and
addresses; the collision of a random booking reference, which the loop retries
exactly as it retries a deadlock; and publication (the provider is published).
`Admits` takes what a chair's hours allow as given.

### Postbox, Outbox

`Postbox` is what the backend may rely on: a letter is owed, may reach its
recipient while it is owed, is called sent only if it did, and its fate is final,
unless it was late (`Overrun`): given to a second worker while the first was still
at it, after which either may write its fate, over the other's.

`Outbox` has the columns of V010 that decide something (`status`, `attempts`, the
two times as ticks still to wait, `updated_at` as ticks since the claim) and each
worker's batch, which lives in its memory and in no table. `Commit` is the
backend's side, `cancelPending` and then `plan`, at the commit of the transaction
they are in. The worker's actions are the SQL statements one by one: `Claim`, then
per row `Send` and `MarkSent`, or `MarkDead`, or `ScheduleRetry`; between any two
of them another worker, the reaper or the backend may run. `Abort` is the death
of the process and every exception `drain()` lets through. `Reap` is
`releaseStaleLeases`.

Time passes in `Tick`, which waits for a dispatch that has used its whole
`SendLimit`: a send cannot outlast its channel's timeout. Ages saturate one tick
past the lease, where the code stops telling them apart. The channel that takes a
message whose answer is then lost is `ScheduleRetry` with `taken`.

Nothing relates the lease to the batch, in the code or in the model. The shipped
batch is 50 rows of up to 15 s, 750 s, and the lease 300 s, counted from the claim:
from the 21st row of a slow batch on, `Reap` may take a row from a worker that is
alive, and what that worker then records lands all the same, by id. `late` counts, for
each row, how often that happened. It is a history variable: no guard reads it, and the
properties use it to say what a row is spared as long as it did not happen.

Left out of `Outbox`: which due rows the LIMIT chooses (any), templates, the channel's name,
the alert a dead row raises.

### Notices

`Notices` lies between the two: it composes `Diary` and `Postbox` through INSTANCE,
so every step of it is a step of the diary, a step of the postbox, or one of each
in a single transaction. Because `Booking` implements the one and `Outbox` the
other, it need not repeat how they keep their promises.

| code | action |
|---|---|
| `BookAppointmentAttempt.once`, `planFor` | `Take` |
| `confirm`, `complete`, `markNoShow` | `Confirm`, `Conclude` |
| `CancelAppointmentService.cancel` | `Cancel` |
| `RescheduleAttempt.once` for a provider | `ProviderMoves` |
| a customer's visit: `requireInTime` on its snapshot | `Look`, `Leave` |
| ... its cancellation, one transaction | `CustomerCancels` |
| ... its move, which commits in a `REQUIRES_NEW` of its own | `CustomerMoves` |
| ... and the provider's notice, in the visit's own commit | `Tell`, or `Crash` before it |
| the worker | `Claim`, `Deliver`, and `Overrun` where its lease runs out under it |

A letter is named as `dedupeKey` names a row: the appointment, the kind and the
instant it is owed for. `cancelPending` takes every PENDING row of the appointment;
SENDING is the worker's, and since a postbox has no workers, `claimed` stands for
every row a worker has ever had: such a row may be spared by a withdrawal (it was
SENDING) or not (it was back at PENDING after a failure or a release). Left out: payloads,
addresses, which channel; a withdrawn appointment's reference (`CustomerBooking`
reads it again, which changes nothing).

### BookingPage

`app/bookings/[reference]/page.tsx` is four screens and a report form on one URL,
and `actions.ts` the forms behind them. A tab holds its URL and the page last
drawn for it, as two sets: what can be pressed (`offers`) and which alerts it
shows (`says`). Both are computed from one read (`Booking`, the JSON of
`GET /v1/bookings/{reference}`) by operators named after the views
(`DetailOffers`, `MoveSays`, ...).

| code | action |
|---|---|
| an address typed, a link, a reload | `Visit` |
| a button: the form is on its way | `Submit` |
| the server action calls the API and redirects | `Act`, `Landing` |
| `submitReview`'s photographs, one call each | `Illustrate` |
| the redirect is followed, or the answer is lost | `Land`, `Lose` |
| the salon, its settings, the operator, the clock | `SalonActs`, `ShopChanges`, `OperatorActs`, `Tick` |

The answers (`CancelAnswer`, `ReviewAnswer`, ...) are those of `CustomerBookingService`
and of the functions of V050 and V054; each of these is one step. Left out:
wording, the list of hours beyond which starts it holds, and image bytes.

### Funnel

`components/public-page.tsx` enters it, `app/p/[slug]/reserver/page.tsx` is its
five steps and `actions.ts` its one action. `Href` and `Step` are `stepHref` and
`resolveStep`, so a tab can be at any address the product writes and nowhere
else; `Links` is every link a page draws. Instants are numbered and `DayOf` groups
them; `InStrip`, `Listed` and `DayLabel` are the week that is read (`WINDOW_DAYS`), the page of
slots the API returns (cut at `Limit`), and what a day is called. `Answer` is the
whole path of a booking in one step, which `Booking` takes apart. `taken` and `made`
let a lost answer be pressed again.

### Session

The jar is the numbered cookies of `lib/session.ts`, the hint beside them, and the
cookie of the attempt under way; `Applied` is what the `Set-Cookie` headers of one
response do to it. A request carries the jar's cookies from the moment it leaves;
a response changes the jar when it arrives. Between the two any other tab may
have been served.

| code | action |
|---|---|
| `proxy()`, before and after `refresh()` | `Proxy`, `Renew` |
| `api()` in a page | `Render` |
| `login/route.ts`, `callback/route.ts`, `logout/route.ts` | `Login`, `Callback`, `Logout` |
| the realm's authorize and end-session endpoints | `Authorize`, `EndSession` |
| `discover()` and what it remembers | `Discover`, in each of them |
| the browser | `Visit`, `SignOut`, `TypePassword`, `Receive` |
| the realm goes away, boots, forgets somebody | `Outage`, `Forget` |

Left out: the bytes of the seal (it opens what it sealed, whole), the age of the
attempt's cookie, rotation of refresh tokens (the realm's configuration has none),
several server processes (each has its own `discovered`; the model has one).

### Agenda

`app/dashboard/page.tsx` reads one URL as a day, a week or a counter of drop-offs.
`Offers` is what its rows and dialogs let a person press, `Takes` and `Becomes` are the
WHERE and the SET of the statements behind each verb, and `Act` is the server
action, which lands on `BackTo`. `More` is "voir la suite", with the keyset cursor of
`AppointmentAgendaSqlRepository` and `ListAppointmentsService`; `pager` remembers which
rows were shown since the first page and which stood still. `Link` is an address
as the page writes one and `Filtered` one with another status beside it. Left out: names,
telephones, prices, colours, totals.

### Shop

The rooms a salon is set up in, and the two doors of an account that has none. A
form is one record, `Drawn` gives the forms a page carries with what they were
drawn with, `Edited` what a hand may change on them, `Buttons` every other press.
`FirstStep` says how its request runs: publication reads the profile back before it
returns it (`ReadBack`), and a team row and the profile are checked by one statement and
written by another (`Check`, `Write`). A transfer has three (V040): the owner's row is
found (`FindOwner`), the heir's is looked at (`FindHeir`), and both are written by their
ids and nothing else, so anything may have happened to either in between. The other
writes are one step each. Where such a step is a DELETE and INSERTs, or chooses a slot
and takes it, two of them may overlap at READ COMMITTED, and `Overtaking` is what other
tabs have just written: an album's slot or a performer the other has put there refuses
the second (`Refusable`, `Unlucky`), and replacements with no row in common are mixed
(`Mingle`). `Unlucky` is also a handle somebody has, and a transfer whose two active rows
met their index in the wrong order; that order is the database's, so it is a choice.
`Answer` is who may ask and what the room's service says; `Constraint` what the
schema says of the write, the index on ACTIVE owners included. `Written` is
the resource replaced, with `Ticked` for the working places and `Reshaped` for an offering
of another kind. `Arrives` is `DashboardLayout`'s doors.

A page is read at once, its layout with it. A link inside the dashboard keeps the layout
that is there and so its pointer, which may then be older than the page; such a page
counts here as one that is out of date. `SwitchAgreesWithGate` therefore compares the
checklist, the pointer, the switch and the gate as conditions on one state of the salon,
which is where they could have been written differently. Left out: prices,
names, words beyond whether they changed, image bytes, suspension.

## 3. The runs

| run | instance | states | what it shows |
|---|---|---|---|
| `rivals` | two chairs, a page request and its retry, a walk-in half a slot later, one crash | 24.7 k | no double booking, one row per key, no refusal without a winner, by then in the diary, on every chair it could have had, everyone answered, and every step is a diary's |
| `moves` | two appointments moved onto each other's places, each cancelled, confirmed or concluded at any time; one shop edit | 262 k | closed stays closed, and every step is a diary's |
| `outbox` | three rows, one with an address; two workers, batches of two, leases of one tick and dispatches of up to one; two batches cut off, one lost answer; two attempts | 181 k | a row is one worker's until its lease runs out, which spares the head of a batch; duplicates have causes, all is settled, and every step is a postbox's |
| `overrun` | two rows with an address, and neither crashes nor lost answers | | **violated**: one recipient is written to twice, by two living workers |
| `notices` | one appointment on a grid of three instants, one reminder, two moves, one row a worker takes up and may be late with, one visit cut off | 1.0 M | a message is owed once and a reminder ahead of its hour, a cancellation is always told, and nothing obsolete waits but what a worker had |
| `reminders` | the same | | **violated**: after a move no reminder is owed |
| `page` | one tab, two photographs, a chair with a gap in its hours and a colleague who fills it; two presses, two acts of others, three ticks | 556 k | an up-to-date page offers what the backend takes, refusals are explained, nothing false is announced, what was taken down stands still |
| `funnel` | one tab, two people, one service, two days of two instants, a list cut at one; two submissions, one act of others, midnight | 142 k | the booking is the one shown, a refusal is said and its dead hour forgotten, hours listed can be booked, no free day is called full |
| `boxes` | the same | | **violated**: a refusal of the boxes on a form no boxes can put right |
| `session` | two tabs, one path, two sign-ins, one second, one outage, pieces of one or two | 184 k | the cookies agree, a sign-out is no question, access ends with the realm's session, every address ends on a screen |
| `agenda` | three appointments, two chairs, two days of two instants, pages of one row; one verb, one act of others | 2.5 M | the verbs a day's view offers are those taken, a day's paging misses nothing that stood still, promises follow their handover |
| `shop` | three chairs (one vacant), three accounts, two tabs; two forms sent, one act of others | 825 k, tabs alike | the switch agrees with the gate in every room, forms sent as drawn change nothing, publication moves by its own switch, at most one active owner and never no owner's row |

Why these bounds. A conflict in the diary is between two intervals on one chair,
so blocks of two steps on a grid of four give every relative position (apart, half
over, equal); a wait cycle of two needs two processes and the ring in
`InWaitCycle` is looked for up to all of them; the retry loop's two exits, the
deadlock budget and the candidate count, are reached with a budget of one and two
chairs. Two edits or two crashes add repetitions of the same interleavings.
In the outbox two workers are what a claim can be shared between; three rows
overfill a batch of two. A batch of two dispatches of one tick against a lease of one
has the shipped order of things: one dispatch ends within the lease (15 s of 300), and
a batch need not (750 s). The first row of a batch is then never released under its
worker and the second may be, as the first twenty of fifty are not and the others may.
Rows are late twice in it, attempts pass their limit, and a row goes from SENT to
PENDING, from CANCELLED to DEAD and from DEAD to SENT. Two attempts reach both
outcomes of the cap.

In `notices` the messages of two appointments share no key and no statement, so one
appointment shows every case; three instants are what it takes to have a reminder
still ahead, one gone by and a move between them; two moves are there and back; an hour of one instant's notice (`Before`) and a clock that
reaches 1 put a reminder's hour behind, at and ahead of the clock.
`MaxClaims` and `MaxReached` are one because each row's story with the worker is the
outbox's.

On the screens a stale press is one act of somebody else between a drawing and a
press; its consequence shows on the next page. Two presses give a lost answer and
the press that repeats it, or a change made in one tab and a form of the other
drawn before it. Pages share nothing but the rows behind them, so one tab is enough
where others can act on those rows by themselves (`page`, `funnel`, `agenda`), and two
are needed where the tabs share a cookie jar (`session`) or hold different roles
(`shop`). A list cut at one row, a day of two instants and a strip of two days put
every edge (cut, end of the day, end of the strip) within reach of one booking. Two
sign-ins are two sessions whose pieces could be mixed; one second takes a token
from good to expired and past its margin, since `Life` is two and `Margin` one. In
`shop` the salon starts in seven ways: two people who can be given to customers or
one, open or about to, with each account in the second tab.

`SYMMETRY` is used in `page` (the photographs), in `funnel` and `boxes` (the people) and
in `shop` (the tabs), runs without liveness. No step and no property tells their members
apart; `First` does, but only in the initial states of `shop`: after them a tab is what
it holds and shows, and every state reached has its twin among those explored.
`CHECK_DEADLOCK FALSE` everywhere: when every request is answered, every row
settled, or the presses and acts are spent, the system really has nothing more
to do.

Each property has a mutant: a definition of the model changed the way a bug in
the code would change it (an operator declared just before the one it replaces,
and commented as such), under which TLC finds the property violated.

The exceptions the properties make are named in them: `RefusalIsSaid` leaves out a
page kept open past midnight, whose day the funnel no longer reads;
`NothingRefusedInSilence` a review refused because the appointment is still to come;
`HoursListedAreBookable` the two cases of `boxes`; `UntouchedFormsChangeNothing` a week of
split days, which the form cannot draw; and every property of what a page offers
speaks of pages that are up to date, since no page can know better.

### The violated properties

They state what a comment of the repository says, and are listed in `PROJECT.json`
under `findings` with the quotation. `reminders` is a step that a comment describes
and the code does not take. `boxes` is a refusal code that means something else than
the screen that shows it believes. `overrun` is a lease shorter than the batch it is given
for: who holds a row that long is still working, and two workers send it.

### Divergences met

Met while modelling, in the models as the code has them, and not runs of their own.

* A booking that names nobody is judged against anybody's hours and then given the
  least loaded chair, whatever its own hours (`AppointmentSqlRepository.java:321`).
* The chairs a booking may try are counted once, before the loop
  (`BookAppointmentService.java:49`). One that was hidden at that moment and is shown
  again is not counted, and the customer may be refused while it is free. This is
  why `RefusalHasAWinner` is about a shop that is not edited: without that condition
  the proof of it fails, and TLC finds the refusal with two chairs and two edits.
* A retry is judged `requireBookable` before it is recognised as one, so it is
  refused where the offering has been withdrawn since (`BookAppointmentAttempt.java:194`).
* A chair can be disabled between a booking's check and its commit; V038's trigger
  sees committed appointments only (`V038:36`).
* What a late row may come to, besides being sent twice (`overrun`): its first worker's
  `scheduleRetry` takes it from SENT back to PENDING, spends more attempts than
  `max_attempts`, or brings back a row that was CANCELLED; its `markSent` makes a
  cancelled row SENT (`NotificationOutboxSqlRepository.java:91-138`, by id alone).
* `discover()` clears the promise it remembers where the realm answered with a refusal,
  and keeps it where the connection failed (`lib/oidc.ts:32`): every sign-in of that
  process then fails until it is restarted, where the comment at `:35-36` says that a
  realm slow to boot is "retried rather than remembered as broken for the life of the
  process". In `Session` an outage before the first sign-in, of a realm that is up again
  afterwards, leads there: two changes of the realm's health, one more than `session` allows.
* A transfer checks its heir before it writes by id (V040:57-66). An heir disabled in
  between leaves a salon with no active owner; two transfers, the first one's heir
  disabled before the second one writes, leave two OWNER rows, one of them DISABLED. V040:16-20
  names "two owners or none" as what the index is there to prevent; the index is on
  ACTIVE rows, of which there is never more than one.
* `ServicePhotoSqlRepository.java:60-64` says that of two racing uploads the loser gets the
  next slot "instead of an error". Each statement looks for its slot before the other has
  committed, so both may find the same, and the unique index refuses one of them.
* Two weeks, or two lists of performers, saved at once may be mixed: each DELETE sees
  only what was committed before it, so neither takes away what the other inserts, where
  `AvailabilityAdminSqlRepository.java:96-99` says that a week is replaced as one.
* A move back to a time an appointment had been moved to before has the dedupe key
  of that first message, and tells nobody (`PlannedNotification.java:68`).
* A key is minted per submission of the booking form (`reserver/actions.ts:34-38`), so
  a submission repeated after a lost answer is a second booking, which the lines
  above it name as what the header is for.
* `submitReview` says that sending it again is a safe retry (`bookings/.../actions.ts:152`):
  the words are replaced, the photographs are added a second time.
* Two requests that each disable the other bookable member both count one left
  (`ManageStaffService.java:188`); the owner may untick their own chair and leave a
  salon that nobody owns to sign in to; activating somebody who has registered
  elsewhere meets a unique index no handler names.
* The diary's chair dialog posts the hour it was drawn with, so an old page moves
  the appointment back (`dashboard/page.tsx:1420`). Its queue of requests is read from
  today on, where the comment above it says all of them (`:517`). The counter offers
  a handover that completion refuses until the appointment has begun.
* A page that straddles the margin of a token is let through by the proxy and
  refused by `api()`, where `proxy.ts:26` says it is still valid. A second sign-in in
  another tab replaces the first one's attempt, and both callbacks may fail.
* `setPublished` reads the profile and puts it back, so words another tab saves
  between the two are lost; the week form keeps one segment of a split day; the
  pointer of the other rooms asks for hours where the checklist asks for a person.
* `Confirmation` (the sixth step of the funnel) and `app/p/[slug]/actions.ts` are
  reached by nothing.

## 4. Fairness

`Booking`: weak fairness for each process's next step, because a request has a
thread until it ends. It is not assumed that a provider edits, a customer
cancels, or anything crashes. Weak fairness on the whole of `BookStep(r)` is enough
since at each label some action stays enabled once its wait is over, and `Answered`
shows the waits end.

`Outbox`: weak fairness for each worker's job (`@Scheduled`, every 5 s), for the
reaper (every 60 s) and for the clock. Planning, withdrawing and aborting are
not fair. `EveryMessageIsSettled` needs the abort bound only to the extent that a
worker that dies over every batch never sends anything.

`Session`: weak fairness for what a tab waits for (`Handle(t)`): a request that left
is served and its answer arrives. Nobody has to type a password or press
anything, the clock need not run and the realm need not come back;
`EndsSomewhere` says that the redirects among themselves come to an end.

The other screens have no fairness: a person may always walk away, and their
properties are of safety.

## 5. What is proved

TLAPS checks the following for all values of the constants that satisfy the named
assumptions in the modules. These ask for finite sets and natural numbers, for
placeholders that are no rows, and for what the schema or the code fixes: a day has
an instant and a page a row (`Agenda`), a salon offers some window and its owner and
the colleague are two chairs and two accounts (`Shop`), the matcher names a path and
no handler (`Session`). TLC evaluates each on the instances of the runs. Every
invariant a passing run checks is proved, and every action property.

**BookingProofs.** `InvariantHolds`, `TypesHold`, `NeverDoubleBooked`, `OneRowPerKey`,
`RefusalsHaveWinners`, `ClosedForGood` and `BookingImplementsDiary`, for any number of
chairs, requests and movers, any commands, any retry budget and any number of edits
and crashes.
`NoDoubleBooking` is not inductive, since it says nothing of versions on their way.
The inductive invariant adds: a version belongs to a transaction between its
write and its end (`VersionsAreOpen`); a row is inserted once, by the request it is
named after (`InsertsAreNew`); a mover's old row is still there, active and held
by it alone (`MovesHoldTheirRow`); and, the heart of it, **a version that passed
the check collides with no committed row and with no other version that passed**
(`ClearedVersionsFit`), so that they may commit in any order. `Settle` establishes it
because it waits for every version in flight, cleared or not. `KeysAreHeldOnce`
is the same argument for the idempotency index. The refinement needs that a
committed booking is a `Take`, a committed move is a `Move`, a conditional UPDATE is
a `Close`, or leaves the row as it was, and that everything else stutters.
`RefusalsHaveWinners` speaks of an answer long after the rows that caused it, so its
invariant (`Contest`) is kept beside the other one: an attempt is for a chair not yet
tried and writes a version for that chair (`AttemptsAreFresh`), every chair was counted
(`CountsAreWhole`), and each chair given up is some committed row's
(`LosersHaveWinners`), which stays in its place because only a move takes a row away.
The loop ends when as many were tried as were counted, that is, all of them.

**OutboxProofs.** `InvariantHolds`, `TypesHold`, `ClaimsAreExclusive`,
`DuplicatesHaveACause` and `OutboxImplementsPostbox`, for any rows, workers and faults
and for any batch, lease and timeout: nothing is assumed of their ratio. The argument
is about time: a worker that has dealt with `k` rows of its claim has held the
others for at most `k * SendLimit` ticks and the ticks of the present one
(`AgesAreBounded`), so the reaper finds a row of a living worker only where `k + 1`
dispatches may outlast a lease. A row it has not found under its worker is that worker's
and nobody else's (`HeldByOne`), and each delivery is recorded, about to be, or charged
to a fault or to a lease that ran out (`DeliveriesAreCounted`). For a row that was late
the invariant says only what its history must have been, and the refinement needs no
more, since a late letter stays `Open` in the postbox.

**NoticesProofs.** `InvariantHolds`, `MessagesAreOwedOnce`, `CancellationsAreTold` and
`NothingObsoleteWaits`, for any appointments, grid, reminders and bounds.
`CancellationIsOwed` is not inductive: a cancellation must find its key unused. The
invariant (`Coherent`) adds that a message of an appointment exists only once the
appointment does, that it has a CANCELLATION only if it was cancelled, and what
`NothingObsoleteWaits` says, since all of them are kept together. `Replacing` says what
withdrawing and then planning does to an appointment's rows, and both who cancels
(`CalledOff`) and who moves (`RescheduleStep`) rest on it. The visit between its
commits can only say a RESCHEDULE_NOTICE (`UnsaidAreNotices`), which is about the
change itself and becomes obsolete by nothing the code withdraws for.
`MessagesAreOwedOnce` goes through the steps one by one: only planning makes a row owed,
from nothing, and a reminder from `Reminders`, which looks at the clock; or a late row's
first worker puts it back.

**SessionProofs.** `InvariantHolds`, `CookiesAlwaysAgree`, `SignOutIsNeverAQuestion` and
`AccessDies`, for any number of tabs, paths, sign-ins, outages and pieces from two up.
None is inductive alone, since a response still on its way carries what will be
in the jar. The invariant says it of all three places a session can be: the jar
holds the pieces of one `Good` session and the hint, or neither (`JarIsWhole`); a
response writes a `Good` session, clears it or leaves it (`CookiesAreWhole`); and a tab
has a `Good` session wherever its handler was given one (`TabIsWhole`). `Good` is a
session with its hint, whose token was issued before now and before its end at
the realm, and it stays so as time passes and sessions end (`GoodStays`).
`PiecesAreRead` is the fact about `chunk` and `readSealed` all of it rests on.
`TypeCorrect` needs a second invariant, `Typed`, about attempts, and a pigeonhole: two
states for each tab and one for the jar are one more than a tab that has none can
find in use (`FreshIsThere`).

**FunnelProofs.** `Invariance`, `TypeCorrect`, `WhatIsBookedWasShown`, `RefusalsAreSaid`,
`DeadHoursAreForgotten`, `ListedHoursAreBookable` and `FreeDaysAreNotCalledFull`, for any
salon, open pages, length of the strip and cut of the list. The five are about a
page, and a page is what its URL and one reading of the salon make of it; so the
invariant is about URLs. Whatever the funnel writes into one stays true of it, since
nothing in it is a reading of the salon (`UrlIsSound`); a page keeps as much of its URL
as its form needs (`PageIsSound`); and what was submitted is that form (`SentIsSound`).
That a booking is the one shown follows from the last, and is kept because what
was made stays in the diary (`DiaryIsWhole`). `Step` and `StepAsAsked`
are ladders of conditions as `resolveStep` is.

**BookingPageProofs.** `Invariance`, `TypeCorrect`, `AnnouncementsAreTrue`,
`HiddenReviewsStandStill`, `PagesAgreeWithBackend` and `RefusalsAreExplained`, for any
pages, files, grid and number of acts by others. A page that is up to date agrees with
the backend because both read the same record, and that is a fact about operators.
What an alert announces is not inductive: the page was drawn from a URL that a redirect
wrote some steps earlier. The invariant adds that a flag is put into a URL only with the
write it reports (`FlagsStayTrue`), that what it says cannot be undone (`Lasts`), and that
photographs are sent only after a review was given (`SentIsSound`).

**AgendaProofs.** `Invariance`, `TypeCorrect`, `PagerMissesNothingEver`,
`PromisesAreAlwaysKept` and `DiaryAgreesEver`, for any rows, chairs, days and page size.
For the pager: the rows of a day are in a strict order, the cursor is the place of the
last row shown, and a row that matches, was not shown and stood still since is after it
(`PagerIsSound`), so that an exhausted pager has shown them all. For promises:
each row's hour of return comes at least one step after its handover
(`PromisesFollow`), whichever verb ran last. Redirects
lead back to the day and the filters they came from (`FlightIsSound`).

**ShopProofs.** `Invariance`, `TypeCorrect`, `SwitchAgrees`, `UntouchedForms` and
`PublicationIsDecided` (the action property `EachFormItsOwn`), for any chairs, accounts,
tabs and photographs. A form may be old: what it names must still be there when it
lands. The invariant says what nobody can take away (`Outlives`): chairs are never
deleted, so a form's chairs are still chairs (`FormIsSound`); photographs get growing
numbers (`AlbumIsMinted`); a booked chair is an active one. It says of the team that some
row is an owner's and at most one of those is active (`TeamIsWhole`), which a transfer
keeps although what it checked may be past when it writes: it writes its heir's row in
any case, and the index refuses an active heir beside another active owner. And an
account sits once (`SeatedOnce`), because a code seats only somebody with no seat and a
chair is switched on only when its account has none elsewhere. `TypeCorrect` is not much
without these, since they are its constraints of the schema. The switch agrees with the
gate by `ReadinessIsTheGate`, an equivalence of two readings; and publication is decided by
its own form because the profile's carries the switch it was drawn with, and the switch's
the opposite of what its page showed (`FlightIsSound`).

Only model-checked: the liveness properties (`Answered`, `EveryMessageIsSettled`,
`EndsSomewhere`), for liveness under fairness and ENABLED are out of the prover's reach;
and the violated properties, which are not theorems.

## 6. The plan

1. `Appointments`, `Diary`, `Booking`, proofs (done)
2. `Postbox`, `Outbox`, proofs (done)
3. `Notices` over `Diary` and `Postbox`, proofs (done)
4. `BookingPage`, `Funnel`, `Session`, `Agenda`, `Shop`, proofs (done)
5. Proofs still worth making: what `Notices` does to the table as steps of `Diary` and of
   `Postbox`; the diary's and the postbox's own promises (one chair, one key, no fate
   unmade) from their specifications alone.
6. `Moderation`: suspension and contestation with two operators, and their screens.
7. `Slots`: `SlotCalculator` as pure operators against a reference definition (every
   slot inside a window, outside every block, on the step), the windows of a
   booking and of a move compared.
8. Later: `Budget`, `ConnectionPool`, alerts, tenancy binding.

## 7. Not modelled

Search, localities, the audit trail, the media store, the directory, home and
marketing pages, the service worker: reads, single inserts or files, with no
state two actors share. REST resources and mappers translate; what they answer
is in the models that branch on it. Moderation, budgets, the connection pool, the
tenant binding and the interval arithmetic of `SlotCalculator` are in the plan. The
rooms for customers, settings and the account are one form over one resource
each.
