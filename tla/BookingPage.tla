----------------------------- MODULE BookingPage -----------------------------
(***************************************************************************)
(* The customer's own page, /bookings/[reference]: four screens on one     *)
(* URL, the server actions behind their buttons, and the answers of the    *)
(* backend (CustomerBookingService, the review functions of V050 and V054) *)
(* they are redirected on.                                                 *)
(*                                                                         *)
(* A tab holds a URL and the page last rendered for it.  A page is a set   *)
(* of offers (what can be pressed) and a set of sayings (the alerts it     *)
(* draws); both are computed from one read of the booking, and are stale   *)
(* from then on: the salon, the moderator, other customers and the clock   *)
(* move on under it.  A press is sent, judged by the backend, and answered *)
(* by a redirect that renders the page anew; the answer may be lost, and   *)
(* the old page is then still there to press again.                        *)
(***************************************************************************)
EXTENDS Naturals, FiniteSets

CONSTANTS
    Tabs,       \* pages open on the one reference
    Files,      \* photographs the customer has on the telephone
    Window,     \* the salon's cancellation window, in steps
    Hours,      \* starts the chair's own hours admit
    TeamStarts, \* starts another chair of the team offers
    Nobody,     \* no slot, no call
    LastTick,   \* bound: how far the clock runs
    MaxPresses, \* bound: buttons pressed, in all
    MaxActs     \* bound: what the salon, the moderator and others do

Times == 0 .. LastTick + 2
Room == 3       \* photographs a review holds

ASSUME BoundsAreNatural == {Window, LastTick, MaxPresses, MaxActs} \subseteq Nat
ASSUME HoursOnGrid == Hours \subseteq Times /\ TeamStarts \subseteq Times
ASSUME NobodyIsNoTime == Nobody \notin Nat
ASSUME FilesAreFinite == IsFiniteSet(Files) /\ IsFiniteSet(Tabs)

VARIABLES
    appt,   \* appointments: status and start
    review, \* provider_reviews and review_photos of this appointment
    shop,   \* what the salon's own records say: active, offering, chair, taken
    own,    \* the customer's number is one the business publishes
    tab,    \* Tabs -> its URL and the page it shows
    sent,   \* Tabs -> the server action running for it, or Nobody
    now, presses, acts

vars == <<appt, review, shop, own, tab, sent, now, presses, acts>>

-----------------------------------------------------------------------------
(* What the backend answers.                                               *)

\* AppointmentStatus.isActive, and the page's own `open`.
Open(status) == status \in {"PENDING", "CONFIRMED"}
Legal(status) ==
    CASE status = "PENDING" -> {"CONFIRMED", "CANCELLED"}
      [] status = "CONFIRMED" -> {"COMPLETED", "NO_SHOW", "CANCELLED"}
      [] OTHER -> {}

\* requireInTime: the customer's notice period, read off the start.
InTime == now + Window < appt.at

\* app_may_review: over, and served; standing is the review's, or NONE.
MayReview(standing) ==
    /\ appt.status \notin {"CANCELLED", "NO_SHOW"}
    /\ appt.at + 1 <= now
    /\ standing # "HIDDEN"

\* GET /v1/bookings/{reference}: the booking as the page is sent it.
Booking ==
    [status |-> appt.status, at |-> appt.at,
     cancellable |-> Open(appt.status) /\ InTime,
     reviewable |-> MayReview(review.standing),
     standing |-> review.standing, photos |-> review.photos]

\* What the backend makes of a call, the throttle aside.
CancelAnswer ==
    CASE ~shop.active -> "RESOURCE_NOT_FOUND"
      [] ~InTime -> "CANCELLATION_DEADLINE_PASSED"
      [] ~Open(appt.status) -> "INVALID_STATE_TRANSITION"
      [] OTHER -> "OK"

MoveAnswer(at) ==
    CASE ~shop.active -> "RESOURCE_NOT_FOUND"
      [] ~InTime -> "CANCELLATION_DEADLINE_PASSED"
      [] ~Open(appt.status) -> "INVALID_STATE_TRANSITION"
      [] shop.offering = "WITHDRAWN" -> "RESOURCE_NOT_FOUND"
      [] at \notin Hours \/ at < now -> "SLOT_OUTSIDE_AVAILABILITY"
      [] at \in shop.taken -> "SLOT_UNAVAILABLE"
      [] OTHER -> "OK"

\* app_submit_review: oneself first, then over and served, then the upsert.
ReviewAnswer ==
    CASE ~shop.active -> "RESOURCE_NOT_FOUND"
      [] own -> "FORBIDDEN"
      [] ~MayReview("NONE") \/ review.standing = "HIDDEN" -> "INVALID_STATE_TRANSITION"
      [] OTHER -> "OK"

\* Mutant: the photograph hangs off the review whatever its standing.
PhotoEvenIfHidden ==
    CASE ~shop.active \/ review.standing = "NONE" -> "RESOURCE_NOT_FOUND"
      [] Cardinality(review.photos) >= Room -> "VALIDATION_FAILED"
      [] OTHER -> "OK"

\* Mutant: no limit on the photographs of one review.
PhotoUnlimited ==
    IF ~shop.active \/ review.standing # "VISIBLE" THEN "RESOURCE_NOT_FOUND" ELSE "OK"

\* app_add_review_photo: only onto a standing review, in the lowest free slot.
PhotoAnswer ==
    CASE ~shop.active \/ review.standing # "VISIBLE" -> "RESOURCE_NOT_FOUND"
      [] Cardinality(review.photos) >= Room -> "VALIDATION_FAILED"
      [] OTHER -> "OK"

\* app_remove_review_photo asks nothing of the review's standing.
RemoveAnswer(id) ==
    IF shop.active /\ \E p \in review.photos : p.id = id
    THEN "OK" ELSE "RESOURCE_NOT_FOUND"

ReportAnswer == IF shop.active THEN "OK" ELSE "RESOURCE_NOT_FOUND"

Answer(call) ==
    CASE call.op = "cancel" -> CancelAnswer
      [] call.op = "move" -> MoveAnswer(call.arg)
      [] call.op = "review" -> ReviewAnswer
      [] call.op = "drop" -> RemoveAnswer(call.arg)
      [] call.op = "report" -> ReportAnswer

-----------------------------------------------------------------------------
(* What the page draws.  q is the URL: the screen it asks for, the slot it *)
(* has picked, and the flags a redirect left on it with the code of each.  *)

Url == [ask : {"detail", "move", "cancel", "report", "review"},
        at : Times \cup {Nobody},
        flag : {"none", "error", "move_error", "review_error", "report_error",
                "photo_error", "cancelled", "moved", "reviewed", "reported"}]
Plain(ask) == [ask |-> ask, at |-> Nobody, flag |-> "none"]
Flagged(ask, flag) == [ask |-> ask, at |-> Nobody, flag |-> flag]

\* The button and what it sends along.
Press(op, arg) == [op |-> op, arg |-> arg]
Go(ask) == [op |-> "go", arg |-> ask]

\* Mutant: the deadline re-decided as "still ahead".
StillAhead(b) == Open(b.status)

Changeable(b) == Open(b.status) /\ b.cancellable

\* BookingPage: which of the screens the URL opens on this booking.
View(b, q) ==
    CASE q.ask = "report" -> "report"
      [] q.ask = "review" /\ (b.reviewable \/ b.standing # "NONE") -> "review"
      [] q.ask = "move" /\ Changeable(b) -> "move"
      [] q.ask = "cancel" /\ Open(b.status) -> "cancel"
      [] OTHER -> "detail"

\* statusNote: what a status other than CONFIRMED means, unless just cancelled.
StatusNote(b, q) ==
    IF b.status = "CONFIRMED" \/ q.flag = "cancelled" THEN {} ELSE {b.status}

\* DetailView, its alerts, in the order they are drawn.
Flashes(q) == {q.flag} \cap {"cancelled", "moved", "reviewed", "reported", "error",
                            "photo_error"}
DetailSays(b, q) ==
    Flashes(q) \cup StatusNote(b, q)
    \cup (IF Open(b.status) /\ ~b.cancellable THEN {"closed"} ELSE {})
    \cup (IF b.standing = "HIDDEN" THEN {"taken_down"} ELSE {})

\* DetailView, its links: the card's foot, the invitation, the quiet line.
DetailOffers(b) ==
    (IF Changeable(b) THEN {Go("move"), Go("cancel")} ELSE {})
    \cup (IF b.reviewable THEN {Go("review")} ELSE {})
    \cup {Go("report")}

\* loadMove: the chair's slots while the team page names the chair, the team's
\* when it does not, and none at all when the offering's name is not there.
Slots == {s \in (IF shop.chair THEN Hours ELSE Hours \cup TeamStarts) \ shop.taken :
            s >= now /\ s # appt.at}
CanLoadMove == shop.offering = "LISTED"

\* MoveView and MoveForm: a slot is a link, and the button wants one picked
\* among those just loaded.
MoveOffers(q) ==
    IF ~CanLoadMove THEN {}
    ELSE {Press("pick", s) : s \in Slots}
         \cup {Press("move", s) : s \in Slots \cap {q.at}}
MoveSays(q) ==
    ({q.flag} \cap {"move_error"}) \cup (IF CanLoadMove THEN {} ELSE {"no_way"})

\* CancelView: the button is disabled once the window has closed.
CancelOffers(b) == IF Changeable(b) THEN {Press("cancel", Nobody)} ELSE {}
CancelSays(b) == IF Changeable(b) THEN {} ELSE {"closed"}

ReportOffers == {Press("report", Nobody)}
ReportSays(q) == {q.flag} \cap {"report_error"}

\* ReviewView: one form for a first review and for a changed one, and under a
\* review that exists one small form for each photograph.
ReviewOffers(b) ==
    {Press("review", Nobody)} \cup {Press("drop", p.id) : p \in b.photos}
ReviewSays(q) == {q.flag} \cap {"review_error"}

Offers(b, q) ==
    CASE View(b, q) = "detail" -> DetailOffers(b)
      [] View(b, q) = "move" -> MoveOffers(q)
      [] View(b, q) = "cancel" -> CancelOffers(b)
      [] View(b, q) = "report" -> ReportOffers
      [] View(b, q) = "review" -> ReviewOffers(b)
Says(b, q) ==
    CASE View(b, q) = "detail" -> DetailSays(b, q)
      [] View(b, q) = "move" -> MoveSays(q)
      [] View(b, q) = "cancel" -> CancelSays(b)
      [] View(b, q) = "report" -> ReportSays(q)
      [] View(b, q) = "review" -> ReviewSays(q)

\* Throttled, notFound, and the page itself.
Page(view, offers, says) == [view |-> view, offers |-> offers, says |-> says]
Throttled == Page("throttled", {Go("detail")}, {"throttled"})
Gone == Page("gone", {}, {"gone"})
Render(q) ==
    IF shop.active THEN Page(View(Booking, q), Offers(Booking, q), Says(Booking, q))
                   ELSE Gone
Blank == Page("blank", {}, {})

Posts(page) == {c \in page.offers : c.op \in {"cancel", "move", "review", "drop", "report"}}

-----------------------------------------------------------------------------
(* The customer.                                                           *)

\* A GET of the page: the one moment it is true.
Show(t, q) ==
    \E page \in {Render(q), Throttled} : tab' = [tab EXCEPT ![t] = [url |-> q, page |-> page]]

\* The URL of a link: the screens of the page, or the move with a slot picked.
Link(c) == IF c.op = "go" THEN Plain(c.arg) ELSE [Plain("move") EXCEPT !.at = c.arg]

\* FindBooking and the message hand over the bare URL; a link, a slot and a
\* reload are the page's own.
Visit(t) ==
    /\ sent[t] = Nobody
    /\ \E q \in {Plain("detail"), tab[t].url}
               \cup {Link(c) : c \in tab[t].page.offers \ Posts(tab[t].page)} :
          Show(t, q)
    /\ UNCHANGED <<appt, review, shop, own, sent, now, presses, acts>>

\* The form posts what the page held when it was drawn.  The input that takes
\* photographs is there while the review drawn has room.
Submit(t) ==
    /\ sent[t] = Nobody
    /\ presses < MaxPresses
    /\ \E c \in Posts(tab[t].page) :
       \E files \in IF c.op = "review"
                      /\ Cardinality({x \in Posts(tab[t].page) : x.op = "drop"}) < Room
                    THEN SUBSET Files ELSE {{}} :
          sent' = [sent EXCEPT ![t] = [call |-> c, left |-> files, at |-> "post",
                                       next |-> Plain("detail")]]
    /\ presses' = presses + 1
    /\ UNCHANGED <<appt, review, shop, own, tab, now, acts>>

\* The backend's write behind an accepted call.
Effect(call) ==
    CASE call.op = "cancel" -> /\ appt' = [appt EXCEPT !.status = "CANCELLED"]
                               /\ UNCHANGED review
      [] call.op = "move" -> /\ appt' = [appt EXCEPT !.at = call.arg]
                             /\ UNCHANGED review
      [] call.op = "review" -> /\ review' = [review EXCEPT !.standing = "VISIBLE",
                                                          !.text = presses]
                               /\ UNCHANGED appt
      [] call.op = "drop" -> /\ review' = [review EXCEPT !.photos =
                                    {p \in review.photos : p.id # call.arg}]
                             /\ UNCHANGED appt
      [] call.op = "report" -> UNCHANGED <<appt, review>>

\* Mutant: a refused cancellation is announced like one that went through.
HeedlessLanding(op, ok) ==
    CASE op = "cancel" -> Flagged("detail", "cancelled")
      [] op = "move" -> IF ok THEN Flagged("detail", "moved") ELSE Flagged("move", "move_error")
      [] op = "report" -> IF ok THEN Flagged("detail", "reported")
                                ELSE Flagged("report", "report_error")
      [] op \in {"review", "drop"} -> IF ok THEN Plain("review")
                                            ELSE Flagged("review", "review_error")

\* Mutant: every refusal is taken back to the appointment's card.
LandingOnTheCard(op, ok) ==
    Flagged("detail", CASE op = "cancel" -> IF ok THEN "cancelled" ELSE "error"
                        [] op = "move" -> IF ok THEN "moved" ELSE "move_error"
                        [] op = "report" -> IF ok THEN "reported" ELSE "report_error"
                        [] OTHER -> IF ok THEN "reviewed" ELSE "review_error")

\* cancelBooking, rescheduleBooking, reportProvider, submitReview and
\* removeReviewPhoto: where the redirect of each lands.
Landing(op, ok) ==
    CASE op = "cancel" -> Flagged("detail", IF ok THEN "cancelled" ELSE "error")
      [] op = "move" -> IF ok THEN Flagged("detail", "moved") ELSE Flagged("move", "move_error")
      [] op = "report" -> IF ok THEN Flagged("detail", "reported")
                                ELSE Flagged("report", "report_error")
      [] op \in {"review", "drop"} -> IF ok THEN Plain("review")
                                            ELSE Flagged("review", "review_error")

Redirect(t, q) == sent' = [sent EXCEPT ![t].at = "redirect", ![t].next = q]

\* The action's API call.  A review goes on to its photographs.
Act(t) ==
    /\ sent[t] # Nobody /\ sent[t].at = "post"
    /\ LET call == sent[t].call IN
       \/ /\ Answer(call) = "OK"
          /\ Effect(call)
          /\ IF call.op = "review" THEN sent' = [sent EXCEPT ![t].at = "photos"]
                                   ELSE Redirect(t, Landing(call.op, TRUE))
       \/ \* refused, or told RATE_LIMITED
          /\ Redirect(t, Landing(call.op, FALSE))
          /\ UNCHANGED <<appt, review>>
    /\ UNCHANGED <<shop, own, tab, now, presses, acts>>

\* submitReview's loop, one upload at a time; a refusal ends it.
Illustrate(t) ==
    /\ sent[t] # Nobody /\ sent[t].at = "photos"
    /\ \/ /\ sent[t].left = {}
          /\ Redirect(t, Flagged("detail", "reviewed"))
          /\ UNCHANGED review
       \/ /\ PhotoAnswer = "OK"
          /\ \E f \in sent[t].left :
                /\ review' = [review EXCEPT
                                !.photos = @ \cup {[id |-> review.uploads + 1, file |-> f]},
                                !.uploads = @ + 1]
                /\ sent' = [sent EXCEPT ![t].left = @ \ {f}]
       \/ /\ sent[t].left # {}
          /\ Redirect(t, Flagged("detail", "photo_error"))
          /\ UNCHANGED review
    /\ UNCHANGED <<appt, shop, own, tab, now, presses, acts>>

\* The browser follows the redirect ...
Land(t) ==
    /\ sent[t] # Nobody /\ sent[t].at = "redirect"
    /\ Show(t, sent[t].next)
    /\ sent' = [sent EXCEPT ![t] = Nobody]
    /\ UNCHANGED <<appt, review, shop, own, now, presses, acts>>

\* ... or never hears of it, and the page pressed is still there.
Lose(t) ==
    /\ sent[t] # Nobody /\ sent[t].at = "redirect"
    /\ sent' = [sent EXCEPT ![t] = Nobody]
    /\ UNCHANGED <<appt, review, shop, own, tab, now, presses, acts>>

-----------------------------------------------------------------------------
(* Everybody else.                                                         *)

Acting == acts < MaxActs /\ acts' = acts + 1

\* The salon's diary: a status, or another start (RescheduleAttempt).
SalonActs ==
    /\ Acting
    /\ \/ \E s \in Legal(appt.status) : appt' = [appt EXCEPT !.status = s]
       \/ /\ Open(appt.status)
          /\ \E s \in Hours \ shop.taken : s >= now /\ appt' = [appt EXCEPT !.at = s]
    /\ UNCHANGED <<review, shop, own, tab, sent, now, presses>>

\* The catalogue, the team page and other people's bookings.
ShopChanges ==
    /\ Acting
    /\ \/ \E o \in {"LISTED", "RENAMED", "WITHDRAWN"} : shop' = [shop EXCEPT !.offering = o]
       \/ shop' = [shop EXCEPT !.chair = ~@]
       \/ \E s \in Hours \ {appt.at} : shop' = [shop EXCEPT !.taken =
              IF s \in @ THEN @ \ {s} ELSE @ \cup {s}]
    /\ UNCHANGED <<appt, review, own, tab, sent, now, presses>>

\* The operator: a business suspended or reinstated, a review hidden or shown.
OperatorActs ==
    /\ Acting
    /\ \/ shop' = [shop EXCEPT !.active = ~@] /\ UNCHANGED review
       \/ /\ review.standing # "NONE"
          /\ \E s \in {"VISIBLE", "HIDDEN"} \ {review.standing} :
                review' = [review EXCEPT !.standing = s]
          /\ UNCHANGED shop
    /\ UNCHANGED <<appt, own, tab, sent, now, presses>>

Tick ==
    /\ now < LastTick
    /\ now' = now + 1
    /\ UNCHANGED <<appt, review, shop, own, tab, sent, presses, acts>>

Init ==
    /\ appt \in [status : {"PENDING", "CONFIRMED"}, at : Hours]
    /\ review = [standing |-> "NONE", photos |-> {}, text |-> 0, uploads |-> 0]
    /\ shop = [active |-> TRUE, offering |-> "LISTED", chair |-> TRUE, taken |-> {}]
    /\ own \in BOOLEAN
    /\ tab = [t \in Tabs |-> [url |-> Plain("detail"), page |-> Blank]]
    /\ sent = [t \in Tabs |-> Nobody]
    /\ now = 0 /\ presses = 0 /\ acts = 0

Next ==
    \/ \E t \in Tabs : Visit(t) \/ Submit(t) \/ Act(t) \/ Illustrate(t) \/ Land(t) \/ Lose(t)
    \/ SalonActs \/ ShopChanges \/ OperatorActs \/ Tick

Spec == Init /\ [][Next]_vars

-----------------------------------------------------------------------------
(* Properties.                                                             *)

Photo == [id : Nat, file : Files]

\* Every record keeps its shape: a review never holds more photographs than it
\* has room for, and a page that is drawn offers only what its screen may.
TypeOK ==
    /\ appt.status \in {"PENDING", "CONFIRMED", "CANCELLED", "COMPLETED", "NO_SHOW"}
    /\ appt.at \in Times
    /\ review.standing \in {"NONE", "VISIBLE", "HIDDEN"}
    /\ review.photos \subseteq Photo /\ Cardinality(review.photos) <= Room
    /\ review.text \in 0 .. MaxPresses /\ review.uploads \in Nat
    /\ shop.active \in BOOLEAN /\ shop.chair \in BOOLEAN /\ shop.taken \subseteq Hours
    /\ shop.offering \in {"LISTED", "RENAMED", "WITHDRAWN"}
    /\ own \in BOOLEAN
    /\ \A t \in Tabs : tab[t].url \in Url
    /\ \A t \in Tabs : sent[t] # Nobody =>
          /\ sent[t].at \in {"post", "photos", "redirect"}
          /\ sent[t].left \subseteq Files /\ sent[t].next \in Url
    /\ now \in 0 .. LastTick /\ presses \in 0 .. MaxPresses /\ acts \in 0 .. MaxActs

\* A page that is what it would be if it were drawn now.
Fresh(t) == tab[t].page = Render(tab[t].url) /\ shop.active

\* What a fresh page offers and the backend may refuse all the same, and the
\* code knows: the review form of a review that can no longer change, the
\* business's own review, and the team's slots for a chair nobody lists.
Excused(c) ==
    \/ c.op = "review" /\ (own \/ ~Booking.reviewable)
    \/ c.op = "move" /\ ~shop.chair

\* The page re-decides nothing: on a page that is up to date every button is one
\* the backend would accept, and the appointment's own card offers the move, the
\* cancellation and the review exactly while the backend would take them.
PageAgreesWithBackend ==
    \A t \in Tabs : Fresh(t) =>
        /\ \A c \in Posts(tab[t].page) : Excused(c) \/ Answer(c) = "OK"
        /\ tab[t].page.view = "detail" =>
             /\ Go("cancel") \in tab[t].page.offers <=> CancelAnswer = "OK"
             /\ Go("move") \in tab[t].page.offers <=> CancelAnswer = "OK"
             /\ ~own => (Go("review") \in tab[t].page.offers <=> ReviewAnswer = "OK")

\* Where a redirect after a refusal lands somewhere else than the screen that
\* states refusals, the page still says why: the window is closed, the
\* appointment is over or called off, or it is still to come.
Explanations == {"error", "move_error", "review_error", "report_error", "photo_error",
                 "closed", "CANCELLED", "COMPLETED", "NO_SHOW", "taken_down", "throttled", "gone"}
NothingRefusedInSilence ==
    \A t \in Tabs :
        Fresh(t) /\ tab[t].url.flag \in {"error", "move_error", "review_error",
                                         "report_error", "photo_error"} =>
            \/ tab[t].page.says \cap Explanations # {}
            \/ tab[t].url.flag = "review_error" /\ appt.at + 1 > now

\* "C'est annule" and "votre avis est en ligne" are said of nothing else: the
\* flag on the URL outlives the redirect, and stays true of the appointment.
AnnouncedIsSo ==
    \A t \in Tabs :
        /\ "cancelled" \in tab[t].page.says => appt.status = "CANCELLED"
        /\ tab[t].page.says \cap {"reviewed", "photo_error"} # {} => review.standing # "NONE"

\* What an operator took down stays as it was taken down: no submission that was
\* under way, and no later one, adds a word or a photograph to it.
HiddenStandsStill ==
    [][review.standing = "HIDDEN" =>
         /\ review'.text = review.text
         /\ review'.photos \subseteq review.photos]_vars

=============================================================================
