------------------------------- MODULE Funnel -------------------------------
(***************************************************************************)
(* Taking an appointment on a business's public page: the catalogue row    *)
(* that enters /p/[slug]/reserver, its five steps, the server action that  *)
(* books, and the screen a refusal lands on.                               *)
(*                                                                         *)
(* The URL is the whole state of the funnel; a page is computed from it    *)
(* and from what the salon publishes at that moment, and is stale from     *)
(* then on.  Instants are numbered; a day holds PerDay of them.            *)
(***************************************************************************)
EXTENDS Naturals, FiniteSets

CONSTANTS
    Tabs,       \* pages open
    Staff,      \* the salon's people
    Services,   \* its catalogue
    None,       \* a parameter the URL does not carry
    PerDay,     \* instants of a day
    Days,       \* days the diary is open for, 0 .. Days - 1
    Window,     \* WINDOW_DAYS: days of slots read at once
    Limit,      \* slots one page of the list holds (200)
    LastNow,    \* bound: how far the clock runs
    MaxPresses, \* bound: submissions, in all
    MaxActs     \* bound: what the salon and other customers do

ASSUME SizesAreNatural == {PerDay, Days, Window, Limit} \subseteq Nat \ {0}
ASSUME BoundsAreNatural == {LastNow, MaxPresses, MaxActs} \subseteq Nat
ASSUME NoneIsNothing == None \notin Staff \cup Services \cup Nat

Instants == 0 .. Days * PerDay - 1
Modes == {"ON_SITE", "DROP_OFF", "AT_CUSTOMER"}

VARIABLES
    shop,   \* published, services, modes, team, competence and hours
    taken,  \* <<person, instant>> already in the diary
    made,   \* the bookings these tabs made, and what their page showed
    tab,    \* Tabs -> its URL and the page it shows
    sent,   \* Tabs -> the submission under way, or None
    now, presses, acts

vars == <<shop, taken, made, tab, sent, now, presses, acts>>

DayOf(i) == i \div PerDay
Today == DayOf(now)

-----------------------------------------------------------------------------
(* What the backend answers.                                               *)

Performing(v) == {s \in shop.team : <<s, v>> \in shop.performs}

\* SlotCalculator over one person's rules, without and with their diary.
Opens(s) == {i \in Instants : i > now /\ <<s, i>> \in shop.hours}
Free(s) == {i \in Opens(s) : <<s, i>> \notin taken}

\* Mutant: anybody's opening hours make a slot, whoever is busy.
SlotsOfTheOpen(v, s) ==
    IF s # None THEN Free(s) ELSE UNION {Opens(p) : p \in Performing(v)}

\* bookable: one person's slots, or what any competent person of the team can
\* take, each start once.
Slots(v, s) == IF s # None THEN Free(s) ELSE UNION {Free(p) : p \in Performing(v)}
First(set, n) == {i \in set : Cardinality({j \in set : j < i}) < n}

\* isWithinAvailability: the same, with nothing busy.
Within(v, s, i) ==
    IF s # None THEN i \in Opens(s) ELSE \E p \in Performing(v) : i \in Opens(p)

\* Mutant: where the person asked for is busy, a colleague will do.
CandidatesAmongColleagues(f) ==
    {s \in Performing(f.service) : <<s, f.at>> \notin taken}

\* The people the booking may be written for: the one asked for, or whoever of
\* the team performs the service, whatever their own hours.
Candidates(f) ==
    {s \in IF f.staff # None THEN {f.staff} ELSE Performing(f.service) :
        <<s, f.at>> \notin taken}

\* BookAppointmentAttempt.once, its refusals in their order.  The form never
\* names a mode, so a service that has several is refused.
Answer(f, boxes) ==
    CASE ~shop.published -> "RESOURCE_NOT_FOUND"
      [] ~boxes -> "VALIDATION_FAILED"
      [] f.service \notin shop.services -> "RESOURCE_NOT_FOUND"
      [] ~Within(f.service, f.staff, f.at) -> "SLOT_OUTSIDE_AVAILABILITY"
      [] Cardinality(shop.modes[f.service]) # 1 -> "VALIDATION_FAILED"
      [] f.address # ("AT_CUSTOMER" \in shop.modes[f.service]) -> "VALIDATION_FAILED"
      [] f.staff # None /\ f.staff \notin shop.team -> "RESOURCE_NOT_FOUND"
      [] f.staff # None /\ <<f.staff, f.service>> \notin shop.performs -> "VALIDATION_FAILED"
      [] Candidates(f) = {} -> "SLOT_UNAVAILABLE"
      [] OTHER -> "OK"

-----------------------------------------------------------------------------
(* The URL, and which step it names.                                       *)

\* stepHref, the query string of one position; a bare link carries no etape.
Href(etape, v, s, d, i) ==
    [etape |-> etape, service |-> v, staff |-> s, date |-> d, time |-> i, error |-> None]

HasTeam == shop.team # {}
Service(q) == IF q.service \in shop.services THEN q.service ELSE None
Person(q) == IF q.staff \in shop.team THEN q.staff ELSE None
Day(q) == IF q.date # None /\ q.date >= Today THEN q.date ELSE None

KeepsTheHour(code) == code = "VALIDATION_FAILED"

\* The step etape alone asks for; 0 is an absent etape.  Also a mutant: what is
\* asked for is shown, whatever was refused.
StepAsAsked(q) ==
    IF Service(q) = None \/ q.etape = 1 THEN 1
    ELSE IF q.etape >= 5 /\ Day(q) # None /\ q.time # None THEN 5
    ELSE IF q.etape >= 4 /\ Day(q) # None THEN 4
    ELSE IF q.etape >= 3 \/ ~HasTeam THEN 3
    ELSE 2

\* resolveStep: a refusal comes before what was asked.
Step(q) ==
    IF Service(q) = None THEN 1
    ELSE IF KeepsTheHour(q.error) /\ Day(q) # None /\ q.time # None THEN 5
    ELSE IF q.error # None /\ Day(q) # None THEN 4
    ELSE StepAsAsked(q)

-----------------------------------------------------------------------------
(* The steps.                                                              *)

\* BookingFlow's read: the slots of the window, cut at the page's limit.
From(q) == IF Day(q) # None THEN Day(q) ELSE Today
Strip(q) == From(q) .. From(q) + Window - 1
InStrip(q) == {i \in Slots(Service(q), Person(q)) : DayOf(i) \in Strip(q)}
Listed(q) == First(InStrip(q), Limit)
Truncated(q) == Listed(q) # InStrip(q)

\* ServiceStep, a card for each service on offer.
ServiceLinks == {Href(IF HasTeam THEN 2 ELSE 3, v, None, None, None) : v \in shop.services}

\* StaffStep: anybody listed, or nobody in particular.
StaffLinks(q) ==
    {Href(3, q.service, s, None, None) : s \in shop.team \cup {None}}
    \cup {Href(1, None, None, None, None)}

\* DateStep: the days that have something, the weeks either side, and back.
DateLinks(q) ==
    LET v == Service(q)
        s == Person(q)
        later(a, b) == IF a > b THEN a ELSE b
        week(d) == Href(3, v, s, d, None)
    IN {Href(4, v, s, DayOf(i), None) : i \in Listed(q)}
       \cup {week(From(q) + Window)}
       \cup {week(later(Today, From(q) - Window)) : x \in {y \in {Today} : From(q) > y}}
       \cup {Href(IF HasTeam THEN 2 ELSE 1, v, s, None, None)}

\* The label of a day with nothing free says why, as far as the weekly hours
\* (read, or not) can tell.
DayLabel(q, d, hoursRead) ==
    IF \E i \in Listed(q) : DayOf(i) = d THEN "free"
    ELSE IF hoursRead /\ \A s \in shop.team, i \in Instants :
            DayOf(i) = d => <<s, i>> \notin shop.hours THEN "shut"
    ELSE "full"

\* Mutant: a link to an hour leaves its day behind.
TimeLinksWithoutDay(q) ==
    {Href(5, Service(q), Person(q), None, i) : i \in {j \in Listed(q) : DayOf(j) = Day(q)}}

\* TimeStep: the hours of the day, each a link.
TimeLinks(q) ==
    {Href(5, Service(q), Person(q), Day(q), i) : i \in {j \in Listed(q) : DayOf(j) = Day(q)}}
    \cup {Href(3, Service(q), Person(q), Day(q), None)}

\* Fulfilment.primaryOf: the one mode that stands for several.
Primary(v) ==
    IF "ON_SITE" \in shop.modes[v] THEN "ON_SITE"
    ELSE IF "DROP_OFF" \in shop.modes[v] THEN "DROP_OFF"
    ELSE "AT_CUSTOMER"

\* AddressFields, drawn for a call-out alone.
AsksAddress(q) == Primary(Service(q)) = "AT_CUSTOMER"

\* DetailsStep: the hidden fields of the form, and the address it asks for.
Form(q) ==
    [service |-> Service(q), staff |-> Person(q), at |-> q.time, date |-> Day(q),
     address |-> AsksAddress(q)]
DetailsLinks(q) == {Href(4, Service(q), Person(q), Day(q), q.time)}

\* Recap: what has been answered so far.
Recap(q) ==
    [service |-> Service(q), person |-> Person(q), day |-> Day(q), at |-> q.time]

\* Mutant: a list that was cut says nothing of it.
SaysWithoutCut(q) ==
    (IF q.error # None /\ Step(q) \in {1, 4, 5} THEN {"refused"} ELSE {})

\* The refusal is handed to the service, hour and details steps; the day says
\* when its list was cut.
Says(q) ==
    (IF q.error # None /\ Step(q) \in {1, 4, 5} THEN {"refused"} ELSE {})
    \cup (IF Step(q) = 3 /\ Truncated(q) THEN {"cut"} ELSE {})

Links(q) ==
    CASE Step(q) = 1 -> ServiceLinks
      [] Step(q) = 2 -> StaffLinks(q)
      [] Step(q) = 3 -> DateLinks(q)
      [] Step(q) = 4 -> TimeLinks(q)
      [] Step(q) = 5 -> DetailsLinks(q)

\* A page the funnel did not draw: not found, or the booking's own.
Plain(name) ==
    [step |-> 0, name |-> name, recap |-> None, says |-> {}, links |-> {}, form |-> None,
     days |-> [d \in {} |-> ""]]

\* BookingFlow.
Render(q, hoursRead) ==
    IF ~shop.published THEN Plain("gone")
    ELSE [step |-> Step(q), name |-> "funnel", recap |-> Recap(q),
          says |-> Says(q), links |-> Links(q),
          form |-> IF Step(q) = 5 THEN Form(q) ELSE None,
          days |-> IF Step(q) = 3 THEN [d \in Strip(q) |-> DayLabel(q, d, hoursRead)]
                                  ELSE [d \in {} |-> ""]]

-----------------------------------------------------------------------------
(* The customer.                                                           *)

Show(t, q) ==
    \E hoursRead \in BOOLEAN :
        tab' = [tab EXCEPT ![t] = [url |-> q, page |-> Render(q, hoursRead)]]

\* PublicPageBody and ServiceRow: the button carries nothing, a row of the
\* catalogue its service and no etape.
Entrances ==
    {Href(0, v, None, None, None) : v \in shop.services \cup {None}}

Visit(t) ==
    /\ sent[t] = None
    /\ \E q \in Entrances \cup {tab[t].url} \cup tab[t].page.links :
          /\ q.date \in {None} \cup 0 .. Days - 1
          /\ Show(t, q)
    /\ UNCHANGED <<shop, taken, made, sent, now, presses, acts>>

\* Who books and by which channel to reach them, filled in well or not.
Boxes == BOOLEAN

\* The form is sent as it was drawn.
Submit(t) ==
    /\ sent[t] = None /\ tab[t].page.form # None
    /\ presses < MaxPresses /\ presses' = presses + 1
    /\ \E boxes \in Boxes :
          sent' = [sent EXCEPT ![t] = [form |-> tab[t].page.form, boxes |-> boxes,
                                       shown |-> tab[t].page.recap, answer |-> "none",
                                       next |-> None]]
    /\ UNCHANGED <<shop, taken, made, tab, now, acts>>

\* Mutant: the hour goes back into the URL whatever was refused.
RefusalWithHour(f, code) ==
    [Href(3, f.service, f.staff, f.date, f.at) EXCEPT !.error = code]

\* refusalUrl: the selections, and the hour where a box was refused.
RefusalUrl(f, code) ==
    [Href(3, f.service, f.staff, f.date, IF KeepsTheHour(code) THEN f.at ELSE None)
        EXCEPT !.error = code]

\* book.  The throttle and the salon's blocked numbers may refuse anything.
Book(t) ==
    /\ sent[t] # None /\ sent[t].answer = "none"
    /\ LET f == sent[t].form IN
       \/ /\ Answer(f, sent[t].boxes) = "OK"
          /\ \E s \in Candidates(f) :
                /\ taken' = taken \cup {<<s, f.at>>}
                /\ made' = made \cup {[staff |-> s, at |-> f.at, service |-> f.service,
                                       shown |-> sent[t].shown]}
          /\ sent' = [sent EXCEPT ![t].answer = "booked"]
       \/ /\ \E code \in {"RATE_LIMITED", "FORBIDDEN", Answer(f, sent[t].boxes)} \ {"OK"} :
                sent' = [sent EXCEPT ![t].answer = "refused", ![t].next = RefusalUrl(f, code)]
          /\ UNCHANGED <<taken, made>>
    /\ UNCHANGED <<shop, tab, now, presses, acts>>

\* The redirect is followed: to the booking, or back into the funnel.
Land(t) ==
    /\ sent[t] # None /\ sent[t].answer # "none"
    /\ IF sent[t].answer = "booked"
       THEN tab' = [tab EXCEPT ![t] = [url |-> Href(0, None, None, None, None),
                                       page |-> Plain("booking")]]
       ELSE Show(t, sent[t].next)
    /\ sent' = [sent EXCEPT ![t] = None]
    /\ UNCHANGED <<shop, taken, made, now, presses, acts>>

\* The answer is lost, and the form is there to be sent again.
Lose(t) ==
    /\ sent[t] # None /\ sent[t].answer # "none"
    /\ sent' = [sent EXCEPT ![t] = None]
    /\ UNCHANGED <<shop, taken, made, tab, now, presses, acts>>

-----------------------------------------------------------------------------
(* Everybody else.                                                         *)

Acting == acts < MaxActs /\ acts' = acts + 1
Toggle(set, x) == IF x \in set THEN set \ {x} ELSE set \cup {x}

\* Another customer takes a slot, or calls one off.
OthersBook ==
    /\ Acting
    /\ \/ \E s \in shop.team : \E i \in Free(s) : taken' = taken \cup {<<s, i>>}
       \/ \E x \in taken \ {<<b.staff, b.at>> : b \in made} : taken' = taken \ {x}
    /\ UNCHANGED <<shop, made, tab, sent, now, presses>>

\* The dashboard: publication, catalogue, competence, team and hours.
ShopChanges ==
    /\ Acting
    /\ \/ shop' = [shop EXCEPT !.published = ~@]
       \/ \E v \in Services : shop' = [shop EXCEPT !.services = Toggle(@, v)]
       \/ \E s \in Staff : shop' = [shop EXCEPT !.team = Toggle(@, s)]
       \/ \E v \in Services, m \in {{"ON_SITE"}, {"AT_CUSTOMER"}, {"ON_SITE", "AT_CUSTOMER"}} :
             shop' = [shop EXCEPT !.modes[v] = m]
       \/ \E s \in Staff, v \in Services : shop' = [shop EXCEPT !.performs = Toggle(@, <<s, v>>)]
       \/ \E s \in Staff, d \in 0 .. Days - 1 :
             shop' = [shop EXCEPT !.hours = {x \in @ : x[1] # s \/ DayOf(x[2]) # d}]
    /\ UNCHANGED <<taken, made, tab, sent, now, presses>>

Tick ==
    /\ now < LastNow /\ now + 1 \in Instants
    /\ now' = now + 1
    /\ UNCHANGED <<shop, taken, made, tab, sent, presses, acts>>

Init ==
    /\ \E team \in SUBSET Staff :
          shop = [published |-> TRUE, services |-> Services,
                  modes |-> [v \in Services |-> {"ON_SITE"}], team |-> team,
                  performs |-> Staff \X Services, hours |-> Staff \X Instants]
    /\ taken = {} /\ made = {}
    /\ tab = [t \in Tabs |-> [url |-> Href(0, None, None, None, None),
                              page |-> Plain("directory")]]
    /\ sent = [t \in Tabs |-> None]
    /\ now = 0 /\ presses = 0 /\ acts = 0

Next ==
    \/ \E t \in Tabs : Visit(t) \/ Submit(t) \/ Book(t) \/ Land(t) \/ Lose(t)
    \/ OthersBook \/ ShopChanges \/ Tick

Spec == Init /\ [][Next]_vars

-----------------------------------------------------------------------------
(* Properties.                                                             *)

Codes == {"RATE_LIMITED", "FORBIDDEN", "VALIDATION_FAILED", "RESOURCE_NOT_FOUND",
          "SLOT_OUTSIDE_AVAILABILITY", "SLOT_UNAVAILABLE"}

\* Every URL the funnel writes carries what its etape needs, and every page is
\* one the product draws.
TypeOK ==
    /\ shop.services \subseteq Services /\ shop.team \subseteq Staff
    /\ shop.performs \subseteq Staff \X Services /\ shop.hours \subseteq Staff \X Instants
    /\ \A v \in Services : shop.modes[v] \subseteq Modes /\ shop.modes[v] # {}
    /\ taken \subseteq Staff \X Instants
    /\ \A b \in made : <<b.staff, b.at>> \in taken
    /\ \A t \in Tabs : LET q == tab[t].url IN
          /\ q.etape \in 0 .. 5 /\ q.error \in Codes \cup {None}
          /\ q.etape >= 4 => q.date # None /\ q.service # None
          /\ q.etape = 5 => q.time # None
          /\ tab[t].page.step \in 0 .. 5
    /\ now \in Instants /\ presses \in 0 .. MaxPresses /\ acts \in 0 .. MaxActs

\* The customer gets the service, the hour and, where they named somebody, the
\* person their page's recap showed when they confirmed: the form and the recap
\* are computed apart, and what the backend picks must not replace a choice.
BookedAsShown ==
    \A b \in made :
        /\ b.service = b.shown.service /\ b.at = b.shown.at
        /\ b.shown.day = DayOf(b.at)
        /\ b.shown.person # None => b.staff = b.shown.person

\* A refused booking is said on the screen it lands on.  The one exception is a
\* page left open past midnight: its day is gone from the URL's reading, and the
\* day list that is drawn then says nothing.
RefusalIsSaid ==
    \A t \in Tabs :
        tab[t].url.error # None /\ tab[t].page.step # 0 =>
            "refused" \in tab[t].page.says \/ tab[t].url.date < Today

\* The screen that replaces a refused hour does not open with the dead one in
\* its recap, and a refused box keeps the hour.
DeadHourIsForgotten ==
    \A t \in Tabs :
        tab[t].url.error # None /\ tab[t].page.step \in {4, 5} =>
            (tab[t].page.recap.at = None <=> tab[t].url.error # "VALIDATION_FAILED")

Fresh(t) ==
    tab[t].page \in {Render(tab[t].url, TRUE), Render(tab[t].url, FALSE)} /\ shop.published

\* An up-to-date hour list offers only hours the booking path takes: the union
\* over the team, computed per person, agrees with the write's own rules.  It
\* does not ask whether the person named performs the service, nor for a mode.
HoursListedAreBookable ==
    \A t \in Tabs : Fresh(t) /\ tab[t].page.step = 4 =>
        \A q \in tab[t].page.links :
            q.etape = 5 =>
                \/ Cardinality(shop.modes[q.service]) > 1
                \/ q.staff # None /\ <<q.staff, q.service>> \notin shop.performs
                \/ Answer(Form(q), TRUE) = "OK"

\* No day with room left is called shut or full, unless the page says that its
\* list was cut.
NoFreeDayCalledFull ==
    \A t \in Tabs : Fresh(t) /\ tab[t].page.step = 3 /\ "cut" \notin tab[t].page.says =>
        \A d \in DOMAIN tab[t].page.days :
            tab[t].page.days[d] # "free" =>
                \A i \in Slots(tab[t].page.recap.service, tab[t].page.recap.person) :
                    DayOf(i) # d

\* lib/refusal.ts: VALIDATION_FAILED is a refusal of the boxes, so the form it
\* lands on can be put right by filling the boxes in.
CorrectableOnTheForm ==
    \A t \in Tabs :
        Fresh(t) /\ tab[t].page.step = 5 /\ tab[t].url.error = "VALIDATION_FAILED" =>
            Answer(tab[t].page.form, TRUE) # "VALIDATION_FAILED"

=============================================================================
