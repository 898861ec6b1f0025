---------------------------- MODULE FunnelProofs ----------------------------
(****************************************************************************)
(* What the funnel books is what its page showed, a refusal is said where it  *)
(* lands, and the hours it lists are hours the write takes, for any salon,    *)
(* any number of open pages and any length of the diary.                      *)
(*                                                                            *)
(* The argument is about URLs: whatever the funnel writes into one stays true *)
(* of it for good, since nothing in it is read against the salon.  A page     *)
(* remembers just enough of the URL it was drawn from.                        *)
(****************************************************************************)
EXTENDS Funnel, FiniteSetTheorems, TLAPS

\* A URL the funnel writes: an hour goes with its day, and a refusal with the
\* day refused, with the hour exactly where the boxes were refused.
UrlIsSound(q) ==
  /\ DOMAIN q = {"etape", "service", "staff", "date", "time", "error"}
  /\ q.etape \in 0..5
  /\ q.service \in Services \cup {None}
  /\ q.staff \in Staff \cup {None}
  /\ q.date \in Nat \cup {None}
  /\ q.time \in Instants \cup {None}
  /\ q.error \in Codes \cup {None}
  /\ q.etape >= 4 => q.date # None /\ q.service # None
  /\ q.etape = 5 => q.time # None
  /\ q.time # None => q.date = DayOf(q.time)
  /\ q.error # None => q.date # None /\ (q.time = None <=> ~KeepsTheHour(q.error))

\* A form names an hour of its own day, and says what the recap beside it says.
FormIsSound(f, r) ==
  /\ f.service \in Services /\ f.staff \in Staff \cup {None} /\ f.at \in Instants
  /\ f.date = DayOf(f.at)
  /\ r.service = f.service /\ r.at = f.at
  /\ r.day = DayOf(f.at) /\ r.person = f.staff

\* A page drawn from q, now or earlier.
PageIsSound(p, q) ==
  /\ p.step \in 0..5
  /\ \A r \in p.links : UrlIsSound(r)
  /\ p.form # None => FormIsSound(p.form, p.recap)
  /\ p.step # 0 => p.recap.at = q.time
  /\ q.error # None /\ p.step # 0 => "refused" \in p.says \/ q.date < Today

\* A submission carries the form as it was shown; a refusal has its URL.
SentIsSound(m) ==
  /\ DOMAIN m = {"form", "boxes", "shown", "answer", "next"}
  /\ FormIsSound(m.form, m.shown)
  /\ m.answer \in {"none", "booked", "refused"}
  /\ m.answer = "refused" => UrlIsSound(m.next)

ShopIsWhole ==
  /\ DOMAIN shop = {"published", "services", "modes", "team", "performs", "hours"}
  /\ shop.published \in BOOLEAN
  /\ shop.services \subseteq Services /\ shop.team \subseteq Staff
  /\ shop.performs \subseteq Staff \X Services /\ shop.hours \subseteq Staff \X Instants
  /\ DOMAIN shop.modes = Services
  /\ \A v \in Services : shop.modes[v] \subseteq Modes /\ shop.modes[v] # {}

DiaryIsWhole ==
  /\ taken \subseteq Staff \X Instants
  /\ \A b \in made : <<b.staff, b.at>> \in taken

ClockIsSound ==
  now \in Instants /\ presses \in 0..MaxPresses /\ acts \in 0..MaxActs

TabsAreSound ==
  /\ DOMAIN tab = Tabs
  /\ \A t \in Tabs : UrlIsSound(tab[t].url) /\ PageIsSound(tab[t].page, tab[t].url)

SendingIsSound ==
  /\ DOMAIN sent = Tabs
  /\ \A t \in Tabs : sent[t] # None => SentIsSound(sent[t])

IInv ==
  /\ ShopIsWhole /\ DiaryIsWhole /\ ClockIsSound
  /\ BookedAsShown
  /\ TabsAreSound /\ SendingIsSound

----------------------------------------------------------------------------
(* Days.                                                                     *)

\* The day of an instant is a natural, and days do not run backwards.
LEMMA DaysOfInstants ==
  /\ \A i \in Nat : DayOf(i) \in Nat
  /\ \A i, j \in Nat : i <= j => DayOf(i) <= DayOf(j)
  BY SizesAreNatural DEF DayOf

\* The instants of the diary are naturals.
LEMMA InstantsAreNatural == Instants \subseteq Nat
  BY SizesAreNatural DEF Instants

----------------------------------------------------------------------------
(* What the funnel writes is sound.                                          *)

\* What a listed hour is.
LEMMA ListedAreInstants ==
  ASSUME NEW q PROVE Listed(q) \subseteq Instants
<1>1. \A v, s : Slots(v, s) \subseteq Instants
  BY DEF Slots, Free, Opens
<1> QED
  BY <1>1 DEF Listed, First, InStrip

\* A link without hour or refusal is sound when its parts are.
LEMMA PlainLinksAreSound ==
  ASSUME NEW v \in Services \cup {None}, NEW s \in Staff \cup {None},
         NEW d \in Nat \cup {None}
  PROVE  /\ UrlIsSound(Href(1, v, s, d, None))
         /\ UrlIsSound(Href(2, v, s, d, None))
         /\ UrlIsSound(Href(3, v, s, d, None))
         /\ d # None /\ v # None => UrlIsSound(Href(4, v, s, d, None))
  BY DEF UrlIsSound, Href

\* A URL that names a service at most.
LEMMA BareLinksAreSound ==
  ASSUME NEW v \in Services \cup {None}
  PROVE  /\ UrlIsSound(Href(0, v, None, None, None))
         /\ UrlIsSound(Href(2, v, None, None, None))
         /\ UrlIsSound(Href(3, v, None, None, None))
  BY DEF UrlIsSound, Href

\* A link to an hour is sound when its day is the hour's.
LEMMA HourLinksAreSound ==
  ASSUME NEW e \in 0..5, NEW v \in Services, NEW s \in Staff \cup {None},
         NEW i \in Instants
  PROVE  UrlIsSound(Href(e, v, s, DayOf(i), i))
  BY NoneIsNothing, DaysOfInstants, InstantsAreNatural DEF UrlIsSound, Href

\* What the reading of a URL yields.
LEMMA ReadingsOfUrls ==
  ASSUME IInv, NEW q, UrlIsSound(q)
  PROVE  /\ Service(q) \in Services \cup {None}
         /\ Person(q) \in Staff \cup {None}
         /\ Day(q) \in Nat \cup {None}
         /\ Day(q) # None => Day(q) = q.date
         /\ Today \in Nat
         /\ From(q) \in Nat
<1>1. Today \in Nat
  BY DaysOfInstants, InstantsAreNatural DEF Today, IInv, ClockIsSound
<1> QED
  BY <1>1, NoneIsNothing DEF UrlIsSound, Service, Person, Day, From

\* The steps a URL names, and what the two that show an hour need.
LEMMA StepsOfUrls ==
  ASSUME NEW q
  PROVE  /\ Step(q) \in 1..5
         /\ Step(q) # 1 => Service(q) # None
         /\ Step(q) = 4 => Day(q) # None
         /\ Step(q) = 5 => Day(q) # None /\ q.time # None
  BY DEF Step, StepAsAsked, KeepsTheHour

\* Every link of every step.
LEMMA LinksAreSound ==
  ASSUME IInv, NEW q, UrlIsSound(q)
  PROVE  \A r \in Links(q) : UrlIsSound(r)
<1> USE NoneIsNothing
<1>1. ASSUME NEW r \in ServiceLinks PROVE UrlIsSound(r)
  <2>1. PICK v \in shop.services :
          r = Href(2, v, None, None, None) \/ r = Href(3, v, None, None, None)
    BY <1>1 DEF ServiceLinks
  <2>2. v \in Services
    BY DEF IInv, ShopIsWhole
  <2> QED
    BY <2>1, <2>2, BareLinksAreSound
<1>2. ASSUME NEW r \in StaffLinks(q) PROVE UrlIsSound(r)
  <2>1. \/ \E s \in shop.team \cup {None} : r = Href(3, q.service, s, None, None)
        \/ r = Href(1, None, None, None, None)
    BY <1>2 DEF StaffLinks
  <2>2. shop.team \cup {None} \subseteq Staff \cup {None} /\ q.service \in Services \cup {None}
    BY DEF IInv, ShopIsWhole, UrlIsSound
  <2> QED
    BY <2>1, <2>2, PlainLinksAreSound
<1>3. ASSUME Service(q) # None, NEW r \in DateLinks(q) PROVE UrlIsSound(r)
  <2> DEFINE v == Service(q)
             s == Person(q)
             later(a, b) == IF a > b THEN a ELSE b
  <2>1. v \in Services /\ s \in Staff \cup {None} /\ From(q) \in Nat /\ Today \in Nat
    BY <1>3, ReadingsOfUrls
  <2>2. /\ From(q) + Window \in Nat
        /\ later(Today, From(q) - Window) \in Nat
    BY <2>1, SizesAreNatural
  <2>3. \A i \in Listed(q) : DayOf(i) \in Nat
    BY ListedAreInstants, InstantsAreNatural, DaysOfInstants
  <2> DEFINE ahead == From(q) + Window
             back == later(Today, From(q) - Window)
  <2>4. \/ \E i \in Listed(q) : r = Href(4, v, s, DayOf(i), None)
        \/ r = Href(3, v, s, ahead, None)
        \/ r = Href(3, v, s, back, None)
        \/ r = Href(2, v, s, None, None)
        \/ r = Href(1, v, s, None, None)
    BY <1>3 DEF DateLinks
  <2>5. ahead \in Nat /\ back \in Nat
    BY <2>2
  <2> HIDE DEF v, s, later, ahead, back
  <2>6. CASE \E i \in Listed(q) : r = Href(4, v, s, DayOf(i), None)
    <3>1. PICK i \in Listed(q) : r = Href(4, v, s, DayOf(i), None)
      BY <2>6
    <3>2. DayOf(i) \in Nat /\ DayOf(i) # None /\ v # None
      BY <2>1, <2>3
    <3> QED
      BY <2>1, <3>1, <3>2, PlainLinksAreSound
  <2>7. CASE r = Href(3, v, s, ahead, None) \/ r = Href(3, v, s, back, None)
    BY <2>1, <2>5, <2>7, PlainLinksAreSound
  <2>8. CASE r = Href(2, v, s, None, None) \/ r = Href(1, v, s, None, None)
    BY <2>1, <2>8, PlainLinksAreSound
  <2> QED
    BY <2>4, <2>6, <2>7, <2>8
<1>4. ASSUME Service(q) # None, NEW r \in TimeLinks(q) PROVE UrlIsSound(r)
  <2>1. Service(q) \in Services /\ Person(q) \in Staff \cup {None} /\ Day(q) \in Nat \cup {None}
    BY <1>4, ReadingsOfUrls
  <2>2. \/ \E i \in Listed(q) : DayOf(i) = Day(q) /\ r = Href(5, Service(q), Person(q), DayOf(i), i)
        \/ r = Href(3, Service(q), Person(q), Day(q), None)
    BY <1>4 DEF TimeLinks
  <2>3. CASE r = Href(3, Service(q), Person(q), Day(q), None)
    BY <2>1, <2>3, PlainLinksAreSound
  <2>4. CASE \E i \in Listed(q) : r = Href(5, Service(q), Person(q), DayOf(i), i)
    BY <2>1, <2>4, ListedAreInstants, HourLinksAreSound
  <2> QED
    BY <2>2, <2>3, <2>4
<1>5. ASSUME Step(q) = 5, NEW r \in DetailsLinks(q) PROVE UrlIsSound(r)
  <2>1. /\ Service(q) \in Services /\ Person(q) \in Staff \cup {None}
        /\ q.time \in Instants /\ Day(q) = DayOf(q.time)
    BY <1>5, ReadingsOfUrls, StepsOfUrls DEF UrlIsSound
  <2>2. r = Href(4, Service(q), Person(q), DayOf(q.time), q.time)
    BY <1>5, <2>1 DEF DetailsLinks
  <2> QED
    BY <2>1, <2>2, HourLinksAreSound
<1> QED
  <2> SUFFICES ASSUME NEW r \in Links(q) PROVE UrlIsSound(r)
    OBVIOUS
  <2>1. CASE Step(q) = 1
    BY <2>1, <1>1 DEF Links
  <2>2. CASE Step(q) = 2
    BY <2>2, <1>2 DEF Links
  <2>3. CASE Step(q) = 3
    BY <2>3, <1>3, StepsOfUrls DEF Links
  <2>4. CASE Step(q) = 4
    BY <2>4, <1>4, StepsOfUrls DEF Links
  <2>5. CASE Step(q) = 5
    BY <2>5, <1>5 DEF Links
  <2> QED
    BY <2>1, <2>2, <2>3, <2>4, <2>5, StepsOfUrls

\* A page is sound when it is drawn.
LEMMA PagesAreSound ==
  ASSUME IInv, NEW q, UrlIsSound(q), NEW h \in BOOLEAN
  PROVE  PageIsSound(Render(q, h), q)
<1> DEFINE p == Render(q, h)
<1>1. CASE ~shop.published
  <2>1. p = Plain("gone")
    BY <1>1 DEF Render
  <2> QED
    BY <2>1 DEF PageIsSound, Plain
<1>2. CASE shop.published
  <2>1. /\ p.step = Step(q) /\ p.recap = Recap(q) /\ p.says = Says(q) /\ p.links = Links(q)
        /\ p.form = IF Step(q) = 5 THEN Form(q) ELSE None
    BY <1>2 DEF Render
  <2> HIDE DEF p
  <2>2. p.step \in 0..5 /\ p.recap.at = q.time
    BY <2>1, StepsOfUrls DEF Recap
  <2>3. \A r \in p.links : UrlIsSound(r)
    BY <2>1, LinksAreSound
  <2>4. ASSUME p.form # None PROVE FormIsSound(p.form, p.recap)
    <3>1. /\ Service(q) \in Services /\ Person(q) \in Staff \cup {None}
          /\ q.time \in Instants /\ Day(q) = DayOf(q.time)
      BY <2>1, <2>4, ReadingsOfUrls, StepsOfUrls DEF UrlIsSound
    <3>2. p.form = Form(q) /\ p.recap = Recap(q)
      BY <2>1, <2>4
    <3> QED
      BY <3>1, <3>2 DEF FormIsSound, Form, Recap
  <2>5. ASSUME q.error # None PROVE "refused" \in p.says \/ q.date < Today
    <3>1. q.date \in Nat /\ Today \in Nat
      BY <2>5, ReadingsOfUrls DEF UrlIsSound
    <3>2. CASE Service(q) = None
      BY <2>1, <2>5, <3>2 DEF Step, Says
    <3>3. CASE Service(q) # None /\ Day(q) # None
      <4>1. Step(q) \in {4, 5}
        BY <2>5, <3>3 DEF Step
      <4> QED
        BY <2>1, <2>5, <4>1 DEF Says
    <3>4. CASE Day(q) = None
      BY <3>1, <3>4, <2>5, NoneIsNothing DEF Day
    <3> QED
      BY <3>2, <3>3, <3>4
  <2> QED
    BY <2>2, <2>3, <2>4, <2>5 DEF PageIsSound, p
<1> QED
  BY <1>1, <1>2 DEF IInv, ShopIsWhole

\* What a refusal brings back, whichever it is.
LEMMA RefusalsAreSound ==
  ASSUME NEW f, NEW r, FormIsSound(f, r), NEW code \in Codes
  PROVE  UrlIsSound(RefusalUrl(f, code))
<1>1. f.date \in Nat /\ f.at \in Nat
  BY DaysOfInstants, InstantsAreNatural DEF FormIsSound
<1>2. f.date # None /\ f.at # None
  BY <1>1, NoneIsNothing
<1> QED
  BY <1>1, <1>2 DEF RefusalUrl, Href, UrlIsSound, FormIsSound, KeepsTheHour

\* The backend answers with a code, or takes the booking.
LEMMA AnswersAreCodes ==
  ASSUME NEW f, NEW boxes PROVE Answer(f, boxes) \in Codes \cup {"OK"}
  BY DEF Answer, Codes

----------------------------------------------------------------------------
(* The steps.                                                                *)

\* Pages stay sound as long as today does not go back.
LEMMA PagesStaySound ==
  ASSUME IInv, now' \in Instants, now <= now', tab' = tab
  PROVE  TabsAreSound'
<1>1. Today \in Nat /\ Today' \in Nat /\ Today <= Today'
  BY DaysOfInstants, InstantsAreNatural DEF IInv, ClockIsSound, Today
<1>2. ASSUME NEW t \in Tabs PROVE PageIsSound(tab[t].page, tab[t].url)'
  <2> DEFINE p == tab[t].page
             q == tab[t].url
  <2>1. UrlIsSound(q) /\ PageIsSound(p, q)
    BY DEF IInv, TabsAreSound
  <2>2. q.error # None => q.date \in Nat
    BY <2>1, NoneIsNothing DEF UrlIsSound
  <2> HIDE DEF p, q
  <2>3. q.error # None /\ p.step # 0 => "refused" \in p.says \/ q.date < Today'
    BY <1>1, <2>1, <2>2 DEF PageIsSound
  <2> QED
    BY <2>1, <2>3 DEF PageIsSound, p, q
<1> QED
  BY <1>2 DEF IInv, TabsAreSound

\* One tab goes to a sound page.
LEMMA OneTabMoves ==
  ASSUME IInv, NEW t \in Tabs, NEW q, UrlIsSound(q), NEW p, PageIsSound(p, q),
         tab' = [tab EXCEPT ![t] = [url |-> q, page |-> p]], UNCHANGED now
  PROVE  TabsAreSound'
<1>1. \A u \in Tabs \ {t} : tab'[u] = tab[u]
  BY DEF IInv, TabsAreSound
<1>2. tab'[t].url = q /\ tab'[t].page = p
  BY DEF IInv, TabsAreSound
<1>3. UNCHANGED Today
  BY DEF Today
<1>4. \A r, o : PageIsSound(r, o) => PageIsSound(r, o)'
  BY <1>3 DEF PageIsSound
<1>5. \A u \in Tabs : UrlIsSound(tab'[u].url) /\ PageIsSound(tab'[u].page, tab'[u].url)
  BY <1>1, <1>2 DEF IInv, TabsAreSound
<1>6. DOMAIN tab' = Tabs
  BY DEF IInv, TabsAreSound
<1> QED
  BY <1>3, <1>5, <1>6 DEF TabsAreSound, PageIsSound

\* One tab's submission changes for a sound one, or for none.
LEMMA OneSendingMoves ==
  ASSUME IInv, NEW t \in Tabs, NEW m, m # None => SentIsSound(m),
         sent' = [sent EXCEPT ![t] = m]
  PROVE  SendingIsSound'
  BY DEF IInv, SendingIsSound

\* A link followed or an address opened draws a page from what is there.
LEMMA VisitKeepsIInv ==
  ASSUME IInv, NEW t \in Tabs, Visit(t) PROVE IInv'
<1>1. PICK q \in Entrances \cup {tab[t].url} \cup tab[t].page.links : Show(t, q)
  BY DEF Visit
<1>2. UrlIsSound(q)
  <2>1. CASE q \in Entrances
    BY <2>1, BareLinksAreSound DEF Entrances, IInv, ShopIsWhole
  <2>2. CASE q = tab[t].url
    BY <2>2 DEF IInv, TabsAreSound
  <2>3. CASE q \in tab[t].page.links
    BY <2>3 DEF IInv, TabsAreSound, PageIsSound
  <2> QED
    BY <1>1, <2>1, <2>2, <2>3
<1>3. TabsAreSound'
  BY <1>1, <1>2, PagesAreSound, OneTabMoves DEF Visit, Show
<1> QED
  BY <1>3 DEF Visit, IInv, ShopIsWhole, DiaryIsWhole, ClockIsSound, BookedAsShown, SendingIsSound

\* Confirming sends the page as it is drawn.
LEMMA SubmitKeepsIInv ==
  ASSUME IInv, NEW t \in Tabs, Submit(t) PROVE IInv'
<1>1. PICK boxes \in Boxes :
        sent' = [sent EXCEPT ![t] = [form |-> tab[t].page.form, boxes |-> boxes,
                                     shown |-> tab[t].page.recap, answer |-> "none",
                                     next |-> None]]
  BY DEF Submit
<1>2. FormIsSound(tab[t].page.form, tab[t].page.recap)
  BY DEF Submit, IInv, TabsAreSound, PageIsSound
<1>3. SendingIsSound'
  BY <1>1, <1>2, OneSendingMoves DEF SentIsSound
<1>4. TabsAreSound'
  BY PagesStaySound, InstantsAreNatural DEF Submit, IInv, ClockIsSound
<1>5. ClockIsSound'
  BY BoundsAreNatural DEF Submit, IInv, ClockIsSound
<1> QED
  BY <1>3, <1>4, <1>5 DEF Submit, IInv, ShopIsWhole, DiaryIsWhole, BookedAsShown

\* Everybody the booking may be written for is somebody, and who was named.
LEMMA CandidatesAreAsked ==
  ASSUME IInv, NEW f, NEW r, FormIsSound(f, r), NEW s \in Candidates(f)
  PROVE  /\ s \in Staff
         /\ f.staff # None => s = f.staff
  BY DEF Candidates, Performing, FormIsSound, IInv, ShopIsWhole

\* The booking is answered: made, or refused with a reason.
LEMMA BookKeepsIInv ==
  ASSUME IInv, NEW t \in Tabs, Book(t) PROVE IInv'
<1> DEFINE f == sent[t].form
           r == sent[t].shown
<1>1. SentIsSound(sent[t]) /\ FormIsSound(f, r)
  BY DEF Book, IInv, SendingIsSound, SentIsSound
<1>2. TabsAreSound' /\ ClockIsSound' /\ ShopIsWhole'
  BY PagesStaySound, InstantsAreNatural DEF Book, IInv, ClockIsSound, ShopIsWhole
<1>3. CASE Answer(f, sent[t].boxes) = "OK" /\ sent' = [sent EXCEPT ![t].answer = "booked"]
           /\ \E s \in Candidates(f) :
                /\ taken' = taken \cup {<<s, f.at>>}
                /\ made' = made \cup {[staff |-> s, at |-> f.at, service |-> f.service,
                                       shown |-> sent[t].shown]}
  <2>1. PICK s \in Candidates(f) :
                /\ taken' = taken \cup {<<s, f.at>>}
                /\ made' = made \cup {[staff |-> s, at |-> f.at, service |-> f.service,
                                       shown |-> r]}
    BY <1>3
  <2>2. s \in Staff /\ (f.staff # None => s = f.staff) /\ f.at \in Instants
    BY <1>1, CandidatesAreAsked DEF FormIsSound
  <2>3. DiaryIsWhole'
    BY <2>1, <2>2 DEF IInv, DiaryIsWhole
  <2>4. BookedAsShown'
    BY <1>1, <2>1, <2>2 DEF IInv, BookedAsShown, FormIsSound
  <2>5. SendingIsSound'
    BY <1>1, <1>3 DEF IInv, SendingIsSound, SentIsSound
  <2> QED
    BY <1>2, <2>3, <2>4, <2>5 DEF IInv
<1>4. CASE /\ \E code \in {"RATE_LIMITED", "FORBIDDEN", Answer(f, sent[t].boxes)} \ {"OK"} :
                sent' = [sent EXCEPT ![t].answer = "refused", ![t].next = RefusalUrl(f, code)]
           /\ UNCHANGED <<taken, made>>
  <2>1. PICK code \in Codes :
          sent' = [sent EXCEPT ![t].answer = "refused", ![t].next = RefusalUrl(f, code)]
    BY <1>4, AnswersAreCodes DEF Codes
  <2>2. UrlIsSound(RefusalUrl(f, code))
    BY <1>1, RefusalsAreSound
  <2>3. SendingIsSound'
    BY <1>1, <2>1, <2>2 DEF IInv, SendingIsSound, SentIsSound
  <2> QED
    BY <1>2, <1>4, <2>3 DEF IInv, DiaryIsWhole, BookedAsShown
<1> QED
  BY <1>3, <1>4 DEF Book

\* The answer brings the tab to another address.
LEMMA LandKeepsIInv ==
  ASSUME IInv, NEW t \in Tabs, Land(t) PROVE IInv'
<1>1. SentIsSound(sent[t])
  BY DEF Land, IInv, SendingIsSound
<1>2. TabsAreSound'
  <2>1. CASE sent[t].answer = "booked"
    <3> DEFINE q == Href(0, None, None, None, None)
    <3>1. UrlIsSound(q)
      BY BareLinksAreSound
    <3>2. PageIsSound(Plain("booking"), q)
      BY DEF PageIsSound, Plain, Href
    <3>3. tab' = [tab EXCEPT ![t] = [url |-> q, page |-> Plain("booking")]] /\ UNCHANGED now
      BY <2>1 DEF Land
    <3> HIDE DEF q
    <3> QED
      BY <3>1, <3>2, <3>3, OneTabMoves
  <2>2. CASE sent[t].answer # "booked"
    <3> DEFINE q == sent[t].next
    <3>1. UrlIsSound(q)
      BY <1>1, <2>2 DEF Land, SentIsSound
    <3>2. PICK h \in BOOLEAN : tab' = [tab EXCEPT ![t] = [url |-> q, page |-> Render(q, h)]]
      BY <2>2 DEF Land, Show
    <3>3. PageIsSound(Render(q, h), q)
      BY <3>1, PagesAreSound
    <3>4. UNCHANGED now
      BY DEF Land
    <3> HIDE DEF q
    <3> QED
      BY <3>1, <3>2, <3>3, <3>4, OneTabMoves
  <2> QED
    BY <2>1, <2>2
<1>4. SendingIsSound'
  BY OneSendingMoves DEF Land
<1> QED
  BY <1>2, <1>4 DEF Land, IInv, ShopIsWhole, DiaryIsWhole, ClockIsSound, BookedAsShown

\* An answer that never comes.
LEMMA LoseKeepsIInv ==
  ASSUME IInv, NEW t \in Tabs, Lose(t) PROVE IInv'
<1>1. SendingIsSound'
  BY OneSendingMoves DEF Lose
<1>2. TabsAreSound' /\ ClockIsSound'
  BY PagesStaySound, InstantsAreNatural DEF Lose, IInv, ClockIsSound
<1> QED
  BY <1>1, <1>2 DEF Lose, IInv, ShopIsWhole, DiaryIsWhole, BookedAsShown

\* A colleague's customers come and go around the bookings made here.
LEMMA OthersKeepIInv ==
  ASSUME IInv, OthersBook PROVE IInv'
<1>1. TabsAreSound' /\ ClockIsSound' /\ SendingIsSound' /\ ShopIsWhole' /\ BookedAsShown'
  BY PagesStaySound, InstantsAreNatural, BoundsAreNatural
  DEF OthersBook, Acting, IInv, ClockIsSound, SendingIsSound, ShopIsWhole, BookedAsShown
<1>2. DiaryIsWhole'
  <2>1. CASE \E s \in shop.team : \E i \in Free(s) : taken' = taken \cup {<<s, i>>}
    BY <2>1 DEF OthersBook, IInv, DiaryIsWhole, ShopIsWhole, Free, Opens
  <2>2. CASE \E x \in taken \ {<<b.staff, b.at>> : b \in made} : taken' = taken \ {x}
    BY <2>2 DEF OthersBook, IInv, DiaryIsWhole
  <2> QED
    BY <2>1, <2>2 DEF OthersBook
<1> QED
  BY <1>1, <1>2 DEF IInv

\* What the salon and other customers change behind the page.
LEMMA ShopChangesKeepIInv ==
  ASSUME IInv, ShopChanges PROVE IInv'
<1>1. TabsAreSound' /\ ClockIsSound' /\ SendingIsSound' /\ DiaryIsWhole' /\ BookedAsShown'
  BY PagesStaySound, InstantsAreNatural, BoundsAreNatural
  DEF ShopChanges, Acting, IInv, ClockIsSound, SendingIsSound, DiaryIsWhole, BookedAsShown
<1>2. ShopIsWhole'
  <2> USE DEF IInv, ShopIsWhole, Toggle
  <2>1. CASE shop' = [shop EXCEPT !.published = ~@]
    BY <2>1
  <2>2. CASE \E v \in Services : shop' = [shop EXCEPT !.services = Toggle(@, v)]
    BY <2>2
  <2>3. CASE \E s \in Staff : shop' = [shop EXCEPT !.team = Toggle(@, s)]
    BY <2>3
  <2>4. CASE \E v \in Services, m \in {{"ON_SITE"}, {"AT_CUSTOMER"}, {"ON_SITE", "AT_CUSTOMER"}} :
               shop' = [shop EXCEPT !.modes[v] = m]
    BY <2>4 DEF Modes
  <2>5. CASE \E s \in Staff, v \in Services : shop' = [shop EXCEPT !.performs = Toggle(@, <<s, v>>)]
    BY <2>5
  <2>6. CASE \E s \in Staff, d \in 0 .. Days - 1 :
               shop' = [shop EXCEPT !.hours = {x \in @ : x[1] # s \/ DayOf(x[2]) # d}]
    BY <2>6
  <2> QED
    BY <2>1, <2>2, <2>3, <2>4, <2>5, <2>6 DEF ShopChanges
<1> QED
  BY <1>1, <1>2 DEF IInv

\* The clock.
LEMMA TickKeepsIInv ==
  ASSUME IInv, Tick PROVE IInv'
<1>1. now' \in Instants /\ now <= now'
  BY InstantsAreNatural DEF Tick, IInv, ClockIsSound
<1>2. TabsAreSound'
  BY <1>1, PagesStaySound DEF Tick
<1> QED
  BY <1>1, <1>2
  DEF Tick, IInv, ClockIsSound, SendingIsSound, DiaryIsWhole, BookedAsShown, ShopIsWhole

----------------------------------------------------------------------------
(* The invariant.                                                            *)

\* The first pages.
LEMMA InitIsSound ==
  ASSUME Init PROVE IInv
<1> DEFINE q == Href(0, None, None, None, None)
<1>1. UrlIsSound(q)
  BY BareLinksAreSound
<1>2. PageIsSound(Plain("directory"), q)
  BY DEF PageIsSound, Plain, Href
<1> HIDE DEF q
<1>3. TabsAreSound
  BY <1>1, <1>2 DEF Init, TabsAreSound, q
<1>4. SendingIsSound
  BY DEF Init, SendingIsSound
<1>5. ClockIsSound
  BY SizesAreNatural, BoundsAreNatural DEF Init, ClockIsSound, Instants
<1>6. ShopIsWhole
  BY DEF Init, ShopIsWhole, Modes
<1>7. DiaryIsWhole /\ BookedAsShown
  BY DEF Init, DiaryIsWhole, BookedAsShown
<1> QED
  BY <1>3, <1>4, <1>5, <1>6, <1>7 DEF IInv

\* Every step, one case each.
LEMMA NextKeepsIInv ==
  ASSUME IInv, [Next]_vars PROVE IInv'
<1>1. CASE UNCHANGED vars
  BY <1>1 DEF vars, IInv, ShopIsWhole, DiaryIsWhole, ClockIsSound, BookedAsShown, TabsAreSound,
              SendingIsSound, PageIsSound, Today
<1> QED
  BY <1>1, VisitKeepsIInv, SubmitKeepsIInv, BookKeepsIInv, LandKeepsIInv, LoseKeepsIInv,
     OthersKeepIInv, ShopChangesKeepIInv, TickKeepsIInv
  DEF Next

\* The URLs, the pages, the submissions and the diary stay sound, whoever acts.
THEOREM Invariance == Spec => []IInv
<1>1. Init => IInv
  BY InitIsSound
<1>2. IInv /\ [Next]_vars => IInv'
  BY NextKeepsIInv
<1> QED
  BY <1>1, <1>2, PTL DEF Spec


----------------------------------------------------------------------------
(* What the invariant says of the funnel.                                    *)

\* Every URL carries what its etape needs, and every page is one the product
\* draws.
THEOREM TypeCorrect == Spec => []TypeOK
<1>1. IInv => TypeOK
  BY NoneIsNothing
  DEF IInv, ShopIsWhole, DiaryIsWhole, ClockIsSound, TabsAreSound, UrlIsSound, PageIsSound, TypeOK
<1> QED
  BY <1>1, Invariance, PTL

\* The customer gets the service, the hour and the person the recap showed when
\* they confirmed, whatever the salon changed and whoever was quicker meanwhile.
THEOREM WhatIsBookedWasShown == Spec => []BookedAsShown
<1>1. IInv => BookedAsShown
  BY DEF IInv
<1> QED
  BY <1>1, Invariance, PTL

\* A refusal is said on the screen it lands on, unless its day is over.
THEOREM RefusalsAreSaid == Spec => []RefusalIsSaid
<1>1. IInv => RefusalIsSaid
  BY DEF IInv, TabsAreSound, PageIsSound, RefusalIsSaid
<1> QED
  BY <1>1, Invariance, PTL

\* A refused hour is out of the recap, and the hour of a refused box is in it.
THEOREM DeadHoursAreForgotten == Spec => []DeadHourIsForgotten
<1>1. IInv => DeadHourIsForgotten
  BY DEF IInv, TabsAreSound, PageIsSound, UrlIsSound, KeepsTheHour, DeadHourIsForgotten
<1> QED
  BY <1>1, Invariance, PTL

----------------------------------------------------------------------------
(* What an up-to-date page says of the diary.                                *)

\* A page that is up to date is the one its URL draws now.
LEMMA FreshPagesAreDrawn ==
  ASSUME NEW t, Fresh(t), NEW q, q = tab[t].url
  PROVE  /\ tab[t].page.step = Step(q) /\ tab[t].page.recap = Recap(q)
         /\ tab[t].page.says = Says(q) /\ tab[t].page.links = Links(q)
         /\ Step(q) = 3 => \E h \in BOOLEAN :
              tab[t].page.days = [d \in Strip(q) |-> DayLabel(q, d, h)]
<1>1. PICK h \in BOOLEAN : tab[t].page = Render(q, h) /\ shop.published
  BY DEF Fresh
<1> QED
  BY <1>1 DEF Render

\* A service done one way is done the way that stands for it, so the form asks
\* for an address exactly when the write wants one.
LEMMA OneModeIsPrimary ==
  ASSUME IInv, NEW v \in Services, ~(Cardinality(shop.modes[v]) > 1)
  PROVE  /\ Cardinality(shop.modes[v]) = 1
         /\ (Primary(v) = "AT_CUSTOMER") = ("AT_CUSTOMER" \in shop.modes[v])
<1> DEFINE m == shop.modes[v]
<1>1. m \subseteq Modes /\ m # {}
  BY DEF IInv, ShopIsWhole
<1>2. IsFiniteSet(Modes)
  <2>1. IsFiniteSet({"ON_SITE"}) /\ IsFiniteSet({"DROP_OFF"}) /\ IsFiniteSet({"AT_CUSTOMER"})
    BY FS_Singleton
  <2>2. IsFiniteSet({"ON_SITE"} \cup {"DROP_OFF"})
    BY <2>1, FS_Union
  <2>3. Modes = ({"ON_SITE"} \cup {"DROP_OFF"}) \cup {"AT_CUSTOMER"}
    BY DEF Modes
  <2> QED
    BY <2>1, <2>2, <2>3, FS_Union
<1>3. IsFiniteSet(m) /\ Cardinality(m) \in Nat
  BY <1>1, <1>2, FS_Subset, FS_CardinalityType
<1> HIDE DEF m
<1>4. Cardinality(m) # 0
  BY <1>1, <1>3, FS_EmptySet
<1>5. Cardinality(m) = 1
  BY <1>3, <1>4 DEF m
<1>6. PICK x : m = {x}
  BY <1>3, <1>5, FS_Singleton
<1> QED
  BY <1>1, <1>5, <1>6 DEF Primary, Modes, m

\* An up-to-date list of hours offers only hours the booking path takes.
THEOREM ListedHoursAreBookable == Spec => []HoursListedAreBookable
<1>1. ASSUME IInv, NEW t \in Tabs, Fresh(t), tab[t].page.step = 4,
             NEW r \in tab[t].page.links, r.etape = 5,
             ~(Cardinality(shop.modes[r.service]) > 1),
             ~(r.staff # None /\ <<r.staff, r.service>> \notin shop.performs)
      PROVE  Answer(Form(r), TRUE) = "OK"
  <2> DEFINE q == tab[t].url
             v == Service(q)
             s == Person(q)
  <2>1. Step(q) = 4 /\ tab[t].page.links = Links(q)
    BY <1>1, FreshPagesAreDrawn
  <2>2. v # None /\ v \in Services /\ v \in shop.services
    BY <1>1, <2>1, StepsOfUrls DEF Service, IInv, ShopIsWhole
  <2>3. PICK i \in Listed(q) : r = Href(5, v, s, Day(q), i)
    <3>1. r \in TimeLinks(q)
      BY <1>1, <2>1 DEF Links
    <3> QED
      BY <1>1, <3>1 DEF TimeLinks, Href
  <2> HIDE DEF q
  <2>4. i \in Slots(v, s)
    BY DEF Listed, First, InStrip
  <2>5. s = None \/ s \in shop.team
    BY DEF Person
  <2> HIDE DEF v, s
  <2>6. /\ r.service = v /\ r.staff = s /\ r.time = i
        /\ Service(r) = v /\ Person(r) = s
    BY <2>2, <2>3, <2>5 DEF Href, Service, Person
  <2> DEFINE f == Form(r)
  <2>7. /\ f.service = v /\ f.staff = s /\ f.at = i
        /\ f.address = ("AT_CUSTOMER" \in shop.modes[v])
        /\ Cardinality(shop.modes[v]) = 1
    BY <1>1, <2>2, <2>6, OneModeIsPrimary DEF Form, AsksAddress
  <2>8. shop.published
    BY <1>1 DEF Fresh
  <2> HIDE DEF f
  <2>9. Within(v, s, i)
    BY <2>4 DEF Within, Slots, Free
  <2>10. s # None => <<s, v>> \in shop.performs
    BY <1>1, <2>6
  <2>11. Candidates(f) # {}
    <3>1. CASE s # None
      BY <2>4, <2>7, <3>1 DEF Candidates, Slots, Free
    <3>2. CASE s = None
      BY <2>4, <2>7, <3>2 DEF Candidates, Slots, Free
    <3> QED
      BY <3>1, <3>2
  <2>12. Answer(f, TRUE) = "OK"
    BY <2>2, <2>5, <2>7, <2>8, <2>9, <2>10, <2>11 DEF Answer
  <2> QED
    BY <2>12 DEF f
<1>2. IInv => HoursListedAreBookable
  BY <1>1 DEF HoursListedAreBookable
<1> QED
  BY <1>2, Invariance, PTL

\* A day the strip says has nothing has nothing, unless the page says its list
\* was cut.
THEOREM FreeDaysAreNotCalledFull == Spec => []NoFreeDayCalledFull
<1>1. ASSUME NEW t \in Tabs, Fresh(t), tab[t].page.step = 3, "cut" \notin tab[t].page.says,
             NEW d \in DOMAIN tab[t].page.days, tab[t].page.days[d] # "free",
             NEW i \in Slots(tab[t].page.recap.service, tab[t].page.recap.person)
      PROVE  DayOf(i) # d
  <2> DEFINE q == tab[t].url
  <2>1. PICK h \in BOOLEAN :
          /\ Step(q) = 3 /\ tab[t].page.recap = Recap(q) /\ tab[t].page.says = Says(q)
          /\ tab[t].page.days = [x \in Strip(q) |-> DayLabel(q, x, h)]
    BY <1>1, FreshPagesAreDrawn
  <2> HIDE DEF q
  <2>2. Listed(q) = InStrip(q)
    BY <1>1, <2>1 DEF Says, Truncated
  <2>3. d \in Strip(q) /\ i \in Slots(Service(q), Person(q))
    BY <1>1, <2>1 DEF Recap
  <2>4. \A j \in Listed(q) : DayOf(j) # d
    BY <1>1, <2>1, <2>3 DEF DayLabel
  <2> QED
    BY <2>2, <2>3, <2>4 DEF InStrip
<1>2. NoFreeDayCalledFull
  BY <1>1 DEF NoFreeDayCalledFull
<1> QED
  BY <1>2, PTL

=============================================================================
